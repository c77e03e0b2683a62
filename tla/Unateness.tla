------------------------------- MODULE Unateness -------------------------------
(***************************************************************************)
(* The five ways in which cirkit computes the unateness of every output of *)
(* an AIG in every input (classical/verification/unate.cpp).  Each of them *)
(* asks a SAT solver about two copies of the graph.  Two of them give one  *)
(* task per output, or per input, to a thread pool (module TaskExecutor).  *)
(***************************************************************************)
EXTENDS Integers, Sequences

CONSTANTS n, m,         \* number of inputs and of outputs
          Functions,    \* bound: the functions an output may have
          Approaches    \* bound: the ways to compute it

Inputs == 0..n - 1
Outputs == 0..m - 1
Points == [Inputs -> BOOLEAN]

ASSUME DimensionAssumption ==
    /\ n \in Nat /\ m \in Nat
    /\ \A g \in Functions : g \subseteq Points      \* where it is true

(* unateness_naive indexes by outputs two vectors that have n elements. *)
ASSUME NaiveAssumption == "naive" \in Approaches => m <= n

VARIABLES approach, function,
          cone,                 \* per output, the inputs in its cone
          assumptions,          \* approach "unateness": equality of the inputs
          can_skip, skiplist,   \* approach "unateness"
          i, j, pos,            \* the loops
          result,               \* the bits that are set
          result_mutex,         \* the tasks that are between lock and unlock
          seen,                 \* what a task read of the bitset's blocks
          pending, active, finished, phase      \* the thread pool

pool == <<pending, active, finished, phase>>
config == <<approach, function, cone, skiplist>>
vars == <<config, assumptions, can_skip, i, j, pos, result, result_mutex, seen, pool>>

Parallel == approach \in {"split_parallel", "split_inputs_parallel"}
Tasks == IF approach = "split_parallel" THEN Outputs ELSE Inputs

Pool == INSTANCE TaskExecutor WITH Tasks <- Inputs \cup Outputs

-------------------------------------------------------------------------------
(* Literals of the miter and what they say of its two copies at x and y.    *)
Lit(of, k, sign) == [of |-> of, index |-> k, sign |-> sign]

Holds(l, x, y) ==
    l.sign = CASE l.of = "eq" -> x[l.index] = y[l.index]
               [] l.of = "pi" -> x[l.index]
               [] l.of = "copy" -> y[l.index]
               [] l.of = "dep" -> (x \in function[l.index]) # (y \in function[l.index])
               [] l.of = "unate" -> x \in function[l.index] => y \in function[l.index]
               [] l.of = "unate_neg" -> y \in function[l.index] => x \in function[l.index]

(* solve returns none, or any one of the models. *)
Models(literals) ==
    {p \in Points \X Points : \A l \in literals : Holds(l, p[1], p[2])}

Unsat(literals) == Models(literals) = {}

Differ(k, up) == {Lit("pi", k, up), Lit("copy", k, ~up)}

Equal(inputs) == {Lit("eq", k, TRUE) : k \in inputs}

(* The two bits for an output and an input, as offsets. *)
Polarity(neg, pos_) ==
    IF Unsat(neg) THEN {0} ELSE IF Unsat(pos_) THEN {1} ELSE {}

Kind(dep, neg, pos_) == IF Unsat(dep) THEN {0, 1} ELSE Polarity(neg, pos_)

At(p, bits) == {p + b : b \in bits}

-------------------------------------------------------------------------------
(* unateness_naive *)
NaiveKind(o, k) ==
    LET base == Equal(Inputs \ {k}) IN
    Kind(base \cup Differ(k, TRUE) \cup {Lit("dep", o, TRUE)},
         base \cup Differ(k, TRUE) \cup {Lit("unate", o, FALSE)},
         base \cup Differ(k, FALSE) \cup {Lit("unate", o, FALSE)})

(* unateness_single_output: inputs outside the cone are independent. *)
ConeKind(o, k) ==
    LET base == Equal(cone[o] \ {k}) \cup {Lit("eq", k, FALSE)} IN
    Kind(base \cup {Lit("dep", o, TRUE)},
         base \cup Differ(k, TRUE) \cup {Lit("unate", o, FALSE)},
         base \cup Differ(k, FALSE) \cup {Lit("unate", o, FALSE)})

OutputRow(o) ==
    UNION {At(2 * k, IF k \in cone[o] THEN ConeKind(o, k) ELSE {0, 1}) : k \in Inputs}

(* unateness_single_input: the copies are the cofactors of the input. *)
CofactorKind(o, k) ==
    LET base == Equal(Inputs \ {k}) \cup Differ(k, FALSE) IN
    Kind(base \cup {Lit("dep", o, TRUE)},
         base \cup {Lit("unate_neg", o, FALSE)},
         base \cup {Lit("unate", o, FALSE)})

InputColumn(k) == UNION {At(2 * k + o * 2 * n, CofactorKind(o, k)) : o \in Outputs}

-------------------------------------------------------------------------------
Init ==
    /\ approach \in Approaches
    /\ skiplist \in (IF approach = "unateness" THEN BOOLEAN ELSE {FALSE})
    /\ function \in [Outputs -> Functions]
    (* An input that is not in the cone of an output cannot matter to it. *)
    /\ cone \in [Outputs -> SUBSET Inputs]
    /\ \A o \in Outputs : \A x, y \in Points :
            (\A k \in cone[o] : x[k] = y[k]) => (x \in function[o]) = (y \in function[o])
    /\ assumptions = [k \in 1..n |-> Lit("eq", k - 1, TRUE)]
    /\ can_skip = {}
    /\ i = 0 /\ j = 0 /\ pos = 0
    /\ result = {}
    /\ result_mutex = {}
    /\ seen = [t \in Inputs \cup Outputs |-> {}]
    /\ Pool!AInit

(* The inner loop runs over the inputs, the outer one over the outputs. *)
Advance ==
    /\ pos' = pos + 2
    /\ i' = (i + 1) % n
    /\ j' = IF i + 1 = n THEN j + 1 ELSE j

InLoops == j < m /\ n > 0

Naive ==
    /\ approach = "naive" /\ InLoops
    /\ result' = result \cup At(pos, NaiveKind(j, i))
    /\ Advance
    /\ UNCHANGED <<config, assumptions, can_skip, result_mutex, seen, pool>>

Literals(s) == {s[k] : k \in 1..Len(s)}

Negated(s, k) == [s EXCEPT ![k] = Lit(@.of, @.index, ~@.sign)]

(* Mutant: every output that follows is taken to depend on the input. *)
SkipsAll(model) == {o * n + i : o \in j + 1..m - 1}

(* The other outputs that differ in the model depend on the input, too. *)
Skips(model) ==
    {o * n + i : o \in {q \in j + 1..m - 1 :
                            Holds(Lit("dep", q, TRUE), model[1], model[2])}}

(* Mutant: the assumption is left negated for the inputs that follow. *)
ResetTail(s) == SubSeq(s, 1, n)

(* reset_assumptions *)
Reset(s) == Negated(SubSeq(s, 1, n), i + 1)

(* One pair of unateness: "++assumptions.back() *= -1" turns the literal of  *)
(* the XOR into the negation of the next one, the literal of the OR.        *)
Check ==
    /\ approach = "unateness" /\ InLoops
    /\ LET differ == Negated(assumptions, i + 1)
           dep == Append(differ, Lit("dep", j, TRUE))
           neg == differ \o <<Lit("unate", j, FALSE), Lit("pi", i, TRUE), Lit("copy", i, FALSE)>>
           pos_ == Negated(Negated(neg, n + 2), n + 3)
           skipped == skiplist /\ j * n + i \in can_skip
           unsat == ~skipped /\ Unsat(Literals(dep))
       IN
       /\ result' = result \cup At(pos, IF unsat THEN {0, 1}
                                        ELSE Polarity(Literals(neg), Literals(pos_)))
       /\ \/ /\ skiplist /\ ~skipped /\ ~unsat
             /\ \E model \in Models(Literals(dep)) : can_skip' = can_skip \cup Skips(model)
          \/ /\ ~skiplist \/ skipped \/ unsat
             /\ UNCHANGED can_skip
       /\ assumptions' = Reset(IF unsat THEN dep ELSE neg)
    /\ Advance
    /\ UNCHANGED <<config, result_mutex, seen, pool>>

Split ==
    /\ approach = "split" /\ j < m
    /\ result' = result \cup At(pos, OutputRow(j))
    /\ pos' = pos + 2 * n
    /\ j' = j + 1
    /\ UNCHANGED <<config, assumptions, can_skip, i, result_mutex, seen, pool>>

-------------------------------------------------------------------------------
(* The caller of the pool: one enqueue per task, then the end of its scope. *)
Enqueue ==
    /\ Parallel /\ j \in Tasks
    /\ Pool!Accept(j)
    /\ j' = j + 1
    /\ UNCHANGED <<config, assumptions, can_skip, i, pos, result, result_mutex, seen>>

LeaveScope ==
    /\ Parallel /\ j \notin Tasks
    /\ Pool!BeginClose \/ Pool!EndClose
    /\ UNCHANGED <<config, assumptions, can_skip, i, j, pos, result, result_mutex, seen>>

Start(t) ==
    /\ Parallel
    /\ Pool!Start(t)
    /\ UNCHANGED <<config, assumptions, can_skip, i, j, pos, result, result_mutex, seen>>

(* The bits a task has to set are in blocks that other tasks write, too.    *)
(* Mutant: without result_mutex. *)
ReadUnlocked(t) ==
    /\ t \in active \ result_mutex
    /\ result_mutex' = result_mutex \cup {t}
    /\ seen' = [seen EXCEPT ![t] = result]
    /\ UNCHANGED <<config, assumptions, can_skip, i, j, pos, result, pool>>

Read(t) ==
    /\ t \in active \ result_mutex
    /\ result_mutex = {}
    /\ result_mutex' = result_mutex \cup {t}
    /\ seen' = [seen EXCEPT ![t] = result]
    /\ UNCHANGED <<config, assumptions, can_skip, i, j, pos, result, pool>>

(* Mutant: an off-by-one in the row of an output. *)
WrittenBesides(t) ==
    IF approach = "split_parallel"
    THEN LET row == t * n * 2 + 1 IN
         (seen[t] \ (row..row + 2 * n - 1)) \cup At(row, OutputRow(t))
    ELSE seen[t] \cup InputColumn(t)

(* A row is assigned, a column is added by "result |= cresult". *)
Written(t) ==
    IF approach = "split_parallel"
    THEN LET row == t * n * 2 IN
         (seen[t] \ (row..row + 2 * n - 1)) \cup At(row, OutputRow(t))
    ELSE seen[t] \cup InputColumn(t)

Write(t) ==
    /\ t \in result_mutex
    /\ result' = Written(t)
    /\ result_mutex' = result_mutex \ {t}
    /\ seen' = [seen EXCEPT ![t] = {}]
    /\ Pool!End(t)
    /\ UNCHANGED <<config, assumptions, can_skip, i, j, pos>>

Next ==
    \/ Naive \/ Check \/ Split
    \/ Enqueue \/ LeaveScope
    \/ \E t \in Tasks : Start(t) \/ Read(t) \/ Write(t)

Spec == Init /\ [][Next]_vars

-------------------------------------------------------------------------------
TypeOK ==
    /\ approach \in Approaches /\ skiplist \in BOOLEAN
    /\ function \in [Outputs -> Functions] /\ cone \in [Outputs -> SUBSET Inputs]
    /\ Len(assumptions) = n
    /\ can_skip \subseteq 0..m * n - 1
    /\ i \in Nat /\ j \in Nat /\ pos \in 0..2 * m * n
    /\ result \subseteq 0..2 * m * n - 1
    /\ result_mutex \in {{}} \cup {{t} : t \in active}
    /\ seen \in [Inputs \cup Outputs -> SUBSET (0..2 * m * n - 1)]
    /\ pending \cup active \cup finished \subseteq Tasks

Returned == IF Parallel THEN phase = "closed" ELSE ~InLoops

Flipped(x, k) == [x EXCEPT ![k] = ~@]

DependsOn(g, k) == \E x \in Points : (x \in g) # (Flipped(x, k) \in g)

(* g may change in the direction "up" when input k is set. *)
May(g, k, up) == \E x \in Points : ~x[k] /\ (x \in g) = ~up /\ (Flipped(x, k) \in g) = up

(* unate_kind and get_unateness_kind *)
Unate(o, k) ==
    <<2 * (o * n + k) \in result, 2 * (o * n + k) + 1 \in result>>

(* Whatever way, the matrix says of every output and input whether the      *)
(* function is independent of it, unate or binate.                          *)
MatrixIsCorrect ==
    Returned =>
        \A o \in Outputs, k \in Inputs :
            Unate(o, k) = <<~May(function[o], k, TRUE), ~May(function[o], k, FALSE)>>

(* The test for dependency is skipped only where its answer is known from a  *)
(* model that was found for another output.                                 *)
SkipsAreDependent ==
    \A o \in Outputs, k \in Inputs : o * n + k \in can_skip => DependsOn(function[o], k)

(* What a task has written stays as it is while other tasks write bits of    *)
(* the same blocks.                                                         *)
Entries(t) ==
    IF approach = "split_parallel" THEN [k \in Inputs |-> Unate(t, k)]
    ELSE [o \in Outputs |-> Unate(o, t)]

EntriesAreFinal == [][\A t \in finished : Entries(t)' = Entries(t)]_vars

-------------------------------------------------------------------------------
(* The inductive invariant behind the last two. *)

Types ==
    /\ skiplist \in BOOLEAN /\ function \in [Outputs -> SUBSET Points]
    /\ i \in Nat /\ j \in Nat /\ (n > 0 => i < n)
    /\ DOMAIN seen = Inputs \cup Outputs

(* Before every pair the inputs of the two copies are assumed to be equal. *)
AllEqual == assumptions = [k \in 1..n |-> Lit("eq", k - 1, TRUE)]

(* A task in the critical section knows what the bitset holds. *)
OneWriter ==
    /\ result_mutex \subseteq active
    /\ \A s, t \in result_mutex : s = t
    /\ \A t \in result_mutex : seen[t] = result

Stages ==
    /\ pending \cup active \cup finished \subseteq Tasks
    /\ pending \cap (active \cup finished) = {} /\ active \cap finished = {}
    /\ ~Parallel => pending = {} /\ active = {} /\ finished = {}

IInv == Types /\ AllEqual /\ OneWriter /\ Stages /\ SkipsAreDependent

(* For the matrix: what is written is right, and nothing else is set.       *)

Done(o, k) ==
    IF Parallel THEN (IF approach = "split_parallel" THEN o ELSE k) \in finished
    ELSE o < j \/ (o = j /\ k < i)

FilledIn ==
    \A o \in Outputs, k \in Inputs :
        /\ 2 * (o * n + k) \in result <=> Done(o, k) /\ ~May(function[o], k, TRUE)
        /\ 2 * (o * n + k) + 1 \in result <=> Done(o, k) /\ ~May(function[o], k, FALSE)

ConesHold ==
    \A o \in Outputs : \A x, y \in Points :
        (\A k \in cone[o] : x[k] = y[k]) => (x \in function[o]) = (y \in function[o])

Positions == ~Parallel => pos = 2 * (j * n + i) /\ (approach = "split" => i = 0)

Accepted ==
    Parallel => /\ pending \cup active \cup finished = {t \in Tasks : t < j}
                /\ phase # "open" => j \notin Tasks
                /\ phase = "closed" => pending = {} /\ active = {}

MInv == IInv /\ cone \in [Outputs -> SUBSET Inputs]
        /\ ConesHold /\ Positions /\ Accepted /\ FilledIn
===============================================================================
