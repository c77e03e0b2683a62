---------------------------- MODULE UnatenessProofs ----------------------------
(***************************************************************************)
(* Proofs about the unateness check, for any number of inputs and outputs,  *)
(* any functions and any answers of the solver.                             *)
(***************************************************************************)
EXTENDS Unateness, SequenceTheorems, TLAPS

-------------------------------------------------------------------------------
(* Rows do not overlap. *)
LEMMA RowsApart ==
    ASSUME NEW a \in Nat, NEW b \in Nat, NEW d \in Nat, a < b
    PROVE  a * d + d <= b * d
<1>1. PICK c \in Nat : b = a + 1 + c
    <2> WITNESS b - a - 1 \in Nat
    <2> QED
        OBVIOUS
<1>2. b * d = a * d + d + c * d
    BY <1>1
<1>3. c * d \in Nat
    OBVIOUS
<1> QED
    BY <1>2, <1>3

(* The flat index of a pair determines the pair. *)
LEMMA IndexInjective ==
    ASSUME NEW d \in Nat, NEW a \in Nat, NEW b \in Nat,
           NEW k \in 0..d - 1, NEW l \in 0..d - 1, a * d + k = b * d + l
    PROVE  a = b /\ k = l
<1>0. a * d \in Nat /\ b * d \in Nat
    OBVIOUS
<1>1. CASE a < b
    <2>1. a * d + d <= b * d
        BY <1>1, RowsApart
    <2> QED
        BY <1>0, <2>1
<1>2. CASE b < a
    <2>1. b * d + d <= a * d
        BY <1>2, RowsApart
    <2> QED
        BY <1>0, <2>1
<1>3. CASE a = b
    BY <1>0, <1>3
<1> QED
    BY <1>1, <1>2, <1>3

-------------------------------------------------------------------------------
LEMMA InitInv == Init => IInv
<1> SUFFICES ASSUME Init PROVE IInv
    OBVIOUS
<1>1. function \in [Outputs -> SUBSET Points]
    BY DimensionAssumption DEF Init
<1>2. Types
    BY <1>1, DimensionAssumption DEF Init, Types
<1>3. AllEqual
    BY DEF Init, AllEqual
<1>4. OneWriter
    BY DEF Init, OneWriter
<1>5. Stages
    BY DEF Init, Stages, Pool!AInit
<1>6. SkipsAreDependent
    BY DEF Init, SkipsAreDependent
<1> QED
    BY <1>2, <1>3, <1>4, <1>5, <1>6 DEF IInv

(* The inner loop counter stays below its bound. *)
LEMMA AdvanceTypes ==
    ASSUME IInv, InLoops, Advance
    PROVE  i' \in Nat /\ j' \in Nat /\ (n > 0 => i' < n)
<1>1. n \in Nat /\ n > 0 /\ i \in Nat /\ j \in Nat /\ i < n
    BY DimensionAssumption DEF IInv, Types, InLoops
<1>2. i' = (i + 1) % n /\ j' \in {j, j + 1}
    BY DEF Advance
<1>3. (i + 1) % n \in 0..n - 1
    BY <1>1
<1> QED
    BY <1>1, <1>2, <1>3

LEMMA AppendAt ==
    ASSUME NEW S, NEW s \in Seq(S), NEW e
    PROVE  /\ Len(Append(s, e)) = Len(s) + 1
           /\ \A k \in 1..Len(s) : Append(s, e)[k] = s[k]
<1>1. s \in Seq(S \cup {e}) /\ e \in S \cup {e}
    OBVIOUS
<1> QED
    BY <1>1

(* The assumptions of a pair: all inputs are equal but one. *)
LEMMA Differing ==
    ASSUME IInv, InLoops
    PROVE  Negated(assumptions, i + 1) = [k \in 1..n |-> Lit("eq", k - 1, k # i + 1)]
<1>1. n \in Nat /\ n > 0 /\ i \in Nat /\ i < n
    BY DimensionAssumption DEF IInv, Types, InLoops
<1>2. assumptions = [k \in 1..n |-> Lit("eq", k - 1, TRUE)]
    BY DEF IInv, AllEqual
<1> DEFINE A == Negated(assumptions, i + 1)
           E(k) == Lit("eq", k - 1, k # i + 1)
<1>3. A = [k \in 1..n |-> E(k)]
    <2>1. A = [assumptions EXCEPT ![i + 1] = Lit(@.of, @.index, ~@.sign)]
        BY DEF Negated
    <2>2. ASSUME NEW k \in 1..n
          PROVE  A[k] = E(k)
        <3>1. CASE k = i + 1
            <4>1. A[k] = Lit(assumptions[k].of, assumptions[k].index, ~assumptions[k].sign)
                BY <2>1, <1>2, <3>1
            <4>2. /\ assumptions[k].of = "eq" /\ assumptions[k].index = k - 1
                  /\ assumptions[k].sign = TRUE
                BY <1>2 DEF Lit
            <4>3. (~assumptions[k].sign) = FALSE /\ (k # i + 1) = FALSE
                BY <4>2, <3>1
            <4> QED
                BY <4>1, <4>2, <4>3
        <3>2. CASE k # i + 1
            <4>1. A[k] = assumptions[k]
                BY <2>1, <1>2, <3>2
            <4>2. A[k] = Lit("eq", k - 1, TRUE)
                BY <4>1, <1>2
            <4>3. (k # i + 1) = TRUE
                BY <3>2
            <4> QED
                BY <4>2, <4>3
        <3> QED
            BY <3>1, <3>2
    <2>3. A = [k \in 1..n |-> A[k]]
        BY <2>1, <1>2
    <2> QED
        BY <2>2, <2>3
<1> QED
    BY <1>3

(* After it they are as before, whatever was appended. *)
LEMMA Restored ==
    ASSUME IInv, InLoops, NEW S, NEW tail \in Seq(S)
    PROVE  Reset(Negated(assumptions, i + 1) \o tail) = assumptions
<1> DEFINE A == Negated(assumptions, i + 1)
           E(k) == Lit("eq", k - 1, k # i + 1)
           T(k) == Lit("eq", k - 1, TRUE)
<1>1. n \in Nat /\ n > 0 /\ i \in Nat /\ i < n
    BY DimensionAssumption DEF IInv, Types, InLoops
<1>2. A = [k \in 1..n |-> E(k)]
    BY Differing
<1>3. SubSeq(A \o tail, 1, n) = A
    <2> HIDE DEF E, A
    <2>1. A \in Seq({E(k) : k \in 1..n} \cup S) /\ Len(A) = n
        BY <1>1, <1>2
    <2>2. tail \in Seq({E(k) : k \in 1..n} \cup S)
        OBVIOUS
    <2> QED
        BY <2>1, <2>2, <1>1
<1>4. Negated(A, i + 1) = [k \in 1..n |-> T(k)]
    <2>1. Negated(A, i + 1) = [A EXCEPT ![i + 1] = Lit(@.of, @.index, ~@.sign)]
        BY DEF Negated
    <2>2. ASSUME NEW k \in 1..n
          PROVE  Negated(A, i + 1)[k] = T(k)
        <3>1. CASE k = i + 1
            <4>1. Negated(A, i + 1)[k] = Lit(A[k].of, A[k].index, ~A[k].sign)
                BY <2>1, <1>2, <3>1
            <4>2. A[k] = Lit("eq", k - 1, FALSE)
                <5>1. (k # i + 1) = FALSE
                    BY <3>1
                <5> QED
                    BY <5>1, <1>2
            <4>3. A[k].of = "eq" /\ A[k].index = k - 1 /\ (~A[k].sign) = TRUE
                BY <4>2 DEF Lit
            <4> QED
                BY <4>1, <4>3
        <3>2. CASE k # i + 1
            <4>1. Negated(A, i + 1)[k] = A[k]
                BY <2>1, <1>2, <3>2
            <4>2. (k # i + 1) = TRUE
                BY <3>2
            <4> QED
                BY <4>1, <4>2, <1>2
        <3> QED
            BY <3>1, <3>2
    <2>3. Negated(A, i + 1) = [k \in 1..n |-> Negated(A, i + 1)[k]]
        BY <2>1, <1>2
    <2> QED
        BY <2>2, <2>3
<1> QED
    BY <1>3, <1>4 DEF Reset, IInv, AllEqual

(* The question of a pair: its input differs, the other inputs are equal,    *)
(* and the output differs.                                                  *)
LEMMA DependencyQuestion ==
    ASSUME IInv, InLoops,
           NEW model \in Models(Literals(Append(Negated(assumptions, i + 1), Lit("dep", j, TRUE))))
    PROVE  /\ model[1] \in Points /\ model[2] = Flipped(model[1], i)
           /\ i \in Inputs
<1> DEFINE dep == Append(Negated(assumptions, i + 1), Lit("dep", j, TRUE))
           x == model[1]
           y == model[2]
<1>1. n \in Nat /\ n > 0 /\ i \in Nat /\ i < n /\ i \in Inputs
    BY DimensionAssumption DEF IInv, Types, InLoops, Inputs
<1>2. assumptions = [k \in 1..n |-> Lit("eq", k - 1, TRUE)]
    BY DEF IInv, AllEqual
<1> DEFINE A == Negated(assumptions, i + 1)
           E(k) == Lit("eq", k - 1, k # i + 1)
<1>3. A = [k \in 1..n |-> E(k)]
    BY Differing
<1>4. /\ Len(dep) = n + 1
      /\ \A k \in 1..n : dep[k] = E(k)
    <2> HIDE DEF E
    <2>1. Len(A) = n /\ A \in Seq({E(k) : k \in 1..n})
        BY <1>1, <1>3
    <2>2. \A k \in 1..n : A[k] = E(k)
        BY <1>3
    <2> QED
        BY <2>1, <2>2, AppendAt
<1> HIDE DEF dep, A
<1>5. /\ x \in Points /\ y \in Points
      /\ \A l \in Literals(dep) : Holds(l, x, y)
    <2>1. model \in Models(Literals(dep))
        BY DEF dep
    <2> QED
        BY <2>1 DEF Models
<1>6. ASSUME NEW k \in Inputs
      PROVE  (k # i) = (x[k] = y[k])
    <2>1. k + 1 \in 1..n /\ k + 1 \in 1..Len(dep) /\ k \in Int
        BY <1>1, <1>4 DEF Inputs
    <2>2. dep[k + 1] = Lit("eq", k, k # i)
        <3>1. dep[k + 1] = Lit("eq", (k + 1) - 1, k + 1 # i + 1)
            BY <2>1, <1>4
        <3>2. (k + 1) - 1 = k /\ (k + 1 # i + 1) = (k # i)
            BY <2>1, <1>1
        <3> QED
            BY <3>1, <3>2
    <2>3. Holds(Lit("eq", k, k # i), x, y)
        BY <2>1, <2>2, <1>5 DEF Literals
    <2> QED
        BY <2>3 DEF Holds, Lit
<1>7. y = Flipped(x, i)
    <2>1. x \in [Inputs -> BOOLEAN] /\ y \in [Inputs -> BOOLEAN]
        BY <1>5 DEF Points
    <2>2. Flipped(x, i) \in [Inputs -> BOOLEAN]
        BY <2>1, <1>1 DEF Flipped
    <2>3. ASSUME NEW k \in Inputs
          PROVE  y[k] = Flipped(x, i)[k]
        BY <2>1, <1>1, <1>6 DEF Flipped
    <2> QED
        BY <2>1, <2>2, <2>3
<1> QED
    BY <1>1, <1>5, <1>7

LEMMA AppendExtends ==
    ASSUME NEW S, NEW s \in Seq(S), NEW e
    PROVE  Append(s, e) = s \o <<e>>
<1>1. s \in Seq(S \cup {e}) /\ <<e>> \in Seq(S \cup {e})
    OBVIOUS
<1> QED
    BY <1>1

-------------------------------------------------------------------------------
LEMMA CheckInv ==
    ASSUME IInv, Check
    PROVE  IInv'
<1> DEFINE differ == Negated(assumptions, i + 1)
           dep == Append(differ, Lit("dep", j, TRUE))
           neg == differ \o <<Lit("unate", j, FALSE), Lit("pi", i, TRUE), Lit("copy", i, FALSE)>>
<1>1. /\ InLoops /\ Advance /\ approach = "unateness"
      /\ UNCHANGED <<config, result_mutex, seen, pool>>
    BY DEF Check
<1>2. assumptions' = Reset(dep) \/ assumptions' = Reset(neg)
    BY DEF Check
<1>3. \/ UNCHANGED can_skip
      \/ \E model \in Models(Literals(dep)) : can_skip' = can_skip \cup Skips(model)
    BY DEF Check
<1>4. n \in Nat /\ n > 0 /\ m \in Nat /\ i \in Nat /\ j \in Nat /\ i < n
    BY <1>1, DimensionAssumption DEF IInv, Types, InLoops
<1>5. assumptions' = assumptions
    <2>1. Reset(neg) = assumptions
        <3> DEFINE S == {Lit("unate", j, FALSE), Lit("pi", i, TRUE), Lit("copy", i, FALSE)}
        <3>1. <<Lit("unate", j, FALSE), Lit("pi", i, TRUE), Lit("copy", i, FALSE)>> \in Seq(S)
            OBVIOUS
        <3> QED
            BY <1>1, <3>1, Restored
    <2>2. Reset(dep) = assumptions
        <3>1. dep = differ \o <<Lit("dep", j, TRUE)>>
            <4> DEFINE E(k) == Lit("eq", k - 1, k # i + 1)
            <4>1. differ = [k \in 1..n |-> E(k)]
                BY <1>1, Differing
            <4> HIDE DEF E
            <4>2. differ \in Seq({E(k) : k \in 1..n})
                BY <4>1, <1>4
            <4> QED
                BY <4>2, AppendExtends
        <3>2. <<Lit("dep", j, TRUE)>> \in Seq({Lit("dep", j, TRUE)})
            OBVIOUS
        <3> QED
            BY <1>1, <3>1, <3>2, Restored
    <2> QED
        BY <1>2, <2>1, <2>2
<1>6. Types'
    BY <1>1, AdvanceTypes DEF IInv, Types, config
<1>7. AllEqual'
    BY <1>5 DEF IInv, AllEqual
<1>8. OneWriter' /\ Stages'
    <2>1. active = {} /\ result_mutex = {} /\ finished = {} /\ pending = {}
        BY <1>1 DEF IInv, Stages, OneWriter, Parallel
    <2> QED
        BY <1>1, <2>1 DEF OneWriter, Stages, Parallel, config, pool
<1>9. SkipsAreDependent'
    <2>1. SUFFICES ASSUME NEW o \in Outputs, NEW k \in Inputs, o * n + k \in can_skip'
                   PROVE  DependsOn(function[o], k)
        BY <1>1 DEF SkipsAreDependent, DependsOn, config
    <2>2. CASE o * n + k \in can_skip
        BY <2>2 DEF IInv, SkipsAreDependent
    <2>3. CASE o * n + k \notin can_skip
        <3>1. PICK model \in Models(Literals(dep)) : o * n + k \in Skips(model)
            BY <1>3, <2>1, <2>3
        <3>2. PICK q \in j + 1..m - 1 :
                    /\ o * n + k = q * n + i
                    /\ Holds(Lit("dep", q, TRUE), model[1], model[2])
            BY <3>1 DEF Skips
        <3>3. o = q /\ k = i
            <4>1. o \in Nat /\ q \in Nat /\ k \in 0..n - 1 /\ i \in 0..n - 1
                BY <1>4, <3>2 DEF Outputs, Inputs
            <4> QED
                BY <1>4, <3>2, <4>1, IndexInjective
        <3>4. model[1] \in Points /\ model[2] = Flipped(model[1], i)
            BY <1>1, DependencyQuestion
        <3>5. (model[1] \in function[q]) # (model[2] \in function[q])
            BY <3>2 DEF Holds, Lit
        <3> QED
            BY <3>3, <3>4, <3>5 DEF DependsOn
    <2> QED
        BY <2>2, <2>3
<1> QED
    BY <1>6, <1>7, <1>8, <1>9 DEF IInv

(* The other approaches leave assumptions and skip list alone. *)
LEMMA SkipsUnchanged ==
    ASSUME IInv, UNCHANGED <<config, assumptions, can_skip>>
    PROVE  AllEqual' /\ SkipsAreDependent'
BY DEF IInv, AllEqual, SkipsAreDependent, DependsOn, config

LEMMA SequentialInv ==
    ASSUME IInv, Naive \/ Split
    PROVE  IInv'
<1>1. UNCHANGED <<config, assumptions, can_skip, result_mutex, seen, pool>> /\ ~Parallel
    BY DEF Naive, Split, Parallel
<1>2. Types'
    <2>1. i' \in Nat /\ j' \in Nat /\ (n > 0 => i' < n)
        BY AdvanceTypes DEF Naive, Split, IInv, Types
    <2> QED
        BY <1>1, <2>1 DEF IInv, Types, config
<1>3. OneWriter' /\ Stages'
    <2>1. active = {} /\ result_mutex = {} /\ finished = {} /\ pending = {}
        BY <1>1 DEF IInv, Stages, OneWriter
    <2> QED
        BY <1>1, <2>1 DEF OneWriter, Stages, Parallel, config, pool
<1> QED
    BY <1>1, <1>2, <1>3, SkipsUnchanged DEF IInv

LEMMA CallerInv ==
    ASSUME IInv, Enqueue \/ LeaveScope
    PROVE  IInv'
<1>1. /\ UNCHANGED <<config, assumptions, can_skip, result, result_mutex, seen>>
      /\ i' = i /\ (j' = j \/ j' = j + 1) /\ Parallel
    BY DEF Enqueue, LeaveScope
<1>2. Types'
    BY <1>1 DEF IInv, Types, config
<1>3. active' = active /\ finished' = finished
    BY DEF Enqueue, LeaveScope, Pool!Accept, Pool!BeginClose, Pool!EndClose
<1>4. OneWriter'
    BY <1>1, <1>3 DEF IInv, OneWriter
<1>5. Stages'
    <2>1. Tasks' = Tasks /\ Parallel'
        BY <1>1 DEF Tasks, Parallel, config
    <2>2. CASE pending' = pending
        BY <1>3, <2>1, <2>2 DEF IInv, Stages
    <2>3. CASE Enqueue
        BY <1>3, <2>1, <2>3 DEF Enqueue, Pool!Accept, IInv, Stages
    <2> QED
        BY <2>2, <2>3 DEF LeaveScope, Pool!BeginClose, Pool!EndClose
<1> QED
    BY <1>1, <1>2, <1>4, <1>5, SkipsUnchanged DEF IInv

LEMMA TaskInv ==
    ASSUME IInv, NEW t \in Tasks, Start(t) \/ Read(t) \/ Write(t)
    PROVE  IInv'
<1>1. UNCHANGED <<config, assumptions, can_skip, i, j>>
    BY DEF Start, Read, Write
<1>2. Tasks' = Tasks /\ Parallel' = Parallel
    BY <1>1 DEF Tasks, Parallel, config
<1>3. Types'
    BY <1>1 DEF Start, Read, Write, IInv, Types, config
<1>4. OneWriter' /\ Stages'
    <2>0. /\ OneWriter /\ Stages /\ DOMAIN seen = Inputs \cup Outputs
          /\ t \in Inputs \cup Outputs
        BY DEF IInv, Types, Tasks
    <2>1. CASE Start(t)
        BY <1>2, <2>0, <2>1 DEF Start, Pool!Start, OneWriter, Stages
    <2>2. CASE Read(t)
        <3>1. result_mutex = {} /\ result_mutex' = {t} /\ t \in active
            BY <2>2 DEF Read
        <3>2. seen'[t] = result' /\ UNCHANGED pool
            BY <2>0, <2>2 DEF Read
        <3> QED
            BY <1>2, <2>0, <3>1, <3>2 DEF OneWriter, Stages, pool
    <2>3. CASE Write(t)
        <3>1. result_mutex = {t} /\ result_mutex' = {}
            BY <2>0, <2>3 DEF Write, OneWriter
        <3> QED
            BY <1>2, <2>0, <2>3, <3>1 DEF Write, Pool!End, OneWriter, Stages
    <2> QED
        BY <2>1, <2>2, <2>3
<1> QED
    BY <1>1, <1>3, <1>4, SkipsUnchanged DEF IInv

LEMMA StutterInv ==
    ASSUME IInv, UNCHANGED vars
    PROVE  IInv'
<1>1. UNCHANGED <<config, assumptions, can_skip, i, j, result, result_mutex, seen, pool>>
    BY DEF vars
<1>2. Types' /\ OneWriter' /\ Stages'
    BY <1>1 DEF IInv, Types, OneWriter, Stages, Tasks, Parallel, config, pool
<1> QED
    BY <1>1, <1>2, SkipsUnchanged DEF IInv

LEMMA NextInv == IInv /\ [Next]_vars => IInv'
BY CheckInv, SequentialInv, CallerInv, TaskInv, StutterInv DEF Next

THEOREM Inductive == Spec => []IInv
BY InitInv, NextInv, PTL DEF Spec

(* The skip list of unateness holds only pairs whose input matters to the    *)
(* output, whatever models the solver returns.                              *)
THEOREM SkipListIsSound == Spec => []SkipsAreDependent
<1>1. IInv => SkipsAreDependent
    BY DEF IInv
<1> QED
    BY <1>1, Inductive, PTL

-------------------------------------------------------------------------------
(* The bits of a kind are the two bits of an entry. *)
LEMMA KindBits ==
    ASSUME NEW a, NEW b, NEW c
    PROVE  Kind(a, b, c) \subseteq {0, 1}
BY DEF Kind, Polarity

(* A bit of the row of an output is one of the two bits of an entry. *)
LEMMA RowBits ==
    ASSUME NEW o, NEW e \in OutputRow(o)
    PROVE  \E k \in Inputs, b \in {0, 1} : e = 2 * k + b
<1> DEFINE K(k) == IF k \in cone[o] THEN ConeKind(o, k) ELSE {0, 1}
<1>1. \A k \in Inputs : K(k) \subseteq {0, 1}
    BY KindBits DEF ConeKind
<1> HIDE DEF K
<1>2. OutputRow(o) = UNION {At(2 * k, K(k)) : k \in Inputs}
    BY DEF OutputRow, K
<1>3. PICK k \in Inputs : e \in At(2 * k, K(k))
    BY <1>2
<1>4. PICK b \in K(k) : e = 2 * k + b
    BY <1>3 DEF At
<1> QED
    BY <1>1, <1>4

(* So is a bit of the column of an input. *)
LEMMA ColumnBits ==
    ASSUME NEW k, NEW e \in InputColumn(k)
    PROVE  \E o \in Outputs, b \in {0, 1} : e = 2 * k + o * 2 * n + b
<1> DEFINE K(o) == CofactorKind(o, k)
<1>1. \A o \in Outputs : K(o) \subseteq {0, 1}
    BY KindBits DEF CofactorKind
<1> HIDE DEF K
<1>2. InputColumn(k) = UNION {At(2 * k + o * 2 * n, K(o)) : o \in Outputs}
    BY DEF InputColumn, K
<1>3. PICK o \in Outputs : e \in At(2 * k + o * 2 * n, K(o))
    BY <1>2
<1>4. PICK b \in K(o) : e = 2 * k + o * 2 * n + b
    BY <1>3 DEF At
<1> QED
    BY <1>1, <1>4

(* The entry of a task at an offset that it may write. *)
Own(t, p) ==
    \E o \in Outputs, k \in Inputs, b \in {0, 1} :
        p = 2 * (o * n + k) + b /\ t = IF approach = "split_parallel" THEN o ELSE k

(* What a task writes besides what it has read is in its own entries. *)
LEMMA OwnEntries ==
    ASSUME NEW t \in Tasks, NEW p \in Int,
           (p \in Written(t)) # (p \in seen[t])
    PROVE  Own(t, p)
<1>0. n \in Nat /\ m \in Nat
    BY DimensionAssumption
<1>1. CASE approach = "split_parallel"
    <2>1. t \in Outputs /\ t \in Nat /\ t * n \in Nat
        BY <1>0, <1>1 DEF Tasks, Outputs
    <2>2. p \in t * n * 2..t * n * 2 + 2 * n - 1 \/ p \in At(t * n * 2, OutputRow(t))
        BY <1>1 DEF Written
    <2>3. PICK k \in Inputs, b \in {0, 1} : p = 2 * (t * n + k) + b
        <3>1. CASE p \in At(t * n * 2, OutputRow(t))
            <4>1. PICK e \in OutputRow(t) : p = t * n * 2 + e
                BY <3>1 DEF At
            <4>2. PICK k \in Inputs, b \in {0, 1} : e = 2 * k + b
                BY RowBits
            <4> QED
                BY <2>1, <4>1, <4>2, <1>0 DEF Inputs
        <3>2. CASE p \in t * n * 2..t * n * 2 + 2 * n - 1
            <4> DEFINE d == p - 2 * (t * n)
            <4>1. d \in 0..2 * n - 1 /\ p = 2 * (t * n) + d
                BY <1>0, <2>1, <3>2
            <4> HIDE DEF d
            <4>2. PICK k \in 0..n - 1, b \in {0, 1} : d = 2 * k + b
                <5>1. d \div 2 \in 0..n - 1 /\ d % 2 \in {0, 1}
                    BY <1>0, <4>1
                <5>2. d = 2 * (d \div 2) + (d % 2)
                    <6>1. d \in Int
                        BY <1>0, <4>1
                    <6> QED
                        BY <6>1
                <5> USE <5>1
                <5> WITNESS d \div 2 \in 0..n - 1, d % 2 \in {0, 1}
                <5> QED
                    BY <5>2
            <4> QED
                BY <1>0, <2>1, <4>1, <4>2 DEF Inputs
        <3> QED
            BY <2>2, <3>1, <3>2
    <2> QED
        BY <1>1, <2>1, <2>3 DEF Own
<1>2. CASE approach # "split_parallel"
    <2>1. t \in Inputs /\ Written(t) = seen[t] \cup InputColumn(t)
        BY <1>2 DEF Tasks, Written
    <2>2. PICK o \in Outputs, b \in {0, 1} : p = 2 * t + o * 2 * n + b
        BY <2>1, ColumnBits
    <2>3. p = 2 * (o * n + t) + b
        <3>1. o \in Int /\ t \in Int /\ b \in Int
            BY <2>1 DEF Inputs, Outputs
        <3> QED
            BY <1>0, <2>2, <3>1
    <2> QED
        BY <1>2, <2>1, <2>3 DEF Own
<1> QED
    BY <1>1, <1>2

(* An offset belongs to one task. *)
LEMMA OneOwner ==
    ASSUME NEW s, NEW t, NEW p \in Int, Own(s, p), Own(t, p)
    PROVE  s = t
<1>0. n \in Nat
    BY DimensionAssumption
<1>1. PICK o1 \in Outputs, k1 \in Inputs, b1 \in {0, 1} :
        p = 2 * (o1 * n + k1) + b1 /\ s = IF approach = "split_parallel" THEN o1 ELSE k1
    BY DEF Own
<1>2. PICK o2 \in Outputs, k2 \in Inputs, b2 \in {0, 1} :
        p = 2 * (o2 * n + k2) + b2 /\ t = IF approach = "split_parallel" THEN o2 ELSE k2
    BY DEF Own
<1>3. o1 \in Nat /\ o2 \in Nat /\ k1 \in 0..n - 1 /\ k2 \in 0..n - 1
    BY DEF Outputs, Inputs
<1>4. o1 * n + k1 \in Int /\ o2 * n + k2 \in Int
    BY <1>0, <1>3
<1>5. o1 * n + k1 = o2 * n + k2
    <2> DEFINE a1 == o1 * n + k1
               a2 == o2 * n + k2
    <2>1. a1 \in Int /\ a2 \in Int /\ 2 * a1 + b1 = 2 * a2 + b2
        BY <1>1, <1>2, <1>4
    <2> HIDE DEF a1, a2
    <2>2. a1 = a2
        BY <2>1
    <2> QED
        BY <2>2 DEF a1, a2
<1>6. o1 = o2 /\ k1 = k2
    BY <1>0, <1>3, <1>5, IndexInjective
<1> QED
    BY <1>1, <1>2, <1>6

(* A step leaves alone what belongs to a task that has ended. *)
LEMMA OffsetsStay ==
    ASSUME IInv, [Next]_vars, NEW t \in finished, NEW p \in Int, Own(t, p)
    PROVE  (p \in result') = (p \in result)
<1>1. Parallel /\ t \in Tasks
    BY DEF IInv, Stages
<1>2. CASE \E s \in Tasks : Write(s)
    <2>1. PICK s \in Tasks : Write(s)
        BY <1>2
    <2>2. s \in active /\ s \in result_mutex /\ result' = Written(s)
        BY <2>1 DEF Write, Pool!End
    <2>3. s # t /\ seen[s] = result
        BY <2>2 DEF IInv, Stages, OneWriter
    <2>4. (p \in Written(s)) = (p \in seen[s])
        <3> SUFFICES ASSUME (p \in Written(s)) # (p \in seen[s])
                     PROVE  FALSE
            OBVIOUS
        <3>1. Own(s, p)
            BY OwnEntries
        <3> QED
            BY <2>3, <3>1, OneOwner
    <2> QED
        BY <2>2, <2>3, <2>4
<1>3. CASE ~\E s \in Tasks : Write(s)
    <2>1. ~Naive /\ ~Check /\ ~Split
        BY <1>1 DEF Naive, Check, Split, Parallel
    <2>2. result' = result
        BY <1>3, <2>1 DEF Next, Enqueue, LeaveScope, Start, Read, vars
    <2> QED
        BY <2>2
<1> QED
    BY <1>2, <1>3

LEMMA EntriesStep == IInv /\ [Next]_vars => [\A t \in finished : Entries(t)' = Entries(t)]_vars
<1> SUFFICES ASSUME IInv, [Next]_vars, NEW t \in finished
             PROVE  Entries(t)' = Entries(t)
    OBVIOUS
<1>0. n \in Nat /\ m \in Nat
    BY DimensionAssumption
<1>1. approach' = approach
    BY DEF Next, Naive, Check, Split, Enqueue, LeaveScope, Start, Read, Write, config, vars
<1>2. t \in Tasks
    BY DEF IInv, Stages
<1>3. ASSUME NEW o \in Outputs, NEW k \in Inputs,
             t = IF approach = "split_parallel" THEN o ELSE k
      PROVE  Unate(o, k)' = Unate(o, k)
    <2>1. ASSUME NEW b \in {0, 1}
          PROVE  (2 * (o * n + k) + b \in result') = (2 * (o * n + k) + b \in result)
        <3> DEFINE p == 2 * (o * n + k) + b
        <3>1. p \in Int
            BY <1>0 DEF Outputs, Inputs
        <3>2. Own(t, p)
            BY <1>3 DEF Own
        <3> HIDE DEF p
        <3>3. (p \in result') = (p \in result)
            BY <3>1, <3>2, OffsetsStay
        <3> QED
            BY <3>3 DEF p
    <2>2. 2 * (o * n + k) + 0 = 2 * (o * n + k)
        BY <1>0 DEF Outputs, Inputs
    <2>3. (2 * (o * n + k) \in result') = (2 * (o * n + k) \in result)
        BY <2>1, <2>2
    <2>4. (2 * (o * n + k) + 1 \in result') = (2 * (o * n + k) + 1 \in result)
        BY <2>1
    <2> QED
        BY <2>3, <2>4 DEF Unate
<1>4. CASE approach = "split_parallel"
    <2>1. \A k \in Inputs : Unate(t, k)' = Unate(t, k)
        BY <1>2, <1>3, <1>4 DEF Tasks
    <2> QED
        BY <1>1, <1>4, <2>1 DEF Entries
<1>5. CASE approach # "split_parallel"
    <2>1. \A o \in Outputs : Unate(o, t)' = Unate(o, t)
        BY <1>2, <1>3, <1>5 DEF Tasks
    <2> QED
        BY <1>1, <1>5, <2>1 DEF Entries
<1> QED
    BY <1>4, <1>5

(* What a task has written into the shared bitset is never overwritten by   *)
(* the tasks whose bits are in the same blocks.                             *)
THEOREM EntriesStay == Spec => EntriesAreFinal
BY Inductive, EntriesStep, PTL DEF Spec, EntriesAreFinal

-------------------------------------------------------------------------------
(* What the literals of a question say of the two copies.                   *)

LEMMA UnsatMeans ==
    ASSUME NEW L
    PROVE  Unsat(L) <=> ~\E x, y \in Points : \A l \in L : Holds(l, x, y)
<1>1. ASSUME NEW x \in Points, NEW y \in Points, \A l \in L : Holds(l, x, y)
      PROVE  ~Unsat(L)
    <2>1. <<x, y>> \in Models(L)
        BY <1>1 DEF Models
    <2> QED
        BY <2>1 DEF Unsat
<1>2. ASSUME ~Unsat(L)
      PROVE  \E x, y \in Points : \A l \in L : Holds(l, x, y)
    <2>1. PICK p \in Models(L) : TRUE
        BY <1>2 DEF Unsat
    <2>2. p[1] \in Points /\ p[2] \in Points /\ \A l \in L : Holds(l, p[1], p[2])
        BY <2>1 DEF Models
    <2> QED
        BY <2>2
<1> QED
    BY <1>1, <1>2

LEMMA EqualHolds ==
    ASSUME NEW k, NEW x, NEW y
    PROVE  /\ Holds(Lit("eq", k, TRUE), x, y) <=> x[k] = y[k]
           /\ Holds(Lit("eq", k, FALSE), x, y) <=> x[k] # y[k]
BY DEF Holds, Lit

LEMMA EqualsHold ==
    ASSUME NEW S, NEW x, NEW y
    PROVE  (\A l \in Equal(S) : Holds(l, x, y)) <=> \A k \in S : x[k] = y[k]
BY EqualHolds DEF Equal

LEMMA InputHolds ==
    ASSUME NEW k \in Inputs, NEW x \in Points, NEW y \in Points
    PROVE  /\ Holds(Lit("pi", k, TRUE), x, y) <=> x[k]
           /\ Holds(Lit("pi", k, FALSE), x, y) <=> ~x[k]
           /\ Holds(Lit("copy", k, TRUE), x, y) <=> y[k]
           /\ Holds(Lit("copy", k, FALSE), x, y) <=> ~y[k]
<1>1. x[k] \in BOOLEAN /\ y[k] \in BOOLEAN
    BY DEF Points
<1> QED
    BY <1>1 DEF Holds, Lit

LEMMA DiffersHold ==
    ASSUME NEW k \in Inputs, NEW x \in Points, NEW y \in Points
    PROVE  /\ (\A l \in Differ(k, TRUE) : Holds(l, x, y)) <=> x[k] /\ ~y[k]
           /\ (\A l \in Differ(k, FALSE) : Holds(l, x, y)) <=> ~x[k] /\ y[k]
<1>1. (~TRUE) = FALSE /\ (~FALSE) = TRUE
    OBVIOUS
<1>2. Differ(k, TRUE) = {Lit("pi", k, TRUE), Lit("copy", k, FALSE)}
    BY <1>1 DEF Differ
<1>3. Differ(k, FALSE) = {Lit("pi", k, FALSE), Lit("copy", k, TRUE)}
    BY <1>1 DEF Differ
<1>4. (\A l \in {Lit("pi", k, TRUE), Lit("copy", k, FALSE)} : Holds(l, x, y)) <=> x[k] /\ ~y[k]
    BY InputHolds
<1>5. (\A l \in {Lit("pi", k, FALSE), Lit("copy", k, TRUE)} : Holds(l, x, y)) <=> ~x[k] /\ y[k]
    BY InputHolds
<1> QED
    BY <1>2, <1>3, <1>4, <1>5

LEMMA OutputHolds ==
    ASSUME NEW o, NEW x, NEW y
    PROVE  /\ Holds(Lit("dep", o, TRUE), x, y) <=> (x \in function[o]) # (y \in function[o])
           /\ Holds(Lit("unate", o, FALSE), x, y) <=> x \in function[o] /\ y \notin function[o]
           /\ Holds(Lit("unate_neg", o, FALSE), x, y) <=> y \in function[o] /\ x \notin function[o]
BY DEF Holds, Lit

-------------------------------------------------------------------------------
(* Two points that differ in one input, at which the function rises, falls   *)
(* or changes.                                                              *)
Neighbours(x, y, k) == /\ x \in Points /\ y \in Points
                       /\ \A l \in Inputs \ {k} : x[l] = y[l]
                       /\ x[k] # y[k]

LEMMA NeighbourIsFlipped ==
    ASSUME NEW k \in Inputs, NEW x, NEW y, Neighbours(x, y, k)
    PROVE  y = Flipped(x, k) /\ x = Flipped(y, k)
<1>0. /\ x \in [Inputs -> BOOLEAN] /\ y \in [Inputs -> BOOLEAN]
      /\ \A l \in Inputs \ {k} : x[l] = y[l]
      /\ x[k] # y[k]
    BY DEF Neighbours, Points
<1>1. x[k] = ~y[k] /\ y[k] = ~x[k]
    BY <1>0
<1>2. Flipped(x, k) \in [Inputs -> BOOLEAN] /\ Flipped(y, k) \in [Inputs -> BOOLEAN]
    BY <1>0 DEF Flipped
<1>3. ASSUME NEW l \in Inputs
      PROVE  Flipped(x, k)[l] = y[l] /\ Flipped(y, k)[l] = x[l]
    BY <1>0, <1>1 DEF Flipped
<1> QED
    BY <1>0, <1>2, <1>3

LEMMA FlippedIsNeighbour ==
    ASSUME NEW k \in Inputs, NEW x \in Points
    PROVE  Neighbours(x, Flipped(x, k), k) /\ Neighbours(Flipped(x, k), x, k)
<1>1. x \in [Inputs -> BOOLEAN]
    BY DEF Points
<1>2. Flipped(x, k) \in [Inputs -> BOOLEAN] /\ Flipped(x, k)[k] = ~x[k]
    BY <1>1 DEF Flipped
<1>3. \A l \in Inputs \ {k} : Flipped(x, k)[l] = x[l]
    BY <1>1 DEF Flipped
<1>4. Flipped(x, k)[k] # x[k]
    BY <1>1, <1>2
<1> QED
    BY <1>1, <1>2, <1>3, <1>4 DEF Neighbours, Points

LEMMA Rises ==
    ASSUME NEW k \in Inputs, NEW g
    PROVE  May(g, k, TRUE) <=> \E x, y : Neighbours(x, y, k) /\ ~x[k] /\ x \notin g /\ y \in g
<1>1. ASSUME NEW x \in Points, ~x[k], (x \in g) = ~TRUE, (Flipped(x, k) \in g) = TRUE
      PROVE  \E y, z : Neighbours(y, z, k) /\ ~y[k] /\ y \notin g /\ z \in g
    BY <1>1, FlippedIsNeighbour
<1>2. ASSUME NEW x, NEW y, Neighbours(x, y, k), ~x[k], x \notin g, y \in g
      PROVE  x \in Points /\ ~x[k] /\ (x \in g) = ~TRUE /\ (Flipped(x, k) \in g) = TRUE
    <2>1. x \in Points /\ y = Flipped(x, k)
        BY <1>2, NeighbourIsFlipped DEF Neighbours
    <2> QED
        BY <1>2, <2>1
<1> QED
    BY <1>1, <1>2 DEF May

LEMMA Falls ==
    ASSUME NEW k \in Inputs, NEW g
    PROVE  May(g, k, FALSE) <=> \E x, y : Neighbours(x, y, k) /\ ~x[k] /\ x \in g /\ y \notin g
<1>1. ASSUME NEW x \in Points, ~x[k], (x \in g) = ~FALSE, (Flipped(x, k) \in g) = FALSE
      PROVE  \E y, z : Neighbours(y, z, k) /\ ~y[k] /\ y \in g /\ z \notin g
    BY <1>1, FlippedIsNeighbour
<1>2. ASSUME NEW x, NEW y, Neighbours(x, y, k), ~x[k], x \in g, y \notin g
      PROVE  x \in Points /\ ~x[k] /\ (x \in g) = ~FALSE /\ (Flipped(x, k) \in g) = FALSE
    <2>1. x \in Points /\ y = Flipped(x, k)
        BY <1>2, NeighbourIsFlipped DEF Neighbours
    <2> QED
        BY <1>2, <2>1
<1> QED
    BY <1>1, <1>2 DEF May

LEMMA NeighboursSymmetric ==
    ASSUME NEW k \in Inputs, NEW x, NEW y, Neighbours(x, y, k)
    PROVE  Neighbours(y, x, k) /\ (x[k] = ~y[k])
<1>1. x[k] \in BOOLEAN /\ y[k] \in BOOLEAN
    BY DEF Neighbours, Points
<1> QED
    BY <1>1 DEF Neighbours

LEMMA Changes ==
    ASSUME NEW k \in Inputs, NEW g
    PROVE  May(g, k, TRUE) \/ May(g, k, FALSE) <=>
              \E x, y : Neighbours(x, y, k) /\ (x \in g) # (y \in g)
<1> DEFINE up == May(g, k, TRUE)
           down == May(g, k, FALSE)
<1>0. /\ up <=> \E x, y : Neighbours(x, y, k) /\ ~x[k] /\ x \notin g /\ y \in g
      /\ down <=> \E x, y : Neighbours(x, y, k) /\ ~x[k] /\ x \in g /\ y \notin g
    BY Rises, Falls
<1> HIDE DEF up, down
<1>1. ASSUME NEW x, NEW y, Neighbours(x, y, k), (x \in g) # (y \in g)
      PROVE  up \/ down
    <2>1. Neighbours(y, x, k) /\ (x[k] = ~y[k])
        BY <1>1, NeighboursSymmetric
    <2>2. CASE ~x[k]
        BY <1>0, <1>1, <2>2
    <2>3. CASE ~y[k]
        BY <1>0, <1>1, <2>1, <2>3
    <2> QED
        BY <2>1, <2>2, <2>3
<1> QED
    BY <1>0, <1>1 DEF up, down

LEMMA DependsMeans ==
    ASSUME NEW k \in Inputs, NEW g
    PROVE  DependsOn(g, k) <=> May(g, k, TRUE) \/ May(g, k, FALSE)
<1>1. ASSUME NEW x \in Points, (x \in g) # (Flipped(x, k) \in g)
      PROVE  \E y, z : Neighbours(y, z, k) /\ (y \in g) # (z \in g)
    BY <1>1, FlippedIsNeighbour
<1>2. ASSUME NEW x, NEW y, Neighbours(x, y, k), (x \in g) # (y \in g)
      PROVE  x \in Points /\ (x \in g) # (Flipped(x, k) \in g)
    <2>1. x \in Points /\ y = Flipped(x, k)
        BY <1>2, NeighbourIsFlipped DEF Neighbours
    <2> QED
        BY <1>2, <2>1
<1> QED
    BY <1>1, <1>2, Changes DEF DependsOn

-------------------------------------------------------------------------------
(* The bits of an entry. *)
Bits(o, k, bits) ==
    /\ bits \subseteq {0, 1}
    /\ 0 \in bits <=> ~May(function[o], k, TRUE)
    /\ 1 \in bits <=> ~May(function[o], k, FALSE)

(* Three answers make up the kind. *)
Answers(o, k, dep, neg, pos_) ==
    /\ Unsat(dep) <=> ~DependsOn(function[o], k)
    /\ Unsat(neg) <=> ~May(function[o], k, TRUE)
    /\ Unsat(pos_) <=> ~May(function[o], k, FALSE)

LEMMA KindIsRight ==
    ASSUME NEW o, NEW k \in Inputs, NEW dep, NEW neg, NEW pos_, Answers(o, k, dep, neg, pos_)
    PROVE  /\ Bits(o, k, Kind(dep, neg, pos_))
           /\ DependsOn(function[o], k) => Bits(o, k, Polarity(neg, pos_))
<1> DEFINE up == May(function[o], k, TRUE)
           down == May(function[o], k, FALSE)
<1>1. /\ Unsat(dep) <=> ~(up \/ down)
      /\ Unsat(neg) <=> ~up
      /\ Unsat(pos_) <=> ~down
      /\ DependsOn(function[o], k) <=> up \/ down
    BY DependsMeans DEF Answers
<1> HIDE DEF up, down
<1>2. ASSUME up \/ down
      PROVE  LET bits == Polarity(neg, pos_) IN
             bits \subseteq {0, 1} /\ (0 \in bits <=> ~up) /\ (1 \in bits <=> ~down)
    BY <1>1, <1>2 DEF Polarity
<1>3. LET bits == Kind(dep, neg, pos_) IN
      bits \subseteq {0, 1} /\ (0 \in bits <=> ~up) /\ (1 \in bits <=> ~down)
    BY <1>1, <1>2 DEF Kind
<1> QED
    BY <1>1, <1>2, <1>3 DEF Bits, up, down

(* A question whose models are the pairs of points of a kind. *)
LEMMA QuestionMeans ==
    ASSUME NEW L, NEW A, NEW B, NEW c, L = A \cup B \cup {c}
    PROVE  Unsat(L) <=> ~\E x, y \in Points :
              /\ \A l \in A : Holds(l, x, y)
              /\ \A l \in B : Holds(l, x, y)
              /\ Holds(c, x, y)
<1>1. \A x, y : (\A l \in L : Holds(l, x, y)) <=>
              /\ \A l \in A : Holds(l, x, y)
              /\ \A l \in B : Holds(l, x, y)
              /\ Holds(c, x, y)
    OBVIOUS
<1> QED
    BY <1>1, UnsatMeans

(* Every pair that a question can be about. *)
Same(x, y, k) == \A l \in Inputs \ {k} : x[l] = y[l]

LEMMA SameIsNeighbour ==
    ASSUME NEW k \in Inputs, NEW x \in Points, NEW y \in Points
    PROVE  /\ Neighbours(x, y, k) <=> Same(x, y, k) /\ x[k] # y[k]
           /\ Neighbours(y, x, k) <=> Same(x, y, k) /\ x[k] # y[k]
           /\ x[k] # y[k] <=> (x[k] /\ ~y[k]) \/ (~x[k] /\ y[k])
<1>1. x[k] \in BOOLEAN /\ y[k] \in BOOLEAN
    BY DEF Points
<1> QED
    BY <1>1 DEF Neighbours, Same

LEMMA RisingPairs ==
    ASSUME NEW k \in Inputs, NEW g
    PROVE  /\ May(g, k, TRUE) <=> \E x, y \in Points :
                 Same(x, y, k) /\ x[k] /\ ~y[k] /\ x \in g /\ y \notin g
           /\ May(g, k, TRUE) <=> \E x, y \in Points :
                 Same(x, y, k) /\ ~x[k] /\ y[k] /\ y \in g /\ x \notin g
<1> DEFINE up == May(g, k, TRUE)
<1>1. up <=> \E x, y : Neighbours(x, y, k) /\ ~x[k] /\ x \notin g /\ y \in g
    BY Rises
<1> HIDE DEF up
<1>2. \A x, y : Neighbours(x, y, k) => x \in Points /\ y \in Points
    BY DEF Neighbours
<1>3. up <=> \E x, y \in Points :
                 Same(x, y, k) /\ ~x[k] /\ y[k] /\ y \in g /\ x \notin g
    BY <1>1, <1>2, SameIsNeighbour
<1>4. up <=> \E x, y \in Points :
                 Same(x, y, k) /\ x[k] /\ ~y[k] /\ x \in g /\ y \notin g
    BY <1>1, <1>2, SameIsNeighbour
<1> QED
    BY <1>3, <1>4 DEF up

LEMMA FallingPairs ==
    ASSUME NEW k \in Inputs, NEW g
    PROVE  May(g, k, FALSE) <=> \E x, y \in Points :
                 Same(x, y, k) /\ ~x[k] /\ y[k] /\ x \in g /\ y \notin g
<1> DEFINE down == May(g, k, FALSE)
<1>1. down <=> \E x, y : Neighbours(x, y, k) /\ ~x[k] /\ x \in g /\ y \notin g
    BY Falls
<1> HIDE DEF down
<1>2. \A x, y : Neighbours(x, y, k) => x \in Points /\ y \in Points
    BY DEF Neighbours
<1>3. down <=> \E x, y \in Points :
                 Same(x, y, k) /\ ~x[k] /\ y[k] /\ x \in g /\ y \notin g
    BY <1>1, <1>2, SameIsNeighbour
<1> QED
    BY <1>3 DEF down

LEMMA ChangingPairs ==
    ASSUME NEW k \in Inputs, NEW g
    PROVE  /\ DependsOn(g, k) <=> \E x, y \in Points :
                 Same(x, y, k) /\ x[k] /\ ~y[k] /\ (x \in g) # (y \in g)
           /\ DependsOn(g, k) <=> \E x, y \in Points :
                 Same(x, y, k) /\ ~x[k] /\ y[k] /\ (x \in g) # (y \in g)
           /\ DependsOn(g, k) <=> \E x, y \in Points :
                 Same(x, y, k) /\ x[k] # y[k] /\ (x \in g) # (y \in g)
<1>1. DependsOn(g, k) <=> \E x, y : Neighbours(x, y, k) /\ (x \in g) # (y \in g)
    BY DependsMeans, Changes
<1>2. \A x, y : Neighbours(x, y, k) => x \in Points /\ y \in Points
    BY DEF Neighbours
<1>3. DependsOn(g, k) <=> \E x, y \in Points :
                 Same(x, y, k) /\ x[k] # y[k] /\ (x \in g) # (y \in g)
    BY <1>1, <1>2, SameIsNeighbour
<1>4. \A x, y \in Points : Same(x, y, k) => Same(y, x, k)
    BY DEF Same
<1>5. DependsOn(g, k) <=> \E x, y \in Points :
                 Same(x, y, k) /\ x[k] /\ ~y[k] /\ (x \in g) # (y \in g)
    BY <1>3, <1>4, SameIsNeighbour
<1>6. DependsOn(g, k) <=> \E x, y \in Points :
                 Same(x, y, k) /\ ~x[k] /\ y[k] /\ (x \in g) # (y \in g)
    BY <1>3, <1>4, SameIsNeighbour
<1> QED
    BY <1>3, <1>5, <1>6

(* unateness_naive *)
LEMMA NaiveIsRight ==
    ASSUME NEW o, NEW k \in Inputs
    PROVE  Bits(o, k, NaiveKind(o, k))
<1> DEFINE g == function[o]
           E == Equal(Inputs \ {k})
           D == Differ(k, TRUE)
           F == Differ(k, FALSE)
           yes == Lit("dep", o, TRUE)
           no == Lit("unate", o, FALSE)
           dep == E \cup D \cup {yes}
           neg == E \cup D \cup {no}
           pos_ == E \cup F \cup {no}
<1>1. NaiveKind(o, k) = Kind(dep, neg, pos_)
    BY DEF NaiveKind
<1>2. \A x, y : (\A l \in E : Holds(l, x, y)) <=> Same(x, y, k)
    BY EqualsHold DEF Same
<1>3. \A x, y \in Points : /\ (\A l \in D : Holds(l, x, y)) <=> x[k] /\ ~y[k]
                           /\ (\A l \in F : Holds(l, x, y)) <=> ~x[k] /\ y[k]
    BY DiffersHold
<1>4. \A x, y : /\ Holds(yes, x, y) <=> (x \in g) # (y \in g)
                /\ Holds(no, x, y) <=> x \in g /\ y \notin g
    BY OutputHolds
<1> HIDE DEF E, D, F, yes, no
<1>5. Unsat(dep) <=> ~DependsOn(g, k)
    <2>1. Unsat(dep) <=> ~\E x, y \in Points : /\ \A l \in E : Holds(l, x, y)
                                               /\ \A l \in D : Holds(l, x, y)
                                               /\ Holds(yes, x, y)
        BY QuestionMeans
    <2> HIDE DEF dep
    <2> QED
        BY <1>2, <1>3, <1>4, <2>1, ChangingPairs
<1>6. Unsat(neg) <=> ~May(g, k, TRUE)
    <2>1. Unsat(neg) <=> ~\E x, y \in Points : /\ \A l \in E : Holds(l, x, y)
                                               /\ \A l \in D : Holds(l, x, y)
                                               /\ Holds(no, x, y)
        BY QuestionMeans
    <2>2. Unsat(neg) <=> ~\E x, y \in Points :
              Same(x, y, k) /\ x[k] /\ ~y[k] /\ x \in g /\ y \notin g
        BY <1>2, <1>3, <1>4, <2>1
    <2> HIDE DEF neg
    <2> QED
        BY <2>2, RisingPairs
<1>7. Unsat(pos_) <=> ~May(g, k, FALSE)
    <2>1. Unsat(pos_) <=> ~\E x, y \in Points : /\ \A l \in E : Holds(l, x, y)
                                                /\ \A l \in F : Holds(l, x, y)
                                                /\ Holds(no, x, y)
        BY QuestionMeans
    <2>2. Unsat(pos_) <=> ~\E x, y \in Points :
              Same(x, y, k) /\ ~x[k] /\ y[k] /\ x \in g /\ y \notin g
        BY <1>2, <1>3, <1>4, <2>1
    <2> HIDE DEF pos_
    <2> QED
        BY <2>2, FallingPairs
<1>8. Bits(o, k, Kind(dep, neg, pos_))
    <2>1. Answers(o, k, dep, neg, pos_)
        BY <1>5, <1>6, <1>7 DEF Answers
    <2> HIDE DEF dep, neg, pos_
    <2> QED
        BY <2>1, KindIsRight
<1> QED
    BY <1>1, <1>8

(* unateness_single_input: the pairs of points are the cofactors. *)
LEMMA CofactorIsRight ==
    ASSUME NEW o, NEW k \in Inputs
    PROVE  Bits(o, k, CofactorKind(o, k))
<1> DEFINE g == function[o]
           E == Equal(Inputs \ {k})
           F == Differ(k, FALSE)
           yes == Lit("dep", o, TRUE)
           back == Lit("unate_neg", o, FALSE)
           no == Lit("unate", o, FALSE)
           dep == E \cup F \cup {yes}
           neg == E \cup F \cup {back}
           pos_ == E \cup F \cup {no}
<1>1. CofactorKind(o, k) = Kind(dep, neg, pos_)
    BY DEF CofactorKind
<1>2. \A x, y : (\A l \in E : Holds(l, x, y)) <=> Same(x, y, k)
    BY EqualsHold DEF Same
<1>3. \A x, y \in Points : (\A l \in F : Holds(l, x, y)) <=> ~x[k] /\ y[k]
    BY DiffersHold
<1>4. \A x, y : /\ Holds(yes, x, y) <=> (x \in g) # (y \in g)
                /\ Holds(back, x, y) <=> y \in g /\ x \notin g
                /\ Holds(no, x, y) <=> x \in g /\ y \notin g
    BY OutputHolds
<1> HIDE DEF E, F, yes, back, no
<1>5. Unsat(dep) <=> ~DependsOn(g, k)
    <2>1. Unsat(dep) <=> ~\E x, y \in Points : /\ \A l \in E : Holds(l, x, y)
                                               /\ \A l \in F : Holds(l, x, y)
                                               /\ Holds(yes, x, y)
        BY QuestionMeans
    <2> HIDE DEF dep
    <2> QED
        BY <1>2, <1>3, <1>4, <2>1, ChangingPairs
<1>6. Unsat(neg) <=> ~May(g, k, TRUE)
    <2>1. Unsat(neg) <=> ~\E x, y \in Points : /\ \A l \in E : Holds(l, x, y)
                                               /\ \A l \in F : Holds(l, x, y)
                                               /\ Holds(back, x, y)
        BY QuestionMeans
    <2>2. Unsat(neg) <=> ~\E x, y \in Points :
              Same(x, y, k) /\ ~x[k] /\ y[k] /\ y \in g /\ x \notin g
        BY <1>2, <1>3, <1>4, <2>1
    <2> HIDE DEF neg
    <2> QED
        BY <2>2, RisingPairs
<1>7. Unsat(pos_) <=> ~May(g, k, FALSE)
    <2>1. Unsat(pos_) <=> ~\E x, y \in Points : /\ \A l \in E : Holds(l, x, y)
                                                /\ \A l \in F : Holds(l, x, y)
                                                /\ Holds(no, x, y)
        BY QuestionMeans
    <2>2. Unsat(pos_) <=> ~\E x, y \in Points :
              Same(x, y, k) /\ ~x[k] /\ y[k] /\ x \in g /\ y \notin g
        BY <1>2, <1>3, <1>4, <2>1
    <2> HIDE DEF pos_
    <2> QED
        BY <2>2, FallingPairs
<1>8. Bits(o, k, Kind(dep, neg, pos_))
    <2>1. Answers(o, k, dep, neg, pos_)
        BY <1>5, <1>6, <1>7 DEF Answers
    <2> HIDE DEF dep, neg, pos_
    <2> QED
        BY <2>1, KindIsRight
<1> QED
    BY <1>1, <1>8

(* Inputs outside the cone can be made equal. *)
Alike(x, y, o, k) == (\A l \in cone[o] \ {k} : x[l] = y[l]) /\ x[k] # y[k]

LEMMA ConePair ==
    ASSUME ConesHold, NEW o \in Outputs, cone[o] \subseteq Inputs, NEW k \in Inputs,
           NEW x \in Points, NEW y \in Points, Alike(x, y, o, k)
    PROVE  \E z \in Points : /\ Same(x, z, k) /\ x[k] # z[k] /\ z[k] = y[k]
                             /\ (z \in function[o]) = (y \in function[o])
<1> DEFINE z == Flipped(x, k)
<1>1. Neighbours(x, z, k)
    BY FlippedIsNeighbour
<1>2. z \in Points /\ Same(x, z, k) /\ x[k] # z[k]
    BY <1>1 DEF Neighbours, Same
<1> HIDE DEF z
<1>3. x[k] # y[k] /\ \A l \in cone[o] \ {k} : x[l] = y[l]
    BY DEF Alike
<1>4. x[k] \in BOOLEAN /\ y[k] \in BOOLEAN /\ z[k] \in BOOLEAN
    BY <1>2 DEF Points
<1>5. z[k] = y[k]
    BY <1>2, <1>3, <1>4
<1>6. \A l \in cone[o] : z[l] = y[l]
    BY <1>2, <1>3, <1>5 DEF Same
<1>7. (z \in function[o]) = (y \in function[o])
    BY <1>2, <1>6 DEF ConesHold
<1> QED
    BY <1>2, <1>5, <1>7

LEMMA ConeQuestion ==
    ASSUME ConesHold, NEW o \in Outputs, cone[o] \subseteq Inputs, NEW k \in Inputs
    PROVE  /\ DependsOn(function[o], k) <=> \E x, y \in Points :
                 Alike(x, y, o, k) /\ (x \in function[o]) # (y \in function[o])
           /\ May(function[o], k, TRUE) <=> \E x, y \in Points :
                 Alike(x, y, o, k) /\ x[k] /\ ~y[k] /\ x \in function[o] /\ y \notin function[o]
           /\ May(function[o], k, FALSE) <=> \E x, y \in Points :
                 Alike(x, y, o, k) /\ ~x[k] /\ y[k] /\ x \in function[o] /\ y \notin function[o]
<1> DEFINE g == function[o]
<1>1. \A x, y \in Points : Same(x, y, k) /\ x[k] # y[k] => Alike(x, y, o, k)
    BY DEF Same, Alike
<1>2. \A x, y \in Points : Alike(x, y, o, k) =>
         \E z \in Points : Same(x, z, k) /\ x[k] # z[k] /\ z[k] = y[k] /\ (z \in g) = (y \in g)
    BY ConePair
<1>3. \A x \in Points : x[k] \in BOOLEAN
    BY DEF Points
<1> HIDE DEF g
<1>4. DependsOn(g, k) <=> \E x, y \in Points : Alike(x, y, o, k) /\ (x \in g) # (y \in g)
    <2>1. DependsOn(g, k) <=> \E x, y \in Points :
              Same(x, y, k) /\ x[k] # y[k] /\ (x \in g) # (y \in g)
        BY ChangingPairs
    <2> QED
        BY <1>1, <1>2, <2>1
<1>5. May(g, k, TRUE) <=> \E x, y \in Points :
         Alike(x, y, o, k) /\ x[k] /\ ~y[k] /\ x \in g /\ y \notin g
    <2> DEFINE up == May(g, k, TRUE)
    <2>1. up <=> \E x, y \in Points : Same(x, y, k) /\ x[k] /\ ~y[k] /\ x \in g /\ y \notin g
        BY RisingPairs
    <2> HIDE DEF up
    <2>2. up <=> \E x, y \in Points :
              Alike(x, y, o, k) /\ x[k] /\ ~y[k] /\ x \in g /\ y \notin g
        BY <1>1, <1>2, <1>3, <2>1
    <2> QED
        BY <2>2 DEF up
<1>6. May(g, k, FALSE) <=> \E x, y \in Points :
         Alike(x, y, o, k) /\ ~x[k] /\ y[k] /\ x \in g /\ y \notin g
    <2> DEFINE down == May(g, k, FALSE)
    <2>1. down <=> \E x, y \in Points : Same(x, y, k) /\ ~x[k] /\ y[k] /\ x \in g /\ y \notin g
        BY FallingPairs
    <2> HIDE DEF down
    <2>2. down <=> \E x, y \in Points :
              Alike(x, y, o, k) /\ ~x[k] /\ y[k] /\ x \in g /\ y \notin g
        BY <1>1, <1>2, <1>3, <2>1
    <2> QED
        BY <2>2 DEF down
<1> QED
    BY <1>4, <1>5, <1>6 DEF g

(* unateness_single_output *)
LEMMA ConeIsRight ==
    ASSUME ConesHold, NEW o \in Outputs, cone[o] \subseteq Inputs, NEW k \in Inputs
    PROVE  Bits(o, k, IF k \in cone[o] THEN ConeKind(o, k) ELSE {0, 1})
<1> DEFINE g == function[o]
           differ == Lit("eq", k, FALSE)
           E == Equal(cone[o] \ {k}) \cup {differ}
           D == Differ(k, TRUE)
           F == Differ(k, FALSE)
           yes == Lit("dep", o, TRUE)
           no == Lit("unate", o, FALSE)
           dep == E \cup {yes}
           neg == E \cup D \cup {no}
           pos_ == E \cup F \cup {no}
<1>1. ConeKind(o, k) = Kind(dep, neg, pos_)
    BY DEF ConeKind
<1>2. \A x, y : (\A l \in E : Holds(l, x, y)) <=> Alike(x, y, o, k)
    <2>1. \A x, y : (\A l \in Equal(cone[o] \ {k}) : Holds(l, x, y)) <=>
                        \A l \in cone[o] \ {k} : x[l] = y[l]
        BY EqualsHold
    <2>2. \A x, y : Holds(differ, x, y) <=> x[k] # y[k]
        BY EqualHolds
    <2> DEFINE rest == Equal(cone[o] \ {k})
    <2>3. \A x, y : (\A l \in rest \cup {differ} : Holds(l, x, y)) <=>
                        (\A l \in rest : Holds(l, x, y)) /\ Holds(differ, x, y)
        OBVIOUS
    <2> HIDE DEF differ, rest
    <2>4. \A x, y : (\A l \in rest \cup {differ} : Holds(l, x, y)) <=> Alike(x, y, o, k)
        BY <2>1, <2>2, <2>3 DEF Alike, rest
    <2> QED
        BY <2>4 DEF rest
<1>3. \A x, y \in Points : /\ (\A l \in D : Holds(l, x, y)) <=> x[k] /\ ~y[k]
                           /\ (\A l \in F : Holds(l, x, y)) <=> ~x[k] /\ y[k]
    BY DiffersHold
<1>4. \A x, y : /\ Holds(yes, x, y) <=> (x \in g) # (y \in g)
                /\ Holds(no, x, y) <=> x \in g /\ y \notin g
    BY OutputHolds
<1> HIDE DEF E, D, F, yes, no
<1>5. Unsat(dep) <=> ~DependsOn(g, k)
    <2>0. \A x, y : (\A l \in dep : Holds(l, x, y)) <=>
                        (\A l \in E : Holds(l, x, y)) /\ Holds(yes, x, y)
        OBVIOUS
    <2>1. Unsat(dep) <=> ~\E x, y \in Points : /\ \A l \in E : Holds(l, x, y)
                                               /\ Holds(yes, x, y)
        BY <2>0, UnsatMeans
    <2> HIDE DEF dep
    <2>2. Unsat(dep) <=> ~\E x, y \in Points : Alike(x, y, o, k) /\ (x \in g) # (y \in g)
        BY <1>2, <1>4, <2>1
    <2> QED
        BY <2>2, ConeQuestion
<1>6. Unsat(neg) <=> ~May(g, k, TRUE)
    <2>1. Unsat(neg) <=> ~\E x, y \in Points : /\ \A l \in E : Holds(l, x, y)
                                               /\ \A l \in D : Holds(l, x, y)
                                               /\ Holds(no, x, y)
        BY QuestionMeans
    <2>2. Unsat(neg) <=> ~\E x, y \in Points :
              Alike(x, y, o, k) /\ x[k] /\ ~y[k] /\ x \in g /\ y \notin g
        BY <1>2, <1>3, <1>4, <2>1
    <2> HIDE DEF neg
    <2> QED
        BY <2>2, ConeQuestion
<1>7. Unsat(pos_) <=> ~May(g, k, FALSE)
    <2>1. Unsat(pos_) <=> ~\E x, y \in Points : /\ \A l \in E : Holds(l, x, y)
                                                /\ \A l \in F : Holds(l, x, y)
                                                /\ Holds(no, x, y)
        BY QuestionMeans
    <2>2. Unsat(pos_) <=> ~\E x, y \in Points :
              Alike(x, y, o, k) /\ ~x[k] /\ y[k] /\ x \in g /\ y \notin g
        BY <1>2, <1>3, <1>4, <2>1
    <2> HIDE DEF pos_
    <2> QED
        BY <2>2, ConeQuestion
<1>8. Bits(o, k, Kind(dep, neg, pos_))
    <2>1. Answers(o, k, dep, neg, pos_)
        BY <1>5, <1>6, <1>7 DEF Answers
    <2> HIDE DEF dep, neg, pos_
    <2> QED
        BY <2>1, KindIsRight
(* An input outside the cone changes nothing. *)
<1>9. ASSUME k \notin cone[o]
      PROVE  Bits(o, k, {0, 1})
    <2>1. \A x, y \in Points : Same(x, y, k) => (x \in g) = (y \in g)
        BY <1>9 DEF Same, ConesHold
    <2>2. ~DependsOn(g, k)
        BY <2>1, ChangingPairs
    <2> DEFINE up == May(g, k, TRUE)
               down == May(g, k, FALSE)
    <2>3. ~up /\ ~down
        BY <2>2, DependsMeans
    <2> QED
        BY <2>3 DEF Bits
<1> QED
    BY <1>1, <1>8, <1>9

(* unateness: the literals are in a vector. *)
Apart(k) == Lit("eq", k - 1, k # i + 1)

LEMMA ApartHolds ==
    ASSUME NEW x, NEW y, n \in Nat, i \in Nat, i \in Inputs
    PROVE  (\A k \in 1..n : Holds(Apart(k), x, y)) <=> Same(x, y, i) /\ x[i] # y[i]
<1>1. ASSUME NEW k \in 1..n
      PROVE  Holds(Apart(k), x, y) <=> (IF k = i + 1 THEN x[k - 1] # y[k - 1]
                                        ELSE x[k - 1] = y[k - 1])
    <2>1. CASE k = i + 1
        <3>1. (k # i + 1) = FALSE
            BY <2>1
        <3>2. Apart(k) = Lit("eq", k - 1, FALSE)
            BY <3>1 DEF Apart
        <3> QED
            BY <2>1, <3>2, EqualHolds, ZenonT(60)
    <2>2. CASE k # i + 1
        <3>1. (k # i + 1) = TRUE
            BY <2>2
        <3>2. Apart(k) = Lit("eq", k - 1, TRUE)
            BY <3>1 DEF Apart
        <3> QED
            BY <2>2, <3>2, EqualHolds
    <2> QED
        BY <2>1, <2>2
<1>2. ASSUME \A k \in 1..n : Holds(Apart(k), x, y)
      PROVE  Same(x, y, i) /\ x[i] # y[i]
    <2>1. ASSUME NEW l \in Inputs
          PROVE  IF l = i THEN x[l] # y[l] ELSE x[l] = y[l]
        <3>1. l + 1 \in 1..n /\ (l + 1) - 1 = l /\ (l + 1 = i + 1 <=> l = i)
            BY DEF Inputs
        <3>2. IF l + 1 = i + 1 THEN x[(l + 1) - 1] # y[(l + 1) - 1]
              ELSE x[(l + 1) - 1] = y[(l + 1) - 1]
            BY <1>1, <1>2, <3>1
        <3> QED
            BY <3>1, <3>2
    <2> QED
        BY <2>1 DEF Same
<1>3. ASSUME Same(x, y, i), x[i] # y[i], NEW k \in 1..n
      PROVE  Holds(Apart(k), x, y)
    <2>1. k - 1 \in Inputs /\ (k = i + 1 <=> k - 1 = i)
        BY DEF Inputs
    <2> QED
        BY <1>1, <1>3, <2>1 DEF Same
<1> QED
    BY <1>2, <1>3

(* The vectors of a pair, element by element. *)
Vectors(dep, neg, yes, no, up, low) ==
    /\ Len(dep) = n + 1 /\ dep[n + 1] = yes
    /\ \A k \in 1..n : dep[k] = Apart(k)
    /\ Len(neg) = n + 3 /\ DOMAIN neg = 1..n + 3
    /\ \A k \in 1..n : neg[k] = Apart(k)
    /\ neg[n + 1] = no /\ neg[n + 2] = up /\ neg[n + 3] = low

LEMMA PairVectors ==
    ASSUME IInv, InLoops, NEW yes, NEW no, NEW up, NEW low
    PROVE  Vectors(Append(Negated(assumptions, i + 1), yes),
                   Negated(assumptions, i + 1) \o <<no, up, low>>, yes, no, up, low)
<1> DEFINE differ == Negated(assumptions, i + 1)
           S == {Apart(k) : k \in 1..n} \cup {yes, no, up, low}
           tail == <<no, up, low>>
           dep == Append(differ, yes)
           neg == differ \o tail
<1>0. n \in Nat
    BY DimensionAssumption
<1>1. differ = [k \in 1..n |-> Apart(k)]
    BY Differing DEF Apart
<1> HIDE DEF differ
<1>2. differ \in Seq(S) /\ Len(differ) = n /\ \A k \in 1..n : differ[k] = Apart(k)
    BY <1>0, <1>1
<1>3. yes \in S /\ tail \in Seq(S) /\ Len(tail) = 3
      /\ tail[1] = no /\ tail[2] = up /\ tail[3] = low
    OBVIOUS
<1> HIDE DEF S, tail
<1>4. /\ Len(dep) = n + 1 /\ dep[n + 1] = yes
      /\ \A k \in 1..n : dep[k] = Apart(k)
    BY <1>0, <1>2, <1>3
<1>5. /\ neg \in Seq(S) /\ Len(neg) = n + 3
      /\ \A k \in 1..n + 3 : neg[k] = IF k <= n THEN differ[k] ELSE tail[k - n]
    <2>1. /\ neg \in Seq(S) /\ Len(neg) = Len(differ) + Len(tail)
          /\ \A k \in 1..Len(differ) + Len(tail) :
                neg[k] = IF k <= Len(differ) THEN differ[k] ELSE tail[k - Len(differ)]
        BY <1>2, <1>3, ConcatProperties, Zenon
    <2> HIDE DEF neg
    <2> QED
        BY <1>2, <1>3, <2>1
<1> HIDE DEF neg
<1>6. DOMAIN neg = 1..n + 3 /\ \A k \in 1..n : neg[k] = Apart(k)
    BY <1>0, <1>2, <1>5
<1>7. ASSUME NEW e \in 1..3
      PROVE  neg[n + e] = tail[e]
    <2>1. n + e \in 1..n + 3 /\ ~(n + e <= n) /\ (n + e) - n = e
        BY <1>0
    <2> QED
        BY <1>5, <2>1
<1>8. neg[n + 1] = no /\ neg[n + 2] = up /\ neg[n + 3] = low
    <2>1. neg[n + 1] = tail[1] /\ neg[n + 2] = tail[2] /\ neg[n + 3] = tail[3]
        BY <1>7
    <2> QED
        BY <1>3, <2>1
<1> QED
    BY <1>4, <1>5, <1>6, <1>8 DEF Vectors, differ, tail, neg

LEMMA LiteralsHold ==
    ASSUME NEW s, NEW x, NEW y
    PROVE  (\A l \in Literals(s) : Holds(l, x, y)) <=> \A k \in 1..Len(s) : Holds(s[k], x, y)
BY DEF Literals

LEMMA CheckIsRight ==
    ASSUME IInv, InLoops
    PROVE  LET differ == Negated(assumptions, i + 1)
               dep == Append(differ, Lit("dep", j, TRUE))
               neg == differ \o <<Lit("unate", j, FALSE), Lit("pi", i, TRUE), Lit("copy", i, FALSE)>>
               pos_ == Negated(Negated(neg, n + 2), n + 3)
           IN  Answers(j, i, Literals(dep), Literals(neg), Literals(pos_))
<1> DEFINE g == function[j]
           differ == Negated(assumptions, i + 1)
           yes == Lit("dep", j, TRUE)
           no == Lit("unate", j, FALSE)
           up == Lit("pi", i, TRUE)
           low == Lit("copy", i, FALSE)
           dep == Append(differ, yes)
           neg == differ \o <<no, up, low>>
           pos_ == Negated(Negated(neg, n + 2), n + 3)
<1>0. n \in Nat /\ i \in Nat /\ i \in Inputs
    BY DimensionAssumption DEF IInv, Types, InLoops, Inputs
<1>1. /\ Len(dep) = n + 1 /\ dep[n + 1] = yes
      /\ \A k \in 1..n : dep[k] = Apart(k)
      /\ Len(neg) = n + 3 /\ DOMAIN neg = 1..n + 3
      /\ \A k \in 1..n : neg[k] = Apart(k)
      /\ neg[n + 1] = no /\ neg[n + 2] = up /\ neg[n + 3] = low
    <2> HIDE DEF yes, no, up, low
    <2>1. Vectors(dep, neg, yes, no, up, low)
        BY PairVectors
    <2> QED
        BY <2>1 DEF Vectors
<1>2. /\ Len(pos_) = n + 3
      /\ \A k \in 1..n : pos_[k] = Apart(k)
      /\ pos_[n + 1] = no
      /\ pos_[n + 2] = Lit("pi", i, FALSE) /\ pos_[n + 3] = Lit("copy", i, TRUE)
    <2> DEFINE once == Negated(neg, n + 2)
    <2>1. once = [neg EXCEPT ![n + 2] = Lit(@.of, @.index, ~@.sign)]
        BY DEF Negated
    <2>2. pos_ = [once EXCEPT ![n + 3] = Lit(@.of, @.index, ~@.sign)]
        BY DEF Negated
    <2> DEFINE Neg(l) == Lit(l.of, l.index, ~l.sign)
               lo == Lit("pi", i, FALSE)
               hi == Lit("copy", i, TRUE)
    <2>3. Neg(up) = lo /\ Neg(low) = hi
        BY DEF Lit
    <2>a. n + 2 \in 1..n + 3 /\ n + 3 \in 1..n + 3 /\ n + 3 # n + 2
        BY <1>0
    <2>b. /\ DOMAIN once = DOMAIN neg
          /\ n + 2 \in DOMAIN neg => once[n + 2] = Neg(neg[n + 2])
          /\ \A k \in DOMAIN neg : k # n + 2 => once[k] = neg[k]
        BY <2>1
    <2>c. /\ DOMAIN pos_ = DOMAIN once
          /\ n + 3 \in DOMAIN once => pos_[n + 3] = Neg(once[n + 3])
          /\ \A k \in DOMAIN once : k # n + 3 => pos_[k] = once[k]
        BY <2>2
    <2> HIDE DEF neg, pos_, once, up, low, lo, hi, Neg
    <2>4. /\ DOMAIN once = 1..n + 3 /\ once[n + 2] = lo
          /\ \A k \in 1..n + 3 : k # n + 2 => once[k] = neg[k]
        BY <1>1, <2>3, <2>a, <2>b
    <2>5. /\ DOMAIN pos_ = 1..n + 3 /\ pos_[n + 3] = hi
          /\ \A k \in 1..n + 3 : k # n + 3 => pos_[k] = once[k]
        BY <1>1, <2>3, <2>4, <2>a, <2>c
    <2>6. Len(pos_) = n + 3
        <3>1. Len(once) = Len(neg)
            BY <2>1
        <3>2. Len(pos_) = Len(once)
            BY <2>2
        <3> QED
            BY <1>1, <3>1, <3>2
    <2>7. /\ \A k \in 1..n : k \in 1..n + 3 /\ k # n + 2 /\ k # n + 3
          /\ n + 1 \in 1..n + 3 /\ n + 1 # n + 2 /\ n + 1 # n + 3
        BY <1>0
    <2>8. /\ \A k \in 1..n : pos_[k] = Apart(k)
          /\ pos_[n + 1] = no /\ pos_[n + 2] = lo /\ pos_[n + 3] = hi
        BY <1>1, <2>4, <2>5, <2>7, <2>a
    <2> QED
        BY <2>6, <2>8 DEF lo, hi
<1> HIDE DEF dep, neg, pos_, yes, no, up, low
<1>3. ASSUME NEW s, Len(s) = n + 3, \A k \in 1..n : s[k] = Apart(k), NEW x, NEW y
      PROVE  (\A l \in Literals(s) : Holds(l, x, y)) <=>
                /\ Same(x, y, i) /\ x[i] # y[i]
                /\ Holds(s[n + 1], x, y) /\ Holds(s[n + 2], x, y) /\ Holds(s[n + 3], x, y)
    <2>1. (\A l \in Literals(s) : Holds(l, x, y)) <=> \A k \in 1..n + 3 : Holds(s[k], x, y)
        BY <1>3, LiteralsHold
    <2>2. (\A k \in 1..n + 3 : Holds(s[k], x, y)) <=>
                /\ \A k \in 1..n : Holds(s[k], x, y)
                /\ Holds(s[n + 1], x, y) /\ Holds(s[n + 2], x, y) /\ Holds(s[n + 3], x, y)
        BY <1>0
    <2>3. (\A k \in 1..n : Holds(s[k], x, y)) <=> \A k \in 1..n : Holds(Apart(k), x, y)
        BY <1>3
    <2> QED
        BY <1>0, <2>1, <2>2, <2>3, ApartHolds
<1>4. \A x, y : (\A l \in Literals(dep) : Holds(l, x, y)) <=>
                /\ Same(x, y, i) /\ x[i] # y[i]
                /\ (x \in g) # (y \in g)
    <2> SUFFICES ASSUME NEW x, NEW y
                 PROVE  (\A l \in Literals(dep) : Holds(l, x, y)) <=>
                            Same(x, y, i) /\ x[i] # y[i] /\ (x \in g) # (y \in g)
        OBVIOUS
    <2>1. (\A l \in Literals(dep) : Holds(l, x, y)) <=> \A k \in 1..n + 1 : Holds(dep[k], x, y)
        BY <1>1, LiteralsHold
    <2>2. (\A k \in 1..n + 1 : Holds(dep[k], x, y)) <=>
                (\A k \in 1..n : Holds(dep[k], x, y)) /\ Holds(dep[n + 1], x, y)
        BY <1>0
    <2>3. (\A k \in 1..n : Holds(dep[k], x, y)) <=> \A k \in 1..n : Holds(Apart(k), x, y)
        BY <1>1
    <2>4. Holds(dep[n + 1], x, y) <=> (x \in g) # (y \in g)
        <3>1. Holds(yes, x, y) <=> (x \in g) # (y \in g)
            BY OutputHolds DEF yes
        <3> QED
            BY <1>1, <3>1
    <2> QED
        BY <1>0, <2>1, <2>2, <2>3, <2>4, ApartHolds
<1>5. \A x, y \in Points : (\A l \in Literals(neg) : Holds(l, x, y)) <=>
                /\ Same(x, y, i) /\ x[i] # y[i]
                /\ x \in g /\ y \notin g /\ x[i] /\ ~y[i]
    <2>1. \A x, y : (\A l \in Literals(neg) : Holds(l, x, y)) <=>
                /\ Same(x, y, i) /\ x[i] # y[i]
                /\ Holds(no, x, y) /\ Holds(up, x, y) /\ Holds(low, x, y)
        BY <1>1, <1>3
    <2>2. \A x, y : Holds(no, x, y) <=> x \in g /\ y \notin g
        BY OutputHolds DEF no
    <2>3. \A x, y \in Points : (Holds(up, x, y) <=> x[i]) /\ (Holds(low, x, y) <=> ~y[i])
        BY <1>0, InputHolds DEF up, low
    <2> QED
        BY <2>1, <2>2, <2>3
<1>6. \A x, y \in Points : (\A l \in Literals(pos_) : Holds(l, x, y)) <=>
                /\ Same(x, y, i) /\ x[i] # y[i]
                /\ x \in g /\ y \notin g /\ ~x[i] /\ y[i]
    <2> DEFINE lo == Lit("pi", i, FALSE)
               hi == Lit("copy", i, TRUE)
    <2>1. \A x, y : (\A l \in Literals(pos_) : Holds(l, x, y)) <=>
                /\ Same(x, y, i) /\ x[i] # y[i]
                /\ Holds(no, x, y) /\ Holds(lo, x, y) /\ Holds(hi, x, y)
        <3>1. \A x, y : (\A l \in Literals(pos_) : Holds(l, x, y)) <=>
                /\ Same(x, y, i) /\ x[i] # y[i]
                /\ Holds(pos_[n + 1], x, y) /\ Holds(pos_[n + 2], x, y)
                /\ Holds(pos_[n + 3], x, y)
            BY <1>2, <1>3
        <3>2. pos_[n + 1] = no /\ pos_[n + 2] = lo /\ pos_[n + 3] = hi
            BY <1>2
        <3> HIDE DEF lo, hi
        <3> QED
            BY <3>1, <3>2
    <2>2. \A x, y : Holds(no, x, y) <=> x \in g /\ y \notin g
        BY OutputHolds DEF no
    <2>3. \A x, y \in Points : (Holds(lo, x, y) <=> ~x[i]) /\ (Holds(hi, x, y) <=> y[i])
        BY <1>0, InputHolds
    <2> HIDE DEF lo, hi
    <2> QED
        BY <2>1, <2>2, <2>3
<1> HIDE DEF g
<1>7. Unsat(Literals(dep)) <=> ~DependsOn(g, i)
    <2>1. Unsat(Literals(dep)) <=> ~\E x, y \in Points :
              Same(x, y, i) /\ x[i] # y[i] /\ (x \in g) # (y \in g)
        BY <1>4, UnsatMeans
    <2> QED
        BY <1>0, <2>1, ChangingPairs
<1>8. Unsat(Literals(neg)) <=> ~May(g, i, TRUE)
    <2>1. Unsat(Literals(neg)) <=> ~\E x, y \in Points : \A l \in Literals(neg) : Holds(l, x, y)
        BY UnsatMeans
    <2>2. Unsat(Literals(neg)) <=> ~\E x, y \in Points :
              Same(x, y, i) /\ x[i] /\ ~y[i] /\ x \in g /\ y \notin g
        BY <1>0, <1>5, <2>1, SameIsNeighbour
    <2> QED
        BY <1>0, <2>2, RisingPairs
<1>9. Unsat(Literals(pos_)) <=> ~May(g, i, FALSE)
    <2>1. Unsat(Literals(pos_)) <=> ~\E x, y \in Points : \A l \in Literals(pos_) : Holds(l, x, y)
        BY UnsatMeans
    <2>2. Unsat(Literals(pos_)) <=> ~\E x, y \in Points :
              Same(x, y, i) /\ ~x[i] /\ y[i] /\ x \in g /\ y \notin g
        BY <1>0, <1>6, <2>1, SameIsNeighbour
    <2> QED
        BY <1>0, <2>2, FallingPairs
<1> QED
    BY <1>7, <1>8, <1>9 DEF Answers, g, dep, neg, pos_, yes, no, up, low

-------------------------------------------------------------------------------
(* The bitset holds the right bits of the entries in D, and no others.       *)

Right(o, k) ==
    {b \in {0, 1} : IF b = 0 THEN ~May(function[o], k, TRUE) ELSE ~May(function[o], k, FALSE)}

Offset(o, k, b) == 2 * (o * n + k) + b

Filled(r, D) ==
    \A o \in Outputs, k \in Inputs, b \in {0, 1} :
        Offset(o, k, b) \in r <=> <<o, k>> \in D /\ b \in Right(o, k)

Settled == {e \in Outputs \X Inputs : Done(e[1], e[2])}

LEMMA BitsAreRight ==
    ASSUME NEW o, NEW k, NEW bits, Bits(o, k, bits)
    PROVE  bits = Right(o, k)
<1> DEFINE up == May(function[o], k, TRUE)
           down == May(function[o], k, FALSE)
<1>1. bits \subseteq {0, 1} /\ (0 \in bits <=> ~up) /\ (1 \in bits <=> ~down)
    BY DEF Bits
<1>2. Right(o, k) = {b \in {0, 1} : IF b = 0 THEN ~up ELSE ~down}
    BY DEF Right
<1> HIDE DEF up, down
<1> QED
    BY <1>1, <1>2

LEMMA OffsetInjective ==
    ASSUME NEW o \in Outputs, NEW k \in Inputs, NEW b \in {0, 1},
           NEW q \in Outputs, NEW l \in Inputs, NEW c \in {0, 1},
           Offset(o, k, b) = Offset(q, l, c)
    PROVE  o = q /\ k = l /\ b = c
<1>0. n \in Nat /\ o \in Nat /\ q \in Nat /\ k \in 0..n - 1 /\ l \in 0..n - 1
    BY DimensionAssumption DEF Outputs, Inputs
<1> DEFINE e == o * n + k
           f == q * n + l
<1>1. e \in Int /\ f \in Int
    BY <1>0
<1>2. 2 * e + b = 2 * f + c
    BY DEF Offset
<1>3. e = f /\ b = c
    <2> HIDE DEF e, f
    <2> QED
        BY <1>1, <1>2
<1> QED
    BY <1>0, <1>3, IndexInjective

LEMMA FilledUnion ==
    ASSUME NEW r, NEW D, NEW s, NEW E, Filled(r, D), Filled(s, E)
    PROVE  Filled(r \cup s, D \cup E)
BY DEF Filled

(* The bits of one entry. *)
LEMMA EntryFills ==
    ASSUME NEW o \in Outputs, NEW k \in Inputs
    PROVE  Filled(At(2 * (o * n + k), Right(o, k)), {<<o, k>>})
<1> DEFINE A == At(2 * (o * n + k), Right(o, k))
<1>1. A = {Offset(o, k, b) : b \in Right(o, k)}
    BY DEF At, Offset
<1>2. \A b \in Right(o, k) : b \in {0, 1}
    BY DEF Right
<1> SUFFICES ASSUME NEW q \in Outputs, NEW l \in Inputs, NEW c \in {0, 1}
             PROVE  Offset(q, l, c) \in A <=> <<q, l>> \in {<<o, k>>} /\ c \in Right(q, l)
    BY DEF Filled
<1>3. ASSUME Offset(q, l, c) \in A
      PROVE  q = o /\ l = k /\ c \in Right(o, k)
    <2>1. PICK b \in Right(o, k) : Offset(q, l, c) = Offset(o, k, b)
        BY <1>1, <1>3
    <2> QED
        BY <1>2, <2>1, OffsetInjective
<1>4. ASSUME q = o, l = k, c \in Right(o, k)
      PROVE  Offset(q, l, c) \in A
    BY <1>1, <1>4
<1> HIDE DEF A
<1>5. <<q, l>> \in {<<o, k>>} <=> q = o /\ l = k
    OBVIOUS
<1> QED
    BY <1>3, <1>4, <1>5

(* Those of a row. *)
LEMMA RowFills ==
    ASSUME ConesHold, cone \in [Outputs -> SUBSET Inputs], NEW o \in Outputs
    PROVE  Filled(At(o * n * 2, OutputRow(o)), {o} \X Inputs)
<1> DEFINE A == At(o * n * 2, OutputRow(o))
           K(k) == IF k \in cone[o] THEN ConeKind(o, k) ELSE {0, 1}
<1>0. n \in Nat /\ o \in Nat /\ o * n \in Nat /\ Inputs \subseteq Nat
    BY DimensionAssumption DEF Outputs, Inputs
<1>1. \A k \in Inputs : K(k) = Right(o, k)
    <2>1. cone[o] \subseteq Inputs
        OBVIOUS
    <2> QED
        BY <2>1, ConeIsRight, BitsAreRight
<1>2. OutputRow(o) = UNION {At(2 * k, K(k)) : k \in Inputs}
    BY DEF OutputRow
<1> HIDE DEF K
<1>3. OutputRow(o) = UNION {At(2 * k, Right(o, k)) : k \in Inputs}
    BY <1>1, <1>2
<1>4. \A k \in Inputs, b \in {0, 1} : o * n * 2 + (2 * k + b) = Offset(o, k, b)
    <2>1. \A a \in Nat, k \in Nat, b \in {0, 1} : a * 2 + (2 * k + b) = 2 * (a + k) + b
        OBVIOUS
    <2> QED
        BY <1>0, <2>1 DEF Offset
<1>5. \A e : e \in A <=> \E k \in Inputs : \E b \in Right(o, k) : e = Offset(o, k, b)
    <2>1. \A e : e \in OutputRow(o) <=> \E k \in Inputs : \E b \in Right(o, k) : e = 2 * k + b
        BY <1>3 DEF At
    <2>2. \A e : e \in A <=> \E f \in OutputRow(o) : e = o * n * 2 + f
        BY DEF At
    <2> HIDE DEF A
    <2>3. \A e : e \in A <=> \E k \in Inputs : \E b \in Right(o, k) :
                                e = o * n * 2 + (2 * k + b)
        BY <2>1, <2>2
    <2> DEFINE Place(k, b) == o * n * 2 + (2 * k + b)
    <2>4. \A k \in Inputs : \A b \in Right(o, k) : Place(k, b) = Offset(o, k, b)
        BY <1>4 DEF Right
    <2>5. \A e : e \in A <=> \E k \in Inputs : \E b \in Right(o, k) : e = Place(k, b)
        BY <2>3
    <2> HIDE DEF Place
    <2> QED
        BY <2>4, <2>5
<1> HIDE DEF A
<1> SUFFICES ASSUME NEW q \in Outputs, NEW l \in Inputs, NEW c \in {0, 1}
             PROVE  Offset(q, l, c) \in A <=> <<q, l>> \in {o} \X Inputs /\ c \in Right(q, l)
    BY DEF Filled, A
<1>6. ASSUME Offset(q, l, c) \in A
      PROVE  q = o /\ c \in Right(o, l)
    <2>1. PICK k \in Inputs, b \in {0, 1} : b \in Right(o, k) /\ Offset(q, l, c) = Offset(o, k, b)
        BY <1>5, <1>6 DEF Right
    <2> QED
        BY <2>1, OffsetInjective
<1>7. ASSUME q = o, c \in Right(o, l)
      PROVE  Offset(q, l, c) \in A
    BY <1>5, <1>7
<1>8. <<q, l>> \in {o} \X Inputs <=> q = o
    OBVIOUS
<1> QED
    BY <1>6, <1>7, <1>8

(* Those of a column. *)
LEMMA ColumnFills ==
    ASSUME NEW k \in Inputs
    PROVE  Filled(InputColumn(k), Outputs \X {k})
<1> DEFINE A == InputColumn(k)
<1>0. n \in Nat /\ k \in Nat /\ Outputs \subseteq Nat
    BY DimensionAssumption DEF Outputs, Inputs
<1>1. \A o \in Outputs : CofactorKind(o, k) = Right(o, k)
    BY CofactorIsRight, BitsAreRight
<1>2. A = UNION {At(2 * k + o * 2 * n, Right(o, k)) : o \in Outputs}
    BY <1>1 DEF InputColumn
<1>3. \A o \in Outputs, b \in {0, 1} : 2 * k + o * 2 * n + b = Offset(o, k, b)
    <2>1. ASSUME NEW o \in Outputs
          PROVE  o * n \in Nat /\ o * 2 * n = 2 * (o * n)
        BY <1>0
    <2>2. \A a \in Nat, b \in {0, 1} : 2 * k + 2 * a + b = 2 * (a + k) + b
        BY <1>0
    <2> QED
        BY <1>0, <2>1, <2>2 DEF Offset
<1> HIDE DEF A
<1>4. \A e : e \in A <=> \E o \in Outputs : \E b \in Right(o, k) : e = Offset(o, k, b)
    <2>1. \A e : e \in A <=> \E o \in Outputs : \E b \in Right(o, k) : e = 2 * k + o * 2 * n + b
        BY <1>2 DEF At
    <2>2. \A o : Right(o, k) \subseteq {0, 1}
        BY DEF Right
    <2> QED
        BY <1>3, <2>1, <2>2
<1> SUFFICES ASSUME NEW q \in Outputs, NEW l \in Inputs, NEW c \in {0, 1}
             PROVE  Offset(q, l, c) \in A <=> <<q, l>> \in Outputs \X {k} /\ c \in Right(q, l)
    BY DEF Filled, A
<1>5. ASSUME Offset(q, l, c) \in A
      PROVE  l = k /\ c \in Right(q, k)
    <2>1. PICK o \in Outputs, b \in {0, 1} : b \in Right(o, k) /\ Offset(q, l, c) = Offset(o, k, b)
        BY <1>4, <1>5 DEF Right
    <2> QED
        BY <2>1, OffsetInjective
<1>6. ASSUME l = k, c \in Right(q, k)
      PROVE  Offset(q, l, c) \in A
    BY <1>4, <1>6
<1>7. <<q, l>> \in Outputs \X {k} <=> l = k
    OBVIOUS
<1> QED
    BY <1>5, <1>6, <1>7

-------------------------------------------------------------------------------
LEMMA FilledMeans == FilledIn <=> Filled(result, Settled)
<1>1. ASSUME NEW o \in Outputs, NEW k \in Inputs
      PROVE  /\ 0 \in Right(o, k) <=> ~May(function[o], k, TRUE)
             /\ 1 \in Right(o, k) <=> ~May(function[o], k, FALSE)
             /\ Offset(o, k, 0) = 2 * (o * n + k) /\ Offset(o, k, 1) = 2 * (o * n + k) + 1
             /\ <<o, k>> \in Settled <=> Done(o, k)
    <2> DEFINE up == May(function[o], k, TRUE)
               down == May(function[o], k, FALSE)
    <2>1. Right(o, k) = {b \in {0, 1} : IF b = 0 THEN ~up ELSE ~down}
        BY DEF Right
    <2> HIDE DEF up, down
    <2>2. (0 \in Right(o, k) <=> ~up) /\ (1 \in Right(o, k) <=> ~down)
        BY <2>1
    <2>3. 2 * (o * n + k) \in Int
        BY DimensionAssumption DEF Outputs, Inputs
    <2>4. Offset(o, k, 0) = 2 * (o * n + k) /\ Offset(o, k, 1) = 2 * (o * n + k) + 1
        BY <2>3 DEF Offset
    <2>5. <<o, k>> \in Settled <=> Done(o, k)
        BY DEF Settled
    <2> QED
        BY <2>2, <2>4, <2>5 DEF up, down
<1> DEFINE M(o, k) == /\ Offset(o, k, 0) \in result <=> <<o, k>> \in Settled /\ 0 \in Right(o, k)
                      /\ Offset(o, k, 1) \in result <=> <<o, k>> \in Settled /\ 1 \in Right(o, k)
<1>2. FilledIn <=> \A o \in Outputs, k \in Inputs : M(o, k)
    <2>1. ASSUME NEW o \in Outputs, NEW k \in Inputs
          PROVE  M(o, k) <=>
                    /\ 2 * (o * n + k) \in result <=> Done(o, k) /\ ~May(function[o], k, TRUE)
                    /\ 2 * (o * n + k) + 1 \in result <=> Done(o, k) /\ ~May(function[o], k, FALSE)
        <3> DEFINE up == May(function[o], k, TRUE)
                   down == May(function[o], k, FALSE)
                   p == 2 * (o * n + k)
        <3>1. /\ 0 \in Right(o, k) <=> ~up
              /\ 1 \in Right(o, k) <=> ~down
              /\ Offset(o, k, 0) = p /\ Offset(o, k, 1) = p + 1
              /\ <<o, k>> \in Settled <=> Done(o, k)
            BY <1>1
        <3> HIDE DEF up, down, p
        <3>2. M(o, k) <=> /\ p \in result <=> Done(o, k) /\ ~up
                          /\ p + 1 \in result <=> Done(o, k) /\ ~down
            BY <3>1
        <3> QED
            BY <3>2 DEF up, down, p
    <2> HIDE DEF M
    <2> QED
        BY <2>1 DEF FilledIn
<1>3. Filled(result, Settled) <=> \A o \in Outputs, k \in Inputs : M(o, k)
    BY DEF Filled
<1> QED
    BY <1>2, <1>3

LEMMA FilledStays ==
    ASSUME UNCHANGED config, Filled(result', Settled')
    PROVE  FilledIn'
<1>1. FilledIn' <=> Filled(result, Settled)'
    BY FilledMeans, PTL
<1>2. \A o, k : Right(o, k)' = Right(o, k)
    BY DEF Right, May, config
<1>3. Filled(result, Settled)' <=> Filled(result', Settled')
    BY <1>2 DEF Filled, Offset
<1> QED
    BY <1>1, <1>3

LEMMA InitMatrix == Init => MInv
<1> SUFFICES ASSUME Init PROVE MInv
    OBVIOUS
<1>1. IInv
    BY InitInv
<1>2. cone \in [Outputs -> SUBSET Inputs] /\ ConesHold
    BY DEF Init, ConesHold
<1>3. Positions
    <2>1. n \in Nat
        BY DimensionAssumption
    <2> QED
        BY <2>1 DEF Init, Positions
<1>4. Accepted
    BY DEF Init, Pool!AInit, Accepted, Tasks, Inputs, Outputs
<1>5. FilledIn
    <2>1. \A o \in Outputs, k \in Inputs : ~Done(o, k)
        BY DimensionAssumption DEF Init, Pool!AInit, Done, Inputs, Outputs
    <2> QED
        BY <2>1 DEF FilledIn, Init
<1> QED
    BY <1>1, <1>2, <1>3, <1>4, <1>5 DEF MInv

(* After a pair the next one is at the loops' and the bitset's position.     *)
LEMMA Advanced ==
    ASSUME MInv, InLoops, Advance, ~Parallel, approach # "split", UNCHANGED config
    PROVE  /\ Positions'
           /\ pos = 2 * (j * n + i) /\ j \in Outputs /\ i \in Inputs
           /\ Settled' = Settled \cup {<<j, i>>}
<1>1. /\ n \in Nat /\ n > 0 /\ m \in Nat /\ i \in Nat /\ j \in Nat /\ i < n /\ j < m
      /\ pos = 2 * (j * n + i)
    BY DimensionAssumption DEF MInv, IInv, Types, InLoops, Positions
<1>2. /\ i' = IF i + 1 = n THEN 0 ELSE i + 1
      /\ j' = IF i + 1 = n THEN j + 1 ELSE j
      /\ pos' = pos + 2
    BY <1>1 DEF Advance
<1>3. j' * n + i' = j * n + i + 1
    <2>1. j * n \in Nat /\ (j + 1) * n = j * n + n
        BY <1>1
    <2> QED
        BY <1>1, <1>2, <2>1
<1>4. pos' = 2 * (j' * n + i')
    <2>1. j * n \in Nat
        BY <1>1
    <2> QED
        BY <1>1, <1>2, <1>3, <2>1
<1>5. ~Parallel' /\ approach' = approach
    BY DEF Parallel, config
<1>6. Positions'
    BY <1>4, <1>5 DEF Positions
<1>7. j \in Outputs /\ i \in Inputs
    BY <1>1 DEF Outputs, Inputs
<1>8. ASSUME NEW o \in Outputs, NEW k \in Inputs
      PROVE  Done(o, k)' <=> Done(o, k) \/ (o = j /\ k = i)
    <2>1. Done(o, k)' <=> o < j' \/ (o = j' /\ k < i')
        BY <1>5 DEF Done
    <2>2. Done(o, k) <=> o < j \/ (o = j /\ k < i)
        BY DEF Done
    <2>3. o \in Int /\ k \in 0..n - 1
        BY DEF Outputs, Inputs
    <2> QED
        BY <1>1, <1>2, <2>1, <2>2, <2>3
<1>9. Settled' = Settled \cup {<<j, i>>}
    BY <1>7, <1>8 DEF Settled
<1> QED
    BY <1>1, <1>6, <1>7, <1>9

(* The same for a row of approach "split". *)
LEMMA RowAdvanced ==
    ASSUME MInv, Split
    PROVE  /\ Positions'
           /\ pos = j * n * 2 /\ j \in Outputs
           /\ Settled' = Settled \cup ({j} \X Inputs)
<1>1. /\ n \in Nat /\ m \in Nat /\ j \in Nat /\ j < m
      /\ i = 0 /\ pos = 2 * (j * n + i) /\ ~Parallel
    BY DimensionAssumption DEF MInv, IInv, Types, Split, Positions, Parallel
<1>2. i' = 0 /\ j' = j + 1 /\ pos' = pos + 2 * n /\ approach' = approach /\ approach = "split"
    BY <1>1 DEF Split, config
<1>3. j * n \in Nat /\ (j + 1) * n = j * n + n
    BY <1>1
<1>4. pos = j * n * 2 /\ pos' = 2 * (j' * n + i')
    BY <1>1, <1>2, <1>3
<1>5. ~Parallel'
    BY <1>1, <1>2 DEF Parallel
<1>6. Positions'
    BY <1>2, <1>4 DEF Positions
<1>7. j \in Outputs
    BY <1>1 DEF Outputs
<1>8. ASSUME NEW o \in Outputs, NEW k \in Inputs
      PROVE  Done(o, k)' <=> Done(o, k) \/ o = j
    <2>1. Done(o, k)' <=> o < j' \/ (o = j' /\ k < i')
        BY <1>5 DEF Done
    <2>2. Done(o, k) <=> o < j \/ (o = j /\ k < i)
        BY <1>1 DEF Done
    <2>3. o \in Int /\ k \in 0..n - 1
        BY DEF Outputs, Inputs
    <2> QED
        BY <1>1, <1>2, <2>1, <2>2, <2>3
<1>9. Settled' = Settled \cup ({j} \X Inputs)
    BY <1>7, <1>8 DEF Settled
<1> QED
    BY <1>4, <1>6, <1>7, <1>9

(* What the three answers of a pair say, with the skip list or without.      *)
LEMMA CheckBits ==
    ASSUME IInv, InLoops,
           NEW skipped \in BOOLEAN, skipped => j * n + i \in can_skip,
           NEW dep, NEW neg, NEW pos_, Answers(j, i, dep, neg, pos_)
    PROVE  (IF ~skipped /\ Unsat(dep) THEN {0, 1} ELSE Polarity(neg, pos_)) = Right(j, i)
<1>0. j \in Outputs /\ i \in Inputs
    BY DimensionAssumption DEF IInv, Types, InLoops, Inputs, Outputs
<1>1. /\ Bits(j, i, Kind(dep, neg, pos_))
      /\ DependsOn(function[j], i) => Bits(j, i, Polarity(neg, pos_))
    BY <1>0, KindIsRight
<1>2. CASE skipped
    <2>1. DependsOn(function[j], i)
        BY <1>0, <1>2 DEF IInv, SkipsAreDependent
    <2> QED
        BY <1>1, <1>2, <2>1, BitsAreRight
<1>3. CASE ~skipped
    BY <1>1, <1>3, BitsAreRight DEF Kind
<1> QED
    BY <1>2, <1>3

LEMMA CheckWrites ==
    ASSUME IInv, Check
    PROVE  result' = result \cup At(pos, Right(j, i))
<1> DEFINE differ == Negated(assumptions, i + 1)
           dep == Append(differ, Lit("dep", j, TRUE))
           neg == differ \o <<Lit("unate", j, FALSE), Lit("pi", i, TRUE), Lit("copy", i, FALSE)>>
           pos_ == Negated(Negated(neg, n + 2), n + 3)
           skipped == skiplist /\ j * n + i \in can_skip
           bits == IF ~skipped /\ Unsat(Literals(dep)) THEN {0, 1}
                   ELSE Polarity(Literals(neg), Literals(pos_))
<1>1. InLoops /\ result' = result \cup At(pos, bits)
    BY DEF Check
<1>2. Answers(j, i, Literals(dep), Literals(neg), Literals(pos_))
    BY <1>1, CheckIsRight
<1>3. skipped \in BOOLEAN /\ (skipped => j * n + i \in can_skip)
    BY DEF IInv, Types
<1> HIDE DEF skipped, dep, neg, pos_
<1>4. bits = Right(j, i)
    BY <1>1, <1>2, <1>3, CheckBits
<1> QED
    BY <1>1, <1>4

(* One process: the entries are settled one by one, or row by row.           *)
LEMMA SequentialMatrix ==
    ASSUME MInv, Naive \/ Check \/ Split
    PROVE  Positions' /\ Accepted' /\ FilledIn'
<1>1. UNCHANGED config /\ ~Parallel /\ ~Parallel'
    BY DEF Naive, Check, Split, Parallel, config
<1>2. Accepted'
    BY <1>1 DEF Accepted
<1>3. Filled(result, Settled)
    BY FilledMeans DEF MInv
<1>4. CASE Naive \/ Check
    <2>1. InLoops /\ Advance /\ approach # "split"
        BY <1>4 DEF Naive, Check
    <2>2. /\ Positions' /\ pos = 2 * (j * n + i) /\ j \in Outputs /\ i \in Inputs
          /\ Settled' = Settled \cup {<<j, i>>}
        BY <1>1, <2>1, Advanced
    <2>3. result' = result \cup At(pos, Right(j, i))
        <3>1. CASE Naive
            <4>1. NaiveKind(j, i) = Right(j, i)
                BY <2>2, NaiveIsRight, BitsAreRight
            <4> QED
                BY <3>1, <4>1 DEF Naive
        <3>2. CASE Check
            BY <3>2, CheckWrites DEF MInv
        <3> QED
            BY <1>4, <3>1, <3>2
    <2>4. Filled(result', Settled')
        BY <1>3, <2>2, <2>3, EntryFills, FilledUnion
    <2> QED
        BY <1>1, <1>2, <2>2, <2>4, FilledStays
<1>5. CASE Split
    <2>1. /\ Positions' /\ pos = j * n * 2 /\ j \in Outputs
          /\ Settled' = Settled \cup ({j} \X Inputs)
        BY <1>5, RowAdvanced
    <2>2. result' = result \cup At(pos, OutputRow(j))
        BY <1>5 DEF Split
    <2>3. Filled(At(j * n * 2, OutputRow(j)), {j} \X Inputs)
        BY <2>1, RowFills DEF MInv
    <2>4. Filled(result', Settled')
        BY <1>3, <2>1, <2>2, <2>3, FilledUnion
    <2> QED
        BY <1>1, <1>2, <2>1, <2>4, FilledStays
<1> QED
    BY <1>4, <1>5

(* The caller of the pool, and a task that does not write.                   *)
LEMMA PoolMatrix ==
    ASSUME MInv, Enqueue \/ LeaveScope \/ \E t \in Tasks : Start(t) \/ Read(t)
    PROVE  Positions' /\ Accepted' /\ FilledIn'
<1>1. UNCHANGED config /\ result' = result /\ finished' = finished
    BY DEF Enqueue, LeaveScope, Start, Read, config, pool,
           Pool!Accept, Pool!BeginClose, Pool!EndClose, Pool!Start
<1>2. Parallel
    <2>1. CASE \E t \in Tasks : Read(t)
        BY <2>1 DEF Read, MInv, IInv, Stages
    <2> QED
        BY <2>1 DEF Enqueue, LeaveScope, Start
<1>3. Parallel' /\ Tasks' = Tasks
    BY <1>1, <1>2 DEF Parallel, Tasks, config
<1>4. Positions'
    BY <1>3 DEF Positions
<1>5. Accepted'
    <2>0. /\ pending \cup active \cup finished = {t \in Tasks : t < j}
          /\ phase # "open" => j \notin Tasks
          /\ phase = "closed" => pending = {} /\ active = {}
          /\ j \in Nat /\ Tasks \subseteq Int
        BY <1>2 DEF MInv, IInv, Types, Accepted, Tasks, Inputs, Outputs
    <2>1. CASE Enqueue
        <3>1. phase = "open" /\ phase' = phase /\ j' = j + 1 /\ j \in Tasks
              /\ pending' = pending \cup {j} /\ active' = active /\ finished' = finished
            BY <2>1 DEF Enqueue, Pool!Accept
        <3>2. \A t \in Tasks : t < j + 1 <=> t < j \/ t = j
            BY <2>0
        <3>3. {t \in Tasks : t < j + 1} = {t \in Tasks : t < j} \cup {j}
            BY <3>1, <3>2
        <3>4. pending' \cup active' \cup finished' = {t \in Tasks : t < j'}
            BY <2>0, <3>1, <3>3
        <3> QED
            BY <1>3, <3>1, <3>4 DEF Accepted
    <2>2. CASE LeaveScope
        <3>1. j' = j /\ j \notin Tasks
              /\ pending' = pending /\ active' = active /\ finished' = finished
            BY <2>2 DEF LeaveScope, Pool!BeginClose, Pool!EndClose
        <3>2. phase' = "closed" => pending = {} /\ active = {}
            BY <2>2 DEF LeaveScope, Pool!BeginClose, Pool!EndClose
        <3> QED
            BY <1>3, <2>0, <3>1, <3>2 DEF Accepted
    <2>3. CASE \E t \in Tasks : Start(t)
        <3>1. PICK t \in Tasks : Start(t)
            BY <2>3
        <3>2. /\ j' = j /\ phase' = phase /\ t \in pending
              /\ pending' = pending \ {t} /\ active' = active \cup {t} /\ finished' = finished
            BY <3>1 DEF Start, Pool!Start
        <3> QED
            BY <1>3, <2>0, <3>2 DEF Accepted
    <2>4. CASE \E t \in Tasks : Read(t)
        BY <1>3, <2>0, <2>4 DEF Read, Accepted, pool
    <2> QED
        BY <2>1, <2>2, <2>3, <2>4
<1>6. Settled' = Settled
    BY <1>1, <1>2, <1>3 DEF Settled, Done, config
<1>7. Filled(result', Settled')
    <2>1. Filled(result, Settled)
        BY FilledMeans DEF MInv
    <2> QED
        BY <1>1, <1>6, <2>1
<1> QED
    BY <1>1, <1>4, <1>5, <1>7, FilledStays

(* A task adds its row, or its column, to what the others have written.      *)
LEMMA WriteFills ==
    ASSUME MInv, NEW t \in Tasks, Write(t)
    PROVE  Filled(result', Settled')
<1> DEFINE split == approach = "split_parallel"
           Task(o, k) == IF split THEN o ELSE k
<1>0. n \in Nat /\ m \in Nat
    BY DimensionAssumption
<1>1. /\ t \in active /\ t \notin finished /\ seen[t] = result /\ Parallel
      /\ UNCHANGED config /\ finished' = finished \cup {t} /\ result' = Written(t)
    BY DEF Write, Pool!End, MInv, IInv, OneWriter, Stages, config
<1>2. \A o \in Outputs, k \in Inputs :
        /\ <<o, k>> \in Settled <=> Task(o, k) \in finished
        /\ <<o, k>> \in Settled' <=> Task(o, k) \in finished \cup {t}
    BY <1>1 DEF Settled, Done, Parallel, config
<1>3. Filled(result, Settled)
    BY FilledMeans DEF MInv
<1> SUFFICES ASSUME NEW o \in Outputs, NEW k \in Inputs, NEW b \in {0, 1}
             PROVE  Offset(o, k, b) \in result' <=> <<o, k>> \in Settled' /\ b \in Right(o, k)
    BY DEF Filled
<1>4. Offset(o, k, b) \in Int
    BY <1>0 DEF Offset, Outputs, Inputs
<1>5. CASE Task(o, k) # t
    <2>1. Own(Task(o, k), Offset(o, k, b))
        BY DEF Own, Offset
    <2>2. ~Own(t, Offset(o, k, b))
        BY <1>4, <1>5, <2>1, OneOwner
    <2>3. Offset(o, k, b) \in Written(t) <=> Offset(o, k, b) \in seen[t]
        BY <1>4, <2>2, OwnEntries
    <2>4. <<o, k>> \in Settled' <=> <<o, k>> \in Settled
        BY <1>2, <1>5
    <2> QED
        BY <1>1, <1>3, <2>3, <2>4 DEF Filled
<1>6. CASE Task(o, k) = t
    <2>1. <<o, k>> \in Settled' /\ <<o, k>> \notin Settled
        BY <1>1, <1>2, <1>6
    <2>2. Offset(o, k, b) \notin result
        BY <1>3, <2>1 DEF Filled
    <2>3. CASE split
        <3>1. o = t /\ t \in Outputs
            BY <1>6, <2>3
        <3>2. Filled(At(t * n * 2, OutputRow(t)), {t} \X Inputs)
            BY <3>1, RowFills DEF MInv
        <3>3. Offset(o, k, b) \in At(t * n * 2, OutputRow(t)) <=> b \in Right(o, k)
            <4>1. <<o, k>> \in {t} \X Inputs
                BY <3>1
            <4> QED
                BY <3>2, <4>1 DEF Filled
        <3>4. Offset(o, k, b) \in Written(t) <=>
                    Offset(o, k, b) \in At(t * n * 2, OutputRow(t))
            BY <1>1, <2>2, <2>3 DEF Written
        <3> QED
            BY <1>1, <2>1, <3>3, <3>4
    <2>4. CASE ~split
        <3>1. k = t /\ t \in Inputs
            BY <1>6, <2>4
        <3>2. Offset(o, k, b) \in InputColumn(t) <=> b \in Right(o, k)
            <4>1. Filled(InputColumn(t), Outputs \X {t}) /\ <<o, k>> \in Outputs \X {t}
                BY <3>1, ColumnFills
            <4> QED
                BY <4>1 DEF Filled
        <3>3. Offset(o, k, b) \in Written(t) <=> Offset(o, k, b) \in InputColumn(t)
            BY <1>1, <2>2, <2>4 DEF Written
        <3> QED
            BY <1>1, <2>1, <3>2, <3>3
    <2> QED
        BY <2>3, <2>4
<1> QED
    BY <1>5, <1>6

LEMMA WriteMatrix ==
    ASSUME MInv, NEW t \in Tasks, Write(t)
    PROVE  Positions' /\ Accepted' /\ FilledIn'
<1>1. /\ UNCHANGED <<config, j>> /\ Parallel
      /\ t \in active /\ active' = active \ {t} /\ finished' = finished \cup {t}
      /\ pending' = pending /\ phase' = phase
    BY DEF Write, Pool!End, MInv, IInv, Stages
<1>2. Parallel' /\ Tasks' = Tasks
    BY <1>1 DEF Parallel, Tasks, config
<1>3. Positions'
    BY <1>2 DEF Positions
<1>4. Accepted'
    BY <1>1, <1>2 DEF MInv, Accepted
<1>5. FilledIn'
    BY <1>1, WriteFills, FilledStays
<1> QED
    BY <1>3, <1>4, <1>5

LEMMA StutterMatrix ==
    ASSUME MInv, UNCHANGED vars
    PROVE  Positions' /\ Accepted' /\ FilledIn'
<1>1. /\ UNCHANGED <<config, i, j, pos, result, pool>>
      /\ approach' = approach /\ phase' = phase /\ finished' = finished
    BY DEF vars, config, pool
<1>2. Positions' /\ Accepted'
    BY <1>1 DEF MInv, Positions, Accepted, Parallel, Tasks, pool
<1>3. Settled' = Settled
    BY <1>1 DEF Settled, Done, Parallel
<1>4. Filled(result', Settled')
    <2>1. Filled(result, Settled)
        BY FilledMeans DEF MInv
    <2> QED
        BY <1>1, <1>3, <2>1
<1> QED
    BY <1>1, <1>2, <1>4, FilledStays

LEMMA NextMatrix == MInv /\ [Next]_vars => MInv'
<1> SUFFICES ASSUME MInv, [Next]_vars
             PROVE  MInv'
    OBVIOUS
<1>1. IInv'
    BY NextInv DEF MInv
<1>2. UNCHANGED config
    BY DEF Next, Naive, Check, Split, Enqueue, LeaveScope, Start, Read, Write, vars
<1>3. cone' \in [Outputs -> SUBSET Inputs] /\ ConesHold'
    BY <1>2 DEF MInv, ConesHold, config
<1>4. Positions' /\ Accepted' /\ FilledIn'
    <2>1. CASE Naive \/ Check \/ Split
        BY <2>1, SequentialMatrix
    <2>2. CASE Enqueue \/ LeaveScope \/ \E t \in Tasks : Start(t) \/ Read(t)
        BY <2>2, PoolMatrix
    <2>3. CASE \E t \in Tasks : Write(t)
        BY <2>3, WriteMatrix
    <2>4. CASE UNCHANGED vars
        BY <2>4, StutterMatrix
    <2> QED
        BY <2>1, <2>2, <2>3, <2>4 DEF Next
<1> QED
    BY <1>1, <1>3, <1>4 DEF MInv

THEOREM MatrixInductive == Spec => []MInv
BY InitMatrix, NextMatrix, PTL DEF Spec

(* When the loops are over, or the pool is closed, every entry is settled.   *)
LEMMA ReturnedIsSettled ==
    ASSUME MInv, Returned, NEW o \in Outputs, NEW k \in Inputs
    PROVE  Done(o, k)
<1>0. n \in Nat /\ m \in Nat /\ n > 0 /\ j \in Nat /\ o \in 0..m - 1 /\ k \in 0..n - 1
    BY DimensionAssumption DEF MInv, IInv, Types, Outputs, Inputs
<1>1. CASE ~Parallel
    <2>1. j >= m
        BY <1>0, <1>1 DEF Returned, InLoops
    <2> QED
        BY <1>0, <1>1, <2>1 DEF Done
<1>2. CASE Parallel
    <2>1. finished = {t \in Tasks : t < j} /\ j \notin Tasks
        BY <1>2 DEF Returned, MInv, Accepted
    <2>2. \A t \in Tasks : t < j
        BY <1>0, <2>1 DEF Tasks, Inputs, Outputs
    <2> QED
        BY <1>2, <2>1, <2>2 DEF Done, Tasks
<1> QED
    BY <1>1, <1>2

(* Whatever approach is chosen, whatever models the solver returns and       *)
(* however the tasks of a pool interleave, the matrix that is returned says  *)
(* of every output and input the truth about the functions.                  *)
THEOREM MatrixIsRight == Spec => []MatrixIsCorrect
<1>1. ASSUME MInv
      PROVE  MatrixIsCorrect
    <2> SUFFICES ASSUME Returned, NEW o \in Outputs, NEW k \in Inputs
                 PROVE  Unate(o, k) = <<~May(function[o], k, TRUE), ~May(function[o], k, FALSE)>>
        BY DEF MatrixIsCorrect
    <2> DEFINE up == May(function[o], k, TRUE)
               down == May(function[o], k, FALSE)
    <2>1. Done(o, k)
        BY <1>1, ReturnedIsSettled
    <2>2. /\ 2 * (o * n + k) \in result <=> Done(o, k) /\ ~up
          /\ 2 * (o * n + k) + 1 \in result <=> Done(o, k) /\ ~down
        BY <1>1 DEF MInv, FilledIn
    <2>3. Unate(o, k) = <<2 * (o * n + k) \in result, 2 * (o * n + k) + 1 \in result>>
        BY DEF Unate
    <2> HIDE DEF up, down
    <2>4. /\ (2 * (o * n + k) \in result) = ~up
          /\ (2 * (o * n + k) + 1 \in result) = ~down
        BY <2>1, <2>2
    <2> QED
        BY <2>3, <2>4 DEF up, down
<1>2. MInv => MatrixIsCorrect
    BY <1>1
<1> QED
    BY <1>2, MatrixInductive, PTL
===============================================================================
