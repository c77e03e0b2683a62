------------------------------ MODULE BddManager ------------------------------
(***************************************************************************)
(* cirkit::bdd_manager (classical/dd/bdd.cpp): the operations on binary    *)
(* decision diagrams.  Each is a recursion that looks into the cache, calls *)
(* itself for the children, and enters nodes into the unique table; both    *)
(* tables outlive the call, so that an operation runs on what all earlier   *)
(* ones have left in them.  An operation is one step: nothing is concurrent. *)
(***************************************************************************)
EXTENDS DdManager, FiniteSets

CONSTANTS Ops,          \* the operations a run calls
          MaxOps        \* bound on the number of calls

VARIABLES mgr, calls

vars == <<mgr, calls>>

(* enum class bdd_operation: the third component of a cache key. *)
Code == [and |-> 0, or |-> 1, xor |-> 2, not |-> 3, cof0 |-> 4, cof1 |-> 5,
         exists |-> 6, constrain |-> 7, restrict |-> 8,
         round_down |-> 9, round_up |-> 10, round |-> 11]

ASSUME OpsAssumption == Ops \subseteq DOMAIN Code /\ MaxOps \in Nat

(* The two cofactors of f at a variable not below its own. *)
Low(m, f, v) == IF m.nodes[f].var = v THEN m.nodes[f].low ELSE f
High(m, f, v) == IF m.nodes[f].var = v THEN m.nodes[f].high ELSE f
Top(m, f, g) == IF m.nodes[f].var < m.nodes[g].var THEN m.nodes[f].var ELSE m.nodes[g].var

Create(lo, hi, v) == CreateBdd(hi.mgr, v, hi.index, lo.index)

(* Mutant: a result is entered under the operation it was copied from. *)
CachedAsOr(r, f, g, op) ==
    Result(CacheInsert(r.mgr, f, g, IF op = "xor" THEN Code.or ELSE Code[op], r.index), r.index)

Cached(r, f, g, op) == Result(CacheInsert(r.mgr, f, g, Code[op], r.index), r.index)

Only(set) == CHOOSE x \in set : TRUE

-------------------------------------------------------------------------------
(* bdd_and, bdd_or, bdd_xor *)

Stop(op, f, g) ==
    CASE op = "and" /\ (f = 0 \/ g = 0) -> {0}
      [] op = "and" /\ f = 1 /\ g # 0 -> {g}
      [] op = "and" /\ g = 1 /\ f # 0 -> {f}
      [] op \in {"or", "xor"} /\ f = 0 -> {g}
      [] op \in {"or", "xor"} /\ g = 0 -> {f}
      [] op = "or" /\ f # 0 /\ g # 0 /\ (f = 1 \/ g = 1) -> {1}
      [] op \in {"and", "or"} /\ f = g -> {f}
      [] op = "xor" /\ f = g -> {0}
      [] OTHER -> {}

RECURSIVE Apply(_, _, _, _)
Apply(op, m, f, g) ==
    IF Stop(op, f, g) # {} THEN Result(m, Only(Stop(op, f, g)))
    ELSE IF f > g THEN Apply(op, m, g, f)
    ELSE IF CacheLookup(m, f, g, Code[op]) # {}
    THEN Result(m, Only(CacheLookup(m, f, g, Code[op])))
    ELSE LET v == Top(m, f, g)
             lo == Apply(op, m, Low(m, f, v), Low(m, g, v))
             hi == Apply(op, lo.mgr, High(m, f, v), High(m, g, v))
         IN Cached(Create(lo, hi, v), f, g, op)

RECURSIVE Not(_, _)
Not(m, f) ==
    IF f <= 1 THEN Result(m, 1 - f)
    ELSE IF CacheLookup(m, f, f, Code.not) # {}
    THEN Result(m, Only(CacheLookup(m, f, f, Code.not)))
    ELSE LET lo == Not(m, m.nodes[f].low)
             hi == Not(lo.mgr, m.nodes[f].high)
         IN Cached(Create(lo, hi, m.nodes[f].var), f, f, "not")

-------------------------------------------------------------------------------
(* bdd_cof0, bdd_cof1: op says which. *)

RECURSIVE Cofactor(_, _, _, _)
Cofactor(op, m, f, v) ==
    IF f <= 1 \/ m.nodes[f].var > v THEN Result(m, f)
    ELSE IF CacheLookup(m, f, v, Code[op]) # {}
    THEN Result(m, Only(CacheLookup(m, f, v, Code[op])))
    ELSE LET lo == Cofactor(op, m, m.nodes[f].low, v)
             hi == Cofactor(op, lo.mgr, m.nodes[f].high, v)
             r == IF m.nodes[f].var < v THEN Create(lo, hi, m.nodes[f].var)
                  ELSE Result(m, IF op = "cof0" THEN m.nodes[f].low ELSE m.nodes[f].high)
         IN Cached(r, f, v, op)

(* g is a product of variables; each is followed along its high child. *)
RECURSIVE Exists(_, _, _)
Exists(m, f, g) ==
    LET v == m.nodes[f].var
        w == m.nodes[g].var
        rest == IF v = w THEN m.nodes[g].high ELSE g
    IN
    IF g = 1 \/ f <= 1 THEN Result(m, f)
    ELSE IF v > w THEN Exists(m, f, m.nodes[g].high)
    ELSE IF CacheLookup(m, f, g, Code.exists) # {}
    THEN Result(m, Only(CacheLookup(m, f, g, Code.exists)))
    ELSE LET lo == Exists(m, m.nodes[f].low, rest)
             hi == Exists(lo.mgr, m.nodes[f].high, rest)
             r == IF lo.index = 1 /\ v = w THEN lo
                  ELSE IF v < w THEN Create(lo, hi, v)
                  ELSE Apply("or", hi.mgr, lo.index, hi.index)
         IN Cached(r, f, g, "exists")

(* bdd_constrain, bdd_restrict.  The special case of restrict comes last, as *)
(* in the code.                                                              *)
RECURSIVE Simplify(_, _, _, _)
Simplify(op, m, f, g) ==
    LET v == Top(m, f, g)
        above == m.nodes[f].var < m.nodes[g].var
    IN
    IF g = 0 THEN Result(m, 0)
    ELSE IF g = 1 \/ f <= 1 THEN Result(m, f)
    ELSE IF f = g THEN Result(m, 1)
    ELSE IF CacheLookup(m, f, g, Code[op]) # {}
    THEN Result(m, Only(CacheLookup(m, f, g, Code[op])))
    ELSE LET lo == Simplify(op, m, Low(m, f, v), Low(m, g, v))
             hi == Simplify(op, lo.mgr, High(m, f, v), High(m, g, v))
             without == Exists(m, g, v + 2)
             r == IF ~above /\ m.nodes[g].low = 0
                  THEN Simplify(op, m, High(m, f, v), m.nodes[g].high)
                  ELSE IF ~above /\ m.nodes[g].high = 0
                  THEN Simplify(op, m, Low(m, f, v), m.nodes[g].low)
                  ELSE IF op = "restrict" /\ m.nodes[f].low = m.nodes[f].high
                  THEN Simplify(op, without.mgr, f, without.index)
                  ELSE Create(lo, hi, v)
         IN Cached(r, f, g, op)

-------------------------------------------------------------------------------
(* Rounding. *)

RECURSIVE Solutions(_, _)
(* count_solutions: the count c of a node over the variables from its own.  *)
Solutions(m, f) ==
    IF f <= 1 THEN f
    ELSE LET n == m.nodes[f] IN
         2 ^ (m.nodes[n.low].var - n.var - 1) * Solutions(m, n.low)
       + 2 ^ (m.nodes[n.high].var - n.var - 1) * Solutions(m, n.high)

(* bdd_round_to: from the level on only the branch with the larger count is *)
(* kept, the other becomes a constant.  One count_map serves the whole call. *)
RECURSIVE RoundTo(_, _, _, _)
RoundTo(op, m, f, level) ==
    LET n == m.nodes[f]
        constant == IF op = "round_up" THEN 1 ELSE 0
        heavy == Solutions(m, n.low) < Solutions(m, n.high)
    IN
    IF f <= 1 THEN Result(m, f)
    ELSE IF CacheLookup(m, f, level, Code[op]) # {}
    THEN Result(m, Only(CacheLookup(m, f, level, Code[op])))
    ELSE LET lo == IF n.var >= level /\ heavy THEN Result(m, constant)
                   ELSE RoundTo(op, m, n.low, level)
             hi == IF n.var >= level /\ ~heavy THEN Result(lo.mgr, constant)
                   ELSE RoundTo(op, lo.mgr, n.high, level)
         IN Cached(Create(lo, hi, n.var), f, level, op)

(* bdd_round: below the level a diagram becomes the constant of the majority. *)
RECURSIVE Round(_, _, _)
Round(m, f, level) ==
    LET n == m.nodes[f] IN
    IF f <= 1 THEN Result(m, f)
    ELSE IF CacheLookup(m, f, level, Code.round) # {}
    THEN Result(m, Only(CacheLookup(m, f, level, Code.round)))
    ELSE LET lo == Round(m, n.low, level)
             hi == Round(lo.mgr, n.high, level)
             r == IF n.var < level THEN Create(lo, hi, n.var)
                  ELSE Result(m, IF 2 * Solutions(m, f) > 2 ^ (nvars - n.var) THEN 1 ELSE 0)
         IN Cached(r, f, level, "round")

-------------------------------------------------------------------------------
Run(op, m, f, g) ==
    CASE op \in {"and", "or", "xor"} -> Apply(op, m, f, g)
      [] op = "not" -> Not(m, f)
      [] op \in {"cof0", "cof1"} -> Cofactor(op, m, f, g)
      [] op = "exists" -> Exists(m, f, g)
      [] op \in {"constrain", "restrict"} -> Simplify(op, m, f, g)
      [] op \in {"round_down", "round_up"} -> RoundTo(op, m, f, g)
      [] op = "round" -> Round(m, f, g)

(* Products of variables, what exists takes as its second operand. *)
RECURSIVE Product(_, _)
Product(m, g) == g = 1 \/ (g > 1 /\ m.nodes[g].low = 0 /\ Product(m, m.nodes[g].high))

(* Second operands: an index, a variable or a level. *)
Operands(op, m) ==
    CASE op \in {"and", "or", "xor", "constrain", "restrict"} -> Live(m)
      [] op = "not" -> {0}
      [] op \in {"cof0", "cof1"} -> Variables
      [] op = "exists" -> {g \in Live(m) : Product(m, g)}
      [] op \in {"round_down", "round_up", "round"} -> 0..nvars

Init ==
    /\ mgr = NewManager
    /\ calls = 0

(* The user calls an operation; a failed assertion ends the program. *)
Call(op) ==
    /\ calls < MaxOps
    /\ mgr.failed = "no"
    /\ \E f \in Live(mgr), g \in Operands(op, mgr) : mgr' = Run(op, mgr, f, g).mgr
    /\ calls' = calls + 1

Next == \E op \in Ops : Call(op)

Spec == Init /\ [][Next]_vars

-------------------------------------------------------------------------------
(* What a diagram means: the assignments, as sets of variables, it accepts. *)

RECURSIVE Accepts(_, _, _)
Accepts(m, f, a) ==
    IF f <= 1 THEN f = 1
    ELSE Accepts(m, IF m.nodes[f].var \in a THEN m.nodes[f].high ELSE m.nodes[f].low, a)

Sem(m, f) == {a \in SUBSET Variables : Accepts(m, f, a)}

Agree(a, b, vs) == a \cap vs = b \cap vs

(* What an operation promises of the meaning r of its result, for operands  *)
(* with the meanings f and g; v is the second operand as a number.          *)
Promise(op, f, g, v, r) ==
    CASE op = "and" -> r = f \cap g
      [] op = "or" -> r = f \cup g
      [] op = "xor" -> r = (f \ g) \cup (g \ f)
      [] op = "not" -> r = SUBSET Variables \ f
      [] op = "cof0" -> r = {a \in SUBSET Variables : a \ {v} \in f}
      [] op = "cof1" -> r = {a \in SUBSET Variables : a \cup {v} \in f}
      [] op = "exists" ->
            LET bound == {x \in Variables : \A a \in g : x \in a}
            IN r = {a \in SUBSET Variables : \E b \in f : Agree(a, b, Variables \ bound)}
      [] op \in {"constrain", "restrict"} -> IF g = {} THEN r = {} ELSE r \cap g = f \cap g
      [] op = "round_down" -> r \subseteq f
      [] op = "round_up" -> f \subseteq r
      [] op = "round" ->
            r = {a \in SUBSET Variables :
                    2 * Cardinality({b \in f : Agree(a, b, 0..v - 1)}) > 2 ^ (nvars - v)}

Meaning(op, m, g) ==
    IF op \in {"and", "or", "xor", "exists", "constrain", "restrict"} THEN Sem(m, g) ELSE {}

-------------------------------------------------------------------------------
(* Diagrams are ordered, and equal functions only if they are the same index, *)
(* which is all that bdd::equals compares.                                   *)
Canonical ==
    WellOrdered(mgr) /\ \A f, g \in Live(mgr) : Sem(mgr, f) = Sem(mgr, g) => f = g

(* Whatever was called before, a call returns what it promises: a result    *)
(* found in the cache is as good as a computed one, and no assertion on the  *)
(* order of the variables fails.                                            *)
EveryCallCorrect ==
    mgr.failed = "no" => \A op \in Ops : \A f \in Live(mgr), g \in Operands(op, mgr) :
        LET r == Run(op, mgr, f, g) IN
        /\ r.mgr.failed \in {"no", "capacity"}
        /\ r.mgr.failed = "no" =>
            Promise(op, Sem(mgr, f), Meaning(op, mgr, g), g, Sem(r.mgr, r.index))

(* An index held by the user keeps its meaning while others are computed. *)
HandlesAreStable ==
    [][\A f \in Live(mgr) : Sem(mgr', f) = Sem(mgr, f)]_vars
===============================================================================
