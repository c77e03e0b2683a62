------------------------------ MODULE ZddManager ------------------------------
(***************************************************************************)
(* cirkit::zdd_manager (classical/dd/zdd.cpp): the algebra of families of   *)
(* sets on zero-suppressed decision diagrams.  As in the BDD package a call *)
(* runs on the unique table and the cache that all earlier calls have left. *)
(***************************************************************************)
EXTENDS DdManager, FiniteSets

CONSTANTS Ops,          \* the operations a run calls
          MaxOps        \* bound on the number of calls

VARIABLES mgr, calls

vars == <<mgr, calls>>

(* enum class zdd_operation: the third component of a cache key. *)
Code == [diff |-> 0, union |-> 1, intersection |-> 2, symmetric_difference |-> 3,
         join |-> 4, meet |-> 5, delta |-> 6, nonsub |-> 7, nonsup |-> 8, minhit |-> 9]

Only(set) == CHOOSE x \in set : TRUE

Hit(op, m, f, g) == CacheLookup(m, f, g, Code[op])
FromCache(op, m, f, g) == Result(m, Only(Hit(op, m, f, g)))

(* Mutant: the results of delta are entered as those of join. *)
CachedDeltaAsJoin(op, f, g, r) ==
    Result(CacheInsert(r.mgr, f, g, IF op = "delta" THEN Code.join ELSE Code[op], r.index), r.index)

Cached(op, f, g, r) == Result(CacheInsert(r.mgr, f, g, Code[op], r.index), r.index)

(* The node of a variable with the index of hi as its high child. *)
Create(v, hi, lo, m) == CreateZdd(m, v, hi, lo)

Below(m, f, g) == m.nodes[f].var < m.nodes[g].var
Same(m, f, g) == m.nodes[f].var = m.nodes[g].var

-------------------------------------------------------------------------------
(* Calls of operations by each other, all on the unique table and the cache  *)
(* that the calls before have left.                                         *)
RECURSIVE Run(_, _, _, _)

Diff(m, f, g) ==
    LET n1 == m.nodes[f]
        n2 == m.nodes[g]
    IN
    IF f = 0 \/ f = g THEN Result(m, 0)
    ELSE IF g = 0 THEN Result(m, f)
    ELSE IF Hit("diff", m, f, g) # {} THEN FromCache("diff", m, f, g)
    ELSE Cached("diff", f, g,
            IF Below(m, f, g) THEN
                LET lo == Run("diff", m, n1.low, g) IN Create(n1.var, n1.high, lo.index, lo.mgr)
            ELSE IF Below(m, g, f) THEN Run("diff", m, f, n2.low)
            ELSE LET lo == Run("diff", m, n1.low, n2.low)
                     hi == Run("diff", lo.mgr, n1.high, n2.high)
                 IN Create(n1.var, hi.index, lo.index, hi.mgr))

(* zdd_union, zdd_symmetric_difference: they differ only for equal operands. *)
Merge(op, m, f, g) ==
    LET n1 == m.nodes[f]
        n2 == m.nodes[g]
    IN
    IF f = 0 THEN Result(m, g)
    ELSE IF g = 0 THEN Result(m, f)
    ELSE IF f = g THEN Result(m, IF op = "union" THEN f ELSE 0)
    ELSE IF f > g THEN Run(op, m, g, f)
    ELSE IF Hit(op, m, f, g) # {} THEN FromCache(op, m, f, g)
    ELSE Cached(op, f, g,
            IF Below(m, f, g) THEN
                LET lo == Run(op, m, n1.low, g) IN Create(n1.var, n1.high, lo.index, lo.mgr)
            ELSE IF Below(m, g, f) THEN
                LET lo == Run(op, m, f, n2.low) IN Create(n2.var, n2.high, lo.index, lo.mgr)
            ELSE LET lo == Run(op, m, n1.low, n2.low)
                     hi == Run(op, lo.mgr, n1.high, n2.high)
                 IN Create(n1.var, hi.index, lo.index, hi.mgr))

Intersection(m, f, g) ==
    LET n1 == m.nodes[f]
        n2 == m.nodes[g]
    IN
    IF f = 0 \/ g = 0 THEN Result(m, 0)
    ELSE IF f = g THEN Result(m, f)
    ELSE IF f > g THEN Run("intersection", m, g, f)
    ELSE IF Below(m, f, g) THEN Run("intersection", m, n1.low, g)
    ELSE IF Below(m, g, f) THEN Run("intersection", m, f, n2.low)
    ELSE IF Hit("intersection", m, f, g) # {} THEN FromCache("intersection", m, f, g)
    ELSE LET lo == Run("intersection", m, n1.low, n2.low)
             hi == Run("intersection", lo.mgr, n1.high, n2.high)
         IN Cached("intersection", f, g, Create(n1.var, hi.index, lo.index, hi.mgr))

(* The first operand of join, meet and delta is the one with the later      *)
(* variable.                                                                *)
Swapped(m, f, g) == Below(m, f, g) \/ (Same(m, f, g) /\ f > g)

Join(m, f, g) ==
    LET n1 == m.nodes[f]
        n2 == m.nodes[g]
    IN
    IF Swapped(m, f, g) THEN Run("join", m, g, f)
    ELSE IF f = 0 THEN Result(m, 0)
    ELSE IF f = 1 THEN Result(m, g)
    ELSE IF Hit("join", m, f, g) # {} THEN FromCache("join", m, f, g)
    ELSE Cached("join", f, g,
            IF Below(m, g, f) THEN
                LET lo == Run("join", m, f, n2.low)
                    hi == Run("join", lo.mgr, f, n2.high)
                IN Create(n2.var, hi.index, lo.index, hi.mgr)
            ELSE LET lo == Run("join", m, n1.low, n2.low)
                     r1 == Run("join", lo.mgr, n1.low, n2.high)
                     r2 == Run("join", r1.mgr, n1.high, n2.low)
                     r3 == Run("join", r2.mgr, n1.high, n2.high)
                     u  == Run("union", r3.mgr, r1.index, r2.index)
                     hi == Run("union", u.mgr, u.index, r3.index)
                 IN Create(n2.var, hi.index, lo.index, hi.mgr))

(* As written: the swap, the recursion for equal variables and the cache    *)
(* entries are those of zdd_join.                                           *)
Meet(m, f, g) ==
    LET n1 == m.nodes[f]
        n2 == m.nodes[g]
    IN
    IF Swapped(m, f, g) THEN Run("join", m, g, f)
    ELSE IF f <= 1 THEN Result(m, f)
    ELSE IF Hit("meet", m, f, g) # {} THEN FromCache("meet", m, f, g)
    ELSE Cached("join", f, g,
            IF Below(m, g, f) THEN
                LET u == Run("union", m, n2.low, n2.high) IN Run("meet", u.mgr, f, u.index)
            ELSE LET hi == Run("join", m, n1.high, n2.high)
                     r1 == Run("join", hi.mgr, n1.low, n2.high)
                     r2 == Run("join", r1.mgr, n1.high, n2.low)
                     r3 == Run("join", r2.mgr, n1.low, n2.low)
                     u  == Run("union", r3.mgr, r1.index, r2.index)
                     lo == Run("union", u.mgr, u.index, r3.index)
                 IN Create(n2.var, hi.index, lo.index, lo.mgr))

Delta(m, f, g) ==
    LET n1 == m.nodes[f]
        n2 == m.nodes[g]
    IN
    IF Swapped(m, f, g) THEN Run("delta", m, g, f)
    ELSE IF f = 0 THEN Result(m, 0)
    ELSE IF f = 1 THEN Result(m, g)
    ELSE IF Hit("delta", m, f, g) # {} THEN FromCache("delta", m, f, g)
    ELSE Cached("delta", f, g,
            IF Below(m, g, f) THEN
                LET lo == Run("delta", m, f, n2.low)
                    hi == Run("delta", lo.mgr, f, n2.high)
                IN Create(n2.var, hi.index, lo.index, hi.mgr)
            ELSE LET r1 == Run("delta", m, n1.low, n2.low)
                     r2 == Run("delta", r1.mgr, n1.high, n2.high)
                     lo == Run("union", r2.mgr, r1.index, r2.index)
                     r3 == Run("delta", lo.mgr, n1.low, n2.high)
                     r4 == Run("delta", r3.mgr, n1.high, n2.low)
                     hi == Run("union", r4.mgr, r3.index, r4.index)
                 IN Create(n2.var, hi.index, lo.index, hi.mgr))

-------------------------------------------------------------------------------
(* As written: the first test compares the variables the other way round    *)
(* than zdd_nonsup does, so that the else branch also takes the children of *)
(* a later node and of the terminal 1, where nodes.at throws.               *)
Nonsub(m, f, g) ==
    LET n1 == m.nodes[f]
        n2 == m.nodes[g]
    IN
    IF f \in {0, 1} THEN Result(m, 0)
    ELSE IF g = 0 THEN Result(m, f)
    ELSE IF f = g THEN Result(m, 0)
    ELSE IF g = NoIndex THEN Result([m EXCEPT !.failed = "range"], 0)
    ELSE IF Hit("nonsub", m, f, g) # {} THEN FromCache("nonsub", m, f, g)
    ELSE Cached("nonsub", f, g,
            IF Below(m, g, f) THEN
                LET lo == Run("nonsub", m, n1.low, g) IN Create(n1.var, n1.high, lo.index, lo.mgr)
            ELSE LET r1 == Run("nonsub", m, n1.low, n2.low)
                     r2 == Run("nonsub", r1.mgr, n1.low, n2.high)
                     lo == Run("intersection", r2.mgr, r1.index, r2.index)
                     hi == Run("nonsub", lo.mgr, n1.high, n2.high)
                 IN Create(n1.var, hi.index, lo.index, hi.mgr))

Nonsup(m, f, g) ==
    LET n1 == m.nodes[f]
        n2 == m.nodes[g]
    IN
    IF f = 0 \/ g = 1 THEN Result(m, 0)
    ELSE IF g = 0 THEN Result(m, f)
    ELSE IF f = g THEN Result(m, 0)
    ELSE IF Below(m, g, f) THEN Run("nonsup", m, f, n2.low)
    ELSE IF Hit("nonsup", m, f, g) # {} THEN FromCache("nonsup", m, f, g)
    ELSE Cached("nonsup", f, g,
            IF Below(m, f, g) THEN
                LET lo == Run("nonsup", m, n1.low, g)
                    hi == Run("nonsup", lo.mgr, n1.high, g)
                IN Create(n1.var, hi.index, lo.index, hi.mgr)
            ELSE LET r1 == Run("nonsup", m, n1.high, n2.high)
                     r2 == Run("nonsup", r1.mgr, n1.high, n2.low)
                     hi == Run("intersection", r2.mgr, r2.index, r1.index)
                     lo == Run("nonsup", hi.mgr, n1.low, n2.low)
                 IN Create(n1.var, hi.index, lo.index, lo.mgr))

Minhit(m, f) ==
    IF f = 0 THEN Result(m, 1)
    ELSE IF f = 1 THEN Result(m, 0)
    ELSE IF Hit("minhit", m, f, f) # {} THEN FromCache("minhit", m, f, f)
    ELSE LET u == Run("union", m, m.nodes[f].low, m.nodes[f].high)
             lo == Run("minhit", u.mgr, u.index, 0)
             r == Run("minhit", lo.mgr, m.nodes[f].low, 0)
             hi == Run("nonsup", r.mgr, r.index, lo.index)
         IN Cached("minhit", f, f, Create(m.nodes[f].var, hi.index, lo.index, hi.mgr))

-------------------------------------------------------------------------------
Run(op, m, f, g) ==
    CASE op = "diff" -> Diff(m, f, g)
      [] op \in {"union", "symmetric_difference"} -> Merge(op, m, f, g)
      [] op = "intersection" -> Intersection(m, f, g)
      [] op = "join" -> Join(m, f, g)
      [] op = "meet" -> Meet(m, f, g)
      [] op = "delta" -> Delta(m, f, g)
      [] op = "nonsub" -> Nonsub(m, f, g)
      [] op = "nonsup" -> Nonsup(m, f, g)
      [] op = "minhit" -> Minhit(m, f)

Operands(op, m) == IF op = "minhit" THEN {0} ELSE Live(m)

Init ==
    /\ mgr = NewManager
    /\ calls = 0

(* The user calls an operation; a failure ends the program. *)
Call(op) ==
    /\ calls < MaxOps
    /\ mgr.failed = "no"
    /\ \E f \in Live(mgr), g \in Operands(op, mgr) : mgr' = Run(op, mgr, f, g).mgr
    /\ calls' = calls + 1

Next == \E op \in Ops : Call(op)

Spec == Init /\ [][Next]_vars

-------------------------------------------------------------------------------
(* zdd_to_sets: the sets of the high child with the variable, then those of *)
(* the low child.                                                           *)
RECURSIVE ToSets(_, _)
ToSets(m, f) ==
    IF f = 0 THEN {}
    ELSE IF f = 1 THEN {{}}
    ELSE {s \cup {m.nodes[f].var} : s \in ToSets(m, m.nodes[f].high)}
            \cup ToSets(m, m.nodes[f].low)

Hits(s, F) == \A t \in F : s \cap t # {}
MinimalHits(F) ==
    LET H == {s \in SUBSET Variables : Hits(s, F)}
    IN {s \in H : \A t \in H : t \subseteq s => t = s}

(* What an operation promises of the family r, for the families F and G.    *)
Promise(op, F, G, r) ==
    CASE op = "diff" -> r = F \ G
      [] op = "union" -> r = F \cup G
      [] op = "intersection" -> r = F \cap G
      [] op = "symmetric_difference" -> r = (F \ G) \cup (G \ F)
      [] op = "join" -> r = {s \cup t : s \in F, t \in G}
      [] op = "delta" -> r = {(s \ t) \cup (t \ s) : s \in F, t \in G}
      [] op = "nonsub" -> r \subseteq F
      [] op = "nonsup" -> r = {s \in F : \A t \in G : ~(t \subseteq s)}
      [] op = "minhit" -> r = MinimalHits(F)
      [] op = "meet" -> TRUE

-------------------------------------------------------------------------------
(* Diagrams are ordered and equal families have the same index, what zdd::equals compares. *)
Canonical ==
    WellOrdered(mgr) /\ \A f, g \in Live(mgr) : ToSets(mgr, f) = ToSets(mgr, g) => f = g

(* Whatever was called before, a call returns what it promises: a result    *)
(* found in the cache is as good as a computed one, and the operations that *)
(* share the cache do not disturb each other.  No assertion on the order of   *)
(* the variables fails; nonsub may read past the node table.                *)
EveryCallCorrect ==
    mgr.failed = "no" => \A op \in Ops : \A f \in Live(mgr), g \in Operands(op, mgr) :
        LET r == Run(op, mgr, f, g) IN
        /\ r.mgr.failed \in IF op = "nonsub" THEN {"no", "capacity", "range"} ELSE {"no", "capacity"}
        /\ r.mgr.failed = "no" =>
            Promise(op, ToSets(mgr, f), ToSets(mgr, g), ToSets(r.mgr, r.index))

(* A family held by the user keeps its sets while others are computed.       *)
HandlesAreStable ==
    [][\A f \in Live(mgr) : ToSets(mgr', f) = ToSets(mgr, f)]_vars

(* The code marks the swap of the operands of zdd_meet as commutativity.    *)
MeetCommutes ==
    \A f, g \in Live(mgr) :
        LET fg == Run("meet", mgr, f, g)
            gf == Run("meet", mgr, g, f)
        IN ToSets(fg.mgr, fg.index) = ToSets(gf.mgr, gf.index)
===============================================================================
