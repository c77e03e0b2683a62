--------------------------- MODULE OptimisationProofs ---------------------------
(***************************************************************************)
(* Proofs about the optimisation of reversible circuits, for any number of   *)
(* lines and any circuit: by windows, by added lines and by simplification. *)
(***************************************************************************)
EXTENDS MCReversible, SynthesisProofs

-------------------------------------------------------------------------------
(* Gates on some lines leave the others alone and do not depend on them.      *)
LEMMA GateCases ==
    ASSUME NEW K, NEW g \in GatesIn(K)
    PROVE  \/ \E c \in SUBSET (K \X BOOLEAN), t \in K : g = Toffoli(c, t)
           \/ \E c \in SUBSET (K \X BOOLEAN), t \in K, u \in K : g = Fredkin(c, t, u)
           \/ \E c \in K, t \in K, u \in K : g = Peres(c, t, u)
BY DEF GatesIn

LEMMA MoreGates ==
    ASSUME NEW K, NEW L, K \subseteq L
    PROVE  GatesIn(K) \subseteq GatesIn(L)
<1> SUFFICES ASSUME NEW g \in GatesIn(K) PROVE g \in GatesIn(L)
    OBVIOUS
<1>1. SUBSET (K \X BOOLEAN) \subseteq SUBSET (L \X BOOLEAN)
    OBVIOUS
<1>2. ASSUME NEW c \in SUBSET (K \X BOOLEAN), NEW t \in K, g = Toffoli(c, t)
      PROVE  g \in GatesIn(L)
    BY <1>1, <1>2 DEF GatesIn
<1>3. ASSUME NEW c \in SUBSET (K \X BOOLEAN), NEW t \in K, NEW u \in K, g = Fredkin(c, t, u)
      PROVE  g \in GatesIn(L)
    BY <1>1, <1>3 DEF GatesIn
<1>4. ASSUME NEW c \in K, NEW t \in K, NEW u \in K, g = Peres(c, t, u)
      PROVE  g \in GatesIn(L)
    BY <1>4 DEF GatesIn
<1> QED
    BY <1>2, <1>3, <1>4, GateCases

LEMMA ControlledAgree ==
    ASSUME NEW K, NEW c \in SUBSET (K \X BOOLEAN), NEW x, NEW y,
           \A l \in K : l \in x <=> l \in y
    PROVE  Controlled(c, x) <=> Controlled(c, y)
<1>1. ASSUME NEW d \in c
      PROVE  (d[1] \in x) = (d[1] \in y)
    <2>1. d[1] \in K
        OBVIOUS
    <2>2. d[1] \in x <=> d[1] \in y
        BY <2>1
    <2> QED
        BY <2>2
<1> QED
    BY <1>1 DEF Controlled

LEMMA FlipOthers ==
    ASSUME NEW x, NEW t, NEW h, h # t
    PROVE  /\ h \in Flip(x, t) <=> h \in x
           /\ Flip(Flip(x, h), t) = Flip(Flip(x, t), h)
BY DEF Flip, SymDiff

LEMMA SwapOthers ==
    ASSUME NEW x, NEW t, NEW u, NEW h, h # t, h # u
    PROVE  /\ h \in Swap(x, t, u) <=> h \in x
           /\ Swap(Flip(x, h), t, u) = Flip(Swap(x, t, u), h)
<1>1. \A l : l # h => (l \in Flip(x, h) <=> l \in x)
    BY DEF Flip, SymDiff
<1>2. h \in Swap(x, t, u) <=> h \in x
    BY DEF Swap, SymDiff
<1>3. Swap(Flip(x, h), t, u) = Flip(Swap(x, t, u), h)
    <2> DEFINE y == Flip(x, h)
    <2>1. (t \in y <=> t \in x) /\ (u \in y <=> u \in x)
        BY <1>1
    <2>2. SymDiff(y, {t, u}) = Flip(SymDiff(x, {t, u}), h)
        BY DEF Flip, SymDiff
    <2>3. CASE (t \in x) = (u \in x)
        <3>1. Swap(x, t, u) = x
            BY <2>3 DEF Swap
        <3>2. (t \in y) = (u \in y)
            BY <2>1, <2>3
        <3>3. Swap(y, t, u) = y
            BY <3>2 DEF Swap
        <3> QED
            BY <3>1, <3>3
    <2>4. CASE (t \in x) # (u \in x)
        <3>1. Swap(x, t, u) = SymDiff(x, {t, u})
            BY <2>4 DEF Swap
        <3>2. (t \in y) # (u \in y)
            BY <2>1, <2>4
        <3>3. Swap(y, t, u) = SymDiff(y, {t, u})
            BY <3>2 DEF Swap
        <3> QED
            BY <2>2, <3>1, <3>3
    <2> QED
        BY <2>3, <2>4
<1> QED
    BY <1>1, <1>2, <1>3

LEMMA GateLeavesAlone ==
    ASSUME NEW K, NEW g \in GatesIn(K), NEW h, h \notin K, NEW x
    PROVE  /\ h \in Simulate(g, x) <=> h \in x
           /\ Simulate(g, Flip(x, h)) = Flip(Simulate(g, x), h)
<1> DEFINE y == Flip(x, h)
<1>0. \A l \in K : l \in y <=> l \in x
    <2>1. \A l : l # h => (l \in Flip(x, h) <=> l \in x)
        BY DEF Flip, SymDiff
    <2> QED
        BY <2>1
<1>1. ASSUME NEW c \in SUBSET (K \X BOOLEAN), NEW t \in K, g = Toffoli(c, t)
      PROVE  /\ h \in Simulate(g, x) <=> h \in x
             /\ Simulate(g, y) = Flip(Simulate(g, x), h)
    <2>1. Controlled(c, y) <=> Controlled(c, x)
        BY <1>0, ControlledAgree
    <2>2. /\ Simulate(g, x) = IF Controlled(c, x) THEN Flip(x, t) ELSE x
          /\ Simulate(g, y) = IF Controlled(c, y) THEN Flip(y, t) ELSE y
        BY <1>1, SimulateToffoli
    <2>3. h # t
        OBVIOUS
    <2>4. (h \in Flip(x, t) <=> h \in x) /\ Flip(y, t) = Flip(Flip(x, t), h)
        BY <2>3, FlipOthers
    <2>5. y = Flip(x, h)
        OBVIOUS
    <2> HIDE DEF y
    <2>6. CASE Controlled(c, x)
        BY <2>1, <2>2, <2>4, <2>6
    <2>7. CASE ~Controlled(c, x)
        BY <2>1, <2>2, <2>5, <2>7
    <2> QED
        BY <2>6, <2>7
<1>2. ASSUME NEW c \in SUBSET (K \X BOOLEAN), NEW t \in K, NEW u \in K, g = Fredkin(c, t, u)
      PROVE  /\ h \in Simulate(g, x) <=> h \in x
             /\ Simulate(g, y) = Flip(Simulate(g, x), h)
    <2> DEFINE C == {d[1] : d \in c}
    <2>1. C \subseteq y <=> C \subseteq x
        <3>1. C \subseteq K
            OBVIOUS
        <3> HIDE DEF C, y
        <3> QED
            BY <1>0, <3>1
    <2>2. /\ Simulate(g, x) = IF C \subseteq x THEN Swap(x, t, u) ELSE x
          /\ Simulate(g, y) = IF C \subseteq y THEN Swap(y, t, u) ELSE y
        BY <1>2, SimulateFredkin
    <2>3. h # t /\ h # u
        OBVIOUS
    <2>4. (h \in Swap(x, t, u) <=> h \in x) /\ Swap(y, t, u) = Flip(Swap(x, t, u), h)
        BY <2>3, SwapOthers
    <2>5. y = Flip(x, h)
        OBVIOUS
    <2> HIDE DEF C, y
    <2>6. CASE C \subseteq x
        BY <2>1, <2>2, <2>4, <2>6
    <2>7. CASE ~(C \subseteq x)
        BY <2>1, <2>2, <2>5, <2>7
    <2> QED
        BY <2>6, <2>7
<1>3. ASSUME NEW c \in K, NEW t \in K, NEW u \in K, g = Peres(c, t, u)
      PROVE  /\ h \in Simulate(g, x) <=> h \in x
             /\ Simulate(g, y) = Flip(Simulate(g, x), h)
    <2>1. (c \in y <=> c \in x) /\ (t \in y <=> t \in x)
        BY <1>0
    <2>2. /\ Simulate(g, x) = IF c \notin x THEN x
                              ELSE IF t \in x THEN Flip(Flip(x, t), u) ELSE Flip(x, t)
          /\ Simulate(g, y) = IF c \notin y THEN y
                              ELSE IF t \in y THEN Flip(Flip(y, t), u) ELSE Flip(y, t)
        BY <1>3, SimulatePeres
    <2>3. h # t /\ h # u
        OBVIOUS
    <2>4. (h \in Flip(x, t) <=> h \in x) /\ Flip(y, t) = Flip(Flip(x, t), h)
        BY <2>3, FlipOthers
    <2> DEFINE z == Flip(x, t)
    <2>5. (h \in Flip(z, u) <=> h \in z) /\ Flip(Flip(z, h), u) = Flip(Flip(z, u), h)
        BY <2>3, FlipOthers
    <2>6. Flip(Flip(y, t), u) = Flip(Flip(z, u), h)
        BY <2>4, <2>5
    <2>10. y = Flip(x, h)
        OBVIOUS
    <2> HIDE DEF y, z
    <2>7. CASE c \notin x
        BY <2>1, <2>2, <2>7, <2>10
    <2>8. CASE c \in x /\ t \in x
        BY <2>1, <2>2, <2>4, <2>5, <2>6, <2>8 DEF z
    <2>9. CASE c \in x /\ t \notin x
        BY <2>1, <2>2, <2>4, <2>9 DEF z
    <2> QED
        BY <2>7, <2>8, <2>9
<1> QED
    BY <1>1, <1>2, <1>3, GateCases

LeavesAlone(c, h, x) ==
    /\ h \in SimulateCircuit(c, x) <=> h \in x
    /\ SimulateCircuit(c, Flip(x, h)) = Flip(SimulateCircuit(c, x), h)

LEMMA CircuitLeavesAlone ==
    ASSUME NEW L, NEW K \in SUBSET L, NEW c \in Seq(GatesIn(K)), NEW h \in L, h \notin K,
           NEW x \in SUBSET L
    PROVE  LeavesAlone(c, h, x)
<1> DEFINE n == Len(c)
<1>1. n \in Nat /\ c \in Seq(GatesIn(L)) /\ \A k \in 1..n : c[k] \in GatesIn(K)
    BY MoreGates
<1>2. PICK p : Trace(L, p, c, x) /\ SimulateCircuit(c, x) = p[n]
    BY <1>1, SimulateFoldsIn
<1> HIDE DEF n
<1>3. /\ p \in [0..n -> SUBSET L] /\ p[0] = x
      /\ \A k \in 1..n : p[k] = Simulate(c[k], p[k - 1])
    BY <1>2 DEF Trace, n
<1>4. ASSUME NEW k \in 1..n
      PROVE  /\ h \in p[k] <=> h \in p[k - 1]
             /\ Simulate(c[k], Flip(p[k - 1], h)) = Flip(p[k], h)
    <2>1. c[k] \in GatesIn(K) /\ p[k] = Simulate(c[k], p[k - 1])
        BY <1>1, <1>3
    <2> QED
        BY <2>1, GateLeavesAlone
<1>5. h \in p[n] <=> h \in x
    <2> DEFINE T == {k \in 0..n : h \in p[k] <=> h \in x}
    <2>1. 0 \in T
        BY <1>1, <1>3
    <2>2. \A k \in 1..n : k - 1 \in T => k \in T
        BY <1>1, <1>4
    <2>3. n \in 0..n
        BY <1>1
    <2>4. \A k \in 0..n : k \in T
        <3> HIDE DEF T
        <3> QED
            BY <1>1, <2>1, <2>2, Ladder
    <2> QED
        BY <2>3, <2>4
<1> DEFINE q == [k \in 0..n |-> Flip(p[k], h)]
           y == Flip(x, h)
<1>6. Trace(L, q, c, y)
    <2>1. q \in [0..n -> SUBSET L]
        BY <1>3, FlipTypedIn, ZenonT(60)
    <2>2. q[0] = y
        BY <1>1, <1>3
    <2>3. ASSUME NEW k \in 1..n
          PROVE  q[k] = Simulate(c[k], q[k - 1])
        <3>1. k \in 0..n /\ k - 1 \in 0..n
            BY <1>1
        <3>2. q[k] = Flip(p[k], h) /\ q[k - 1] = Flip(p[k - 1], h)
            BY <3>1
        <3> QED
            BY <1>4, <3>2
    <2> HIDE DEF q, y
    <2> QED
        BY <2>1, <2>2, <2>3 DEF Trace, n
<1>7. y \in SUBSET L
    BY FlipTypedIn
<1>8. SimulateCircuit(c, y) = q[n]
    <2> HIDE DEF q, y
    <2> QED
        BY <1>1, <1>6, <1>7, TraceEndsIn DEF n
<1>9. q[n] = Flip(p[n], h)
    BY <1>1
<1> QED
    BY <1>2, <1>5, <1>8, <1>9, Zenon DEF LeavesAlone, y
-------------------------------------------------------------------------------
(* While the gates of a segment use it, the helper line holds the conjunction *)
(* of the factor.                                                           *)
Lifted(f, h, z) == IF Controlled(f, z) THEN z \cup {h} ELSE z

LEMMA LiftedAgrees ==
    ASSUME NEW K, NEW h, h \notin K, NEW f, NEW z
    PROVE  \A l \in K : l \in Lifted(f, h, z) <=> l \in z
BY DEF Lifted

LEMMA HelperLifts ==
    ASSUME NEW K, NEW f \in SUBSET (K \X BOOLEAN), NEW h, h \notin K, NEW z, h \notin z
    PROVE  /\ Simulate(Toffoli(f, h), z) = Lifted(f, h, z)
           /\ Simulate(Toffoli(f, h), Lifted(f, h, z)) = z
<1> DEFINE y == Lifted(f, h, z)
<1>1. Controlled(f, y) <=> Controlled(f, z)
    <2>1. \A l \in K : l \in y <=> l \in z
        BY LiftedAgrees
    <2> HIDE DEF y
    <2> QED
        BY <2>1, ControlledAgree
<1>2. /\ Simulate(Toffoli(f, h), z) = IF Controlled(f, z) THEN Flip(z, h) ELSE z
      /\ Simulate(Toffoli(f, h), y) = IF Controlled(f, y) THEN Flip(y, h) ELSE y
    BY SimulateToffoli
<1>3. Flip(z, h) = z \cup {h} /\ Flip(z \cup {h}, h) = z
    BY DEF Flip, SymDiff
<1>4. y = IF Controlled(f, z) THEN z \cup {h} ELSE z
    BY DEF Lifted
<1> HIDE DEF y
<1>5. CASE Controlled(f, z)
    BY <1>1, <1>2, <1>3, <1>4, <1>5 DEF y
<1>6. CASE ~Controlled(f, z)
    BY <1>1, <1>2, <1>4, <1>6 DEF y
<1> QED
    BY <1>5, <1>6

LinesOf(f) == {e[1] : e \in f}

(* The controls of a gate that shares a factor.                              *)
Shared(f, h, c) == IF f \subseteq c THEN (c \ f) \cup {<<h, TRUE>>} ELSE c

LEMMA SharedControls ==
    ASSUME NEW K, NEW f \in SUBSET (K \X BOOLEAN), NEW c \in SUBSET (K \X BOOLEAN),
           NEW h, h \notin K, NEW z, h \notin z
    PROVE  Controlled(Shared(f, h, c), Lifted(f, h, z)) <=> Controlled(c, z)
<1> DEFINE y == Lifted(f, h, z)
<1>0. \A l \in K : l \in y <=> l \in z
    BY LiftedAgrees
<1>1. h \in y <=> Controlled(f, z)
    BY DEF Lifted
<1> HIDE DEF y
<1>2. CASE f \subseteq c
    <2> DEFINE d == c \ f
               e == <<h, TRUE>>
    <2>1. Shared(f, h, c) = d \cup {e}
        BY <1>2 DEF Shared
    <2>2. e[1] = h /\ e[2] = TRUE
        OBVIOUS
    <2> HIDE DEF e
    <2>3. (e[1] \in y) = e[2] <=> h \in y
        BY <2>2
    <2>4. Controlled(d \cup {e}, y) <=> Controlled(d, y) /\ (e[1] \in y) = e[2]
        BY DEF Controlled
    <2>5. Controlled(d, y) <=> Controlled(d, z)
        <3>1. d \in SUBSET (K \X BOOLEAN)
            OBVIOUS
        <3> HIDE DEF d
        <3> QED
            BY <1>0, <3>1, ControlledAgree
    <2>6. Controlled(c, z) <=> Controlled(d, z) /\ Controlled(f, z)
        BY <1>2 DEF Controlled
    <2> HIDE DEF d
    <2> QED
        BY <1>1, <2>1, <2>3, <2>4, <2>5, <2>6 DEF y
<1>3. CASE ~(f \subseteq c)
    <2>1. Shared(f, h, c) = c
        BY <1>3 DEF Shared
    <2>2. Controlled(c, y) <=> Controlled(c, z)
        BY <1>0, ControlledAgree
    <2> QED
        BY <2>1, <2>2 DEF y
<1> QED
    BY <1>2, <1>3

LEMMA SharedStep ==
    ASSUME NEW K, NEW f \in SUBSET (K \X BOOLEAN), NEW c \in SUBSET (K \X BOOLEAN),
           NEW t \in K, t \notin LinesOf(f), NEW h, h \notin K, NEW z, h \notin z
    PROVE  Simulate(Toffoli(Shared(f, h, c), t), Lifted(f, h, z))
           = Lifted(f, h, Simulate(Toffoli(c, t), z))
<1> DEFINE y == Lifted(f, h, z)
           d == Shared(f, h, c)
           x == Flip(z, t)
<1>1. Controlled(d, y) <=> Controlled(c, z)
    BY SharedControls
<1>2. /\ Simulate(Toffoli(d, t), y) = IF Controlled(d, y) THEN Flip(y, t) ELSE y
      /\ Simulate(Toffoli(c, t), z) = IF Controlled(c, z) THEN x ELSE z
    BY SimulateToffoli
<1>3. Controlled(f, x) <=> Controlled(f, z)
    <2>1. ASSUME NEW e \in f
          PROVE  (e[1] \in x) = (e[1] \in z)
        <3>1. e[1] # t
            BY DEF LinesOf
        <3> QED
            BY <3>1 DEF Flip, SymDiff
    <2> HIDE DEF x
    <2> QED
        BY <2>1 DEF Controlled
<1>4. Flip(y, t) = Lifted(f, h, x)
    <2>1. t # h
        OBVIOUS
    <2>2. Flip(z \cup {h}, t) = x \cup {h}
        BY <2>1 DEF Flip, SymDiff
    <2> HIDE DEF x
    <2>3. CASE Controlled(f, z)
        BY <1>3, <2>2, <2>3 DEF Lifted
    <2>4. CASE ~Controlled(f, z)
        BY <1>3, <2>4 DEF Lifted, x
    <2> QED
        BY <2>3, <2>4
<1>5. y = Lifted(f, h, z)
    OBVIOUS
<1> HIDE DEF y, d, x
<1>6. CASE Controlled(c, z)
    BY <1>1, <1>2, <1>4, <1>6 DEF y, d
<1>7. CASE ~Controlled(c, z)
    BY <1>1, <1>2, <1>5, <1>7 DEF d
<1> QED
    BY <1>6, <1>7

(* A gate and the one that takes its place in a segment.                     *)
Shares(K, f, h, g, e) ==
    \E c \in SUBSET (K \X BOOLEAN), t \in K :
        g = Toffoli(c, t) /\ t \notin LinesOf(f) /\ e = Toffoli(Shared(f, h, c), t)

Enclosed(H, s) == (<<H>> \o s) \o <<H>>

(* A segment computes what its gates computed before, if the helper line is 0. *)
LEMMA SegmentComputes ==
    ASSUME NEW L, NEW K \in SUBSET L, NEW h \in L, h \notin K,
           NEW f \in SUBSET (K \X BOOLEAN),
           NEW m \in Seq(GatesIn(K)), NEW s \in Seq(GatesIn(L)), Len(s) = Len(m),
           \A k \in 1..Len(m) : Shares(K, f, h, m[k], s[k]),
           NEW y \in SUBSET L, h \notin y
    PROVE  SimulateCircuit(Enclosed(Toffoli(f, h), s), y) = SimulateCircuit(m, y)
<1> DEFINE n == Len(m)
           H == Toffoli(f, h)
           Up(z) == Lifted(f, h, z)
<1>1. n \in Nat /\ Len(s) = n /\ m \in Seq(GatesIn(L)) /\ \A k \in 1..n : m[k] \in GatesIn(K)
    BY MoreGates
<1>2. PICK p : Trace(L, p, m, y) /\ SimulateCircuit(m, y) = p[n]
    BY <1>1, SimulateFoldsIn
<1>3. \A k \in 1..n : Shares(K, f, h, m[k], s[k])
    OBVIOUS
<1> HIDE DEF n, Up
<1>4. /\ p \in [0..n -> SUBSET L] /\ p[0] = y
      /\ \A k \in 1..n : p[k] = Simulate(m[k], p[k - 1])
    BY <1>2 DEF Trace, n
<1>5. \A k \in 0..n : h \notin p[k]
    <2> DEFINE T == {k \in 0..n : h \notin p[k]}
    <2>1. 0 \in T
        BY <1>1, <1>4
    <2>2. ASSUME NEW k \in 1..n, k - 1 \in T
          PROVE  k \in T
        <3>1. m[k] \in GatesIn(K) /\ p[k] = Simulate(m[k], p[k - 1]) /\ h \notin p[k - 1]
            BY <1>1, <1>4, <2>2
        <3>2. h \notin Simulate(m[k], p[k - 1])
            BY <3>1, GateLeavesAlone
        <3> QED
            BY <3>1, <3>2
    <2>3. \A k \in 0..n : k \in T
        <3> HIDE DEF T
        <3> QED
            BY <1>1, <2>1, <2>2, Ladder
    <2> QED
        BY <2>3
<1>6. \A z \in SUBSET L : Up(z) \in SUBSET L
    BY DEF Up, Lifted
<1> DEFINE q == [k \in 0..n |-> Up(p[k])]
<1>7. Trace(L, q, s, Up(y))
    <2>1. q \in [0..n -> SUBSET L]
        BY <1>4, <1>6
    <2>2. q[0] = Up(y)
        BY <1>1, <1>4
    <2>3. ASSUME NEW k \in 1..n
          PROVE  q[k] = Simulate(s[k], q[k - 1])
        <3>1. k \in 0..n /\ k - 1 \in 0..n
            BY <1>1
        <3>2. q[k] = Up(p[k]) /\ q[k - 1] = Up(p[k - 1]) /\ h \notin p[k - 1]
            BY <1>5, <3>1
        <3>3. PICK c \in SUBSET (K \X BOOLEAN), t \in K :
                 m[k] = Toffoli(c, t) /\ t \notin LinesOf(f) /\ s[k] = Toffoli(Shared(f, h, c), t)
            BY <1>3 DEF Shares
        <3>4. Simulate(Toffoli(Shared(f, h, c), t), Lifted(f, h, p[k - 1]))
              = Lifted(f, h, Simulate(Toffoli(c, t), p[k - 1]))
            BY <3>2, <3>3, SharedStep
        <3>5. p[k] = Simulate(Toffoli(c, t), p[k - 1])
            BY <1>4, <3>3
        <3> HIDE DEF q
        <3> QED
            BY <3>2, <3>3, <3>4, <3>5 DEF Up
    <2> HIDE DEF q
    <2> QED
        BY <1>1, <2>1, <2>2, <2>3 DEF Trace
<1>8. Up(y) \in SUBSET L /\ q[n] = Up(p[n]) /\ p[n] \in SUBSET L /\ h \notin p[n]
    BY <1>1, <1>4, <1>5, <1>6
<1> HIDE DEF q
<1>9. SimulateCircuit(s, Up(y)) = Up(p[n])
    BY <1>1, <1>7, <1>8, TraceEndsIn
<1>10. Simulate(H, y) = Up(y) /\ Simulate(H, Up(p[n])) = p[n]
    BY <1>8, HelperLifts DEF Up
<1>11. H \in GatesIn(L)
    <2>1. f \in SUBSET (L \X BOOLEAN)
        OBVIOUS
    <2> QED
        BY <2>1 DEF GatesIn
<1> HIDE DEF H
<1>12. /\ <<H>> \in Seq(GatesIn(L)) /\ <<H>> \o s \in Seq(GatesIn(L))
       /\ Up(p[n]) \in SUBSET L
    BY <1>6, <1>8, <1>11, ConcatProperties
<1>13. SimulateCircuit(<<H>>, y) = Up(y)
    BY <1>10, <1>11, SimulateOneIn
<1>14. SimulateCircuit(<<H>> \o s, y) = Up(p[n])
    <2> DEFINE a == <<H>>
    <2>1. a \in Seq(GatesIn(L)) /\ s \in Seq(GatesIn(L)) /\ SimulateCircuit(a, y) = Up(y)
        BY <1>12, <1>13
    <2> HIDE DEF a
    <2>2. SimulateCircuit(a \o s, y) = SimulateCircuit(s, SimulateCircuit(a, y))
        BY <2>1, SimulateBothIn
    <2>3. SimulateCircuit(a \o s, y) = Up(p[n])
        BY <1>9, <2>1, <2>2
    <2> QED
        BY <2>3 DEF a
<1>15. SimulateCircuit(<<H>>, Up(p[n])) = p[n]
    BY <1>10, <1>11, <1>12, SimulateOneIn
<1>16. SimulateCircuit((<<H>> \o s) \o <<H>>, y) = p[n]
    <2> DEFINE a == <<H>> \o s
               b == <<H>>
    <2>1. a \in Seq(GatesIn(L)) /\ b \in Seq(GatesIn(L))
        BY <1>12
    <2>2. SimulateCircuit(a, y) = Up(p[n]) /\ SimulateCircuit(b, Up(p[n])) = p[n]
        BY <1>14, <1>15
    <2> HIDE DEF a, b
    <2>3. SimulateCircuit(a \o b, y) = SimulateCircuit(b, SimulateCircuit(a, y))
        BY <2>1, SimulateBothIn
    <2>4. SimulateCircuit(a \o b, y) = p[n]
        BY <2>2, <2>3
    <2> QED
        BY <2>4 DEF a, b
<1> QED
    BY <1>2, <1>16 DEF H, Enclosed

-------------------------------------------------------------------------------
(* Cutting a circuit in three and exchanging the middle. *)
Cut(G, c, i, j, a, m, b) ==
    /\ a \in Seq(G) /\ Len(a) = i - 1 /\ \A k \in 1..i - 1 : a[k] = c[k]
    /\ m \in Seq(G) /\ Len(m) = j - i /\ \A k \in 1..j - i : m[k] = c[i + k - 1]
    /\ b \in Seq(G) /\ Len(b) = Len(c) + 1 - j
    /\ \A k \in 1..Len(c) + 1 - j : b[k] = c[j + k - 1]
    /\ c = (a \o m) \o b /\ SubSeq(c, 1, j - 1) = a \o m

LEMMA ThreeCuts ==
    ASSUME NEW G, NEW c \in Seq(G), NEW i \in 1..Len(c) + 1, NEW j \in i..Len(c) + 1
    PROVE  Cut(G, c, i, j, SubSeq(c, 1, i - 1), SubSeq(c, i, j - 1), SubSeq(c, j, Len(c)))
<1> DEFINE n == Len(c)
           a == SubSeq(c, 1, i - 1)
           m == SubSeq(c, i, j - 1)
           b == SubSeq(c, j, n)
<1>1. n \in Nat /\ i \in Nat /\ j \in Nat /\ 1 <= i /\ i <= j /\ j <= n + 1
    OBVIOUS
<1>2. \A k \in 1..n : c[k] \in G
    OBVIOUS
<1>3. /\ a \in Seq(G) /\ Len(a) = i - 1 /\ \A k \in 1..i - 1 : a[k] = c[k]
    BY <1>1, <1>2
<1>4. /\ m \in Seq(G) /\ Len(m) = j - i /\ \A k \in 1..j - i : m[k] = c[i + k - 1]
    BY <1>1, <1>2
<1>5. /\ b \in Seq(G) /\ Len(b) = n + 1 - j /\ \A k \in 1..n + 1 - j : b[k] = c[j + k - 1]
    BY <1>1, <1>2
<1>6. SubSeq(c, 1, j - 1) = a \o m
    <2>1. 1 \in 1..n + 1 /\ i - 1 \in 1 - 1..n /\ j - 1 \in i - 1..n /\ (i - 1) + 1 = i
        BY <1>1
    <2>2. SubSeq(c, 1, i - 1) \o SubSeq(c, (i - 1) + 1, j - 1) = SubSeq(c, 1, j - 1)
        BY <2>1, ConcatAdjacentSubSeq, SMTT(40)
    <2> QED
        BY <2>1, <2>2
<1>7. c = SubSeq(c, 1, j - 1) \o b
    <2>1. 1 \in 1..n + 1 /\ j - 1 \in 1 - 1..n /\ n \in j - 1..n /\ (j - 1) + 1 = j
        BY <1>1
    <2>2. SubSeq(c, 1, j - 1) \o SubSeq(c, (j - 1) + 1, n) = SubSeq(c, 1, n)
        BY <2>1, ConcatAdjacentSubSeq
    <2>3. SubSeq(c, 1, n) = c
        BY SubSeqFull
    <2> QED
        BY <2>1, <2>2, <2>3
<1> QED
    BY <1>3, <1>4, <1>5, <1>6, <1>7, Zenon DEF Cut

Rejoined(c, i, j, s, a, b) ==
    /\ RemoveGates(c, i - 1, j - i) = a \o b
    /\ InsertCircuit(RemoveGates(c, i - 1, j - i), i - 1, s) = (a \o s) \o b

LEMMA MiddleReplaced ==
    ASSUME NEW G, NEW c \in Seq(G), NEW i \in 1..Len(c) + 1, NEW j \in i..Len(c) + 1, NEW s
    PROVE  Rejoined(c, i, j, s, SubSeq(c, 1, i - 1), SubSeq(c, j, Len(c)))
<1> DEFINE a == SubSeq(c, 1, i - 1)
           b == SubSeq(c, j, Len(c))
           d == a \o b
<1>1. (i - 1) + (j - i) + 1 = j
    OBVIOUS
<1>2. RemoveGates(c, i - 1, j - i) = d
    BY <1>1 DEF RemoveGates
<1>3. a \in Seq(G) /\ b \in Seq(G) /\ Len(a) = i - 1
    BY ThreeCuts DEF Cut
<1> HIDE DEF a, b
<1>4. SubSeq(d, 1, Len(a)) = a /\ SubSeq(d, Len(a) + 1, Len(d)) = b
    <2>1. \A u, v \in Seq(G) : /\ SubSeq(u \o v, 1, Len(u)) = u
                               /\ SubSeq(u \o v, Len(u) + 1, Len(u \o v)) = v
        BY CutConcat
    <2> QED
        BY <1>3, <2>1, Zenon
<1> HIDE DEF d
<1>5. InsertCircuit(d, i - 1, s) = (a \o s) \o b
    BY <1>3, <1>4 DEF InsertCircuit
<1> QED
    BY <1>2, <1>5, Zenon DEF a, b, d, Rejoined

LEMMA MiddleExchanged ==
    ASSUME NEW L, NEW a \in Seq(GatesIn(L)), NEW m \in Seq(GatesIn(L)),
           NEW s \in Seq(GatesIn(L)), NEW b \in Seq(GatesIn(L)), NEW x \in SUBSET L,
           SimulateCircuit(s, SimulateCircuit(a, x)) = SimulateCircuit(m, SimulateCircuit(a, x))
    PROVE  /\ SimulateCircuit(a \o s, x) = SimulateCircuit(a \o m, x)
           /\ SimulateCircuit((a \o s) \o b, x) = SimulateCircuit((a \o m) \o b, x)
<1>1. /\ SimulateCircuit(a \o s, x) = SimulateCircuit(s, SimulateCircuit(a, x))
      /\ SimulateCircuit(a \o m, x) = SimulateCircuit(m, SimulateCircuit(a, x))
    BY SimulateBothIn
<1> DEFINE u == a \o s
           v == a \o m
<1>2. u \in Seq(GatesIn(L)) /\ v \in Seq(GatesIn(L))
    BY ConcatProperties
<1>3. SimulateCircuit(u, x) = SimulateCircuit(v, x)
    BY <1>1
<1> HIDE DEF u, v
<1>4. SimulateCircuit(u \o b, x) = SimulateCircuit(b, SimulateCircuit(u, x))
    BY <1>2, SimulateBothIn
<1>5. SimulateCircuit(v \o b, x) = SimulateCircuit(b, SimulateCircuit(v, x))
    BY <1>2, SimulateBothIn
<1> QED
    BY <1>3, <1>4, <1>5 DEF u, v
-------------------------------------------------------------------------------
(* The segment of adding_lines. *)
LEMMA PosOn ==
    ASSUME NEW K, NEW C \in SUBSET K
    PROVE  Pos(C) \in SUBSET (K \X BOOLEAN)
<1> SUFFICES ASSUME NEW c \in Pos(C) PROVE c \in K \X BOOLEAN
    OBVIOUS
<1>1. PICK k \in C : c = <<k, TRUE>>
    BY DEF Pos
<1> QED
    BY <1>1

LEMMA GatesOnAreIn == \A K : GatesOn(K) \subseteq GatesIn(K)
<1> SUFFICES ASSUME NEW K, NEW g \in GatesOn(K) PROVE g \in GatesIn(K)
    OBVIOUS
<1>1. CASE \E e \in (SUBSET (K \X BOOLEAN)) \X K : g = Toffoli(e[1], e[2])
    BY <1>1 DEF GatesIn
<1>2. CASE \E e \in (SUBSET K) \X K \X K : g = Fredkin(Pos(e[1]), e[2], e[3])
    <2>1. PICK e \in (SUBSET K) \X K \X K : g = Fredkin(Pos(e[1]), e[2], e[3])
        BY <1>2
    <2>2. Pos(e[1]) \in SUBSET (K \X BOOLEAN) /\ e[2] \in K /\ e[3] \in K
        BY <2>1, PosOn
    <2> QED
        BY <2>1, <2>2 DEF GatesIn
<1>3. CASE \E e \in K \X K \X K : g = Peres(e[1], e[2], e[3])
    BY <1>3 DEF GatesIn
<1> QED
    BY <1>1, <1>2, <1>3 DEF GatesOn

LEMMA ControlsOn ==
    ASSUME NEW K, NEW g \in GatesIn(K)
    PROVE  g.controls \in SUBSET (K \X BOOLEAN)
<1>1. ASSUME NEW c \in SUBSET (K \X BOOLEAN), NEW t \in K, g = Toffoli(c, t)
      PROVE  g.controls \in SUBSET (K \X BOOLEAN)
    BY <1>1 DEF Toffoli, Gate
<1>2. ASSUME NEW c \in SUBSET (K \X BOOLEAN), NEW t \in K, NEW u \in K, g = Fredkin(c, t, u)
      PROVE  g.controls \in SUBSET (K \X BOOLEAN)
    BY <1>2 DEF Fredkin, Gate
<1>3. ASSUME NEW c \in K, NEW t \in K, NEW u \in K, g = Peres(c, t, u)
      PROVE  g.controls \in SUBSET (K \X BOOLEAN)
    <2>1. {c} \in SUBSET K
        OBVIOUS
    <2>2. Pos({c}) \in SUBSET (K \X BOOLEAN)
        BY <2>1, PosOn
    <2> QED
        BY <1>3, <2>2 DEF Peres, Gate
<1> QED
    BY <1>1, <1>2, <1>3, GateCases

LEMMA ToffoliCase ==
    ASSUME NEW K, NEW g \in GatesIn(K), IsToffoli(g)
    PROVE  \E c \in SUBSET (K \X BOOLEAN), t \in K :
               g = Toffoli(c, t) /\ g.controls = c /\ g.targets[1] = t
<1>1. ASSUME NEW c, NEW t, NEW u
      PROVE  ~IsToffoli(Fredkin(c, t, u)) /\ ~IsToffoli(Peres(c, t, u))
    BY DEF Fredkin, Peres, Gate, IsToffoli
<1>2. PICK c \in SUBSET (K \X BOOLEAN), t \in K : g = Toffoli(c, t)
    BY <1>1, GateCases
<1>3. g.controls = c /\ g.targets[1] = t
    BY <1>2 DEF Toffoli, Gate
<1> QED
    BY <1>2, <1>3

LEMMA SuitableGates ==
    ASSUME NEW K, circ \in Seq(GatesIn(K)), NEW i \in 1..Len(circ) + 1, NEW f,
           NEW j, j = FindSuitableGates(i, f)
    PROVE  /\ j \in i..Len(circ) + 1
           /\ \A k \in i..j - 1 : IsToffoli(circ[k]) /\ circ[k].targets[1] \notin LinesOf(f)
<1> DEFINE n == Len(circ)
           B == {k \in i..n : ~IsToffoli(circ[k]) \/ circ[k].targets[1] \in LinesOf(f)}
           S == B \cup {n + 1}
<1>1. n \in Nat /\ i \in Nat /\ 1 <= i /\ i <= n + 1
    OBVIOUS
<1>2. j = Min(S)
    BY DEF FindSuitableGates, LinesOf
<1>3. S \subseteq Nat /\ S # {} /\ S \subseteq i..n + 1 /\ n + 1 \in S
    BY <1>1
<1>4. \A k \in i..n : k \notin S => IsToffoli(circ[k]) /\ circ[k].targets[1] \notin LinesOf(f)
    OBVIOUS
<1> HIDE DEF S, n
<1>5. \E m \in S : \A k \in S : m <= k
    BY <1>3, Least
<1>6. j \in S /\ \A k \in S : j <= k
    BY <1>2, <1>5, Zenon DEF Min
<1>7. \A k \in i..j - 1 : k \in i..n /\ k \notin S
    BY <1>1, <1>3, <1>6
<1> QED
    BY <1>3, <1>4, <1>6, <1>7 DEF n

LEMMA FactoredShares ==
    ASSUME NEW K, NEW f \in SUBSET (K \X BOOLEAN), NEW g \in GatesIn(K), IsToffoli(g),
           g.targets[1] \notin LinesOf(f), NEW L, K \subseteq L, work.helper \in L
    PROVE  /\ Shares(K, f, work.helper, g, Factored(g, f))
           /\ Factored(g, f) \in GatesIn(L)
<1> DEFINE h == work.helper
<1>1. PICK c \in SUBSET (K \X BOOLEAN), t \in K :
         g = Toffoli(c, t) /\ g.controls = c /\ g.targets[1] = t
    BY ToffoliCase
<1> HIDE DEF h
<1>2. Factored(g, f) = Toffoli(Shared(f, h, c), t)
    <2>1. Pos({h}) = {<<h, TRUE>>}
        BY DEF Pos
    <2>2. CASE f \subseteq c
        <3>1. Factored(g, f) = [g EXCEPT !.controls = (c \ f) \cup {<<h, TRUE>>}]
            BY <1>1, <2>1, <2>2 DEF Factored, h
        <3> QED
            BY <1>1, <2>2, <3>1 DEF Shared, Toffoli, Gate
    <2>3. CASE ~(f \subseteq c)
        BY <1>1, <2>3 DEF Factored, Shared
    <2> QED
        BY <2>2, <2>3
<1>3. Shares(K, f, h, g, Factored(g, f))
    BY <1>1, <1>2 DEF Shares
<1>4. Shared(f, h, c) \in SUBSET (L \X BOOLEAN)
    <2>1. <<h, TRUE>> \in L \X BOOLEAN
        BY DEF h
    <2>2. (c \ f) \cup {<<h, TRUE>>} \in SUBSET (L \X BOOLEAN) /\ c \in SUBSET (L \X BOOLEAN)
        BY <2>1
    <2> QED
        BY <2>2 DEF Shared
<1>5. Factored(g, f) \in GatesIn(L)
    BY <1>2, <1>4 DEF GatesIn
<1> QED
    BY <1>3, <1>5 DEF h
(* A segment is the gates that share the factor between two helper gates.     *)
IsSegment(K, L, f, m, s) ==
    \E r \in Seq(GatesIn(L)) :
        /\ Len(r) = Len(m)
        /\ \A k \in 1..Len(m) : Shares(K, f, work.helper, m[k], r[k])
        /\ s = Enclosed(HelperGate(f), r)

LEMMA SegmentParts ==
    ASSUME NEW K, NEW L, K \subseteq L, work.helper \in L, work.helper \notin K,
           circ \in Seq(GatesIn(L)), NEW i \in 1..Len(circ) + 1, NEW j \in i..Len(circ) + 1,
           NEW f \in SUBSET (K \X BOOLEAN), NEW m, m = SubSeq(circ, i, j - 1),
           \A k \in i..j - 1 : /\ circ[k] \in GatesIn(K) /\ IsToffoli(circ[k])
                               /\ circ[k].targets[1] \notin LinesOf(f)
    PROVE  /\ m \in Seq(GatesIn(K)) /\ Len(m) = j - i
           /\ IsSegment(K, L, f, m, Segment(i, j, f))
<1> DEFINE n == j - i
           s == [k \in 1..n |-> Factored(circ[i + k - 1], f)]
<1>1. n \in Nat /\ i \in Nat /\ 1 <= i /\ i <= j /\ j <= Len(circ) + 1 /\ j \in Nat
    OBVIOUS
<1>2. \A k \in 1..n : i + k - 1 \in i..j - 1
    BY <1>1
<1>3. Len(m) = n /\ \A k \in 1..n : m[k] = circ[i + k - 1]
    BY ThreeCuts DEF Cut
<1>4. m \in Seq(GatesIn(K))
    <2>1. m = [k \in 1..n |-> m[k]]
        <3>1. m \in Seq(GatesIn(L))
            BY ThreeCuts DEF Cut
        <3> QED
            BY <1>3, <3>1, SMTT(40)
    <2>2. \A k \in 1..n : m[k] \in GatesIn(K)
        BY <1>2, <1>3
    <2> HIDE DEF n
    <2> QED
        BY <1>1, <2>1, <2>2
<1>5. ASSUME NEW k \in 1..n
      PROVE  Shares(K, f, work.helper, m[k], s[k]) /\ s[k] \in GatesIn(L)
    <2> DEFINE g == circ[i + k - 1]
    <2>1. g \in GatesIn(K) /\ IsToffoli(g) /\ g.targets[1] \notin LinesOf(f)
        BY <1>2
    <2>2. s[k] = Factored(g, f) /\ m[k] = g
        BY <1>3
    <2> HIDE DEF g, s
    <2>3. Shares(K, f, work.helper, g, Factored(g, f)) /\ Factored(g, f) \in GatesIn(L)
        BY <2>1, FactoredShares
    <2> QED
        BY <2>2, <2>3
<1>6. s \in Seq(GatesIn(L)) /\ Len(s) = n
    <2>1. \A k \in 1..n : s[k] \in GatesIn(L)
        BY <1>5
    <2>2. s = [k \in 1..n |-> s[k]]
        OBVIOUS
    <2> HIDE DEF s
    <2>4. s \in [1..n -> GatesIn(L)] /\ DOMAIN s = 1..n
        BY <2>1, <2>2, Zenon
    <2> HIDE DEF n
    <2>3. s \in Seq(GatesIn(L))
        BY <1>1, <2>4
    <2>5. Len(s) = n
        BY <1>1, <2>3, <2>4, LenProperties
    <2> QED
        BY <2>3, <2>5
<1>7. Segment(i, j, f) = Enclosed(HelperGate(f), s)
    BY DEF Segment, Enclosed
<1>8. IsSegment(K, L, f, m, Segment(i, j, f))
    <2>1. \A k \in 1..n : Shares(K, f, work.helper, m[k], s[k])
        BY <1>5
    <2> HIDE DEF s, n
    <2> QED
        BY <1>3, <1>6, <1>7, <2>1, Zenon DEF IsSegment
<1> QED
    BY <1>3, <1>4, <1>8

IsShared(L, f, m, s) ==
    /\ s \in Seq(GatesIn(L)) /\ Len(s) = Len(m) + 2 /\ s[Len(m) + 2] = HelperGate(f)
    /\ \A y \in SUBSET L : work.helper \notin y =>
         SimulateCircuit(s, y) = SimulateCircuit(m, y) /\ work.helper \notin SimulateCircuit(m, y)

LEMMA SegmentWorks ==
    ASSUME NEW L, NEW K \in SUBSET L, work.helper \in L, work.helper \notin K,
           NEW f \in SUBSET (K \X BOOLEAN), NEW m \in Seq(GatesIn(K)), NEW s,
           IsSegment(K, L, f, m, s)
    PROVE  IsShared(L, f, m, s)
<1> DEFINE H == HelperGate(f)
           h == work.helper
<1>1. PICK r \in Seq(GatesIn(L)) :
         /\ Len(r) = Len(m)
         /\ \A k \in 1..Len(m) : Shares(K, f, h, m[k], r[k])
         /\ s = Enclosed(H, r)
    BY Zenon DEF IsSegment
<1>2. H = Toffoli(f, h)
    BY DEF HelperGate
<1>3. H \in GatesIn(L)
    <2>1. f \in SUBSET (L \X BOOLEAN)
        OBVIOUS
    <2> QED
        BY <2>1 DEF GatesIn, HelperGate
<1>4. h \in L /\ h \notin K
    OBVIOUS
<1> HIDE DEF H, h
<1>5. s \in Seq(GatesIn(L)) /\ Len(s) = Len(m) + 2 /\ s[Len(m) + 2] = H
    <2> DEFINE a == <<H>>
               b == a \o r
    <2>1. a \in Seq(GatesIn(L)) /\ Len(a) = 1 /\ a[1] = H
        BY <1>3
    <2>2. s = b \o a
        BY <1>1 DEF Enclosed
    <2>3. Len(r) = Len(m) /\ Len(m) \in Nat
        BY <1>1
    <2> HIDE DEF a
    <2>4. b \in Seq(GatesIn(L)) /\ Len(b) = Len(m) + 1
        <3>1. a \o r \in Seq(GatesIn(L)) /\ Len(a \o r) = Len(a) + Len(r)
            BY <2>1, ConcatProperties
        <3> QED
            BY <2>1, <2>3, <3>1
    <2> HIDE DEF b
    <2>5. b \o a \in Seq(GatesIn(L)) /\ Len(b \o a) = Len(m) + 2 /\ (b \o a)[Len(m) + 2] = H
        <3>1. /\ b \o a \in Seq(GatesIn(L)) /\ Len(b \o a) = Len(b) + Len(a)
              /\ \A k \in 1..Len(b) + Len(a) :
                    (b \o a)[k] = IF k <= Len(b) THEN b[k] ELSE a[k - Len(b)]
            BY <2>1, <2>4, ConcatProperties, Zenon
        <3>2. /\ Len(m) + 2 \in 1..Len(b) + Len(a) /\ ~ Len(m) + 2 <= Len(b)
              /\ Len(m) + 2 - Len(b) = 1
            BY <2>1, <2>3, <2>4
        <3> QED
            BY <2>1, <2>3, <2>4, <3>1, <3>2
    <2> QED
        BY <2>2, <2>5
<1>6. ASSUME NEW y \in SUBSET L, h \notin y
      PROVE  SimulateCircuit(s, y) = SimulateCircuit(m, y) /\ h \notin SimulateCircuit(m, y)
    <2>1. \A k \in 1..Len(m) : Shares(K, f, h, m[k], r[k])
        BY <1>1
    <2>2. SimulateCircuit(Enclosed(Toffoli(f, h), r), y) = SimulateCircuit(m, y)
        BY <1>1, <1>4, <1>6, <2>1, SegmentComputes
    <2>3. h \notin SimulateCircuit(m, y)
        BY <1>4, <1>6, CircuitLeavesAlone DEF LeavesAlone
    <2> QED
        BY <1>1, <1>2, <2>2, <2>3
<1> QED
    BY <1>5, <1>6, Zenon DEF H, h, IsShared

LEMMA TwoParts ==
    ASSUME NEW G, NEW a \in Seq(G), NEW b \in Seq(G)
    PROVE  /\ a \o b \in Seq(G) /\ Len(a \o b) = Len(a) + Len(b)
           /\ \A k \in 1..Len(a) : (a \o b)[k] = a[k]
           /\ \A k \in 1..Len(b) : (a \o b)[Len(a) + k] = b[k]
<1> DEFINE c == a \o b
           p == Len(a)
           q == Len(b)
<1>1. /\ c \in Seq(G) /\ Len(c) = p + q
      /\ \A k \in 1..p + q : c[k] = IF k <= p THEN a[k] ELSE b[k - p]
    BY ConcatProperties, Zenon
<1>2. p \in Nat /\ q \in Nat
    OBVIOUS
<1> HIDE DEF c, p, q
<1>3. \A k \in 1..p : c[k] = a[k]
    BY <1>1, <1>2
<1>4. \A k \in 1..q : c[p + k] = b[k]
    <2> TAKE k \in 1..q
    <2> DEFINE n == p + k
    <2>1. n \in 1..p + q /\ ~ n <= p /\ n - p = k
        BY <1>2
    <2> HIDE DEF n
    <2>2. c[n] = b[n - p]
        BY <1>1, <2>1
    <2> QED
        BY <2>1, <2>2 DEF n
<1> QED
    BY <1>1, <1>3, <1>4 DEF c, p, q

Joined(G, a, s, b, c) ==
    /\ c \in Seq(G) /\ Len(c) = Len(a) + Len(s) + Len(b)
    /\ SubSeq(c, 1, Len(a) + Len(s)) = a \o s
    /\ \A k \in 1..Len(s) : c[Len(a) + k] = s[k]
    /\ \A k \in 1..Len(b) : c[Len(a) + Len(s) + k] = b[k]

LEMMA ThreeParts ==
    ASSUME NEW G, NEW a \in Seq(G), NEW s \in Seq(G), NEW b \in Seq(G)
    PROVE  Joined(G, a, s, b, (a \o s) \o b)
<1> DEFINE u == a \o s
           c == u \o b
           p == Len(a)
           q == Len(s)
           r == Len(b)
<1>1. p \in Nat /\ q \in Nat /\ r \in Nat
    OBVIOUS
<1>2. u \in Seq(G) /\ Len(u) = p + q /\ \A k \in 1..q : u[p + k] = s[k]
    BY TwoParts
<1> HIDE DEF u
<1>3. /\ c \in Seq(G) /\ Len(c) = Len(u) + r
      /\ \A k \in 1..Len(u) : c[k] = u[k]
      /\ \A k \in 1..r : c[Len(u) + k] = b[k]
    <2>1. u \in Seq(G)
        BY <1>2
    <2> QED
        BY <2>1, TwoParts
<1>4. SubSeq(c, 1, Len(u)) = u
    BY <1>2, CutConcat
<1> HIDE DEF p, q, r, c
<1>5. \A k \in 1..q : c[p + k] = s[k]
    <2> TAKE k \in 1..q
    <2>1. p + k \in 1..p + q
        BY <1>1
    <2> QED
        BY <1>2, <1>3, <2>1
<1>6. Len(c) = p + q + r /\ SubSeq(c, 1, p + q) = u /\ \A k \in 1..r : c[p + q + k] = b[k]
    BY <1>2, <1>3, <1>4
<1>7. c \in Seq(G) /\ u = a \o s /\ c = u \o b
    BY <1>3 DEF u, c
<1> QED
    BY <1>5, <1>6, <1>7, Zenon DEF p, q, r, Joined

(* Between a and b a segment s takes the place of gates m. *)
LEMMA SegmentExchanged ==
    ASSUME NEW L, NEW h \in L, NEW a \in Seq(GatesIn(L)), NEW m \in Seq(GatesIn(L)),
           NEW s \in Seq(GatesIn(L)), NEW b \in Seq(GatesIn(L)), NEW x \in SUBSET L,
           h \notin SimulateCircuit(a, x),
           \A y \in SUBSET L : h \notin y =>
                /\ SimulateCircuit(s, y) = SimulateCircuit(m, y)
                /\ h \notin SimulateCircuit(m, y)
    PROVE  /\ SimulateCircuit((a \o s) \o b, x) = SimulateCircuit((a \o m) \o b, x)
           /\ h \notin SimulateCircuit(a \o s, x)
<1> DEFINE y == SimulateCircuit(a, x)
<1>1. y \in SUBSET L
    BY CircuitTypedIn
<1>2. /\ SimulateCircuit(s, y) = SimulateCircuit(m, y)
      /\ h \notin SimulateCircuit(m, y)
    BY <1>1
<1>3. /\ SimulateCircuit(a \o s, x) = SimulateCircuit(a \o m, x)
      /\ SimulateCircuit((a \o s) \o b, x) = SimulateCircuit((a \o m) \o b, x)
    BY <1>2, MiddleExchanged
<1>4. SimulateCircuit(a \o m, x) = SimulateCircuit(m, y)
    BY SimulateBothIn
<1> QED
    BY <1>2, <1>3, <1>4

(* The circuit after a factor is applied. *)
Inserted(L, i, j, f, c) ==
    /\ j \in i..Len(circ) + 1
    /\ c \in Seq(GatesIn(L)) /\ Len(c) = Len(circ) + 2 /\ c[j + 1] = HelperGate(f)
    /\ \A k \in j + 2..Len(c) : c[k] = circ[k - 2]
    /\ \A x \in SUBSET L : work.helper \notin SimulateCircuit(SubSeq(circ, 1, i - 1), x) =>
         /\ SimulateCircuit(c, x) = SimulateCircuit(circ, x)
         /\ work.helper \notin SimulateCircuit(SubSeq(c, 1, j + 1), x)

WithFactor(i, j, f) ==
    InsertCircuit(RemoveGates(circ, i - 1, j - i), i - 1, Segment(i, j, f))

LEMMA SegmentInserted ==
    ASSUME NEW L, NEW K \in SUBSET L, work.helper \in L, work.helper \notin K,
           circ \in Seq(GatesIn(L)), NEW i \in 1..Len(circ) + 1,
           \A k \in i..Len(circ) : circ[k] \in GatesIn(K), NEW f \in SUBSET (K \X BOOLEAN)
    PROVE  Inserted(L, i, FindSuitableGates(i, f), f, WithFactor(i, FindSuitableGates(i, f), f))
<1> DEFINE j == FindSuitableGates(i, f)
           h == work.helper
           n == Len(circ)
           a == SubSeq(circ, 1, i - 1)
           m == SubSeq(circ, i, j - 1)
           b == SubSeq(circ, j, n)
           s == Segment(i, j, f)
           c == WithFactor(i, j, f)
<1>1. /\ j \in i..n + 1
      /\ \A k \in i..j - 1 : IsToffoli(circ[k]) /\ circ[k].targets[1] \notin LinesOf(f)
    BY SuitableGates
<1>2. n \in Nat /\ i \in Nat /\ 1 <= i /\ j \in Nat /\ i <= j /\ j <= n + 1
    <2> HIDE DEF j
    <2> QED
        BY <1>1
<1> HIDE DEF j
<1>3. m = SubSeq(circ, i, j - 1) /\ a = SubSeq(circ, 1, i - 1) /\ b = SubSeq(circ, j, Len(circ))
    OBVIOUS
<1>4. s = Segment(i, j, f) /\ c = WithFactor(i, j, f)
    OBVIOUS
<1> HIDE DEF m, a, b, s, c
<1>5. m \in Seq(GatesIn(K)) /\ Len(m) = j - i /\ IsSegment(K, L, f, m, s)
    <2>1. \A k \in i..j - 1 : /\ circ[k] \in GatesIn(K) /\ IsToffoli(circ[k])
                              /\ circ[k].targets[1] \notin LinesOf(f)
        BY <1>1, <1>2
    <2>2. K \subseteq L /\ m = SubSeq(circ, i, j - 1) /\ j \in i..Len(circ) + 1
        BY <1>1, <1>3
    <2>3. m \in Seq(GatesIn(K)) /\ Len(m) = j - i /\ IsSegment(K, L, f, m, Segment(i, j, f))
        <3>1. m \in Seq(GatesIn(K))
            BY <2>1, <2>2, SegmentParts
        <3>2. Len(m) = j - i
            BY <2>1, <2>2, SegmentParts
        <3>3. IsSegment(K, L, f, m, Segment(i, j, f))
            BY <2>1, <2>2, SegmentParts
        <3> QED
            BY <3>1, <3>2, <3>3
    <2> QED
        BY <1>4, <2>3
<1>6. Cut(GatesIn(L), circ, i, j, a, m, b)
    BY <1>1, <1>3, ThreeCuts, Zenon
<1>7. /\ a \in Seq(GatesIn(L)) /\ Len(a) = i - 1
      /\ m \in Seq(GatesIn(L)) /\ b \in Seq(GatesIn(L)) /\ Len(b) = n + 1 - j
      /\ circ = (a \o m) \o b /\ \A k \in 1..n + 1 - j : b[k] = circ[j + k - 1]
    BY <1>6, Zenon DEF Cut, n
<1>8. /\ s \in Seq(GatesIn(L)) /\ Len(s) = j - i + 2 /\ s[j - i + 2] = HelperGate(f)
      /\ \A y \in SUBSET L : h \notin y =>
           /\ SimulateCircuit(s, y) = SimulateCircuit(m, y)
           /\ h \notin SimulateCircuit(m, y)
    <2>1. IsShared(L, f, m, s)
        BY <1>5, SegmentWorks, Zenon
    <2> QED
        BY <1>5, <2>1 DEF IsShared
<1>9. c = (a \o s) \o b
    <2>1. InsertCircuit(RemoveGates(circ, i - 1, j - i), i - 1, s) = (a \o s) \o b
        <3>1. Rejoined(circ, i, j, s, a, b)
            BY <1>1, <1>3, MiddleReplaced, Zenon
        <3> QED
            BY <3>1, Zenon DEF Rejoined
    <2> QED
        BY <1>4, <2>1 DEF WithFactor
<1>10. /\ c \in Seq(GatesIn(L)) /\ Len(c) = Len(a) + Len(s) + Len(b)
       /\ SubSeq(c, 1, Len(a) + Len(s)) = a \o s
       /\ \A k \in 1..Len(s) : c[Len(a) + k] = s[k]
       /\ \A k \in 1..Len(b) : c[Len(a) + Len(s) + k] = b[k]
    <2>1. a \in Seq(GatesIn(L)) /\ s \in Seq(GatesIn(L)) /\ b \in Seq(GatesIn(L))
        BY <1>7, <1>8
    <2>2. Joined(GatesIn(L), a, s, b, (a \o s) \o b)
        BY <2>1, ThreeParts, Zenon
    <2> QED
        BY <1>9, <2>2, Zenon DEF Joined
<1> HIDE DEF n, h
<1>11. Len(a) = i - 1 /\ Len(s) = j - i + 2 /\ Len(b) = n + 1 - j
    BY <1>7, <1>8
<1>12. Len(a) + Len(s) = j + 1 /\ Len(a) + Len(s) + Len(b) = n + 2
    BY <1>2, <1>11
<1>13. Len(c) = n + 2 /\ SubSeq(c, 1, j + 1) = a \o s
    BY <1>10, <1>12
<1>14. c[j + 1] = HelperGate(f)
    <2> DEFINE l == j - i + 2
    <2>1. l \in 1..Len(s) /\ Len(a) + l = j + 1
        BY <1>2, <1>11
    <2>2. s[l] = HelperGate(f)
        BY <1>8
    <2> HIDE DEF l
    <2>3. c[Len(a) + l] = s[l]
        BY <1>10, <2>1
    <2> QED
        BY <2>1, <2>2, <2>3
<1>15. \A k \in j + 2..n + 2 : c[k] = circ[k - 2]
    <2> TAKE k \in j + 2..n + 2
    <2> DEFINE l == k - (j + 1)
    <2>1. l \in 1..Len(b) /\ l \in 1..n + 1 - j /\ (j + 1) + l = k /\ j + l - 1 = k - 2
        BY <1>2, <1>11
    <2>2. b[l] = circ[j + l - 1]
        BY <1>7, <2>1
    <2> HIDE DEF l
    <2>3. c[(j + 1) + l] = b[l]
        BY <1>10, <1>12, <2>1
    <2> QED
        BY <2>1, <2>2, <2>3
<1>16. ASSUME NEW x \in SUBSET L, h \notin SimulateCircuit(a, x)
       PROVE  /\ SimulateCircuit(c, x) = SimulateCircuit(circ, x)
              /\ h \notin SimulateCircuit(SubSeq(c, 1, j + 1), x)
    <2>1. h \in L /\ h \notin SimulateCircuit(a, x)
        BY <1>16 DEF h
    <2>2. /\ SimulateCircuit((a \o s) \o b, x) = SimulateCircuit((a \o m) \o b, x)
          /\ h \notin SimulateCircuit(a \o s, x)
        <3>1. /\ a \in Seq(GatesIn(L)) /\ m \in Seq(GatesIn(L))
              /\ s \in Seq(GatesIn(L)) /\ b \in Seq(GatesIn(L))
            BY <1>7, <1>8
        <3>2. \A y \in SUBSET L : h \notin y =>
                /\ SimulateCircuit(s, y) = SimulateCircuit(m, y)
                /\ h \notin SimulateCircuit(m, y)
            BY <1>8
        <3> QED
            BY <2>1, <3>1, <3>2, SegmentExchanged, SMTT(40)
    <2>3. circ = (a \o m) \o b
        BY <1>7
    <2> QED
        BY <1>9, <1>13, <2>2, <2>3, Zenon
<1>17. /\ j \in i..n + 1 /\ c \in Seq(GatesIn(L)) /\ Len(c) = n + 2
       /\ \A k \in j + 2..Len(c) : c[k] = circ[k - 2]
    BY <1>1, <1>10, <1>13, <1>15
<1>18. Inserted(L, i, j, f, c)
    <2>1. a = SubSeq(circ, 1, i - 1)
        BY <1>3
    <2> QED
        BY <1>14, <1>16, <1>17, <2>1, Zenon DEF Inserted, h, n
<1> QED
    BY <1>4, <1>18 DEF j
-------------------------------------------------------------------------------
(* The invariant of adding_lines. *)
LinesTyped ==
    /\ algorithm = "lines"
    /\ work = [base_lines |-> work.base_lines, additional_lines |-> work.additional_lines,
               cost_function |-> work.cost_function, helper |-> work.helper,
               index |-> work.index, last |-> work.last,
               before |-> work.before, done |-> work.done]
    /\ work.base_lines \in Nat /\ work.helper \in Nat /\ work.base_lines <= work.helper
    /\ work.done \in BOOLEAN
    /\ spec = [x \in BaseAssignments(work.base_lines) |-> spec[x]]
    /\ circ \in Seq(GatesIn(0..work.helper))

(* Only gates before the last helper gate and that gate use the helper line.  *)
HelperIsAhead ==
    ~work.done =>
        /\ work.index \in 1..Len(circ) + 1 /\ work.last \in 0..work.index - 1
        /\ \A k \in work.last + 1..Len(circ) : circ[k] \in GatesIn(0..work.helper - 1)
        /\ work.last # 0 => \E f \in SUBSET ((0..work.helper - 1) \X BOOLEAN) :
                                circ[work.last] = HelperGate(f)

LInv == LinesTyped /\ HelperIsAhead /\ BaseFunctionIsKept /\ HelperIsClear

LEMMA LinesStart == LinesInit => LInv
<1> SUFFICES ASSUME LinesInit PROVE LInv
    OBVIOUS
<1>1. PICK base_lines \in Nat \ {0}, additional_lines \in Nat \ {0},
           cost_function \in {"transistor", "t"} :
         \E base \in Seq(GatesOn(0..base_lines - 1)) :
            StartLines(base, base_lines, additional_lines, cost_function)
    BY DEF LinesInit
<1>2. PICK base \in Seq(GatesOn(0..base_lines - 1)) :
         StartLines(base, base_lines, additional_lines, cost_function)
    BY <1>1
<1> DEFINE K == 0..base_lines - 1
           L == 0..base_lines
<1>3. /\ algorithm = "lines" /\ circ = base
      /\ spec = [x \in BaseAssignments(base_lines) |-> SimulateCircuit(base, x)]
      /\ work.base_lines = base_lines /\ work.helper = base_lines
      /\ work.index = 1 /\ work.last = 0 /\ work.done = FALSE
      /\ work = [base_lines |-> work.base_lines, additional_lines |-> work.additional_lines,
                 cost_function |-> work.cost_function, helper |-> work.helper,
                 index |-> work.index, last |-> work.last,
                 before |-> work.before, done |-> work.done]
    BY <1>2 DEF StartLines
<1>4. /\ \A k \in 1..Len(circ) : circ[k] \in GatesIn(K)
      /\ circ \in Seq(GatesIn(L)) /\ circ \in Seq(GatesIn(K))
    <2>1. GatesOn(K) \subseteq GatesIn(K) /\ GatesIn(K) \subseteq GatesIn(L)
        BY GatesOnAreIn, MoreGates
    <2>2. circ \in Seq(GatesOn(K))
        BY <1>3
    <2> HIDE DEF K, L
    <2> QED
        BY <2>1, <2>2
<1>5. LinesTyped
    <2>1. /\ work.base_lines \in Nat /\ work.helper \in Nat /\ work.base_lines <= work.helper
          /\ work.done \in BOOLEAN
        <3>1. base_lines \in Nat /\ base_lines <= base_lines /\ FALSE \in BOOLEAN
            OBVIOUS
        <3> QED
            BY <1>3, <3>1, Zenon
    <2>3. circ \in Seq(GatesIn(0..work.helper))
        BY <1>3, <1>4, Zenon
    <2>2. spec = [x \in BaseAssignments(work.base_lines) |-> spec[x]]
        BY <1>3
    <2> QED
        BY <1>3, <2>1, <2>2, <2>3, Zenon DEF LinesTyped
<1>6. HelperIsAhead
    BY <1>3, <1>4 DEF HelperIsAhead
<1>7. BaseFunctionIsKept
    <2> SUFFICES ASSUME NEW x \in BaseAssignments(base_lines)
                 PROVE  SimulateCircuit(circ, x) \cap K = spec[x]
        BY <1>3 DEF BaseFunctionIsKept
    <2>1. x \in SUBSET K
        BY DEF BaseAssignments
    <2>2. SimulateCircuit(circ, x) \in SUBSET K
        BY <1>4, <2>1, CircuitTypedIn
    <2>3. spec[x] = SimulateCircuit(circ, x)
        BY <1>3
    <2> QED
        BY <2>2, <2>3
<1>8. HelperIsClear
    <2> SUFFICES ASSUME NEW x \in BaseAssignments(base_lines)
                 PROVE  base_lines \notin SimulateCircuit(SubSeq(circ, 1, 0), x)
        BY <1>3 DEF HelperIsClear
    <2>1. SubSeq(circ, 1, 0) = <<>>
        BY <1>4
    <2>2. x \in SUBSET K
        BY DEF BaseAssignments
    <2>3. SimulateCircuit(<<>>, x) = x
        BY <2>2, SimulateNoneIn
    <2>4. base_lines \notin x
        BY <2>2
    <2> QED
        BY <2>1, <2>3, <2>4, Zenon
<1> QED
    BY <1>5, <1>6, <1>7, <1>8 DEF LInv

LEMMA WorkMoves ==
    ASSUME LinesTyped, NEW a, NEW b, work' = [work EXCEPT !.index = a, !.last = b]
    PROVE  /\ work'.base_lines = work.base_lines /\ work'.helper = work.helper
           /\ work'.done = work.done /\ work'.index = a /\ work'.last = b
           /\ work' = [base_lines |-> work'.base_lines,
                       additional_lines |-> work'.additional_lines,
                       cost_function |-> work'.cost_function, helper |-> work'.helper,
                       index |-> work'.index, last |-> work'.last,
                       before |-> work'.before, done |-> work'.done]
<1>1. work' = [base_lines |-> work.base_lines, additional_lines |-> work.additional_lines,
               cost_function |-> work.cost_function, helper |-> work.helper,
               index |-> a, last |-> b, before |-> work.before, done |-> work.done]
    BY DEF LinesTyped
<1> QED
    BY <1>1

LEMMA HelperLines ==
    ASSUME LInv
    PROVE  /\ work.helper \in Nat /\ work.helper \in 0..work.helper
           /\ work.helper \notin 0..work.helper - 1
           /\ 0..work.helper - 1 \in SUBSET (0..work.helper)
           /\ BaseAssignments(work.base_lines) \subseteq SUBSET (0..work.helper)
           /\ BaseAssignments(work.base_lines) \subseteq SUBSET (0..work.helper - 1)
           /\ work.helper \notin 0..work.base_lines - 1
BY DEF LInv, LinesTyped, BaseAssignments

LEMMA FactorKeeps ==
    ASSUME LInv, ApplyFactor
    PROVE  LInv'
<1> DEFINE h == work.helper
           K == 0..h - 1
           L == 0..h
           i == work.index
<1>1. /\ ~work.done /\ i \in 1..Len(circ) + 1 /\ work.last \in 0..i - 1 /\ i <= Len(circ)
      /\ circ \in Seq(GatesIn(L))
      /\ \A k \in work.last + 1..Len(circ) : circ[k] \in GatesIn(K)
    BY DEF LInv, LinesTyped, HelperIsAhead, ApplyFactor
<1>2. /\ h \in Nat /\ h \in L /\ h \notin K /\ K \in SUBSET L
      /\ BaseAssignments(work.base_lines) \subseteq SUBSET L
    BY HelperLines
<1>3. PICK f \in BestFactors :
         /\ circ' = WithFactor(i, FindSuitableGates(i, f), f)
         /\ work' = [work EXCEPT !.index = FindSuitableGates(i, f) + 2,
                                 !.last = FindSuitableGates(i, f) + 1]
    BY DEF ApplyFactor, WithFactor
<1>4. \A k \in i..Len(circ) : circ[k] \in GatesIn(K)
    BY <1>1
<1>5. f \in SUBSET (K \X BOOLEAN)
    <2>1. circ[i] \in GatesIn(K)
        BY <1>1, <1>4
    <2> HIDE DEF K
    <2>2. circ[i].controls \in SUBSET (K \X BOOLEAN)
        BY <2>1, ControlsOn
    <2>3. f \in SUBSET circ[i].controls
        BY DEF BestFactors, Factors
    <2> QED
        BY <2>2, <2>3
<1> DEFINE j == FindSuitableGates(i, f)
<1>6. circ' = WithFactor(i, j, f) /\ work' = [work EXCEPT !.index = j + 2, !.last = j + 1]
    BY <1>3
<1>7. algorithm' = algorithm /\ spec' = spec
    BY DEF ApplyFactor
<1>8. /\ work'.base_lines = work.base_lines /\ work'.helper = work.helper
      /\ work'.done = work.done /\ work'.index = j + 2 /\ work'.last = j + 1
      /\ work' = [base_lines |-> work'.base_lines,
                  additional_lines |-> work'.additional_lines,
                  cost_function |-> work'.cost_function, helper |-> work'.helper,
                  index |-> work'.index, last |-> work'.last,
                  before |-> work'.before, done |-> work'.done]
    BY <1>6, WorkMoves DEF LInv
<1> HIDE DEF j
<1>9. Inserted(L, i, j, f, circ')
    <2> HIDE DEF K, L, h
    <2>1. Inserted(L, i, FindSuitableGates(i, f), f, WithFactor(i, FindSuitableGates(i, f), f))
        BY <1>1, <1>2, <1>4, <1>5, SegmentInserted DEF h
    <2> QED
        BY <1>6, <2>1 DEF j
<1>10. /\ j \in i..Len(circ) + 1 /\ circ' \in Seq(GatesIn(L)) /\ Len(circ') = Len(circ) + 2
       /\ circ'[j + 1] = HelperGate(f) /\ \A k \in j + 2..Len(circ') : circ'[k] = circ[k - 2]
    BY <1>9, Zenon DEF Inserted
<1>11. \A x \in SUBSET L : h \notin SimulateCircuit(SubSeq(circ, 1, i - 1), x) =>
         /\ SimulateCircuit(circ', x) = SimulateCircuit(circ, x)
         /\ h \notin SimulateCircuit(SubSeq(circ', 1, j + 1), x)
    BY <1>9, Zenon DEF Inserted, h
<1>12. LinesTyped'
    <2>1. /\ algorithm' = "lines"
          /\ work'.base_lines \in Nat /\ work'.helper \in Nat
          /\ work'.base_lines <= work'.helper /\ work'.done \in BOOLEAN
        BY <1>7, <1>8 DEF LInv, LinesTyped
    <2>2. spec' = [x \in BaseAssignments(work'.base_lines) |-> spec'[x]]
        BY <1>7, <1>8, Zenon DEF LInv, LinesTyped, BaseAssignments
    <2>3. circ' \in Seq(GatesIn(0..work'.helper))
        BY <1>8, <1>10, Zenon
    <2> QED
        BY <1>8, <2>1, <2>2, <2>3, Zenon DEF LinesTyped
<1>13. HelperIsAhead'
    <2>1. work'.index \in 1..Len(circ') + 1 /\ work'.last \in 0..work'.index - 1
        BY <1>1, <1>8, <1>10, SMTT(40)
    <2>2. \A k \in work'.last + 1..Len(circ') : circ'[k] \in GatesIn(0..work'.helper - 1)
        <3> TAKE k \in work'.last + 1..Len(circ')
        <3>1. /\ k \in j + 2..Len(circ') /\ k - 2 \in i..Len(circ)
            BY <1>1, <1>8, <1>10, SMTT(40)
        <3>2. circ'[k] = circ[k - 2] /\ circ[k - 2] \in GatesIn(K)
            BY <1>4, <1>10, <3>1
        <3> QED
            BY <1>8, <3>2
    <2>3. \E e \in SUBSET ((0..work'.helper - 1) \X BOOLEAN) :
             circ'[work'.last] = Toffoli(e, work'.helper)
        BY <1>5, <1>8, <1>10, Zenon DEF HelperGate
    <2> QED
        BY <2>1, <2>2, <2>3, Zenon DEF HelperIsAhead, HelperGate
<1>14. ASSUME NEW x \in BaseAssignments(work.base_lines)
       PROVE  /\ SimulateCircuit(circ', x) = SimulateCircuit(circ, x)
              /\ h \notin SimulateCircuit(SubSeq(circ', 1, j + 1), x)
    <2>1. h \notin SimulateCircuit(SubSeq(circ, 1, i - 1), x)
        BY <1>1, Zenon DEF LInv, LinesTyped, HelperIsClear
    <2> QED
        BY <1>2, <1>11, <2>1
<1>15. BaseFunctionIsKept'
    BY <1>7, <1>8, <1>14, Zenon DEF LInv, LinesTyped, BaseFunctionIsKept, BaseAssignments
<1>16. HelperIsClear'
    <2>1. j \in Int /\ (j + 2) - 1 = j + 1
        BY <1>1, <1>10
    <2>2. \A x \in BaseAssignments(work'.base_lines) :
             work'.helper \notin SimulateCircuit(SubSeq(circ', 1, work'.index - 1), x)
        BY <1>8, <1>14, <2>1, Zenon
    <2> QED
        BY <2>2, Zenon DEF HelperIsClear, BaseAssignments
<1> QED
    BY <1>12, <1>13, <1>15, <1>16, Zenon DEF LInv

(* The gates before and after a gate that changes the helper line only. *)
LEMMA GateTaken ==
    ASSUME NEW L, NEW K \in SUBSET L, NEW h \in L, h \notin K, NEW f,
           NEW a \in Seq(GatesIn(L)), NEW b \in Seq(GatesIn(K)), Toffoli(f, h) \in GatesIn(L),
           NEW x \in SUBSET L
    PROVE  \A l \in L \ {h} : l \in SimulateCircuit(a \o b, x) <=>
                              l \in SimulateCircuit((a \o <<Toffoli(f, h)>>) \o b, x)
<1> DEFINE y == SimulateCircuit(a, x)
           H == Toffoli(f, h)
           m == <<H>>
           u == a \o m
<1>1. y \in SUBSET L
    BY CircuitTypedIn
<1>2. b \in Seq(GatesIn(L)) /\ m \in Seq(GatesIn(L))
    BY MoreGates
<1>3. SimulateCircuit(a \o b, x) = SimulateCircuit(b, y)
    BY <1>2, SimulateBothIn
<1>4. SimulateCircuit(m, y) = Simulate(H, y)
    BY <1>1, SimulateOneIn
<1>5. Simulate(H, y) = y \/ Simulate(H, y) = Flip(y, h)
    BY SimulateToffoli
<1> HIDE DEF H, m
<1>6. SimulateCircuit(u, x) = SimulateCircuit(m, y) /\ u \in Seq(GatesIn(L))
    BY <1>2, SimulateBothIn, ConcatProperties
<1> HIDE DEF u
<1>7. SimulateCircuit(u \o b, x) = SimulateCircuit(b, SimulateCircuit(u, x))
    BY <1>2, <1>6, SimulateBothIn
<1> HIDE DEF y
<1>8. SimulateCircuit(b, Flip(y, h)) = Flip(SimulateCircuit(b, y), h)
    <2>1. LeavesAlone(b, h, y)
        BY <1>1, CircuitLeavesAlone
    <2> QED
        BY <2>1, Zenon DEF LeavesAlone
<1>9. \A z : \A l \in L \ {h} : l \in Flip(z, h) <=> l \in z
    BY DEF Flip, SymDiff
<1>10. \A l \in L \ {h} : l \in SimulateCircuit(b, y) <=> l \in SimulateCircuit(u \o b, x)
    <2>1. CASE Simulate(H, y) = y
        BY <1>4, <1>6, <1>7, <2>1
    <2>2. CASE Simulate(H, y) = Flip(y, h)
        BY <1>4, <1>6, <1>7, <1>8, <1>9, <2>2
    <2> QED
        BY <1>5, <2>1, <2>2
<1> QED
    BY <1>3, <1>10 DEF u, m, H

LEMMA NextGateKeeps ==
    ASSUME LInv, NextGate
    PROVE  LInv'
<1> DEFINE h == work.helper
           K == 0..h - 1
           L == 0..h
           i == work.index
           n == Len(circ)
<1>1. /\ ~work.done /\ i \in 1..n + 1 /\ work.last \in 0..i - 1 /\ i <= n
      /\ circ \in Seq(GatesIn(L))
      /\ \A k \in work.last + 1..n : circ[k] \in GatesIn(K)
    BY DEF LInv, LinesTyped, HelperIsAhead, NextGate
<1>2. /\ h \in Nat /\ h \in L /\ h \notin K /\ K \in SUBSET L
      /\ BaseAssignments(work.base_lines) \subseteq SUBSET L
    BY HelperLines
<1>3. algorithm' = algorithm /\ spec' = spec /\ circ' = circ
    BY DEF NextGate
<1>4. work' = [work EXCEPT !.index = i + 1, !.last = work.last]
    <2>1. work' = [work EXCEPT !.index = work.index + 1]
        BY DEF NextGate
    <2>2. [work EXCEPT !.index = i + 1] = [work EXCEPT !.index = i + 1, !.last = work.last]
        BY DEF LInv, LinesTyped
    <2> QED
        BY <2>1, <2>2
<1>5. /\ work'.base_lines = work.base_lines /\ work'.helper = work.helper
      /\ work'.done = work.done /\ work'.index = i + 1 /\ work'.last = work.last
      /\ work' = [base_lines |-> work'.base_lines,
                  additional_lines |-> work'.additional_lines,
                  cost_function |-> work'.cost_function, helper |-> work'.helper,
                  index |-> work'.index, last |-> work'.last,
                  before |-> work'.before, done |-> work'.done]
    BY <1>4, WorkMoves DEF LInv
<1>6. LinesTyped'
    <2>1. /\ algorithm' = "lines"
          /\ work'.base_lines \in Nat /\ work'.helper \in Nat
          /\ work'.base_lines <= work'.helper /\ work'.done \in BOOLEAN
        BY <1>3, <1>5 DEF LInv, LinesTyped
    <2>2. spec' = [x \in BaseAssignments(work'.base_lines) |-> spec'[x]]
        BY <1>3, <1>5, Zenon DEF LInv, LinesTyped, BaseAssignments
    <2>3. circ' \in Seq(GatesIn(0..work'.helper))
        BY <1>1, <1>3, <1>5, Zenon
    <2> QED
        BY <1>5, <2>1, <2>2, <2>3, Zenon DEF LinesTyped
<1>7. HelperIsAhead'
    <2>1. work'.index \in 1..Len(circ') + 1 /\ work'.last \in 0..work'.index - 1
        BY <1>1, <1>3, <1>5
    <2>2. \A k \in work'.last + 1..Len(circ') : circ'[k] \in GatesIn(0..work'.helper - 1)
        BY <1>1, <1>3, <1>5, Zenon
    <2>3. work'.last # 0 => \E e \in SUBSET ((0..work'.helper - 1) \X BOOLEAN) :
             circ'[work'.last] = Toffoli(e, work'.helper)
        BY <1>1, <1>3, <1>5, Zenon DEF HelperGate, LInv, HelperIsAhead
    <2> QED
        BY <2>1, <2>2, <2>3, Zenon DEF HelperIsAhead, HelperGate
<1>8. BaseFunctionIsKept'
    BY <1>3, <1>5, Zenon DEF LInv, LinesTyped, BaseFunctionIsKept, BaseAssignments
<1>9. ASSUME NEW x \in BaseAssignments(work.base_lines)
      PROVE  h \notin SimulateCircuit(SubSeq(circ, 1, i), x)
    <2> DEFINE a == SubSeq(circ, 1, i - 1)
               m == SubSeq(circ, i, (i + 1) - 1)
               y == SimulateCircuit(a, x)
    <2>1. h \notin y
        BY <1>1, Zenon DEF LInv, LinesTyped, HelperIsClear
    <2> HIDE DEF L, K
    <2>2. circ[i] \in GatesIn(K) /\ i \in 1..n + 1 /\ i + 1 \in i..n + 1 /\ (i + 1) - 1 = i
          /\ x \in SUBSET L
        <3>1. x \in SUBSET L
            BY <1>2, Zenon
        <3> HIDE DEF h, i, a, m, y
        <3>2. n \in Nat
            BY <1>1, LenProperties DEF n
        <3> HIDE DEF n
        <3>3. /\ i \in 1..n + 1 /\ i + 1 \in i..n + 1 /\ (i + 1) - 1 = i
              /\ i \in work.last + 1..n
            BY <1>1, <3>2
        <3>4. circ[i] \in GatesIn(K)
            BY <1>1, <3>3, Zenon
        <3> QED
            BY <3>1, <3>3, <3>4, Zenon
    <2> HIDE DEF n
    <2>3. Cut(GatesIn(L), circ, i, i + 1, a, m, SubSeq(circ, i + 1, Len(circ)))
        BY <1>1, <2>2, ThreeCuts DEF n
    <2>4. /\ a \in Seq(GatesIn(L)) /\ m \in Seq(GatesIn(L)) /\ Len(m) = (i + 1) - i
          /\ \A k \in 1..(i + 1) - i : m[k] = circ[i + k - 1]
          /\ SubSeq(circ, 1, (i + 1) - 1) = a \o m
        <3> HIDE DEF a, m, i
        <3>1. a \in Seq(GatesIn(L)) /\ m \in Seq(GatesIn(L))
            BY <2>3 DEF Cut
        <3>2. Len(m) = (i + 1) - i
            BY <2>3 DEF Cut
        <3>3. \A k \in 1..(i + 1) - i : m[k] = circ[i + k - 1]
            BY <2>3, Zenon DEF Cut
        <3>4. SubSeq(circ, 1, (i + 1) - 1) = a \o m
            BY <2>3, Zenon DEF Cut
        <3> QED
            BY <3>1, <3>2, <3>3, <3>4, Zenon
    <2> HIDE DEF a, m
    <2>5. m \in Seq(GatesIn(K))
        <3>1. i \in Int /\ (i + 1) - i = 1 /\ i + 1 - 1 = i
            BY <1>1
        <3>2. Len(m) = 1 /\ m[1] = circ[i]
            <4> HIDE DEF i
            <4>1. 1 \in 1..1 /\ Len(m) = (i + 1) - i
                BY <2>4
            <4>2. m[1] = circ[i + 1 - 1]
                BY <2>4, <3>1, <4>1
            <4> QED
                BY <3>1, <4>1, <4>2, Zenon
        <3>3. m = <<m[1]>>
            BY <2>4, <3>2
        <3>4. <<circ[i]>> \in Seq(GatesIn(K))
            BY <2>2
        <3> QED
            BY <3>2, <3>3, <3>4, Zenon
    <2> HIDE DEF i
    <2>6. y \in SUBSET L
        BY <2>2, <2>4, CircuitTypedIn
    <2>7. SimulateCircuit(a \o m, x) = SimulateCircuit(m, y)
        BY <2>2, <2>4, SimulateBothIn
    <2> HIDE DEF y, h
    <2>8. h \notin SimulateCircuit(m, y)
        BY <1>2, <2>1, <2>5, <2>6, CircuitLeavesAlone DEF LeavesAlone
    <2> QED
        BY <2>2, <2>4, <2>7, <2>8, Zenon
<1>10. HelperIsClear'
    <2>1. (i + 1) - 1 = i
        BY <1>1
    <2>2. \A x \in BaseAssignments(work'.base_lines) :
             work'.helper \notin SimulateCircuit(SubSeq(circ', 1, work'.index - 1), x)
        BY <1>3, <1>5, <1>9, <2>1, Zenon
    <2> QED
        BY <2>2, Zenon DEF HelperIsClear, BaseAssignments
<1> QED
    BY <1>6, <1>7, <1>8, <1>10, Zenon DEF LInv

LEMMA LastGateGoes ==
    ASSUME LInv, EndLine
    PROVE  /\ circ' \in Seq(GatesIn(0..work.helper))
           /\ \A x \in SUBSET (0..work.helper) : \A l \in 0..work.helper - 1 :
                 l \in SimulateCircuit(circ', x) <=> l \in SimulateCircuit(circ, x)
<1> DEFINE h == work.helper
           K == 0..h - 1
           L == 0..h
           i == work.last
           n == Len(circ)
<1>1. /\ ~work.done /\ work.index \in 1..n + 1 /\ i \in 0..work.index - 1
      /\ ~ work.index <= n /\ circ \in Seq(GatesIn(L))
      /\ \A k \in i + 1..n : circ[k] \in GatesIn(K)
    BY DEF LInv, LinesTyped, HelperIsAhead, EndLine
<1>2. h \in Nat /\ h \in L /\ h \notin K /\ K \in SUBSET L /\ K = L \ {h}
    BY HelperLines
<1>3. n \in Nat /\ i \in 0..n
    BY <1>1
<1> HIDE DEF h, K, L
<1>4. CASE i = 0
    <2>1. circ' = circ
        BY <1>4 DEF EndLine
    <2> QED
        BY <1>1, <2>1 DEF L, h
<1>5. CASE i # 0
    <2> DEFINE a == SubSeq(circ, 1, i - 1)
               m == SubSeq(circ, i, (i + 1) - 1)
               b == SubSeq(circ, i + 1, n)
    <2>1. i \in 1..n + 1 /\ i + 1 \in i..n + 1 /\ (i + 1) - i = 1 /\ i + 1 - 1 = i /\ i \in 1..n
        BY <1>3, <1>5
    <2>2. Cut(GatesIn(L), circ, i, i + 1, a, m, b)
        BY <1>1, <2>1, ThreeCuts
    <2>3. Rejoined(circ, i, i + 1, <<>>, a, b)
        BY <1>1, <2>1, MiddleReplaced
    <2>4. PICK f : circ[i] = Toffoli(f, h)
        BY <1>1, <1>5, Zenon DEF LInv, HelperIsAhead, HelperGate, h
    <2>5. circ[i] \in GatesIn(L)
        BY <1>1, <2>1
    <2> HIDE DEF a, m, b, n, i
    <2>6. /\ a \in Seq(GatesIn(L)) /\ circ = (a \o m) \o b
          /\ m \in Seq(GatesIn(L)) /\ b \in Seq(GatesIn(L))
        BY <2>2, Zenon DEF Cut
    <2>7. Len(m) = 1 /\ m[1] = circ[i]
        <3>1. Len(m) = (i + 1) - i
            BY <2>2 DEF Cut
        <3>2. \A k \in 1..(i + 1) - i : m[k] = circ[i + k - 1]
            BY <2>2 DEF Cut
        <3>3. 1 \in 1..1
            OBVIOUS
        <3> QED
            BY <2>1, <3>1, <3>2, <3>3, Zenon
    <2>8. m = <<Toffoli(f, h)>>
        BY <2>4, <2>6, <2>7
    <2>9. b \in Seq(GatesIn(K))
        <3>1. Len(b) = n + 1 - (i + 1)
            BY <2>2 DEF Cut, n
        <3>2. \A k \in 1..n + 1 - (i + 1) : b[k] = circ[i + 1 + k - 1]
            BY <2>2 DEF Cut, n
        <3>3. \A k \in 1..Len(b) : b[k] \in GatesIn(K)
            <4> TAKE k \in 1..Len(b)
            <4>1. k \in 1..n + 1 - (i + 1) /\ i + 1 + k - 1 \in i + 1..n
                BY <1>3, <3>1
            <4> QED
                BY <1>1, <3>2, <4>1
        <3>4. b \in [1..Len(b) -> GatesIn(K)] /\ Len(b) \in Nat
            BY <2>6, <3>3
        <3> QED
            BY <3>4
    <2>10. circ' = a \o b
        <3>1. RemoveGates(circ, i - 1, 1) = a \o b
            BY <2>1, <2>3, Zenon DEF Rejoined
        <3>2. circ' = RemoveGates(circ, i - 1, 1)
            BY <1>5 DEF EndLine, i
        <3> QED
            BY <3>1, <3>2
    <2>11. a \o b \in Seq(GatesIn(L))
        BY <2>6, ConcatProperties
    <2>12. ASSUME NEW x \in SUBSET L
           PROVE  \A l \in L \ {h} : l \in SimulateCircuit(a \o b, x) <=>
                                     l \in SimulateCircuit((a \o <<Toffoli(f, h)>>) \o b, x)
        <3>1. Toffoli(f, h) \in GatesIn(L)
            BY <2>4, <2>5
        <3> QED
            BY <1>2, <2>6, <2>9, <3>1, GateTaken, Zenon
    <2>13. \A x \in SUBSET L : \A l \in K :
              l \in SimulateCircuit(circ', x) <=> l \in SimulateCircuit(circ, x)
        BY <1>2, <2>6, <2>8, <2>10, <2>12, Zenon
    <2> QED
        BY <2>10, <2>11, <2>13, Zenon DEF K, L, h
<1> QED
    BY <1>4, <1>5

LEMMA EndLineKeeps ==
    ASSUME LInv, EndLine
    PROVE  LInv'
<1> DEFINE h == work.helper
<1>1. /\ circ' \in Seq(GatesIn(0..h))
      /\ \A x \in SUBSET (0..h) : \A l \in 0..h - 1 :
             l \in SimulateCircuit(circ', x) <=> l \in SimulateCircuit(circ, x)
    BY LastGateGoes
<1>2. /\ algorithm' = algorithm /\ spec' = spec /\ algorithm = "lines"
      /\ h \in Nat /\ work.base_lines \in Nat /\ work.base_lines <= h
    BY DEF EndLine, LInv, LinesTyped
<1>3. /\ BaseAssignments(work.base_lines) \subseteq SUBSET (0..h)
      /\ 0..work.base_lines - 1 \subseteq 0..h - 1
    BY <1>2 DEF BaseAssignments
<1>4. ASSUME NEW x \in BaseAssignments(work.base_lines)
      PROVE  SimulateCircuit(circ', x) \cap (0..work.base_lines - 1) = spec[x]
    <2>1. SimulateCircuit(circ, x) \cap (0..work.base_lines - 1) = spec[x]
        BY <1>2 DEF LInv, BaseFunctionIsKept
    <2>2. \A l \in 0..work.base_lines - 1 :
             l \in SimulateCircuit(circ', x) <=> l \in SimulateCircuit(circ, x)
        BY <1>1, <1>3, Zenon
    <2> QED
        BY <2>1, <2>2, Zenon
<1>5. spec = [x \in BaseAssignments(work.base_lines) |-> spec[x]]
    BY DEF LInv, LinesTyped
<1>6. work = [base_lines |-> work.base_lines, additional_lines |-> work.additional_lines,
              cost_function |-> work.cost_function, helper |-> work.helper,
              index |-> work.index, last |-> work.last,
              before |-> work.before, done |-> work.done]
    BY DEF LInv, LinesTyped
<1>7. CASE work.helper + 1 = work.base_lines + work.additional_lines
    <2>1. work' = [work EXCEPT !.done = TRUE]
        BY <1>7 DEF EndLine
    <2>2. /\ work'.base_lines = work.base_lines /\ work'.helper = work.helper
          /\ work'.done = TRUE
        BY <1>6, <2>1
    <2>3. work' = [base_lines |-> work'.base_lines,
                   additional_lines |-> work'.additional_lines,
                   cost_function |-> work'.cost_function, helper |-> work'.helper,
                   index |-> work'.index, last |-> work'.last,
                   before |-> work'.before, done |-> work'.done]
        BY <1>6, <2>1
    <2>4. LinesTyped'
        <3>1. circ' \in Seq(GatesIn(0..work'.helper))
            BY <1>1, <2>2, Zenon
        <3>2. spec' = [x \in BaseAssignments(work'.base_lines) |-> spec'[x]]
            BY <1>2, <1>5, <2>2, Zenon DEF BaseAssignments
        <3> QED
            BY <1>2, <2>2, <2>3, <3>1, <3>2, Zenon DEF LinesTyped
    <2>5. BaseFunctionIsKept'
        BY <1>2, <1>4, <2>2, Zenon DEF BaseFunctionIsKept, BaseAssignments
    <2>6. HelperIsAhead' /\ HelperIsClear'
        BY <2>2, Zenon DEF HelperIsAhead, HelperIsClear
    <2> QED
        BY <2>4, <2>5, <2>6, Zenon DEF LInv
<1>8. CASE work.helper + 1 # work.base_lines + work.additional_lines
    <2>1. work' = [work EXCEPT !.helper = h + 1, !.index = 1, !.last = 0]
        BY <1>8 DEF EndLine
    <2>2. /\ work'.base_lines = work.base_lines /\ work'.helper = h + 1
          /\ work'.index = 1 /\ work'.last = 0 /\ work'.done = work.done
        BY <1>6, <2>1
    <2>3. work' = [base_lines |-> work'.base_lines,
                   additional_lines |-> work'.additional_lines,
                   cost_function |-> work'.cost_function, helper |-> work'.helper,
                   index |-> work'.index, last |-> work'.last,
                   before |-> work'.before, done |-> work'.done]
        BY <1>6, <2>1
    <2>4. (h + 1) - 1 = h /\ 0..h \subseteq 0..h + 1 /\ h + 1 \in Nat /\ work.base_lines <= h + 1
        BY <1>2
    <2>5. LinesTyped'
        <3>1. circ' \in Seq(GatesIn(0..h + 1))
            <4>1. GatesIn(0..h) \subseteq GatesIn(0..h + 1)
                BY <2>4, MoreGates
            <4> QED
                BY <1>1, <4>1
        <3>2. spec' = [x \in BaseAssignments(work'.base_lines) |-> spec'[x]]
            BY <1>2, <1>5, <2>2, Zenon DEF BaseAssignments
        <3>3. work'.done \in BOOLEAN
            BY <2>2 DEF LInv, LinesTyped
        <3>4. circ' \in Seq(GatesIn(0..work'.helper))
            BY <2>2, <3>1, Zenon
        <3>5. work'.base_lines \in Nat /\ work'.helper \in Nat /\ work'.base_lines <= work'.helper
            BY <1>2, <2>2, <2>4, Zenon
        <3> QED
            BY <1>2, <2>3, <3>2, <3>3, <3>4, <3>5, Zenon DEF LinesTyped
    <2>6. BaseFunctionIsKept'
        BY <1>2, <1>4, <2>2, Zenon DEF BaseFunctionIsKept, BaseAssignments
    <2>7. HelperIsAhead'
        <3>1. \A k \in 1..Len(circ') : circ'[k] \in GatesIn(0..h)
            BY <1>1
        <3>2. 1 \in 1..Len(circ') + 1 /\ 0 \in 0..1 - 1 /\ 0 + 1 = 1
            BY <1>1
        <3> QED
            BY <2>2, <2>4, <3>1, <3>2 DEF HelperIsAhead
    <2>8. HelperIsClear'
        <3>1. ASSUME NEW x \in BaseAssignments(work.base_lines)
              PROVE  h + 1 \notin SimulateCircuit(SubSeq(circ', 1, 0), x)
            <4>1. SubSeq(circ', 1, 0) = <<>>
                BY <1>1
            <4>2. x \in SUBSET (0..h)
                BY <1>3
            <4>3. SimulateCircuit(<<>>, x) = x
                BY <4>2, SimulateNoneIn
            <4>4. h + 1 \notin x
                BY <1>2, <4>2
            <4> QED
                BY <4>1, <4>3, <4>4, Zenon
        <3>2. 1 - 1 = 0
            OBVIOUS
        <3>3. \A x \in BaseAssignments(work'.base_lines) :
                 work'.helper \notin SimulateCircuit(SubSeq(circ', 1, work'.index - 1), x)
            BY <2>2, <3>1, <3>2, Zenon
        <3> QED
            BY <3>3, Zenon DEF HelperIsClear, BaseAssignments
    <2> QED
        BY <2>5, <2>6, <2>7, <2>8, Zenon DEF LInv
<1> QED
    BY <1>7, <1>8

LEMMA LinesStep == LInv /\ [AddLines]_vars => LInv'
<1> SUFFICES ASSUME LInv, [AddLines]_vars PROVE LInv'
    OBVIOUS
<1>1. CASE ApplyFactor
    BY <1>1, FactorKeeps
<1>2. CASE NextGate
    BY <1>2, NextGateKeeps
<1>3. CASE EndLine
    BY <1>3, EndLineKeeps
<1>4. CASE UNCHANGED vars
    <2>1. algorithm' = algorithm /\ spec' = spec /\ circ' = circ /\ work' = work
        BY <1>4 DEF vars
    <2> QED
        BY <2>1, Zenon DEF LInv, LinesTyped, HelperIsAhead, BaseFunctionIsKept, HelperIsClear,
                           BaseAssignments, HelperGate
<1> QED
    BY <1>1, <1>2, <1>3, <1>4 DEF AddLines

LEMMA LinesInductive == LinesSpec => []LInv
BY LinesStart, LinesStep, PTL DEF LinesSpec

(* HelperIsClear: whatever factors are shared, the helper line carries 0 again *)
(* before every gate that is looked at.                                     *)
THEOREM HelperStaysClear == LinesSpec => []HelperIsClear
<1>1. LInv => HelperIsClear
    BY DEF LInv
<1> QED
    BY <1>1, LinesInductive, PTL

(* With 0 on the helper lines the lines of the circuit compute what they did,  *)
(* after every step, for any circuit, number of lines and cost function.     *)
THEOREM BaseFunctionStays == LinesSpec => []BaseFunctionIsKept
<1>1. LInv => BaseFunctionIsKept
    BY DEF LInv
<1> QED
    BY <1>1, LinesInductive, PTL

(* KeepsContract: adding_lines returns a circuit that computes the function of *)
(* the one it was given, and leaves it alone.                                *)
THEOREM LinesAreAdded == LinesSpec => KeepsContract
<1>1. LinesInit => Contract!Init
    <2> SUFFICES ASSUME LinesInit PROVE Returned = FALSE
        BY DEF Contract!Init
    <2>1. work.done = FALSE
        BY DEF LinesInit, StartLines
    <2> QED
        BY <2>1 DEF Returned
<1>2. LInv /\ Returned => Result = spec
    <2> SUFFICES ASSUME LInv, Returned PROVE Result = spec
        OBVIOUS
    <2>1. Result = [x \in DOMAIN spec |->
                        SimulateCircuit(circ, x) \cap (0..work.base_lines - 1)]
        BY DEF Result, LInv, LinesTyped
    <2>2. /\ spec = [x \in BaseAssignments(work.base_lines) |-> spec[x]]
          /\ \A x \in BaseAssignments(work.base_lines) :
                SimulateCircuit(circ, x) \cap (0..work.base_lines - 1) = spec[x]
        BY DEF LInv, LinesTyped, BaseFunctionIsKept
    <2>3. DOMAIN spec = BaseAssignments(work.base_lines)
        BY <2>2, Zenon
    <2> QED
        BY <2>1, <2>2, <2>3
<1>3. LInv /\ LInv' /\ [AddLines]_vars => [Contract!Work \/ Contract!Return]_(Contract!vars)
    <2> SUFFICES ASSUME LInv, LInv', [AddLines]_vars
                 PROVE  Contract!Work \/ Contract!Return \/ UNCHANGED Contract!vars
        OBVIOUS
    <2>1. CASE UNCHANGED vars
        BY <2>1, StandsStill
    <2>2. CASE AddLines
        <3>1. ~Returned /\ spec' = spec
            BY <2>2 DEF AddLines, ApplyFactor, NextGate, EndLine, Returned
        <3>2. (LInv /\ Returned => Result = spec)'
            BY <1>2, PTL
        <3>3. Returned' => Result' = spec'
            BY <3>2
        <3>4. Returned' \in BOOLEAN
            BY DEF Returned
        <3> QED
            BY <3>1, <3>3, <3>4, ReturnsRight, SMTT(40)
    <2> QED
        BY <2>1, <2>2
<1> QED
    BY <1>1, <1>3, LinesInductive, PTL DEF LinesSpec, KeepsContract, Contract!Spec

-------------------------------------------------------------------------------
(* Costs of circuits: gates that the cost function has a number for.          *)
Priced(G, cost_function) ==
    {g \in G : /\ IsFiniteSet(g.controls)
               /\ cost_function = "t" => Cardinality(g.controls) <= 3}

LEMMA GateCostsTyped ==
    ASSUME NEW G, NEW p \in {"transistor", "t"}, NEW g \in Priced(G, p)
    PROVE  GateCosts(g, p) \in Nat
<1>1. /\ Cardinality(g.controls) \in Nat
      /\ p = "t" => Cardinality(g.controls) <= 3
    BY FS_CardinalityType DEF Priced
<1> DEFINE n == Cardinality(g.controls)
<1> HIDE DEF n
<1>2. CASE p = "transistor"
    <2>1. n \in Nat
        BY <1>1 DEF n
    <2>2. GateCosts(g, p) = 8 * n
        BY <1>2 DEF GateCosts, TransistorCosts, n
    <2> QED
        BY <2>1, <2>2
<1>3. CASE p = "t"
    <2>1. n \in 0..3
        BY <1>1, <1>3 DEF n
    <2>2. GateCosts(g, p) = <<0, 0, 7, 22>>[n + 1]
        BY <1>3 DEF GateCosts, TCosts, n
    <2>3. n = 0 \/ n = 1 \/ n = 2 \/ n = 3
        BY <2>1
    <2> QED
        BY <2>2, <2>3
<1> QED
    BY <1>2, <1>3

(* The costs of the gates so far. *)
Bill(h, c, p) ==
    /\ h \in [0..Len(c) -> Nat]
    /\ h[0] = 0
    /\ \A k \in 1..Len(c) : h[k] = h[k - 1] + GateCosts(c[k], p)

LEMMA CostsFold ==
    ASSUME NEW G, NEW p \in {"transistor", "t"}, NEW c \in Seq(Priced(G, p))
    PROVE  \E h : Bill(h, c, p) /\ CircuitCosts(c, p) = h[Len(c)]
<1> DEFINE n == Len(c)
           F == [e \in (1..n) \X Nat |-> e[2] + GateCosts(c[e[1]], p)]
           Is(it) == it = [s \in SUBSET (DOMAIN c) |->
                            IF s = {} THEN 0
                            ELSE it[s \ {SeqExt!Max(s)}] + GateCosts(c[SeqExt!Max(s)], p)]
           r == CHOOSE r : Is(r)
<1>1. n \in Nat /\ DOMAIN c = 1..n /\ \A k \in 1..n : c[k] \in Priced(G, p)
    OBVIOUS
<1>2. F \in [(1..n) \X Nat -> Nat]
    <2>1. \A k \in 1..n : GateCosts(c[k], p) \in Nat
        BY <1>1, GateCostsTyped
    <2> QED
        BY <2>1
<1>3. CircuitCosts(c, p) = r[DOMAIN c]
    BY Zenon DEF CircuitCosts, SeqExt!FoldLeft, SeqExt!MapThenFoldSet
<1>4. PICK it \in [SUBSET (1..n) -> Nat] : IsFold(it, F, 0, n)
    <2> HIDE DEF F, n
    <2>1. 0 \in Nat
        OBVIOUS
    <2> QED
        BY <1>1, <1>2, <2>1, FoldExists
<1>5. Is(it)
    <2>1. ASSUME NEW s \in SUBSET (1..n), s # {}
          PROVE  F[<<SeqExt!Max(s), it[s \ {SeqExt!Max(s)}]>>]
                 = it[s \ {SeqExt!Max(s)}] + GateCosts(c[SeqExt!Max(s)], p)
        <3>1. SeqExt!Max(s) \in 1..n /\ it[s \ {SeqExt!Max(s)}] \in Nat
            BY <1>1, <2>1, MaxOf
        <3> QED
            BY <3>1
    <2> HIDE DEF F
    <2> QED
        BY <1>1, <1>4, <2>1 DEF IsFold
<1>6. Is(r)
    <2> HIDE DEF Is
    <2> QED
        BY <1>5, Zenon
<1> HIDE DEF r
<1>7. r[{}] = 0
    BY <1>6
<1>8. ASSUME NEW k \in 1..n, r[1..k - 1] \in Nat
      PROVE  r[1..k] = F[<<k, r[1..k - 1]>>]
    <2>1. 1..k \in SUBSET (1..n) /\ 1..k # {} /\ SeqExt!Max(1..k) = k /\ (1..k) \ {k} = 1..k - 1
        BY <1>1, MaxOfPrefix
    <2>2. 1..k \in SUBSET (DOMAIN c)
        BY <1>1, <2>1
    <2>3. r[1..k] = r[(1..k) \ {SeqExt!Max(1..k)}] + GateCosts(c[SeqExt!Max(1..k)], p)
        BY <1>6, <2>1, <2>2, Zenon
    <2>4. r[1..k] = r[1..k - 1] + GateCosts(c[k], p)
        BY <2>1, <2>3, Zenon
    <2> QED
        BY <1>8, <2>4
<1>9. PICK h : Walk(h, F, 0, n, Nat) /\ r[1..n] = h[n]
    <2>1. FoldsPrefixes(r, F, 0, n, Nat)
        BY <1>7, <1>8, Zenon DEF FoldsPrefixes
    <2> HIDE DEF F, n
    <2>2. n \in Nat /\ 0 \in Nat
        BY <1>1
    <2>3. WalksTo(r[1..n], F, 0, n, Nat)
        BY <1>2, <2>1, <2>2, WalkOfFold, Zenon
    <2> QED
        BY <2>3 DEF WalksTo
<1>10. ASSUME NEW k \in 1..n
       PROVE  h[k] = h[k - 1] + GateCosts(c[k], p)
    <2>1. k - 1 \in 0..n /\ h[k - 1] \in Nat
        BY <1>9 DEF Walk
    <2>2. F[<<k, h[k - 1]>>] = h[k - 1] + GateCosts(c[k], p)
        BY <2>1
    <2> HIDE DEF F
    <2> QED
        BY <1>9, <2>2 DEF Walk
<1> HIDE DEF F
<1>11. Bill(h, c, p)
    BY <1>9, <1>10 DEF Walk, Bill
<1> QED
    BY <1>1, <1>3, <1>9, <1>11

LEMMA CostsTyped ==
    ASSUME NEW G, NEW p \in {"transistor", "t"}, NEW c \in Seq(Priced(G, p))
    PROVE  CircuitCosts(c, p) \in Nat
<1>1. PICK h : Bill(h, c, p) /\ CircuitCosts(c, p) = h[Len(c)]
    BY CostsFold
<1>2. h \in [0..Len(c) -> Nat] /\ Len(c) \in 0..Len(c)
    BY <1>1 DEF Bill
<1> QED
    BY <1>1, <1>2

LEMMA CostsOfBoth ==
    ASSUME NEW G, NEW p \in {"transistor", "t"},
           NEW a \in Seq(Priced(G, p)), NEW b \in Seq(Priced(G, p))
    PROVE  CircuitCosts(a \o b, p) = CircuitCosts(a, p) + CircuitCosts(b, p)
<1> DEFINE c == a \o b
           m == Len(a)
           n == Len(b)
           P == Priced(G, p)
<1> HIDE DEF P
<1>0. a \in Seq(P) /\ b \in Seq(P)
    BY DEF P
<1>1. /\ c \in Seq(P) /\ Len(c) = m + n /\ m \in Nat /\ n \in Nat
      /\ \A k \in 1..m : c[k] = a[k]
      /\ \A k \in m + 1..m + n : c[k] = b[k - m]
    BY <1>0, ConcatProperties
<1>2. PICK f : Bill(f, a, p) /\ CircuitCosts(a, p) = f[m]
    BY CostsFold
<1>3. PICK g : Bill(g, b, p) /\ CircuitCosts(b, p) = g[n]
    BY CostsFold
<1> HIDE DEF c
<1>4. PICK h : Bill(h, c, p) /\ CircuitCosts(c, p) = h[Len(c)]
    BY <1>1, CostsFold DEF P
<1> HIDE DEF m, n
<1> DEFINE T == {k \in 0..m + n : h[k] # IF k <= m THEN f[k] ELSE f[m] + g[k - m]}
<1>5. /\ f \in [0..m -> Nat] /\ f[0] = 0 /\ \A k \in 1..m : f[k] = f[k - 1] + GateCosts(a[k], p)
      /\ g \in [0..n -> Nat] /\ g[0] = 0 /\ \A k \in 1..n : g[k] = g[k - 1] + GateCosts(b[k], p)
    BY <1>2, <1>3 DEF Bill, m, n
<1>6. /\ h \in [0..m + n -> Nat] /\ h[0] = 0
      /\ \A k \in 1..m + n : h[k] = h[k - 1] + GateCosts(c[k], p)
    BY <1>1, <1>4 DEF Bill
<1>7. T = {}
    <2> SUFFICES ASSUME T # {} PROVE FALSE
        OBVIOUS
    <2>0. T \subseteq Nat
        BY <1>1
    <2>1. PICK k \in T : \A j \in T : k <= j
        BY <2>0, Least, Zenon
    <2>2. k \in 1..m + n /\ k - 1 \in 0..m + n /\ ~ k <= k - 1
        BY <1>1, <1>5, <1>6, <2>1
    <2>3. k - 1 \notin T
        BY <2>1, <2>2
    <2>4. h[k] = h[k - 1] + GateCosts(c[k], p)
        BY <1>6, <2>2
    <2>5. CASE k <= m
        <3>1. k \in 1..m /\ k - 1 <= m
            BY <1>1, <2>2, <2>5
        <3>2. h[k - 1] = f[k - 1] /\ c[k] = a[k] /\ f[k] = f[k - 1] + GateCosts(a[k], p)
            BY <1>1, <1>5, <2>2, <2>3, <3>1
        <3>3. h[k] = f[k]
            BY <2>4, <3>2
        <3> QED
            BY <2>1, <2>5, <3>3
    <2>6. CASE ~(k <= m)
        <3>1. /\ k \in m + 1..m + n /\ k - m \in 1..n /\ (k - 1) - m = (k - m) - 1
              /\ (k - m) - 1 \in 0..n /\ m \in 0..m
            BY <1>1, <2>2, <2>6
        <3>2. h[k - 1] = f[m] + g[(k - m) - 1]
            <4>1. CASE k - 1 <= m
                <5>1. k - 1 = m /\ (k - m) - 1 = 0
                    BY <1>1, <3>1, <4>1, SMTT(40)
                <5>2. h[k - 1] = f[m] /\ f[m] \in Nat
                    BY <1>5, <2>2, <2>3, <3>1, <4>1, <5>1
                <5> QED
                    BY <1>5, <5>1, <5>2
            <4>2. CASE ~(k - 1 <= m)
                BY <2>2, <2>3, <3>1, <4>2
            <4> QED
                BY <4>1, <4>2
        <3>3. c[k] = b[k - m] /\ g[k - m] = g[(k - m) - 1] + GateCosts(b[k - m], p)
            BY <1>1, <1>5, <3>1
        <3>4. GateCosts(b[k - m], p) \in Nat /\ f[m] \in Nat /\ g[(k - m) - 1] \in Nat
            <4>1. b[k - m] \in P
                BY <1>0, <3>1 DEF n
            <4>2. GateCosts(b[k - m], p) \in Nat
                BY <4>1, GateCostsTyped DEF P
            <4> QED
                BY <1>5, <3>1, <4>2
        <3>5. h[k] = f[m] + g[k - m]
            BY <2>4, <3>2, <3>3, <3>4
        <3> QED
            BY <2>1, <2>6, <3>5
    <2> QED
        BY <2>5, <2>6
<1>8. h[m + n] = f[m] + g[n]
    <2>1. m + n \in 0..m + n /\ m + n \notin T
        BY <1>1, <1>7
    <2>2. h[m + n] = IF m + n <= m THEN f[m + n] ELSE f[m] + g[(m + n) - m]
        BY <2>1
    <2>3. CASE n = 0
        <3>1. m + n = m /\ m + n <= m /\ m \in 0..m
            BY <1>1, <2>3
        <3>2. f[m] \in Nat
            BY <1>5, <3>1
        <3> QED
            BY <1>5, <2>2, <2>3, <3>1, <3>2
    <2>4. CASE n # 0
        <3>1. ~(m + n <= m) /\ (m + n) - m = n
            BY <1>1, <2>4
        <3> QED
            BY <2>2, <3>1
    <2> QED
        BY <2>3, <2>4
<1> QED
    BY <1>1, <1>2, <1>3, <1>4, <1>8 DEF c

(* The invariant of the costs. *)
CostsInv ==
    /\ work.cost_function \in {"transistor", "t"}
    /\ circ \in Seq(Priced(GatesIn(0..work.helper), work.cost_function))
    /\ work.before \in Nat
    /\ CircuitCosts(circ, work.cost_function) <= work.before

LEMMA CostsStart == LinesInit => CostsInv
<1> SUFFICES ASSUME LinesInit PROVE CostsInv
    OBVIOUS
<1>1. PICK base_lines \in Nat \ {0}, additional_lines \in Nat \ {0}, p \in {"transistor", "t"} :
         \E base \in Seq(GatesOn(0..base_lines - 1)) :
            /\ p = "t" => \A i \in DOMAIN base : Cardinality(base[i].controls) <= 3
            /\ StartLines(base, base_lines, additional_lines, p)
    BY DEF LinesInit
<1>2. PICK base \in Seq(GatesOn(0..base_lines - 1)) :
         /\ p = "t" => \A i \in DOMAIN base : Cardinality(base[i].controls) <= 3
         /\ StartLines(base, base_lines, additional_lines, p)
    BY <1>1
<1> DEFINE K == 0..base_lines - 1
           L == 0..base_lines
<1>3. /\ circ = base /\ work.cost_function = p /\ work.helper = base_lines
      /\ work.before = CircuitCosts(base, p)
    BY <1>2 DEF StartLines
<1>4. GatesOn(K) \subseteq GatesIn(K) /\ GatesIn(K) \subseteq GatesIn(L)
    BY GatesOnAreIn, MoreGates
<1>5. IsFiniteSet(K \X BOOLEAN)
    <2>1. IsFiniteSet(K) /\ IsFiniteSet(BOOLEAN)
        <3>1. IsFiniteSet(K)
            BY FS_Interval
        <3>2. BOOLEAN = {TRUE} \cup {FALSE}
            OBVIOUS
        <3>3. IsFiniteSet({TRUE}) /\ IsFiniteSet({FALSE})
            BY FS_Singleton
        <3>4. IsFiniteSet({TRUE} \cup {FALSE})
            BY <3>3, FS_Union
        <3> QED
            BY <3>1, <3>2, <3>4
    <2> QED
        BY <2>1, FS_Product
<1> HIDE DEF K, L
<1>6. \A k \in 1..Len(base) : base[k] \in Priced(GatesIn(L), p)
    <2> TAKE k \in 1..Len(base)
    <2>1. k \in DOMAIN base /\ base[k] \in GatesOn(K)
        BY <1>2 DEF K
    <2>2. base[k] \in GatesIn(K) /\ base[k] \in GatesIn(L)
        BY <1>4, <2>1
    <2>3. base[k].controls \in SUBSET (K \X BOOLEAN)
        BY <2>2, ControlsOn
    <2>4. IsFiniteSet(base[k].controls)
        BY <1>5, <2>3, FS_Subset
    <2>5. p = "t" => Cardinality(base[k].controls) <= 3
        BY <1>2, <2>1
    <2> QED
        BY <2>2, <2>4, <2>5 DEF Priced
<1>7. base \in Seq(Priced(GatesIn(L), p))
    <2>1. base = [k \in 1..Len(base) |-> base[k]] /\ Len(base) \in Nat
        OBVIOUS
    <2> QED
        BY <1>6, <2>1
<1>8. CircuitCosts(base, p) \in Nat
    BY <1>7, CostsTyped
<1> DEFINE n == CircuitCosts(base, p)
<1>9. n <= n
    <2> HIDE DEF n
    <2>1. n \in Nat
        BY <1>8 DEF n
    <2> QED
        BY <2>1
<1>10. circ \in Seq(Priced(GatesIn(0..work.helper), work.cost_function))
    BY <1>3, <1>7 DEF L
<1> QED
    BY <1>3, <1>8, <1>9, <1>10 DEF CostsInv

(* A shared factor makes no gate larger than the gates were. *)
LEMMA SharedIsPriced ==
    ASSUME NEW G, NEW p \in {"transistor", "t"}, NEW c, NEW t, IsFiniteSet(c),
           p = "t" => Cardinality(c) <= 3,
           NEW f, IsFiniteSet(f), Cardinality(f) > 1,
           Factored(Toffoli(c, t), f) \in G
    PROVE  Factored(Toffoli(c, t), f) \in Priced(G, p)
<1> DEFINE h == work.helper
           g == Toffoli(c, t)
           d == c \ f
           e == d \cup {<<h, TRUE>>}
<1>0. g.controls = c /\ \A x : [g EXCEPT !.controls = x] = Toffoli(x, t)
    BY DEF Toffoli, Gate
<1>1. CASE f \subseteq c
    <2>1. Pos({h}) = {<<h, TRUE>>}
        BY DEF Pos
    <2>2. Factored(g, f) = Toffoli(e, t)
        <3> HIDE DEF g
        <3> QED
            BY <1>0, <1>1, <2>1 DEF Factored
    <2>3. IsFiniteSet(d) /\ Cardinality(d) = Cardinality(c) - Cardinality(c \cap f)
        BY FS_Difference
    <2>4. c \cap f = f
        BY <1>1
    <2>5. Cardinality(c) \in Nat /\ Cardinality(f) \in Nat
        BY FS_CardinalityType
    <2>6. IsFiniteSet(e) /\ Cardinality(e) <= Cardinality(d) + 1
        <3> HIDE DEF d
        <3>1. IsFiniteSet(e) /\ Cardinality(e) = IF <<h, TRUE>> \in d THEN Cardinality(d)
                                                 ELSE Cardinality(d) + 1
            BY <2>3, FS_AddElement
        <3>2. Cardinality(d) \in Nat
            BY <2>3, FS_CardinalityType
        <3> QED
            BY <3>1, <3>2
    <2>7. Cardinality(e) \in Nat /\ Cardinality(d) \in Nat
        BY <2>3, <2>6, FS_CardinalityType
    <2> HIDE DEF e, d
    <2>8. Cardinality(e) <= Cardinality(c)
        <3>1. Cardinality(d) = Cardinality(c) - Cardinality(f)
            BY <2>3, <2>4
        <3>2. Cardinality(f) > 1 /\ Cardinality(e) <= Cardinality(d) + 1
            BY <2>6
        <3> DEFINE ne == Cardinality(e)
                   nd == Cardinality(d)
                   nf == Cardinality(f)
                   nc == Cardinality(c)
        <3>3. /\ ne \in Nat /\ nd \in Nat /\ nf \in Nat /\ nc \in Nat
              /\ nd = nc - nf /\ nf > 1 /\ ne <= nd + 1
            BY <2>5, <2>7, <3>1, <3>2, Zenon
        <3> HIDE DEF ne, nd, nf, nc
        <3>4. ne <= nc
            BY <3>3
        <3> QED
            BY <3>4 DEF ne, nc
    <2>9. Toffoli(e, t).controls = e
        BY DEF Toffoli, Gate
    <2>10. p = "t" => Cardinality(e) <= 3
        BY <2>5, <2>7, <2>8
    <2> HIDE DEF g
    <2> QED
        BY <2>2, <2>6, <2>9, <2>10 DEF Priced, g
<1>2. CASE ~(f \subseteq c)
    <2>1. Factored(g, f) = g
        <3> HIDE DEF g
        <3> QED
            BY <1>0, <1>2 DEF Factored
    <2> HIDE DEF g
    <2> QED
        BY <1>0, <2>1 DEF Priced, g
<1> QED
    BY <1>1, <1>2

(* The segment that takes the place of the gates has costs, too. *)
LEMMA SegmentIsPriced ==
    ASSUME NEW p \in {"transistor", "t"}, NEW L, NEW K, K \subseteq L, work.helper \in L,
           circ \in Seq(Priced(GatesIn(L), p)),
           NEW i \in 1..Len(circ), NEW j \in i..Len(circ) + 1,
           \A k \in i..Len(circ) : circ[k] \in GatesIn(K),
           NEW f \in SUBSET circ[i].controls, Cardinality(f) > 1,
           \A k \in i..j - 1 : IsToffoli(circ[k]) /\ circ[k].targets[1] \notin LinesOf(f)
    PROVE  Segment(i, j, f) \in Seq(Priced(GatesIn(L), p))
<1> DEFINE P == Priced(GatesIn(L), p)
           n == j - i
           s == [k \in 1..n |-> Factored(circ[i + k - 1], f)]
           H == HelperGate(f)
<1>1. \A k \in 1..Len(circ) : circ[k] \in P
    OBVIOUS
<1>2. circ[i] \in P /\ circ[i] \in GatesIn(K)
    BY <1>1
<1>3. /\ IsFiniteSet(circ[i].controls)
      /\ p = "t" => Cardinality(circ[i].controls) <= 3
    BY <1>2 DEF Priced
<1>4. f \in SUBSET (K \X BOOLEAN)
    <2>1. circ[i].controls \in SUBSET (K \X BOOLEAN)
        BY <1>2, ControlsOn
    <2> QED
        BY <2>1
<1>5. IsFiniteSet(f) /\ (p = "t" => Cardinality(f) <= 3)
    <2>1. IsFiniteSet(f) /\ Cardinality(f) <= Cardinality(circ[i].controls)
        BY <1>3, FS_Subset
    <2>2. Cardinality(f) \in Nat /\ Cardinality(circ[i].controls) \in Nat
        BY <1>3, <2>1, FS_CardinalityType
    <2> QED
        BY <1>3, <2>1, <2>2
<1>6. H \in P
    <2>1. f \in SUBSET (L \X BOOLEAN)
        BY <1>4
    <2>2. H \in GatesIn(L)
        BY <2>1 DEF GatesIn, HelperGate
    <2>3. H.controls = f
        BY DEF HelperGate, Toffoli, Gate
    <2> QED
        BY <1>5, <2>2, <2>3 DEF Priced
<1>7. ASSUME NEW k \in 1..n
      PROVE  s[k] \in P
    <2> DEFINE l == i + k - 1
               g == circ[l]
    <2>1. l \in i..j - 1 /\ l \in i..Len(circ) /\ l \in 1..Len(circ)
        OBVIOUS
    <2> HIDE DEF l
    <2>2. g \in P /\ g \in GatesIn(K) /\ IsToffoli(g) /\ g.targets[1] \notin LinesOf(f)
        BY <1>1, <2>1
    <2> HIDE DEF g
    <2>3. Factored(g, f) \in GatesIn(L)
        BY <1>4, <2>2, FactoredShares
    <2>4. PICK c \in SUBSET (K \X BOOLEAN), t \in K : g = Toffoli(c, t) /\ g.controls = c
        BY <2>2, ToffoliCase
    <2>5. IsFiniteSet(c) /\ (p = "t" => Cardinality(c) <= 3)
        BY <2>2, <2>4 DEF Priced
    <2>6. Factored(Toffoli(c, t), f) \in Priced(GatesIn(L), p)
        BY <1>5, <2>3, <2>4, <2>5, SharedIsPriced
    <2>7. Factored(g, f) \in P
        BY <2>4, <2>6
    <2> QED
        BY <2>7 DEF g, l
<1> HIDE DEF P, H
<1>8. s \in Seq(P)
    <2>1. n \in Nat
        OBVIOUS
    <2>2. s = [k \in 1..n |-> s[k]]
        OBVIOUS
    <2> HIDE DEF s, n
    <2>3. s \in [1..n -> P]
        BY <1>7, <2>2, Zenon
    <2> QED
        BY <2>1, <2>3
<1>9. Segment(i, j, f) = (<<H>> \o s) \o <<H>>
    BY DEF Segment, H
<1>10. <<H>> \in Seq(P)
    BY <1>6
<1> HIDE DEF s
<1>11. (<<H>> \o s) \o <<H>> \in Seq(P)
    BY <1>8, <1>10, ConcatProperties
<1> QED
    BY <1>9, <1>11 DEF P

(* A circuit with another middle costs that much less or more. *)
LEMMA CostsOfThree ==
    ASSUME NEW G, NEW p \in {"transistor", "t"}, NEW a \in Seq(Priced(G, p)),
           NEW s \in Seq(Priced(G, p)), NEW b \in Seq(Priced(G, p))
    PROVE  /\ (a \o s) \o b \in Seq(Priced(G, p))
           /\ CircuitCosts((a \o s) \o b, p)
              = (CircuitCosts(a, p) + CircuitCosts(s, p)) + CircuitCosts(b, p)
<1>1. a \o s \in Seq(Priced(G, p)) /\ (a \o s) \o b \in Seq(Priced(G, p))
    <2> DEFINE P == Priced(G, p)
    <2> HIDE DEF P
    <2>1. a \in Seq(P) /\ s \in Seq(P) /\ b \in Seq(P)
        BY DEF P
    <2>2. a \o s \in Seq(P) /\ (a \o s) \o b \in Seq(P)
        BY <2>1, ConcatProperties
    <2> QED
        BY <2>2 DEF P
<1>2. CircuitCosts(a \o s, p) = CircuitCosts(a, p) + CircuitCosts(s, p)
    BY CostsOfBoth
<1>3. CircuitCosts((a \o s) \o b, p) = CircuitCosts(a \o s, p) + CircuitCosts(b, p)
    BY <1>1, CostsOfBoth
<1> QED
    BY <1>1, <1>2, <1>3

LEMMA FactorIsCheaper ==
    ASSUME LInv, CostsInv, ApplyFactor
    PROVE  /\ circ' \in Seq(Priced(GatesIn(0..work.helper), work.cost_function))
           /\ CircuitCosts(circ', work.cost_function) <= work.before
<1> DEFINE h == work.helper
           K == 0..h - 1
           L == 0..h
           i == work.index
           p == work.cost_function
           G == GatesIn(L)
           n == Len(circ)
<1>1. /\ i \in 1..n /\ i \in 1..n + 1 /\ circ \in Seq(G)
      /\ \A k \in i..n : circ[k] \in GatesIn(K)
    <2>1. /\ i \in 1..n + 1 /\ work.last \in 0..i - 1 /\ i <= n /\ circ \in Seq(G)
          /\ \A k \in work.last + 1..n : circ[k] \in GatesIn(K)
        BY DEF LInv, LinesTyped, HelperIsAhead, ApplyFactor
    <2>2. n \in Nat
        BY <2>1
    <2> HIDE DEF n, K
    <2> QED
        BY <2>1, <2>2
<1>2. h \in L /\ K \subseteq L
    BY HelperLines
<1>3. PICK f \in BestFactors : circ' = WithFactor(i, FindSuitableGates(i, f), f)
    BY DEF ApplyFactor, WithFactor
<1>4. f \in SUBSET circ[i].controls /\ Cardinality(f) > 1 /\ CostReduction(i, f) > 0
    BY DEF BestFactors, Factors
<1> DEFINE j == FindSuitableGates(i, f)
           a == SubSeq(circ, 1, i - 1)
           m == SubSeq(circ, i, j - 1)
           b == SubSeq(circ, j, n)
           s == Segment(i, j, f)
<1>5. CircuitCosts(m, p) - CircuitCosts(s, p) > 0
    BY <1>4 DEF CostReduction
<1>6. /\ j \in i..n + 1
      /\ \A k \in i..j - 1 : IsToffoli(circ[k]) /\ circ[k].targets[1] \notin LinesOf(f)
    BY <1>1, SuitableGates
<1> HIDE DEF j
<1>7. p \in {"transistor", "t"} /\ circ \in Seq(Priced(G, p)) /\ work.before \in Nat
      /\ CircuitCosts(circ, p) <= work.before
    BY DEF CostsInv
<1>8. s \in Seq(Priced(G, p))
    <2> HIDE DEF p, i, K, L
    <2> QED
        BY <1>1, <1>2, <1>4, <1>6, <1>7, SegmentIsPriced
<1> HIDE DEF p, i, G
<1>9. Cut(Priced(G, p), circ, i, j, a, m, b)
    BY <1>1, <1>6, <1>7, ThreeCuts
<1>10. Rejoined(circ, i, j, s, a, b)
    BY <1>1, <1>6, MiddleReplaced
<1> HIDE DEF a, m, b, s
<1>11. /\ a \in Seq(Priced(G, p)) /\ m \in Seq(Priced(G, p)) /\ b \in Seq(Priced(G, p))
       /\ circ = (a \o m) \o b
    BY <1>9, Zenon DEF Cut
<1>12. circ' = (a \o s) \o b
    BY <1>3, <1>10, Zenon DEF Rejoined, WithFactor, j, s, i
<1>13. /\ CircuitCosts(circ, p) = (CircuitCosts(a, p) + CircuitCosts(m, p)) + CircuitCosts(b, p)
    BY <1>7, <1>11, CostsOfThree
<1>14. /\ circ' \in Seq(Priced(G, p))
       /\ CircuitCosts(circ', p) = (CircuitCosts(a, p) + CircuitCosts(s, p)) + CircuitCosts(b, p)
    BY <1>7, <1>8, <1>11, <1>12, CostsOfThree
<1>15. /\ CircuitCosts(a, p) \in Nat /\ CircuitCosts(m, p) \in Nat
       /\ CircuitCosts(s, p) \in Nat /\ CircuitCosts(b, p) \in Nat
    BY <1>7, <1>8, <1>11, CostsTyped
<1> DEFINE ca == CircuitCosts(a, p)
           cm == CircuitCosts(m, p)
           cs == CircuitCosts(s, p)
           cb == CircuitCosts(b, p)
           co == CircuitCosts(circ, p)
           cn == CircuitCosts(circ', p)
<1>16. /\ ca \in Nat /\ cm \in Nat /\ cs \in Nat /\ cb \in Nat /\ work.before \in Nat
       /\ cm - cs > 0 /\ co = (ca + cm) + cb /\ cn = (ca + cs) + cb /\ co <= work.before
    BY <1>5, <1>7, <1>13, <1>14, <1>15, Zenon
<1> HIDE DEF ca, cm, cs, cb, co, cn
<1>17. cn <= work.before
    BY <1>16
<1> QED
    BY <1>14, <1>17 DEF cn, p, G

LEMMA EndIsCheaper ==
    ASSUME LInv, CostsInv, EndLine
    PROVE  /\ circ' \in Seq(Priced(GatesIn(0..work.helper), work.cost_function))
           /\ CircuitCosts(circ', work.cost_function) <= work.before
<1> DEFINE i == work.last
           p == work.cost_function
           P == Priced(GatesIn(0..work.helper), p)
           n == Len(circ)
<1>1. i \in 0..n
    <2>1. work.index \in 1..n + 1 /\ i \in 0..work.index - 1
        BY DEF LInv, LinesTyped, HelperIsAhead, EndLine
    <2>2. n \in Nat
        BY DEF CostsInv
    <2> QED
        BY <2>1, <2>2
<1>2. p \in {"transistor", "t"} /\ circ \in Seq(P) /\ work.before \in Nat
      /\ CircuitCosts(circ, p) <= work.before
    BY DEF CostsInv
<1>3. CASE i = 0
    <2>1. circ' = circ
        BY <1>3 DEF EndLine
    <2> QED
        BY <1>2, <2>1
<1>4. CASE i # 0
    <2> DEFINE a == SubSeq(circ, 1, i - 1)
               m == SubSeq(circ, i, (i + 1) - 1)
               b == SubSeq(circ, i + 1, n)
    <2>1. i \in 1..n + 1 /\ i + 1 \in i..n + 1 /\ (i + 1) - i = 1
        BY <1>1, <1>4
    <2>2. circ' = RemoveGates(circ, i - 1, 1)
        BY <1>4 DEF EndLine
    <2> HIDE DEF p, i, P
    <2>3. Cut(P, circ, i, i + 1, a, m, b)
        BY <1>2, <2>1, ThreeCuts
    <2>4. Rejoined(circ, i, i + 1, <<>>, a, b)
        BY <1>2, <2>1, MiddleReplaced
    <2> HIDE DEF a, m, b
    <2>5. a \in Seq(P) /\ m \in Seq(P) /\ b \in Seq(P) /\ circ = (a \o m) \o b
        BY <2>3, Zenon DEF Cut
    <2>6. circ' = a \o b
        BY <2>1, <2>2, <2>4, Zenon DEF Rejoined
    <2>7. CircuitCosts(circ, p) = (CircuitCosts(a, p) + CircuitCosts(m, p)) + CircuitCosts(b, p)
        BY <1>2, <2>5, CostsOfThree DEF P
    <2>8. CircuitCosts(circ', p) = CircuitCosts(a, p) + CircuitCosts(b, p)
        BY <1>2, <2>5, <2>6, CostsOfBoth DEF P
    <2>9. /\ CircuitCosts(a, p) \in Nat /\ CircuitCosts(m, p) \in Nat
          /\ CircuitCosts(b, p) \in Nat
        BY <1>2, <2>5, CostsTyped DEF P
    <2> DEFINE ca == CircuitCosts(a, p)
               cm == CircuitCosts(m, p)
               cb == CircuitCosts(b, p)
               co == CircuitCosts(circ, p)
               cn == CircuitCosts(circ', p)
    <2>10. /\ ca \in Nat /\ cm \in Nat /\ cb \in Nat /\ work.before \in Nat
           /\ co = (ca + cm) + cb /\ cn = ca + cb /\ co <= work.before
        BY <1>2, <2>7, <2>8, <2>9, Zenon
    <2> HIDE DEF ca, cm, cb, co, cn
    <2>11. cn <= work.before
        BY <2>10
    <2>12. circ' \in Seq(P)
        BY <2>5, <2>6, ConcatProperties
    <2> QED
        BY <2>11, <2>12 DEF cn, p, P
<1> QED
    BY <1>3, <1>4

LEMMA MoreIsPriced ==
    ASSUME NEW h \in Nat, NEW p, NEW c \in Seq(Priced(GatesIn(0..h), p))
    PROVE  c \in Seq(Priced(GatesIn(0..h + 1), p))
<1>1. 0..h \subseteq 0..h + 1
    OBVIOUS
<1>2. GatesIn(0..h) \subseteq GatesIn(0..h + 1)
    BY <1>1, MoreGates
<1> DEFINE P == Priced(GatesIn(0..h), p)
           Q == Priced(GatesIn(0..h + 1), p)
<1>3. P \subseteq Q
    BY <1>2 DEF Priced
<1>4. c \in Seq(P)
    OBVIOUS
<1> HIDE DEF P, Q
<1>5. c \in Seq(Q)
    BY <1>3, <1>4
<1> QED
    BY <1>5 DEF Q

LEMMA CostsStep == LInv /\ CostsInv /\ [AddLines]_vars => CostsInv'
<1> SUFFICES ASSUME LInv, CostsInv, [AddLines]_vars PROVE CostsInv'
    OBVIOUS
<1> DEFINE p == work.cost_function
           h == work.helper
           C(c) == c \in Seq(Priced(GatesIn(0..h), p)) /\ CircuitCosts(c, p) <= work.before
<1>1. /\ work = [base_lines |-> work.base_lines, additional_lines |-> work.additional_lines,
                 cost_function |-> work.cost_function, helper |-> work.helper,
                 index |-> work.index, last |-> work.last,
                 before |-> work.before, done |-> work.done]
      /\ h \in Nat
    BY DEF LInv, LinesTyped
<1>2. p \in {"transistor", "t"} /\ work.before \in Nat /\ C(circ)
    BY DEF CostsInv
<1>3. ASSUME work'.cost_function = p, work'.before = work.before, work'.helper = h, C(circ')
      PROVE  CostsInv'
    BY <1>2, <1>3, Zenon DEF CostsInv
<1>4. CASE ApplyFactor
    <2>1. \E x, y : work' = [work EXCEPT !.index = x, !.last = y]
        BY <1>4 DEF ApplyFactor
    <2>2. work'.cost_function = p /\ work'.before = work.before /\ work'.helper = h
        BY <1>1, <2>1
    <2> QED
        BY <1>3, <1>4, <2>2, FactorIsCheaper
<1>5. CASE NextGate
    <2>1. work' = [work EXCEPT !.index = @ + 1] /\ circ' = circ
        BY <1>5 DEF NextGate
    <2>2. work'.cost_function = p /\ work'.before = work.before /\ work'.helper = h
        BY <1>1, <2>1
    <2> QED
        BY <1>2, <1>3, <2>1, <2>2
<1>6. CASE EndLine
    <2>1. C(circ')
        BY <1>6, EndIsCheaper
    <2>2. CASE work' = [work EXCEPT !.done = TRUE]
        <3>1. work'.cost_function = p /\ work'.before = work.before /\ work'.helper = h
            BY <1>1, <2>2
        <3> QED
            BY <1>3, <2>1, <3>1
    <2>3. CASE work' = [work EXCEPT !.helper = @ + 1, !.index = 1, !.last = 0]
        <3>1. work'.cost_function = p /\ work'.before = work.before /\ work'.helper = h + 1
            BY <1>1, <2>3
        <3>2. circ' \in Seq(Priced(GatesIn(0..h + 1), p))
            BY <1>1, <2>1, MoreIsPriced
        <3> QED
            BY <1>2, <2>1, <3>1, <3>2, Zenon DEF CostsInv
    <2> QED
        BY <1>6, <2>2, <2>3 DEF EndLine
<1>7. CASE UNCHANGED vars
    <2>1. work' = work /\ circ' = circ
        BY <1>7 DEF vars
    <2> QED
        BY <2>1, Zenon DEF CostsInv
<1> QED
    BY <1>4, <1>5, <1>6, <1>7 DEF AddLines

(* NeverDearer: at no moment does the circuit cost more than the one that was  *)
(* given to adding_lines, although the helper gates come in front of what     *)
(* they save.                                                               *)
THEOREM LinesNeverCostMore == LinesSpec => []NeverDearer
<1>1. CostsInv => NeverDearer
    BY DEF CostsInv, NeverDearer
<1>2. LinesSpec => []CostsInv
    BY CostsStart, CostsStep, LinesInductive, PTL DEF LinesSpec
<1> QED
    BY <1>1, <1>2, PTL

-------------------------------------------------------------------------------
(* transformation_based_synthesis as one step, for the windows.              *)
Defaults == [bidirectional |-> TRUE, fredkin |-> FALSE, lookback |-> FALSE]

RowFold(it, f, n) ==
    it = [s \in SUBSET (1..n) |->
            IF s = {} THEN Empty(f)
            ELSE AdjustRow(it[s \ {SeqExt!Max(s)}], Rows[SeqExt!Max(s)], Defaults)]

LEMMA RowFoldExists == \A f : \A n \in Nat : \E it : RowFold(it, f, n)
<1> SUFFICES ASSUME NEW f, NEW n \in Nat PROVE \E it : RowFold(it, f, n)
    OBVIOUS
<1> DEFINE Next(k, s) == AdjustRow(s, Rows[k], Defaults)
           E(k) == \E it : RowFold(it, f, k)
           T == {k \in 0..n : E(k)}
<1>1. E(0)
    <2> DEFINE it == [s \in SUBSET (1..0) |-> Empty(f)]
    <2>1. \A s \in SUBSET (1..0) : s = {}
        OBVIOUS
    <2>2. it = [s \in SUBSET (1..0) |->
                    IF s = {} THEN Empty(f) ELSE Next(SeqExt!Max(s), it[s \ {SeqExt!Max(s)}])]
        <3> HIDE DEF Next
        <3> QED
            BY <2>1
    <2> QED
        BY <2>2, Zenon DEF RowFold
<1>2. ASSUME NEW k \in 0..n - 1, E(k)
      PROVE  E(k + 1)
    <2>1. PICK it : RowFold(it, f, k)
        BY <1>2
    <2>2. k \in Nat /\ k + 1 \in 1..n /\ k + 1 \in Nat
        OBVIOUS
    <2> DEFINE g == [s \in SUBSET (1..k + 1) |->
                        IF k + 1 \in s THEN Next(k + 1, it[s \ {k + 1}]) ELSE it[s]]
    <2>3. ASSUME NEW s \in SUBSET (1..k + 1)
          PROVE  /\ k + 1 \notin s => s \in SUBSET (1..k)
                 /\ k + 1 \in s => SeqExt!Max(s) = k + 1
        <3>1. ASSUME k + 1 \in s
              PROVE  SeqExt!Max(s) = k + 1
            <4>1. SeqExt!Max(s) \in s /\ k + 1 <= SeqExt!Max(s)
                BY <2>2, <3>1, MaxOf
            <4>2. SeqExt!Max(s) \in 1..k + 1
                BY <4>1
            <4> QED
                BY <2>2, <4>1, <4>2
        <3> QED
            BY <2>2, <3>1
    <2>4. ASSUME NEW s \in SUBSET (1..k + 1)
          PROVE  g[s] = IF s = {} THEN Empty(f)
                        ELSE Next(SeqExt!Max(s), g[s \ {SeqExt!Max(s)}])
        <3> HIDE DEF Next
        <3>1. CASE k + 1 \in s
            <4>1. s # {} /\ SeqExt!Max(s) = k + 1 /\ g[s] = Next(k + 1, it[s \ {k + 1}])
                BY <2>3, <3>1
            <4>2. s \ {k + 1} \in SUBSET (1..k + 1) /\ k + 1 \notin s \ {k + 1}
                OBVIOUS
            <4>3. g[s \ {k + 1}] = it[s \ {k + 1}]
                BY <4>2
            <4> HIDE DEF g
            <4> QED
                BY <4>1, <4>3
        <3>2. CASE k + 1 \notin s
            <4>1. s \in SUBSET (1..k) /\ g[s] = it[s]
                BY <2>3, <3>2
            <4>2. it[s] = IF s = {} THEN Empty(f)
                          ELSE Next(SeqExt!Max(s), it[s \ {SeqExt!Max(s)}])
                BY <2>1, <4>1 DEF RowFold, Next
            <4>3. s \ {SeqExt!Max(s)} \in SUBSET (1..k + 1) /\ k + 1 \notin s \ {SeqExt!Max(s)}
                BY <3>2
            <4>4. g[s \ {SeqExt!Max(s)}] = it[s \ {SeqExt!Max(s)}]
                BY <4>3
            <4> HIDE DEF g
            <4> QED
                BY <4>1, <4>2, <4>4
        <3> QED
            BY <3>1, <3>2
    <2>5. g = [s \in SUBSET (1..k + 1) |-> g[s]]
        OBVIOUS
    <2> HIDE DEF g
    <2>6. RowFold(g, f, k + 1)
        BY <2>4, <2>5 DEF RowFold
    <2> QED
        BY <2>6
<1> HIDE DEF E
<1>3. 0 \in T
    BY <1>1
<1>4. \A k \in 1..n : k - 1 \in T => k \in T
    <2> SUFFICES ASSUME NEW k \in 1..n, k - 1 \in T PROVE k \in T
        OBVIOUS
    <2>1. k - 1 \in 0..n - 1 /\ (k - 1) + 1 = k /\ k \in 0..n
        OBVIOUS
    <2>2. E((k - 1) + 1)
        BY <1>2, <2>1
    <2> QED
        BY <2>1, <2>2
<1>5. \A k \in 0..n : k \in T
    <2> HIDE DEF T
    <2> QED
        BY <1>3, <1>4, Ladder
<1>6. E(n)
    <2>1. n \in 0..n
        OBVIOUS
    <2> QED
        BY <1>5, <2>1
<1> QED
    BY <1>6 DEF E

LEMMA SynthesizedIsRight ==
    ASSUME NEW f \in Permutations
    PROVE  Synthesized(f) \in Seq(GateSet) /\ FunctionOf(Synthesized(f)) = f
<1> DEFINE Is(it) == it = [s \in SUBSET (DOMAIN Rows) |->
                            IF s = {} THEN Begin(f, Defaults)
                            ELSE AdjustRow(it[s \ {SeqExt!Max(s)}], Rows[SeqExt!Max(s)], Defaults)]
           r == CHOOSE r : Is(r)
<1>1. Synthesized(f) = r[DOMAIN Rows].circ
    BY Zenon DEF Synthesized, Defaults, SeqExt!FoldLeft, SeqExt!MapThenFoldSet
<1>2. N \in Nat /\ DOMAIN Rows = 1..N
    BY RowsAscend
<1>3. Begin(f, Defaults) = Empty(f)
    BY DEF Begin, Defaults
<1>4. Is(r)
    <2>1. PICK it : RowFold(it, f, N)
        BY <1>2, RowFoldExists
    <2>2. Is(it)
        BY <1>2, <1>3, <2>1, Zenon DEF RowFold
    <2> HIDE DEF Is
    <2> QED
        BY <2>2, Zenon
<1> HIDE DEF r
<1>5. \A s \in SUBSET (1..N) :
        r[s] = IF s = {} THEN Empty(f)
               ELSE AdjustRow(r[s \ {SeqExt!Max(s)}], Rows[SeqExt!Max(s)], Defaults)
    BY <1>2, <1>3, <1>4
<1> HIDE DEF Is
<1> DEFINE T == {k \in 0..N : Kept(r[1..k], f) /\ \A i \in 1..k : r[1..k].tt[Rows[i]] = Rows[i]}
<1>6. 0 \in T
    <2>1. 1..0 = {}
        OBVIOUS
    <2>2. r[1..0] = Empty(f)
        BY <1>5, <2>1
    <2>3. Kept(r[1..0], f)
        BY <2>2, EmptyIsKept
    <2> QED
        BY <1>2, <2>1, <2>3
<1>7. \A k \in 1..N : k - 1 \in T => k \in T
    <2> SUFFICES ASSUME NEW k \in 1..N, k - 1 \in T PROVE k \in T
        OBVIOUS
    <2> DEFINE s == r[1..k - 1]
               t == r[1..k]
               x == Rows[k]
    <2>1. 1..k \in SUBSET (1..N) /\ 1..k # {} /\ SeqExt!Max(1..k) = k /\ (1..k) \ {k} = 1..k - 1
        BY <1>2, MaxOfPrefix
    <2>2. t = AdjustRow(r[(1..k) \ {SeqExt!Max(1..k)}], Rows[SeqExt!Max(1..k)], Defaults)
        BY <1>5, <2>1
    <2>3. t = AdjustRow(s, x, Defaults)
        BY <2>1, <2>2, Zenon
    <2>4. Kept(s, f) /\ \A i \in 1..k - 1 : s.tt[Rows[i]] = Rows[i]
        OBVIOUS
    <2>5. x \in Assignments /\ Fixed(s.tt, x)
        BY <2>4, RowsAscend, RowsBefore
    <2> HIDE DEF s, x
    <2>6. Kept(t, f) /\ Fixed(t.tt, x) /\ t.tt[x] = x
        BY <2>3, <2>4, <2>5, AdjustRowAligns
    <2>7. \A i \in 1..k : t.tt[Rows[i]] = Rows[i]
        BY <2>6, FixedRows DEF x
    <2>8. k \in 0..N
        BY <1>2
    <2> QED
        BY <2>6, <2>7, <2>8
<1>8. N \in T
    <2>1. \A k \in 0..N : k \in T
        <3> HIDE DEF T
        <3> QED
            BY <1>2, <1>6, <1>7, Ladder
    <2>2. N \in 0..N
        BY <1>2
    <2> QED
        BY <2>1, <2>2
<1>9. Kept(r[1..N], f) /\ \A i \in 1..N : r[1..N].tt[Rows[i]] = Rows[i]
    BY <1>8
<1> QED
    BY <1>1, <1>2, <1>9, AllRowsAlign

(* Gates whose targets are not controls, and circuits of them, can be undone. *)
LEMMA GateIsOneToOne ==
    ASSUME NEW g \in GatesOn(Lines), NEW x, NEW y, Simulate(g, x) = Simulate(g, y)
    PROVE  x = y
<1>1. ASSUME NEW e \in (SUBSET (Lines \X BOOLEAN)) \X Lines,
             e[2] \notin {c[1] : c \in e[1]}, g = Toffoli(e[1], e[2])
      PROVE  x = y
    <2> DEFINE c == e[1]
               t == e[2]
    <2>1. \A d \in c : d[1] # t
        BY <1>1
    <2> HIDE DEF c, t
    <2>2. \A z : Controlled(c, Flip(z, t)) <=> Controlled(c, z)
        BY <2>1 DEF Controlled, Flip, SymDiff
    <2>3. \A z : Flip(Flip(z, t), t) = z
        BY DEF Flip, SymDiff
    <2>4. \A z : Simulate(g, z) = IF Controlled(c, z) THEN Flip(z, t) ELSE z
        BY <1>1, SimulateToffoli DEF c, t
    <2> QED
        BY <2>2, <2>3, <2>4
<1>2. ASSUME NEW e \in (SUBSET Lines) \X Lines \X Lines,
             e[2] \notin e[1], e[3] \notin e[1], e[2] # e[3], g = Fredkin(Pos(e[1]), e[2], e[3])
      PROVE  x = y
    <2> DEFINE c == e[1]
               t == e[2]
               u == e[3]
    <2>1. t \notin c /\ u \notin c /\ t # u
        BY <1>2
    <2>2. \A z : Simulate(g, z) = IF c \subseteq z THEN Swap(z, t, u) ELSE z
        BY <1>2, SwapPositive
    <2> HIDE DEF c, t, u
    <2>3. \A z : c \subseteq Swap(z, t, u) <=> c \subseteq z
        BY <2>1 DEF Swap, SymDiff
    <2>4. \A z : Swap(Swap(z, t, u), t, u) = z
        BY <2>1 DEF Swap, SymDiff
    <2> QED
        BY <2>2, <2>3, <2>4
<1>3. ASSUME NEW e \in Lines \X Lines \X Lines,
             e[1] # e[2], e[1] # e[3], e[2] # e[3], g = Peres(e[1], e[2], e[3])
      PROVE  x = y
    <2> DEFINE c == e[1]
               t == e[2]
               u == e[3]
    <2>1. c # t /\ c # u /\ t # u
        BY <1>3
    <2>2. \A z : Simulate(g, z) =
            IF c \notin z THEN z ELSE IF t \in z THEN Flip(Flip(z, t), u) ELSE Flip(z, t)
        BY <1>3, SimulatePeres
    <2> HIDE DEF c, t, u
    <2>3. \A z : /\ c \in Simulate(g, z) <=> c \in z
                 /\ c \in z => (t \in Simulate(g, z) <=> t \notin z)
        BY <2>1, <2>2 DEF Flip, SymDiff
    <2>4. \A z, w : /\ Flip(z, t) = Flip(w, t) => z = w
                    /\ Flip(z, u) = Flip(w, u) => z = w
        BY DEF Flip, SymDiff
    <2>5. CASE c \notin x
        BY <2>2, <2>3, <2>5
    <2>6. CASE c \in x /\ t \in x
        BY <2>2, <2>3, <2>4, <2>6, SMTT(40)
    <2>7. CASE c \in x /\ t \notin x
        BY <2>2, <2>3, <2>4, <2>7
    <2> QED
        BY <2>5, <2>6, <2>7
<1> QED
    BY <1>1, <1>2, <1>3 DEF GatesOn

LEMMA CircuitIsOneToOne ==
    ASSUME NEW c \in Seq(GatesOn(Lines))
    PROVE  c \in Seq(GateSet) /\ FunctionOf(c) \in Permutations
<1> DEFINE n == Len(c)
<1>1. n \in Nat /\ \A k \in 1..n : c[k] \in GatesOn(Lines)
    OBVIOUS
<1>2. c \in Seq(GatesIn(Lines))
    <2>1. \A k \in 1..Len(c) : c[k] \in GatesIn(Lines)
        BY GatesOnAreIn
    <2> QED
        BY <2>1
<1>3. ASSUME NEW x \in Assignments, NEW y \in Assignments,
             SimulateCircuit(c, x) = SimulateCircuit(c, y)
      PROVE  x = y
    <2>1. PICK h : Trace(Lines, h, c, x) /\ SimulateCircuit(c, x) = h[n]
        BY <1>2, SimulateFoldsIn DEF Assignments
    <2>2. PICK g : Trace(Lines, g, c, y) /\ SimulateCircuit(c, y) = g[n]
        BY <1>2, SimulateFoldsIn DEF Assignments
    <2> DEFINE T == {k \in 0..n : h[k] = g[k] => x = y}
    <2>3. 0 \in T
        BY <1>1, <2>1, <2>2 DEF Trace
    <2>4. \A k \in 1..n : k - 1 \in T => k \in T
        <3> SUFFICES ASSUME NEW k \in 1..n, k - 1 \in T PROVE k \in T
            OBVIOUS
        <3>1. h[k] = Simulate(c[k], h[k - 1]) /\ g[k] = Simulate(c[k], g[k - 1])
            BY <2>1, <2>2 DEF Trace
        <3>2. c[k] \in GatesOn(Lines)
            BY <1>1
        <3>3. h[k] = g[k] => h[k - 1] = g[k - 1]
            BY <3>1, <3>2, GateIsOneToOne
        <3> QED
            BY <1>1, <3>3
    <2>5. \A k \in 0..n : k \in T
        <3> HIDE DEF T, n
        <3> QED
            BY <1>1, <2>3, <2>4, Ladder
    <2>6. n \in T
        BY <1>1, <2>5
    <2> QED
        BY <1>3, <2>1, <2>2, <2>6
<1>4. FunctionOf(c) \in [Assignments -> Assignments]
    BY <1>2, CircuitTyped DEF FunctionOf, GateSet
<1>5. \A x \in Assignments : FunctionOf(c)[x] = SimulateCircuit(c, x)
    BY DEF FunctionOf
<1> QED
    BY <1>2, <1>3, <1>4, <1>5 DEF Permutations, GateSet

(* A part of a circuit that can be undone can be undone.                     *)
LEMMA MiddleIsOneToOne ==
    ASSUME NEW a \in Seq(GateSet), NEW m \in Seq(GateSet), NEW b \in Seq(GateSet),
           FunctionOf((a \o m) \o b) \in Permutations
    PROVE  FunctionOf(m) \in Permutations
<1> DEFINE A == FunctionOf(a)
           c == (a \o m) \o b
<1>1. ASSUME NEW x \in Assignments
      PROVE  /\ A[x] = SimulateCircuit(a, x) /\ A[x] \in Assignments
             /\ SimulateCircuit(m, A[x]) \in Assignments
             /\ FunctionOf(c)[x] = SimulateCircuit(b, SimulateCircuit(m, A[x]))
    <2>1. A[x] = SimulateCircuit(a, x) /\ A[x] \in Assignments
        BY CircuitTyped DEF FunctionOf
    <2>2. SimulateCircuit(m, A[x]) \in Assignments
        BY <2>1, CircuitTyped
    <2> DEFINE u == a \o m
    <2>3. u \in Seq(GateSet)
        BY ConcatProperties
    <2>4. SimulateCircuit(u, x) = SimulateCircuit(m, A[x])
        BY <2>1, SimulateBoth
    <2> HIDE DEF u
    <2>5. SimulateCircuit(u \o b, x) = SimulateCircuit(b, SimulateCircuit(m, A[x]))
        BY <2>3, <2>4, SimulateBoth
    <2>6. FunctionOf(c)[x] = SimulateCircuit(u \o b, x)
        BY DEF FunctionOf, u
    <2> QED
        BY <2>1, <2>2, <2>5, <2>6
<1>2. \A x, y \in Assignments : FunctionOf(c)[x] = FunctionOf(c)[y] => x = y
    BY DEF Permutations
<1>3. A \in [Assignments -> Assignments]
    BY CircuitTyped DEF FunctionOf
<1> HIDE DEF A, c
<1>4. OneToOne(A)
    BY <1>1, <1>2 DEF OneToOne
<1>5. \A x \in Assignments : \E y \in Assignments : A[y] = x
    BY <1>3, <1>4, EveryRowIsAnOutput
<1>6. ASSUME NEW x \in Assignments, NEW y \in Assignments,
             SimulateCircuit(m, x) = SimulateCircuit(m, y)
      PROVE  x = y
    <2>1. PICK v \in Assignments, w \in Assignments : A[v] = x /\ A[w] = y
        BY <1>5
    <2>2. FunctionOf(c)[v] = FunctionOf(c)[w]
        BY <1>1, <1>6, <2>1
    <2>3. v = w
        BY <1>2, <2>2
    <2> QED
        BY <2>1, <2>3
<1>7. FunctionOf(m) \in [Assignments -> Assignments]
    BY CircuitTyped DEF FunctionOf
<1>8. \A x \in Assignments : FunctionOf(m)[x] = SimulateCircuit(m, x)
    BY DEF FunctionOf
<1> QED
    BY <1>6, <1>7, <1>8 DEF Permutations

-------------------------------------------------------------------------------
(* The inductive invariant of window_optimization: the circuit can be undone,  *)
(* so that every window has a truth table that can be synthesised.          *)
WindowWorks ==
    [window_length : Nat \ {0}, offset : Nat \ {0}, pos : Nat, before : Nat, done : BOOLEAN]

WInv ==
    /\ algorithm = "windows"
    /\ work \in WindowWorks
    /\ spec \in Permutations
    /\ circ \in Seq(GateSet)
    /\ FunctionOf(circ) = spec
    /\ Len(circ) <= work.before

LEMMA WindowsStart == WindowsInit => WInv
<1> SUFFICES ASSUME NEW base \in Seq(GatesOn(Lines)), NEW window_length \in Nat \ {0},
                    NEW offset \in Nat \ {0}, StartWindows(base, window_length, offset)
             PROVE  WInv
    BY DEF WindowsInit
<1>1. /\ algorithm = "windows" /\ circ = base /\ spec = FunctionOf(base)
      /\ work = [window_length |-> window_length, offset |-> offset, pos |-> 0,
                 before |-> Len(base), done |-> FALSE]
    BY DEF StartWindows
<1>2. work \in WindowWorks /\ work.before = Len(base) /\ Len(base) \in Nat
    BY <1>1 DEF WindowWorks
<1>3. base \in Seq(GateSet) /\ FunctionOf(base) \in Permutations
    BY CircuitIsOneToOne
<1> QED
    BY <1>1, <1>2, <1>3 DEF WInv

(* The window is the middle of the circuit. *)
LEMMA WindowIsMiddle ==
    ASSUME WInv, work.pos < Len(circ)
    PROVE  \E a, b \in Seq(GateSet) :
            /\ Window \in Seq(GateSet) /\ circ = (a \o Window) \o b
            /\ \A window \in Seq(GateSet) : Replaced(window) = (a \o window) \o b
<1> DEFINE p == work.pos
           n == Len(circ)
           e == Min({p + work.window_length, n})
           i == p + 1
           j == e + 1
           a == SubSeq(circ, 1, i - 1)
           b == SubSeq(circ, j, n)
<1>1. /\ circ \in Seq(GateSet) /\ n \in Nat /\ p \in Nat /\ p < n
      /\ work.window_length \in Nat \ {0}
    BY DEF WInv, WindowWorks
<1>2. e \in Nat /\ p < e /\ e <= n
    <2> DEFINE q == p + work.window_length
    <2>1. q \in Nat /\ p < q
        BY <1>1
    <2> HIDE DEF p, q, n
    <2>2. \E x \in {q, n} : \A y \in {q, n} : x <= y
        BY <1>1, <2>1
    <2>3. Min({q, n}) \in {q, n} /\ \A y \in {q, n} : Min({q, n}) <= y
        BY <2>2 DEF Min
    <2> QED
        BY <1>1, <2>1, <2>3 DEF q
<1>3. Window = SubSeq(circ, p + 1, e)
    BY DEF Window
<1> HIDE DEF e, n, p
<1>4. i \in 1..Len(circ) + 1 /\ j \in i..Len(circ) + 1 /\ i - 1 = p /\ j - 1 = e
    BY <1>1, <1>2 DEF n
<1>5. Cut(GateSet, circ, i, j, SubSeq(circ, 1, i - 1), SubSeq(circ, i, j - 1),
          SubSeq(circ, j, Len(circ)))
    <2> HIDE DEF i, j
    <2> QED
        BY <1>1, <1>4, ThreeCuts
<1>6. Cut(GateSet, circ, i, j, a, Window, b)
    <2>1. SubSeq(circ, i, j - 1) = Window
        BY <1>3, <1>4
    <2> QED
        BY <1>5, <2>1 DEF n
<1>7. ASSUME NEW window \in Seq(GateSet)
      PROVE  Replaced(window) = (a \o window) \o b
    <2>1. Rejoined(circ, i, j, window, SubSeq(circ, 1, i - 1), SubSeq(circ, j, Len(circ)))
        <3> HIDE DEF i, j
        <3> QED
            BY <1>1, <1>4, MiddleReplaced
    <2>2. InsertCircuit(RemoveGates(circ, i - 1, j - i), i - 1, window) = (a \o window) \o b
        BY <2>1, Zenon DEF Rejoined, n
    <2>3. Len(Window) = j - i
        BY <1>6, Zenon DEF Cut
    <2> HIDE DEF i, j
    <2> QED
        BY <1>4, <2>2, <2>3 DEF Replaced, p
<1> HIDE DEF a, b, i, j
<1>8. /\ a \in Seq(GateSet) /\ b \in Seq(GateSet) /\ Window \in Seq(GateSet)
      /\ circ = (a \o Window) \o b
    BY <1>6, Zenon DEF Cut
<1> QED
    BY <1>7, <1>8

(* A circuit with the same function in place of the window. *)
LEMMA WindowReplaced ==
    ASSUME WInv, work.pos < Len(circ)
    PROVE  LET window == Synthesized(FunctionOf(Window)) IN
           /\ Replaced(window) \in Seq(GateSet)
           /\ FunctionOf(Replaced(window)) = FunctionOf(circ)
           /\ Len(window) < Len(Window) => Len(Replaced(window)) <= Len(circ)
<1> DEFINE window == Synthesized(FunctionOf(Window))
<1>1. PICK a \in Seq(GateSet), b \in Seq(GateSet) :
            /\ Window \in Seq(GateSet) /\ circ = (a \o Window) \o b
            /\ \A w \in Seq(GateSet) : Replaced(w) = (a \o w) \o b
    BY WindowIsMiddle
<1>2. FunctionOf((a \o Window) \o b) \in Permutations
    BY <1>1 DEF WInv
<1>3. FunctionOf(Window) \in Permutations
    BY <1>1, <1>2, MiddleIsOneToOne
<1>4. window \in Seq(GateSet) /\ FunctionOf(window) = FunctionOf(Window)
    BY <1>3, SynthesizedIsRight
<1> HIDE DEF window
<1>5. Replaced(window) = (a \o window) \o b
    BY <1>1, <1>4
<1>6. \A x \in Assignments : SimulateCircuit(window, x) = SimulateCircuit(Window, x)
    BY <1>4 DEF FunctionOf
<1>7. ASSUME NEW x \in Assignments
      PROVE  SimulateCircuit((a \o window) \o b, x) = SimulateCircuit((a \o Window) \o b, x)
    <2>1. x \in SUBSET Lines /\ SimulateCircuit(a, x) \in Assignments
        BY CircuitTyped DEF Assignments
    <2>2. SimulateCircuit(window, SimulateCircuit(a, x)) = SimulateCircuit(Window, SimulateCircuit(a, x))
        BY <1>6, <2>1
    <2> QED
        BY <1>1, <1>4, <2>1, <2>2, MiddleExchanged DEF GateSet
<1>8. FunctionOf(Replaced(window)) = FunctionOf(circ)
    BY <1>1, <1>5, <1>7 DEF FunctionOf
<1>9. /\ Joined(GateSet, a, window, b, (a \o window) \o b)
      /\ Joined(GateSet, a, Window, b, (a \o Window) \o b)
    BY <1>1, <1>4, ThreeParts
<1>10. /\ Replaced(window) \in Seq(GateSet)
       /\ Len(Replaced(window)) = Len(a) + Len(window) + Len(b)
    BY <1>5, <1>9, Zenon DEF Joined
<1>11. Len(circ) = Len(a) + Len(Window) + Len(b)
    BY <1>1, <1>9, Zenon DEF Joined
<1>12. Len(window) < Len(Window) => Len(Replaced(window)) <= Len(circ)
    <2>1. Len(a) \in Nat /\ Len(b) \in Nat /\ Len(window) \in Nat /\ Len(Window) \in Nat
        BY <1>1, <1>4
    <2> QED
        BY <1>10, <1>11, <2>1
<1> QED
    BY <1>8, <1>10, <1>12 DEF window

LEMMA WindowsStep == WInv /\ [WindowStep]_vars => WInv'
<1> SUFFICES ASSUME WInv, [WindowStep]_vars PROVE WInv'
    OBVIOUS
<1>1. /\ algorithm = "windows" /\ work \in WindowWorks /\ spec \in Permutations
      /\ circ \in Seq(GateSet) /\ FunctionOf(circ) = spec /\ Len(circ) <= work.before
    BY DEF WInv
<1>2. CASE Optimize
    <2> DEFINE window == Synthesized(FunctionOf(Window))
    <2>1. /\ work.pos < Len(circ) /\ algorithm' = algorithm /\ spec' = spec
          /\ work' = [work EXCEPT !.pos = @ + work.offset]
          /\ circ' = IF Costs(window) < Costs(Window) THEN Replaced(window) ELSE circ
        BY <1>2 DEF Optimize
    <2>2. /\ Replaced(window) \in Seq(GateSet)
          /\ FunctionOf(Replaced(window)) = FunctionOf(circ)
          /\ Len(window) < Len(Window) => Len(Replaced(window)) <= Len(circ)
        BY <2>1, WindowReplaced
    <2> HIDE DEF window
    <2>3. circ' \in Seq(GateSet) /\ FunctionOf(circ') = FunctionOf(circ) /\ Len(circ') <= Len(circ)
        BY <1>1, <2>1, <2>2 DEF Costs
    <2>4. work' \in WindowWorks /\ work'.before = work.before
        BY <1>1, <2>1 DEF WindowWorks
    <2>5. Len(circ') <= work'.before
        <3>1. Len(circ) \in Nat /\ Len(circ') \in Nat /\ work.before \in Nat
            BY <1>1, <2>3 DEF WindowWorks
        <3> QED
            BY <1>1, <2>3, <2>4, <3>1
    <2>6. FunctionOf(circ)' = FunctionOf(circ')
        BY DEF FunctionOf
    <2> QED
        BY <1>1, <2>1, <2>3, <2>4, <2>5, <2>6 DEF WInv
<1>3. CASE Finish
    <2>1. work' = [work EXCEPT !.pos = 0, !.done = TRUE]
          /\ algorithm' = algorithm /\ spec' = spec /\ circ' = circ
        BY <1>3 DEF Finish
    <2>2. work' \in WindowWorks /\ work'.before = work.before
        BY <1>1, <2>1 DEF WindowWorks
    <2>3. FunctionOf(circ)' = FunctionOf(circ)
        BY <2>1 DEF FunctionOf
    <2> QED
        BY <1>1, <2>1, <2>2, <2>3 DEF WInv
<1>4. CASE UNCHANGED vars
    <2>1. FunctionOf(circ)' = FunctionOf(circ)
        BY <1>4 DEF FunctionOf, vars
    <2> QED
        BY <1>1, <1>4, <2>1 DEF WInv, vars
<1> QED
    BY <1>2, <1>3, <1>4 DEF WindowStep

LEMMA WindowsInductive == WindowsSpec => []WInv
BY WindowsStart, WindowsStep, PTL DEF WindowsSpec

(* FunctionIsKept: whatever windows are taken and replaced, of any length and  *)
(* overlapping or not, every circuit on the way computes the same function.  *)
THEOREM WindowsKeepFunction == WindowsSpec => []FunctionIsKept
<1>1. WInv => FunctionIsKept
    BY DEF WInv, FunctionIsKept
<1> QED
    BY <1>1, WindowsInductive, PTL

(* NeverLonger: no replaced window makes the circuit longer than it was.      *)
THEOREM WindowsNeverGrow == WindowsSpec => []NeverLonger
<1>1. WInv => NeverLonger
    BY DEF WInv, NeverLonger
<1> QED
    BY <1>1, WindowsInductive, PTL

(* KeepsContract: window_optimization returns a circuit that computes the      *)
(* function of the one it was given, and leaves it alone.                    *)
THEOREM WindowsAreRight == WindowsSpec => KeepsContract
<1>1. WindowsInit => Contract!Init
    BY DEF WindowsInit, StartWindows, Contract!Init, Returned
<1>2. WInv /\ Returned => Result = spec
    <2> SUFFICES ASSUME WInv, Returned PROVE Result = spec
        OBVIOUS
    <2>1. algorithm = "windows" /\ FunctionOf(circ) = spec
        BY DEF WInv
    <2> QED
        BY <2>1 DEF Result
<1>3. WInv /\ WInv' /\ [WindowStep]_vars => [Contract!Work \/ Contract!Return]_(Contract!vars)
    <2> SUFFICES ASSUME WInv, WInv', [WindowStep]_vars
                 PROVE  Contract!Work \/ Contract!Return \/ UNCHANGED Contract!vars
        OBVIOUS
    <2>1. CASE UNCHANGED vars
        BY <2>1, StandsStill
    <2>2. CASE WindowStep
        <3>1. ~Returned /\ spec' = spec
            BY <2>2 DEF WindowStep, Optimize, Finish, Returned
        <3>2. (WInv /\ Returned => Result = spec)'
            BY <1>2, PTL
        <3>3. Returned' => Result' = spec'
            BY <3>2
        <3>4. Returned' \in BOOLEAN
            BY DEF Returned
        <3> QED
            BY <3>1, <3>3, <3>4, ReturnsRight
    <2> QED
        BY <2>1, <2>2
<1> QED
    BY <1>1, <1>3, WindowsInductive, PTL DEF WindowsSpec, KeepsContract, Contract!Spec
-------------------------------------------------------------------------------
(* Simplification.  Every pass is a fold over the gates of a circuit.         *)

LEMMA UpwardsLists ==
    ASSUME NEW S \in SUBSET Nat, IsFiniteSet(S)
    PROVE  /\ Cardinality(S) \in Nat /\ Upwards(S) \in [1..Cardinality(S) -> S]
           /\ \A l \in S : \E i \in 1..Cardinality(S) : Upwards(S)[i] = l
           /\ \A i, j \in 1..Cardinality(S) : i < j => Upwards(S)[i] < Upwards(S)[j]
<1> DEFINE R == {p \in S \X S : p[1] < p[2]}
<1>1. \A x, y \in S : <<x, y>> \in R <=> x < y
    OBVIOUS
<1> HIDE DEF R
<1>2. IsStrictOrder(R, S)
    <2>1. \A x \in S : <<x, x>> \notin R
        BY <1>1
    <2>2. \A x, y \in S : x # y => <<x, y>> \in R \/ <<y, x>> \in R
        BY <1>1
    <2>3. \A x, y, z \in S : <<x, y>> \in R /\ <<y, z>> \in R => <<x, z>> \in R
        BY <1>1
    <2> QED
        BY <2>1, <2>2, <2>3 DEF IsStrictOrder
<1>3. Ranked(Upwards(S), R, S)
    <2>1. \A x \in S : {y \in S : y < x} = LowerPart(x, R, S)
        BY <1>1 DEF LowerPart
    <2> DEFINE c(i) == CHOOSE x \in S : Cardinality({y \in S : y < x}) = i - 1
               r(i) == CHOOSE x \in S : Rank(x, R, S) = i - 1
    <2>2. \A i : c(i) = r(i)
        <3> TAKE i
        <3>1. \A x \in S : Cardinality({y \in S : y < x}) = i - 1 <=> Rank(x, R, S) = i - 1
            BY <2>1 DEF Rank
        <3> QED
            BY <3>1
    <2>3. Upwards(S) = [i \in 1..Cardinality(S) |-> c(i)]
        BY DEF Upwards, Sorted
    <2> HIDE DEF c, r
    <2>4. Upwards(S) = [i \in 1..Cardinality(S) |-> r(i)]
        BY <2>2, <2>3
    <2> QED
        BY <2>4, Zenon DEF Ranked, r
<1>4. /\ Cardinality(S) \in Nat /\ Upwards(S) \in [1..Cardinality(S) -> S]
      /\ \A l \in S : \E i \in 1..Cardinality(S) : Upwards(S)[i] = l
      /\ \A i, j \in 1..Cardinality(S) : i < j => <<Upwards(S)[i], Upwards(S)[j]>> \in R
    BY <1>2, <1>3, RankedFacts
<1>5. \A i, j \in 1..Cardinality(S) : Upwards(S)[i] \in S /\ Upwards(S)[j] \in S
    BY <1>4
<1> QED
    BY <1>1, <1>4, <1>5

(* simple_merge_heuristic moves gates and loses none.                         *)
Merged(c) == [circ : Seq(GateSet), moved : SUBSET (1..Len(c))]

Joinable(c, i, s) == Joining(c, i, s.moved)

LEMMA MergeIs ==
    ASSUME NEW c \in Seq(GateSet), NEW i \in 1..Len(c), NEW s \in Merged(c)
    PROVE  /\ Merge(c, s, i) \in Merged(c)
           /\ i \in s.moved => Merge(c, s, i) = s
           /\ i \notin s.moved =>
                /\ Len(Merge(c, s, i).circ) = Len(s.circ) + 1 + Cardinality(Joinable(c, i, s))
                /\ Merge(c, s, i).moved = s.moved \cup Joinable(c, i, s)
                /\ Joinable(c, i, s) \subseteq (i + 1..Len(c)) \ s.moved
<1> DEFINE n == Len(c)
           J == Joining(c, i, s.moved)
           tail == [k \in 1..Cardinality(J) |-> c[Upwards(J)[k]]]
<1>1. n \in Nat /\ J \subseteq (i + 1..n) \ s.moved /\ J \in SUBSET (1..n) /\ J \in SUBSET Nat
    BY DEF Joining
<1> HIDE DEF J
<1>2. IsFiniteSet(J)
    <2>1. IsFiniteSet(1..n) /\ J \subseteq 1..n
        BY <1>1, FS_Interval
    <2> QED
        BY <2>1, FS_Subset
<1>3. Cardinality(J) \in Nat /\ Upwards(J) \in [1..Cardinality(J) -> J]
    BY <1>1, <1>2, UpwardsLists
<1>4. tail \in Seq(GateSet) /\ Len(tail) = Cardinality(J)
    <2>1. ASSUME NEW k \in 1..Cardinality(J)
          PROVE  c[Upwards(J)[k]] \in GateSet
        <3>1. Upwards(J)[k] \in J
            BY <1>3
        <3>2. Upwards(J)[k] \in 1..n
            BY <1>1, <3>1
        <3> QED
            BY <3>2
    <2> QED
        BY <1>3, <2>1
<1> HIDE DEF tail
<1>5. CASE i \in s.moved
    BY <1>5 DEF Merge
<1>6. CASE i \notin s.moved
    <2>1. Merge(c, s, i) = [circ |-> s.circ \o <<c[i]>> \o tail, moved |-> s.moved \cup J]
        BY <1>6, Zenon DEF Merge, J, tail
    <2>2. s.circ \in Seq(GateSet) /\ s.moved \in SUBSET (1..n) /\ <<c[i]>> \in Seq(GateSet) /\ Len(<<c[i]>>) = 1
        BY DEF Merged
    <2> DEFINE a == s.circ \o <<c[i]>>
               d == a \o tail
    <2>3. a \in Seq(GateSet) /\ Len(a) = Len(s.circ) + 1
        BY <2>2, ConcatProperties
    <2> HIDE DEF a
    <2>4. d \in Seq(GateSet) /\ Len(d) = Len(a) + Len(tail)
        BY <1>4, <2>3, ConcatProperties
    <2> HIDE DEF d
    <2>5. Merge(c, s, i) = [circ |-> d, moved |-> s.moved \cup J]
        BY <2>1 DEF a, d
    <2>6. Joinable(c, i, s) = J
        BY DEF Joinable, J
    <2>7. s.moved \cup J \in SUBSET (1..n)
        BY <1>1, <2>2
    <2> QED
        BY <1>1, <1>4, <1>6, <2>3, <2>4, <2>5, <2>6, <2>7 DEF Merged
<1> QED
    BY <1>5, <1>6

MergeWalk(h, c) ==
    /\ h \in [0..Len(c) -> Merged(c)] /\ h[0] = [circ |-> <<>>, moved |-> {}]
    /\ \A k \in 1..Len(c) : h[k] = Merge(c, h[k - 1], k)

LEMMA MergeFolds ==
    ASSUME NEW c \in Seq(GateSet)
    PROVE  \E h : MergeWalk(h, c) /\ SimpleMerge(c) = h[Len(c)].circ
<1> DEFINE n == Len(c)
           order == [i \in 1..Len(c) |-> i]
           V == Merged(c)
           F == [e \in (1..n) \X V |-> Merge(c, e[2], order[e[1]])]
           Is(it) == it = [s \in SUBSET (DOMAIN order) |->
                            IF s = {} THEN [circ |-> <<>>, moved |-> {}]
                            ELSE Merge(c, it[s \ {SeqExt!Max(s)}], order[SeqExt!Max(s)])]
           r == CHOOSE r : Is(r)
<1>1. n \in Nat /\ DOMAIN order = 1..n
    OBVIOUS
<1>2. SimpleMerge(c) = r[DOMAIN order].circ
    BY Zenon DEF SimpleMerge, order, SeqExt!FoldLeft, SeqExt!MapThenFoldSet
<1>3. \A i \in 1..n, v \in V : Merge(c, v, order[i]) \in V
    BY MergeIs
<1>4. [circ |-> <<>>, moved |-> {}] \in V
    BY DEF Merged
<1> HIDE DEF n, V, order
<1>5. F \in [(1..n) \X V -> V]
    BY <1>3
<1>6. PICK it \in [SUBSET (1..n) -> V] : IsFold(it, F, [circ |-> <<>>, moved |-> {}], n)
    <2> HIDE DEF F
    <2> QED
        BY <1>1, <1>4, <1>5, FoldExists
<1>7. Is(it)
    <2>1. ASSUME NEW s \in SUBSET (1..n), s # {}
          PROVE  F[<<SeqExt!Max(s), it[s \ {SeqExt!Max(s)}]>>]
                 = Merge(c, it[s \ {SeqExt!Max(s)}], order[SeqExt!Max(s)])
        <3>1. SeqExt!Max(s) \in 1..n /\ it[s \ {SeqExt!Max(s)}] \in V
            BY <1>1, <2>1, MaxOf
        <3> QED
            BY <3>1
    <2> HIDE DEF F
    <2> QED
        BY <1>1, <1>6, <2>1 DEF IsFold
<1>8. Is(r)
    <2> HIDE DEF Is
    <2> QED
        BY <1>7, Zenon
<1> HIDE DEF r
<1>9. Unfolds(r, F, [circ |-> <<>>, moved |-> {}], n, V)
    <2>1. r[{}] = [circ |-> <<>>, moved |-> {}]
        BY <1>8
    <2>2. ASSUME NEW s \in SUBSET (1..n), s # {}, r[s \ {SeqExt!Max(s)}] \in V
          PROVE  r[s] = F[<<SeqExt!Max(s), r[s \ {SeqExt!Max(s)}]>>]
        <3>1. SeqExt!Max(s) \in 1..n
            BY <1>1, <2>2, MaxOf
        <3>2. r[s] = Merge(c, r[s \ {SeqExt!Max(s)}], order[SeqExt!Max(s)])
            BY <1>1, <1>8, <2>2, Zenon
        <3> QED
            BY <2>2, <3>1, <3>2
    <2> HIDE DEF F
    <2> QED
        BY <2>1, <2>2 DEF Unfolds
<1>10. PICK h : Walk(h, F, [circ |-> <<>>, moved |-> {}], n, V) /\ r[1..n] = h[n]
    <2> HIDE DEF F
    <2>1. WalksTo(r[1..n], F, [circ |-> <<>>, moved |-> {}], n, V)
        BY <1>1, <1>4, <1>5, <1>9, WalkOfUnfolds, Zenon
    <2> QED
        BY <2>1 DEF WalksTo
<1>11. \A k \in 1..n : h[k] = Merge(c, h[k - 1], order[k])
    <2> TAKE k \in 1..n
    <2>1. k - 1 \in 0..n /\ h[k - 1] \in V
        BY <1>1, <1>10 DEF Walk
    <2>2. F[<<k, h[k - 1]>>] = Merge(c, h[k - 1], order[k])
        BY <2>1
    <2> HIDE DEF F
    <2> QED
        BY <1>10, <2>2 DEF Walk
<1> HIDE DEF F
<1>12. MergeWalk(h, c)
    BY <1>10, <1>11 DEF Walk, MergeWalk, n, V, order
<1> QED
    BY <1>1, <1>2, <1>10, <1>12 DEF n
LEMMA MergeKeepsLength ==
    ASSUME NEW c \in Seq(GateSet)
    PROVE  SimpleMerge(c) \in Seq(GateSet) /\ Len(SimpleMerge(c)) = Len(c)
<1> DEFINE n == Len(c)
<1>1. n \in Nat
    OBVIOUS
<1>2. PICK h : MergeWalk(h, c) /\ SimpleMerge(c) = h[n].circ
    BY MergeFolds
<1> DEFINE Done(k) == (1..k) \cup h[k].moved
           T == {k \in 0..n : Len(h[k].circ) # Cardinality(Done(k))}
<1>3. \A k \in 0..n : h[k] \in Merged(c) /\ h[k].circ \in Seq(GateSet) /\ h[k].moved \in SUBSET (1..n)
    BY <1>2 DEF MergeWalk, Merged
<1>4. Len(h[0].circ) = Cardinality(Done(0))
    <2>1. h[0] = [circ |-> <<>>, moved |-> {}] /\ 1..0 = {}
        BY <1>2 DEF MergeWalk
    <2>2. Done(0) = {} /\ Len(h[0].circ) = 0
        BY <2>1
    <2> QED
        BY <2>2, FS_EmptySet
<1>5. ASSUME NEW k \in 1..n, Len(h[k - 1].circ) = Cardinality(Done(k - 1))
      PROVE  Len(h[k].circ) = Cardinality(Done(k))
    <2>0. k - 1 \in 0..n /\ k \in 0..n /\ k \in Nat
        BY <1>1
    <2> DEFINE s == h[k - 1]
               J == Joinable(c, k, s)
    <2>1. s \in Merged(c) /\ s.circ \in Seq(GateSet) /\ s.moved \in SUBSET (1..n) /\ h[k] = Merge(c, s, k)
        BY <1>2, <1>3, <2>0 DEF MergeWalk
    <2>2. /\ k \in s.moved => h[k] = s
          /\ k \notin s.moved => /\ Len(h[k].circ) = Len(s.circ) + 1 + Cardinality(J)
                                 /\ h[k].moved = s.moved \cup J
                                 /\ J \subseteq (k + 1..n) \ s.moved
        BY <2>1, MergeIs
    <2>3. 1..k = (1..k - 1) \cup {k} /\ k \notin 1..k - 1
        BY <2>0
    <2>4. Done(k - 1) = (1..k - 1) \cup s.moved
        OBVIOUS
    <2> HIDE DEF s, J
    <2>5. CASE k \in s.moved
        <3>1. Done(k) = Done(k - 1)
            BY <2>2, <2>3, <2>4, <2>5
        <3> QED
            BY <1>5, <2>2, <2>5, <3>1 DEF s
    <2>6. CASE k \notin s.moved
        <3> DEFINE D == Done(k - 1)
        <3>a. 1 \in Int /\ n \in Int
            BY <1>1
        <3>b. IsFiniteSet(1..n)
            BY <3>a, FS_Interval
        <3>c. 1..k - 1 \subseteq 1..n
            BY <1>1, <2>0
        <3>d. s.moved \subseteq 1..n
            BY <2>1
        <3>e. D = (1..k - 1) \cup s.moved
            BY <2>4
        <3>1. IsFiniteSet(1..n) /\ D \in SUBSET (1..n)
            BY ONLY <3>b, <3>c, <3>d, <3>e
        <3>2. k \notin D /\ J \in SUBSET (1..n) /\ k \notin J /\ J \cap D = {}
            BY <2>0, <2>2, <2>4, <2>6
        <3>3. Done(k) = (D \cup {k}) \cup J
            BY <2>2, <2>3, <2>4, <2>6
        <3> HIDE DEF D, Done
        <3>4. IsFiniteSet(D) /\ IsFiniteSet(J)
            BY <3>1, <3>2, FS_Subset
        <3>5. IsFiniteSet(D \cup {k}) /\ Cardinality(D \cup {k}) = Cardinality(D) + 1
            BY <3>2, <3>4, FS_AddElement
        <3>6. (D \cup {k}) \cap J = {}
            BY <3>2
        <3>7. Cardinality(Done(k)) = Cardinality(D \cup {k}) + Cardinality(J)
            <4>1. Cardinality((D \cup {k}) \cup J) = Cardinality(D \cup {k}) + Cardinality(J) - Cardinality((D \cup {k}) \cap J)
                BY <3>4, <3>5, FS_Union
            <4>2. Cardinality((D \cup {k}) \cap J) = 0
                BY <3>6, FS_EmptySet
            <4>3. Cardinality(D \cup {k}) \in Nat /\ Cardinality(J) \in Nat
                BY <3>4, <3>5, FS_CardinalityType
            <4> QED
                BY <3>3, <4>1, <4>2, <4>3
        <3>8. Cardinality(D) \in Nat /\ Cardinality(J) \in Nat
            BY <3>4, FS_CardinalityType
        <3>9. Len(s.circ) = Cardinality(D)
            BY <1>5 DEF s, D
        <3> QED
            BY <2>2, <2>6, <3>5, <3>7, <3>8, <3>9
    <2> QED
        BY <2>5, <2>6
<1> HIDE DEF Done
<1>6. T = {}
    <2> SUFFICES ASSUME T # {} PROVE FALSE
        OBVIOUS
    <2>0. T \subseteq Nat
        OBVIOUS
    <2>1. PICK k \in T : \A j \in T : k <= j
        BY <2>0, Least, Zenon
    <2>2. k \in 1..n /\ k - 1 \in 0..n /\ ~ k <= k - 1
        BY <1>4, <2>1
    <2>3. Len(h[k - 1].circ) = Cardinality(Done(k - 1))
        BY <2>1, <2>2
    <2> QED
        BY <1>5, <2>1, <2>2, <2>3
<1>7. Len(h[n].circ) = Cardinality(Done(n))
    <2>1. n \in 0..n /\ n \notin T
        BY <1>1, <1>6
    <2> QED
        BY <2>1
<1>8. Done(n) = 1..n
    <2>1. n \in 0..n
        BY <1>1
    <2> QED
        BY <1>3, <2>1 DEF Done
<1>9. Cardinality(1..n) = n
    BY <1>1, FS_Interval, SMTT(40)
<1>10. h[n].circ \in Seq(GateSet)
    BY <1>1, <1>3
<1> QED
    BY <1>2, <1>7, <1>8, <1>9, <1>10

(* simplify_not_gates remembers each inverter at most once.                    *)
Inverted01 == [circ : Seq(GateSet), nots : SUBSET Lines]

LEMMA GateParts ==
    ASSUME NEW g \in GateSet
    PROVE  g.controls \in SUBSET (Lines \X BOOLEAN) /\ Target(g) \in Lines
<1>1. CASE \E c \in SUBSET (Lines \X BOOLEAN), t \in Lines : g = Toffoli(c, t)
    BY <1>1 DEF Toffoli, Gate, Target
<1>2. CASE \E c \in SUBSET (Lines \X BOOLEAN), t \in Lines, u \in Lines : g = Fredkin(c, t, u)
    BY <1>2 DEF Fredkin, Gate, Target
<1>3. CASE \E c \in Lines, t \in Lines, u \in Lines : g = Peres(c, t, u)
    <2>1. PICK c \in Lines, t \in Lines, u \in Lines : g = Peres(c, t, u)
        BY <1>3
    <2>2. g.controls = Pos({c}) /\ g.targets = <<t, u>>
        BY <2>1 DEF Peres, Gate
    <2>3. Pos({c}) = {<<c, TRUE>>}
        BY DEF Pos
    <2>4. {<<c, TRUE>>} \in SUBSET (Lines \X BOOLEAN)
        <3>1. c \in Lines /\ TRUE \in BOOLEAN
            BY <2>1
        <3>2. <<c, TRUE>> \in Lines \X BOOLEAN
            BY <3>1, Zenon
        <3> QED
            BY <3>2, Zenon
    <2>5. Target(g) = t
        BY <2>2 DEF Target
    <2> QED
        BY <2>1, <2>2, <2>3, <2>4, <2>5
<1> QED
    BY <1>1, <1>2, <1>3, GateCases DEF GateSet

LEMMA FlippedTyped ==
    ASSUME NEW c \in SUBSET (Lines \X BOOLEAN), NEW S
    PROVE  /\ Flipped(c, S) \in SUBSET (Lines \X BOOLEAN)
           /\ {<<d[1], ~d[2]>> : d \in Flipped(c, S)} \in SUBSET (Lines \X BOOLEAN)
<1>1. Flipped(c, S) \in SUBSET (Lines \X BOOLEAN)
    <2>1. ASSUME NEW d \in c
          PROVE  <<d[1], d[2] # (d[1] \in S)>> \in Lines \X BOOLEAN
        <3>1. d[1] \in Lines
            OBVIOUS
        <3>2. (d[2] # (d[1] \in S)) \in BOOLEAN
            OBVIOUS
        <3> QED
            BY <3>1, <3>2
    <2> QED
        BY <2>1, Zenon DEF Flipped
<1>2. {<<d[1], ~d[2]>> : d \in Flipped(c, S)} \in SUBSET (Lines \X BOOLEAN)
    <2> DEFINE D == Flipped(c, S)
    <2>1. D \in SUBSET (Lines \X BOOLEAN)
        BY <1>1
    <2> HIDE DEF D
    <2>2. ASSUME NEW d \in D
          PROVE  <<d[1], ~d[2]>> \in Lines \X BOOLEAN
        <3>1. d[1] \in Lines
            BY <2>1
        <3>2. (~d[2]) \in BOOLEAN
            OBVIOUS
        <3> QED
            BY <3>1, <3>2
    <2>3. {<<d[1], ~d[2]>> : d \in D} \in SUBSET (Lines \X BOOLEAN)
        BY <2>2, Zenon
    <2> QED
        BY <2>3 DEF D
<1> QED
    BY <1>1, <1>2

LEMMA MoveNotsIs ==
    ASSUME NEW s \in Inverted01, NEW g \in GateSet
    PROVE  /\ MoveNots(s, g) \in Inverted01
           /\ Len(MoveNots(s, g).circ) + Cardinality(MoveNots(s, g).nots)
                <= Len(s.circ) + Cardinality(s.nots) + 1
<1> DEFINE t == Target(g)
           C == Flipped(g.controls, s.nots)
           E == {<<d[1], ~d[2]>> : d \in C}
<1>1. s = [circ |-> s.circ, nots |-> s.nots] /\ s.circ \in Seq(GateSet) /\ s.nots \in SUBSET Lines
    BY DEF Inverted01
<1>2. t \in Lines /\ C \in SUBSET (Lines \X BOOLEAN) /\ E \in SUBSET (Lines \X BOOLEAN)
    BY GateParts, FlippedTyped
<1>3. IsFiniteSet(s.nots) /\ Cardinality(s.nots) \in Nat /\ Len(s.circ) \in Nat
    BY <1>1, AreFinite, FS_CardinalityType
<1>4. /\ MoveNots(s, g) = CASE g.controls = {} -> [s EXCEPT !.nots = Flip(@, t)]
                              [] Cardinality(g.controls) = 1 /\ t \in s.nots ->
                                    [circ |-> Append(s.circ, Toffoli(E, t)), nots |-> s.nots \ {t}]
                              [] OTHER -> [s EXCEPT !.circ = Append(@, Toffoli(C, t))]
    BY Zenon DEF MoveNots
<1>5. Toffoli(C, t) \in GateSet /\ Toffoli(E, t) \in GateSet
    BY <1>2, ToffoliIsGate
<1> HIDE DEF t, C, E
<1>6. CASE g.controls = {}
    <2>1. MoveNots(s, g) = [s EXCEPT !.nots = Flip(@, t)]
        <3>1. Cardinality(g.controls) # 1
            BY <1>6, FS_EmptySet
        <3> QED
            BY <1>4, <1>6, <3>1
    <2>2. MoveNots(s, g) = [circ |-> s.circ, nots |-> Flip(s.nots, t)]
        BY <1>1, <2>1
    <2>3. CASE t \in s.nots
        <3>1. Flip(s.nots, t) = s.nots \ {t} /\ Cardinality(s.nots \ {t}) = Cardinality(s.nots) - 1
            BY <1>3, <2>3, FlipIs, FS_RemoveElement
        <3> QED
            BY <1>1, <1>3, <2>2, <3>1 DEF Inverted01
    <2>4. CASE t \notin s.nots
        <3>1. Flip(s.nots, t) = s.nots \cup {t} /\ Cardinality(s.nots \cup {t}) = Cardinality(s.nots) + 1
            BY <1>3, <2>4, FlipIs, FS_AddElement
        <3> QED
            BY <1>1, <1>2, <1>3, <2>2, <3>1 DEF Inverted01
    <2> QED
        BY <2>3, <2>4
<1>7. CASE g.controls # {} /\ Cardinality(g.controls) = 1 /\ t \in s.nots
    <2>1. MoveNots(s, g) = [circ |-> Append(s.circ, Toffoli(E, t)), nots |-> s.nots \ {t}]
        BY <1>4, <1>7
    <2>2. Cardinality(s.nots \ {t}) = Cardinality(s.nots) - 1
        BY <1>3, <1>7, FS_RemoveElement
    <2>3. Append(s.circ, Toffoli(E, t)) \in Seq(GateSet) /\ Len(Append(s.circ, Toffoli(E, t))) = Len(s.circ) + 1
        BY <1>1, <1>5
    <2> QED
        BY <1>1, <1>3, <2>1, <2>2, <2>3 DEF Inverted01
<1>8. CASE g.controls # {} /\ ~(Cardinality(g.controls) = 1 /\ t \in s.nots)
    <2>1. MoveNots(s, g) = [s EXCEPT !.circ = Append(@, Toffoli(C, t))]
        BY <1>4, <1>8
    <2>2. MoveNots(s, g) = [circ |-> Append(s.circ, Toffoli(C, t)), nots |-> s.nots]
        BY <1>1, <2>1
    <2>3. Append(s.circ, Toffoli(C, t)) \in Seq(GateSet) /\ Len(Append(s.circ, Toffoli(C, t))) = Len(s.circ) + 1
        BY <1>1, <1>5
    <2> QED
        BY <1>1, <1>3, <2>2, <2>3 DEF Inverted01
<1> QED
    BY <1>6, <1>7, <1>8

NotsAtEnd(nots) == [i \in 1..Cardinality(nots) |-> Not(Upwards(nots)[i])]

NotsWalk(h, c) ==
    /\ h \in [0..Len(c) -> Inverted01] /\ h[0] = [circ |-> <<>>, nots |-> {}]
    /\ \A k \in 1..Len(c) : h[k] = MoveNots(h[k - 1], c[k])

LEMMA NotsFolds ==
    ASSUME NEW c \in Seq(GateSet)
    PROVE  \E h : NotsWalk(h, c) /\ SimplifyNotGates(c) = h[Len(c)].circ \o NotsAtEnd(h[Len(c)].nots)
<1> DEFINE n == Len(c)
           V == Inverted01
           F == [e \in (1..n) \X V |-> MoveNots(e[2], c[e[1]])]
           Is(it) == it = [s \in SUBSET (DOMAIN c) |->
                            IF s = {} THEN [circ |-> <<>>, nots |-> {}]
                            ELSE MoveNots(it[s \ {SeqExt!Max(s)}], c[SeqExt!Max(s)])]
           r == CHOOSE r : Is(r)
<1>1. n \in Nat /\ DOMAIN c = 1..n
    OBVIOUS
<1>2. SimplifyNotGates(c) = r[DOMAIN c].circ \o NotsAtEnd(r[DOMAIN c].nots)
    BY Zenon DEF SimplifyNotGates, NotsAtEnd, SeqExt!FoldLeft, SeqExt!MapThenFoldSet
<1>3. \A i \in 1..n, v \in V : MoveNots(v, c[i]) \in V
    BY MoveNotsIs
<1>4. [circ |-> <<>>, nots |-> {}] \in V
    BY DEF Inverted01
<1> HIDE DEF n, V
<1>5. F \in [(1..n) \X V -> V]
    BY <1>3
<1>6. PICK it \in [SUBSET (1..n) -> V] : IsFold(it, F, [circ |-> <<>>, nots |-> {}], n)
    <2> HIDE DEF F
    <2> QED
        BY <1>1, <1>4, <1>5, FoldExists
<1>7. Is(it)
    <2>1. ASSUME NEW s \in SUBSET (1..n), s # {}
          PROVE  F[<<SeqExt!Max(s), it[s \ {SeqExt!Max(s)}]>>]
                 = MoveNots(it[s \ {SeqExt!Max(s)}], c[SeqExt!Max(s)])
        <3>1. SeqExt!Max(s) \in 1..n /\ it[s \ {SeqExt!Max(s)}] \in V
            BY <1>1, <2>1, MaxOf
        <3> QED
            BY <3>1
    <2> HIDE DEF F
    <2> QED
        BY <1>1, <1>6, <2>1 DEF IsFold
<1>8. Is(r)
    <2> HIDE DEF Is
    <2> QED
        BY <1>7, Zenon
<1> HIDE DEF r
<1>9. Unfolds(r, F, [circ |-> <<>>, nots |-> {}], n, V)
    <2>1. r[{}] = [circ |-> <<>>, nots |-> {}]
        BY <1>8
    <2>2. ASSUME NEW s \in SUBSET (1..n), s # {}, r[s \ {SeqExt!Max(s)}] \in V
          PROVE  r[s] = F[<<SeqExt!Max(s), r[s \ {SeqExt!Max(s)}]>>]
        <3>1. SeqExt!Max(s) \in 1..n
            BY <1>1, <2>2, MaxOf
        <3>2. r[s] = MoveNots(r[s \ {SeqExt!Max(s)}], c[SeqExt!Max(s)])
            BY <1>1, <1>8, <2>2, Zenon
        <3> QED
            BY <2>2, <3>1, <3>2
    <2> HIDE DEF F
    <2> QED
        BY <2>1, <2>2 DEF Unfolds
<1>10. PICK h : Walk(h, F, [circ |-> <<>>, nots |-> {}], n, V) /\ r[1..n] = h[n]
    <2> HIDE DEF F
    <2>1. WalksTo(r[1..n], F, [circ |-> <<>>, nots |-> {}], n, V)
        BY <1>1, <1>4, <1>5, <1>9, WalkOfUnfolds, Zenon
    <2> QED
        BY <2>1 DEF WalksTo
<1>11. \A k \in 1..n : h[k] = MoveNots(h[k - 1], c[k])
    <2> TAKE k \in 1..n
    <2>1. k - 1 \in 0..n /\ h[k - 1] \in V
        BY <1>1, <1>10 DEF Walk
    <2>2. F[<<k, h[k - 1]>>] = MoveNots(h[k - 1], c[k])
        BY <2>1
    <2> HIDE DEF F
    <2> QED
        BY <1>10, <2>2 DEF Walk
<1> HIDE DEF F
<1>12. NotsWalk(h, c)
    BY <1>10, <1>11 DEF Walk, NotsWalk, n, V
<1> QED
    BY <1>1, <1>2, <1>10, <1>12 DEF n

LEMMA NotsNeverGrow ==
    ASSUME NEW c \in Seq(GateSet)
    PROVE  SimplifyNotGates(c) \in Seq(GateSet) /\ Len(SimplifyNotGates(c)) <= Len(c)
<1> DEFINE n == Len(c)
<1>1. n \in Nat /\ \A k \in 1..n : c[k] \in GateSet
    OBVIOUS
<1>2. PICK h : NotsWalk(h, c) /\ SimplifyNotGates(c) = h[n].circ \o NotsAtEnd(h[n].nots)
    BY NotsFolds
<1> DEFINE Size(k) == Len(h[k].circ) + Cardinality(h[k].nots)
           T == {k \in 0..n : ~(Size(k) <= k)}
<1>3. \A k \in 0..n : h[k] \in Inverted01 /\ h[k].circ \in Seq(GateSet) /\ h[k].nots \in SUBSET Lines
    BY <1>2 DEF NotsWalk, Inverted01
<1>4. Size(0) = 0
    <2>1. h[0] = [circ |-> <<>>, nots |-> {}]
        BY <1>2 DEF NotsWalk
    <2>2. Len(h[0].circ) = 0 /\ Cardinality(h[0].nots) = 0
        BY <2>1, FS_EmptySet
    <2> QED
        BY <2>2
<1>5. ASSUME NEW k \in 1..n
      PROVE  Size(k) <= Size(k - 1) + 1
    <2>1. k - 1 \in 0..n
        BY <1>1
    <2>2. h[k - 1] \in Inverted01 /\ c[k] \in GateSet /\ h[k] = MoveNots(h[k - 1], c[k])
        BY <1>1, <1>2, <1>3, <2>1 DEF NotsWalk
    <2> QED
        BY <2>2, MoveNotsIs
<1>6. \A k \in 0..n : Size(k) \in Nat
    <2> TAKE k \in 0..n
    <2>1. IsFiniteSet(h[k].nots)
        BY <1>3, AreFinite
    <2> QED
        BY <1>3, <2>1, FS_CardinalityType
<1> HIDE DEF Size
<1>7. T = {}
    <2> SUFFICES ASSUME T # {} PROVE FALSE
        OBVIOUS
    <2>0. T \subseteq Nat
        OBVIOUS
    <2>1. PICK k \in T : \A j \in T : k <= j
        BY <2>0, Least, Zenon
    <2>2. k \in 1..n /\ k - 1 \in 0..n /\ k \in 0..n /\ ~ k <= k - 1
        BY <1>4, <2>1
    <2>3. Size(k - 1) <= k - 1
        BY <2>1, <2>2
    <2> QED
        BY <1>5, <1>6, <2>1, <2>2, <2>3, SMTT(40)
<1>8. Size(n) <= n
    <2>1. n \in 0..n /\ n \notin T
        BY <1>1, <1>7
    <2> QED
        BY <2>1
<1>9. NotsAtEnd(h[n].nots) \in Seq(GateSet) /\ Len(NotsAtEnd(h[n].nots)) = Cardinality(h[n].nots)
    <2> DEFINE S == h[n].nots
    <2>1. S \in SUBSET Lines /\ S \in SUBSET Nat /\ IsFiniteSet(S)
        <3>1. S \in SUBSET Lines
            BY <1>1, <1>3
        <3> QED
            BY <3>1, LinesAre, AreFinite
    <2> HIDE DEF S
    <2>2. Cardinality(S) \in Nat /\ Upwards(S) \in [1..Cardinality(S) -> S]
        BY <2>1, UpwardsLists
    <2>3. \A i \in 1..Cardinality(S) : Not(Upwards(S)[i]) \in GateSet
        BY <2>1, <2>2, NotIsGate
    <2>4. NotsAtEnd(S) \in Seq(GateSet) /\ Len(NotsAtEnd(S)) = Cardinality(S)
        BY <2>2, <2>3 DEF NotsAtEnd
    <2> QED
        BY <2>4 DEF S
<1>10. h[n].circ \in Seq(GateSet)
    BY <1>1, <1>3
<1>11. SimplifyNotGates(c) \in Seq(GateSet) /\ Len(SimplifyNotGates(c)) = Size(n)
    <2> DEFINE a == h[n].circ
               b == NotsAtEnd(h[n].nots)
    <2>1. a \in Seq(GateSet) /\ b \in Seq(GateSet)
        BY <1>9, <1>10
    <2>2. SimplifyNotGates(c) = a \o b /\ Size(n) = Len(a) + Len(b)
        BY <1>2, <1>9 DEF Size
    <2> HIDE DEF a, b
    <2>3. a \o b \in Seq(GateSet) /\ Len(a \o b) = Len(a) + Len(b)
        BY <2>1, ConcatProperties
    <2> QED
        BY <2>2, <2>3
<1> QED
    BY <1>8, <1>11
(* simplify_adjacent, from the end of the circuit.                            *)
JoinFrom(f, c, i) ==
    IF i > Len(c) THEN <<>>
    ELSE IF i < Len(c) /\ Adjacent(c[i], c[i + 1])
         THEN JoinedGates(c[i], c[i + 1]) \o f[i + 2]
         ELSE <<c[i]>> \o f[i + 1]

IsJoin(f, c) == f = [i \in 1..Len(c) + 1 |-> JoinFrom(f, c, i)]

LEMMA JoinExists ==
    ASSUME NEW c, Len(c) \in Nat
    PROVE  \E f : IsJoin(f, c)
<1> DEFINE n == Len(c)
           E(m) == \E f : /\ f = [i \in 1..n + 1 |-> f[i]]
                          /\ \A i \in n + 1 - m..n + 1 : f[i] = JoinFrom(f, c, i)
           T == {m \in 0..n : ~E(m)}
<1>0. n \in Nat
    OBVIOUS
<1>1. E(0)
    <2> DEFINE f == [i \in 1..n + 1 |-> <<>>]
    <2>1. f = [i \in 1..n + 1 |-> f[i]]
        OBVIOUS
    <2>2. \A i \in n + 1 - 0..n + 1 : i \in 1..n + 1 /\ i > n
        BY <1>0
    <2>3. \A i \in n + 1 - 0..n + 1 : f[i] = JoinFrom(f, c, i)
        BY <2>2 DEF JoinFrom
    <2> HIDE DEF f
    <2> QED
        BY <2>1, <2>3
<1>2. ASSUME NEW m \in 0..n - 1, E(m)
      PROVE  E(m + 1)
    <2>1. PICK f : /\ f = [i \in 1..n + 1 |-> f[i]]
                   /\ \A i \in n + 1 - m..n + 1 : f[i] = JoinFrom(f, c, i)
        BY <1>2
    <2> DEFINE j == n - m
               g == [i \in 1..n + 1 |-> IF i = j THEN JoinFrom(f, c, j) ELSE f[i]]
    <2>2. j \in 1..n /\ j \in Nat /\ n + 1 - m = j + 1 /\ n + 1 - (m + 1) = j
        BY <1>0
    <2>3. \A i \in j..n + 1 : i \in 1..n + 1 /\ i \in Nat
        BY <2>2
    <2>4. g = [i \in 1..n + 1 |-> g[i]]
        OBVIOUS
    <2>5. g[j] = JoinFrom(f, c, j) /\ \A i \in j + 1..n + 1 : g[i] = f[i]
        BY <2>2, <2>3
    <2> HIDE DEF g
    <2>6. ASSUME NEW i \in j..n + 1
          PROVE  JoinFrom(g, c, i) = JoinFrom(f, c, i)
        <3>1. i <= n => g[i + 1] = f[i + 1]
            <4>1. i <= n => i + 1 \in j + 1..n + 1
                BY <1>0, <2>2, <2>3
            <4> QED
                BY <2>5, <4>1
        <3>2. i < n => g[i + 2] = f[i + 2]
            <4>1. i < n => i + 2 \in j + 1..n + 1
                BY <1>0, <2>2, <2>3
            <4> QED
                BY <2>5, <4>1
        <3>3. i \in Nat
            BY <2>3
        <3> QED
            BY <1>0, <3>1, <3>2, <3>3 DEF JoinFrom
    <2>7. ASSUME NEW i \in j..n + 1
          PROVE  g[i] = JoinFrom(g, c, i)
        <3>1. CASE i = j
            BY <2>5, <2>6, <3>1
        <3>2. CASE i # j
            <4>1. i \in j + 1..n + 1
                BY <2>2, <2>3, <3>2
            <4> QED
                BY <2>1, <2>2, <2>5, <2>6, <4>1
        <3> QED
            BY <3>1, <3>2
    <2> HIDE DEF j
    <2>8. /\ g = [i \in 1..n + 1 |-> g[i]]
          /\ \A i \in n + 1 - (m + 1)..n + 1 : g[i] = JoinFrom(g, c, i)
        BY <2>2, <2>4, <2>7
    <2> QED
        BY <2>8
<1> HIDE DEF E, n
<1>3. T = {}
    <2> SUFFICES ASSUME T # {} PROVE FALSE
        OBVIOUS
    <2>0. T \subseteq Nat
        OBVIOUS
    <2>1. PICK m \in T : \A j \in T : m <= j
        BY <2>0, Least, Zenon
    <2>2. m \in 0..n /\ ~E(m) /\ m # 0
        BY <1>1, <2>1
    <2>3. m - 1 \in 0..n - 1 /\ m - 1 \in 0..n /\ (m - 1) + 1 = m /\ ~ m <= m - 1
        BY <1>0, <2>2
    <2>4. E(m - 1)
        BY <2>1, <2>3
    <2>5. E((m - 1) + 1)
        BY <1>2, <2>3, <2>4
    <2> QED
        BY <2>2, <2>3, <2>5
<1>4. E(n)
    <2>1. n \in 0..n /\ n \notin T
        BY <1>0, <1>3
    <2> QED
        BY <2>1
<1>5. PICK f : /\ f = [i \in 1..n + 1 |-> f[i]]
               /\ \A i \in n + 1 - n..n + 1 : f[i] = JoinFrom(f, c, i)
    BY <1>4 DEF E
<1>6. n + 1 - n = 1
    BY <1>0
<1>7. f = [i \in 1..n + 1 |-> JoinFrom(f, c, i)]
    BY <1>5, <1>6
<1> QED
    BY <1>7 DEF IsJoin, n

LEMMA JoinedIs ==
    ASSUME NEW g \in GateSet, NEW g2 \in GateSet
    PROVE  JoinedGates(g, g2) \in Seq(GateSet) /\ Len(JoinedGates(g, g2)) <= 1
<1> DEFINE D == Differing(g, g2)
           lines == {d[1] : d \in D}
           C == (g.controls \cap g2.controls) \cup ((lines \X BOOLEAN) \ D)
<1>1. /\ g.controls \in SUBSET (Lines \X BOOLEAN) /\ g2.controls \in SUBSET (Lines \X BOOLEAN)
      /\ Target(g) \in Lines
    BY GateParts
<1>2. D \in SUBSET (Lines \X BOOLEAN)
    BY <1>1 DEF Differing, SymDiff
<1>3. JoinedGates(g, g2) = IF g.controls = g2.controls THEN <<>> ELSE <<Toffoli(C, Target(g))>>
    BY DEF JoinedGates
<1> HIDE DEF D
<1>4. lines \in SUBSET Lines
    BY <1>2
<1> HIDE DEF lines
<1>5. C \in SUBSET (Lines \X BOOLEAN)
    BY <1>1, <1>4
<1> HIDE DEF C
<1>6. Toffoli(C, Target(g)) \in GateSet
    BY <1>1, <1>5, ToffoliIsGate
<1> QED
    BY <1>3, <1>6

LEMMA AdjacentNeverGrows ==
    ASSUME NEW c \in Seq(GateSet)
    PROVE  SimplifyAdjacent(c) \in Seq(GateSet) /\ Len(SimplifyAdjacent(c)) <= Len(c)
<1> DEFINE n == Len(c)
           f == CHOOSE f : IsJoin(f, c)
           Short(m) == f[n + 1 - m] \in Seq(GateSet) /\ Len(f[n + 1 - m]) <= m
           T == {m \in 0..n : ~Short(m)}
<1>1. n \in Nat /\ \A i \in 1..n : c[i] \in GateSet
    OBVIOUS
<1>2. SimplifyAdjacent(c) = f[1]
    BY Zenon DEF SimplifyAdjacent, IsJoin, JoinFrom
<1>3. IsJoin(f, c)
    BY <1>1, JoinExists
<1> HIDE DEF f
<1>4. \A i \in 1..n + 1 : f[i] = JoinFrom(f, c, i)
    BY <1>3 DEF IsJoin
<1>5. Short(0)
    <2>1. n + 1 - 0 \in 1..n + 1 /\ n + 1 - 0 > n
        BY <1>1
    <2>2. f[n + 1 - 0] = <<>>
        BY <1>4, <2>1 DEF JoinFrom
    <2> QED
        BY <2>2
<1>6. ASSUME NEW m \in 1..n, Short(m - 1), m >= 2 => Short(m - 2)
      PROVE  Short(m)
    <2> DEFINE i == n + 1 - m
    <2>1. i \in 1..n /\ i \in 1..n + 1 /\ n + 1 - (m - 1) = i + 1 /\ n + 1 - (m - 2) = i + 2 /\ ~(i > n) /\ (i < n => m >= 2)
        BY <1>1
    <2>2. c[i] \in GateSet /\ (i < n => c[i + 1] \in GateSet)
        BY <1>1, <2>1
    <2>3. f[i + 1] \in Seq(GateSet) /\ Len(f[i + 1]) <= m - 1
        BY <1>6, <2>1
    <2>4. i < n => f[i + 2] \in Seq(GateSet) /\ Len(f[i + 2]) <= m - 2
        BY <1>6, <2>1
    <2>5. f[i] = JoinFrom(f, c, i)
        BY <1>4, <2>1
    <2> HIDE DEF i
    <2>6. CASE i < n /\ Adjacent(c[i], c[i + 1])
        <3> DEFINE a == JoinedGates(c[i], c[i + 1])
                   b == f[i + 2]
        <3>1. f[i] = a \o b
            BY <2>1, <2>5, <2>6 DEF JoinFrom
        <3>2. a \in Seq(GateSet) /\ Len(a) <= 1
            BY <2>2, <2>6, JoinedIs
        <3>3. b \in Seq(GateSet) /\ Len(b) <= m - 2
            BY <2>4, <2>6
        <3> HIDE DEF a, b
        <3>4. a \o b \in Seq(GateSet) /\ Len(a \o b) = Len(a) + Len(b)
            BY <3>2, <3>3, ConcatProperties
        <3>5. f[i] \in Seq(GateSet) /\ Len(f[i]) <= m
            BY <3>1, <3>2, <3>3, <3>4
        <3> QED
            BY <3>5 DEF i
    <2>7. CASE ~(i < n /\ Adjacent(c[i], c[i + 1]))
        <3> DEFINE a == <<c[i]>>
                   b == f[i + 1]
        <3>1. f[i] = a \o b
            BY <2>1, <2>5, <2>7 DEF JoinFrom
        <3>2. a \in Seq(GateSet) /\ Len(a) = 1
            BY <2>2
        <3>3. b \in Seq(GateSet) /\ Len(b) <= m - 1
            BY <2>3
        <3> HIDE DEF a, b
        <3>4. a \o b \in Seq(GateSet) /\ Len(a \o b) = Len(a) + Len(b)
            BY <3>2, <3>3, ConcatProperties
        <3>5. f[i] \in Seq(GateSet) /\ Len(f[i]) <= m
            BY <3>1, <3>2, <3>3, <3>4
        <3> QED
            BY <3>5 DEF i
    <2> QED
        BY <2>6, <2>7
<1> HIDE DEF Short
<1>7. T = {}
    <2> SUFFICES ASSUME T # {} PROVE FALSE
        OBVIOUS
    <2>0. T \subseteq Nat
        OBVIOUS
    <2>1. PICK m \in T : \A j \in T : m <= j
        BY <2>0, Least, Zenon
    <2>2. m \in 1..n /\ m - 1 \in 0..n /\ ~ m <= m - 1 /\ (m >= 2 => m - 2 \in 0..n /\ ~ m <= m - 2)
        BY <1>5, <2>1
    <2>3. Short(m - 1) /\ (m >= 2 => Short(m - 2))
        BY <2>1, <2>2
    <2> QED
        BY <1>6, <2>1, <2>2, <2>3
<1>8. Short(n)
    <2>1. n \in 0..n /\ n \notin T
        BY <1>1, <1>7
    <2> QED
        BY <2>1
<1>9. n + 1 - n = 1
    BY <1>1
<1> QED
    BY <1>2, <1>8, <1>9 DEF Short
(* exorcism_merge_heuristic cuts the circuit into runs and makes none of them  *)
(* longer.                                                                    *)
RunLists == Seq(Seq(GateSet) \ {<<>>})

(* The runs follow each other up to gate i; p says where each of them ends.    *)
Ends(p, runs, i) ==
    /\ p \in [0..Len(runs) -> Nat] /\ p[0] = 0 /\ p[Len(runs)] = i
    /\ \A j \in 1..Len(runs) : p[j] = p[j - 1] + Len(runs[j])

CutInto(runs, i) == \E p : Ends(p, runs, i)

LEMMA InRunIs ==
    ASSUME NEW runs \in RunLists, NEW g \in GateSet
    PROVE  /\ InRun(runs, g) \in RunLists
           /\ \/ InRun(runs, g) = Append(runs, <<g>>)
              \/ /\ runs # <<>>
                 /\ InRun(runs, g) = [runs EXCEPT ![Len(runs)] = Append(@, g)]
<1> DEFINE m == Len(runs)
           R == Seq(GateSet) \ {<<>>}
<1>1. \/ InRun(runs, g) = Append(runs, <<g>>)
      \/ runs # <<>> /\ InRun(runs, g) = [runs EXCEPT ![m] = Append(@, g)]
    BY Zenon DEF InRun
<1>2. runs \in Seq(R) /\ m \in Nat
    BY DEF RunLists
<1>3. <<g>> \in R
    OBVIOUS
<1>4. Append(runs, <<g>>) \in Seq(R)
    <2> HIDE DEF R
    <2> QED
        BY <1>2, <1>3, SMTT(40)
<1>5. ASSUME runs # <<>>
      PROVE  [runs EXCEPT ![m] = Append(@, g)] \in Seq(R)
    <2>1. m \in 1..m /\ runs[m] \in R
        <3> HIDE DEF R
        <3> QED
            BY <1>2, <1>5
    <2>2. Append(runs[m], g) \in R
        <3>1. runs[m] \in Seq(GateSet)
            BY <2>1
        <3>2. Append(runs[m], g) \in Seq(GateSet) /\ Len(Append(runs[m], g)) = Len(runs[m]) + 1 /\ Len(runs[m]) \in Nat
            BY <3>1
        <3> HIDE DEF m
        <3>3. Append(runs[m], g) # <<>>
            BY <3>2
        <3> QED
            BY <3>2, <3>3
    <2> HIDE DEF R
    <2>3. [runs EXCEPT ![m] = Append(@, g)] = [j \in 1..m |-> IF j = m THEN Append(runs[m], g) ELSE runs[j]]
        <3>1. DOMAIN runs = 1..m /\ runs = [j \in 1..m |-> runs[j]]
            BY <1>2
        <3> HIDE DEF m
        <3> QED
            BY <3>1, Zenon
    <2> HIDE DEF m
    <2>4. \A j \in 1..m : runs[j] \in R
        BY <1>2 DEF m
    <2>5. [j \in 1..m |-> IF j = m THEN Append(runs[m], g) ELSE runs[j]] \in Seq(R)
        BY <1>2, <2>2, <2>4
    <2> QED
        BY <2>3, <2>5 DEF m
<1> QED
    BY <1>1, <1>4, <1>5 DEF RunLists

LEMMA InRunCuts ==
    ASSUME NEW runs \in RunLists, NEW g \in GateSet, NEW i \in Nat, CutInto(runs, i)
    PROVE  CutInto(InRun(runs, g), i + 1)
<1> DEFINE m == Len(runs)
           R == Seq(GateSet) \ {<<>>}
           q == InRun(runs, g)
<1>1. PICK p : Ends(p, runs, i)
    BY DEF CutInto
<1>2. runs \in Seq(R) /\ m \in Nat
    BY DEF RunLists
<1>3. /\ p \in [0..m -> Nat] /\ p[0] = 0 /\ p[m] = i
      /\ \A j \in 1..m : p[j] = p[j - 1] + Len(runs[j])
    BY <1>1 DEF Ends
<1>4. CASE q = Append(runs, <<g>>)
    <2> DEFINE o == [j \in 0..m + 1 |-> IF j = m + 1 THEN i + 1 ELSE p[j]]
    <2>1. Len(q) = m + 1 /\ q[m + 1] = <<g>> /\ \A j \in 1..m : q[j] = runs[j]
        <3> HIDE DEF R, q
        <3> QED
            BY <1>2, <1>4
    <2> HIDE DEF m, q, R
    <2>2. o \in [0..m + 1 -> Nat] /\ o[0] = 0 /\ o[m + 1] = i + 1
        BY <1>2, <1>3
    <2>3. ASSUME NEW j \in 1..m + 1
          PROVE  o[j] = o[j - 1] + Len(q[j])
        <3>1. CASE j = m + 1
            <4>1. o[j - 1] = i
                BY <1>2, <1>3, <3>1
            <4>2. Len(q[j]) = 1
                BY <2>1, <3>1
            <4> QED
                BY <2>2, <3>1, <4>1, <4>2
        <3>2. CASE j # m + 1
            <4>1. j \in 1..m /\ o[j] = p[j] /\ o[j - 1] = p[j - 1] /\ q[j] = runs[j]
                BY <1>2, <2>1, <3>2
            <4> QED
                BY <1>3, <4>1
        <3> QED
            BY <3>1, <3>2
    <2> HIDE DEF o
    <2>4. Ends(o, q, i + 1)
        BY <2>1, <2>2, <2>3 DEF Ends
    <2> QED
        BY <2>4 DEF CutInto, q
<1>5. CASE runs # <<>> /\ q = [runs EXCEPT ![m] = Append(@, g)]
    <2> DEFINE o == [j \in 0..m |-> IF j = m THEN i + 1 ELSE p[j]]
    <2>1. Len(q) = m /\ q[m] = Append(runs[m], g) /\ (\A j \in 1..m - 1 : q[j] = runs[j]) /\ m \in 1..m
        <3> HIDE DEF R, q
        <3> QED
            BY <1>2, <1>5
    <2>2. Len(q[m]) = Len(runs[m]) + 1 /\ Len(runs[m]) \in Nat
        <3>1. runs[m] \in Seq(GateSet)
            BY <1>2, <2>1
        <3> HIDE DEF m, q
        <3> QED
            BY <2>1, <3>1
    <2> HIDE DEF m, q, R
    <2>3. o \in [0..m -> Nat] /\ o[0] = 0 /\ o[m] = i + 1
        BY <1>2, <1>3, <2>1
    <2>4. ASSUME NEW j \in 1..m
          PROVE  o[j] = o[j - 1] + Len(q[j])
        <3>1. CASE j = m
            <4>1. o[j - 1] = p[m - 1] /\ p[m] = p[m - 1] + Len(runs[m]) /\ p[m - 1] \in Nat
                BY <1>2, <1>3, <3>1
            <4> QED
                BY <1>3, <2>2, <2>3, <3>1, <4>1
        <3>2. CASE j # m
            <4>1. j \in 1..m - 1 /\ o[j] = p[j] /\ o[j - 1] = p[j - 1] /\ q[j] = runs[j]
                BY <1>2, <2>1, <3>2, SMTT(40)
            <4> QED
                BY <1>3, <4>1
        <3> QED
            BY <3>1, <3>2
    <2> HIDE DEF o
    <2>5. Ends(o, q, i + 1)
        BY <2>1, <2>3, <2>4 DEF Ends
    <2> QED
        BY <2>5 DEF CutInto, q
<1> QED
    BY <1>4, <1>5, InRunIs

RunsWalk(h, c) ==
    /\ h \in [0..Len(c) -> RunLists] /\ h[0] = <<>>
    /\ \A k \in 1..Len(c) : h[k] = InRun(h[k - 1], c[k])

LEMMA RunsFolds ==
    ASSUME NEW c \in Seq(GateSet)
    PROVE  \E h : RunsWalk(h, c) /\ Runs(c) = h[Len(c)]
<1> DEFINE n == Len(c)
           V == RunLists
           F == [e \in (1..n) \X V |-> InRun(e[2], c[e[1]])]
           Is(it) == it = [s \in SUBSET (DOMAIN c) |->
                            IF s = {} THEN <<>>
                            ELSE InRun(it[s \ {SeqExt!Max(s)}], c[SeqExt!Max(s)])]
           r == CHOOSE r : Is(r)
<1>1. n \in Nat /\ DOMAIN c = 1..n
    OBVIOUS
<1>2. Runs(c) = r[DOMAIN c]
    BY Zenon DEF Runs, SeqExt!FoldLeft, SeqExt!MapThenFoldSet
<1>3. \A i \in 1..n, v \in V : InRun(v, c[i]) \in V
    BY InRunIs
<1>4. <<>> \in V
    BY DEF RunLists
<1> HIDE DEF n, V
<1>5. F \in [(1..n) \X V -> V]
    BY <1>3
<1>6. PICK it \in [SUBSET (1..n) -> V] : IsFold(it, F, <<>>, n)
    <2> HIDE DEF F
    <2> QED
        BY <1>1, <1>4, <1>5, FoldExists
<1>7. Is(it)
    <2>1. ASSUME NEW s \in SUBSET (1..n), s # {}
          PROVE  F[<<SeqExt!Max(s), it[s \ {SeqExt!Max(s)}]>>]
                 = InRun(it[s \ {SeqExt!Max(s)}], c[SeqExt!Max(s)])
        <3>1. SeqExt!Max(s) \in 1..n /\ it[s \ {SeqExt!Max(s)}] \in V
            BY <1>1, <2>1, MaxOf
        <3> QED
            BY <3>1
    <2> HIDE DEF F
    <2> QED
        BY <1>1, <1>6, <2>1 DEF IsFold
<1>8. Is(r)
    <2> HIDE DEF Is
    <2> QED
        BY <1>7, Zenon
<1> HIDE DEF r
<1>9. Unfolds(r, F, <<>>, n, V)
    <2>1. r[{}] = <<>>
        BY <1>8
    <2>2. ASSUME NEW s \in SUBSET (1..n), s # {}, r[s \ {SeqExt!Max(s)}] \in V
          PROVE  r[s] = F[<<SeqExt!Max(s), r[s \ {SeqExt!Max(s)}]>>]
        <3>1. SeqExt!Max(s) \in 1..n
            BY <1>1, <2>2, MaxOf
        <3>2. r[s] = InRun(r[s \ {SeqExt!Max(s)}], c[SeqExt!Max(s)])
            BY <1>1, <1>8, <2>2, Zenon
        <3> QED
            BY <2>2, <3>1, <3>2
    <2> HIDE DEF F
    <2> QED
        BY <2>1, <2>2 DEF Unfolds
<1>10. PICK h : Walk(h, F, <<>>, n, V) /\ r[1..n] = h[n]
    <2> HIDE DEF F
    <2>1. WalksTo(r[1..n], F, <<>>, n, V)
        BY <1>1, <1>4, <1>5, <1>9, WalkOfUnfolds, Zenon
    <2> QED
        BY <2>1 DEF WalksTo
<1>11. \A k \in 1..n : h[k] = InRun(h[k - 1], c[k])
    <2> TAKE k \in 1..n
    <2>1. k - 1 \in 0..n /\ h[k - 1] \in V
        BY <1>1, <1>10 DEF Walk
    <2>2. F[<<k, h[k - 1]>>] = InRun(h[k - 1], c[k])
        BY <2>1
    <2> HIDE DEF F
    <2> QED
        BY <1>10, <2>2 DEF Walk
<1> HIDE DEF F
<1>12. RunsWalk(h, c)
    BY <1>10, <1>11 DEF Walk, RunsWalk, n, V
<1> QED
    BY <1>1, <1>2, <1>10, <1>12 DEF n

LEMMA RunsAreCut ==
    ASSUME NEW c \in Seq(GateSet)
    PROVE  Runs(c) \in RunLists /\ CutInto(Runs(c), Len(c))
<1> DEFINE n == Len(c)
<1>1. n \in Nat /\ \A k \in 1..n : c[k] \in GateSet
    OBVIOUS
<1>2. PICK h : RunsWalk(h, c) /\ Runs(c) = h[n]
    BY RunsFolds
<1> DEFINE T == {k \in 0..n : ~CutInto(h[k], k)}
<1>3. CutInto(h[0], 0)
    <2> DEFINE p == [j \in 0..0 |-> 0]
    <2>1. h[0] = <<>> /\ Len(h[0]) = 0
        BY <1>2 DEF RunsWalk
    <2>2. p \in [0..0 -> Nat] /\ p[0] = 0
        OBVIOUS
    <2> HIDE DEF p
    <2>3. Ends(p, h[0], 0)
        BY <2>1, <2>2 DEF Ends
    <2> QED
        BY <2>3 DEF CutInto
<1>4. \A k \in 0..n : h[k] \in RunLists
    BY <1>2 DEF RunsWalk
<1>5. T = {}
    <2> SUFFICES ASSUME T # {} PROVE FALSE
        OBVIOUS
    <2>0. T \subseteq Nat
        OBVIOUS
    <2>1. PICK k \in T : \A j \in T : k <= j
        BY <2>0, Least, Zenon
    <2>2. k \in 1..n /\ k - 1 \in 0..n /\ k - 1 \in Nat /\ (k - 1) + 1 = k /\ ~ k <= k - 1
        BY <1>1, <1>3, <2>1
    <2>3. CutInto(h[k - 1], k - 1)
        BY <2>1, <2>2
    <2>4. h[k] = InRun(h[k - 1], c[k]) /\ h[k - 1] \in RunLists /\ c[k] \in GateSet
        BY <1>1, <1>2, <1>4, <2>2 DEF RunsWalk
    <2>5. CutInto(h[k], (k - 1) + 1)
        BY <2>2, <2>3, <2>4, InRunCuts
    <2> QED
        BY <2>1, <2>2, <2>5
<1>6. n \in 0..n /\ n \notin T
    BY <1>1, <1>5
<1> QED
    BY <1>2, <1>4, <1>6

LEMMA SetToSeqIs ==
    ASSUME NEW S, IsFiniteSet(S)
    PROVE  Cardinality(S) \in Nat /\ SeqExt!SetToSeq(S) \in [1..Cardinality(S) -> S]
<1> DEFINE n == Cardinality(S)
<1>1. n \in Nat /\ ExistsBijection(1..n, S)
    BY FS_CardinalityType
<1>2. PICK f \in [1..n -> S] : \A a, b \in 1..n : f[a] = f[b] => a = b
    <2>1. PICK f : f \in Bijection(1..n, S)
        BY <1>1, Zenon DEF ExistsBijection
    <2>2. f \in [1..n -> S] /\ \A a, b \in 1..n : f[a] = f[b] => a = b
        BY <2>1 DEF Bijection, Injection, IsInjective
    <2> QED
        BY <2>2
<1> DEFINE Is(r) == r \in [1..n -> S] /\ \A a, b \in DOMAIN r : r[a] = r[b] => a = b
           r == CHOOSE r : Is(r)
<1>3. SeqExt!SetToSeq(S) = r
    <2>1. SeqExt!Cardinality(S) = Cardinality(S)
        BY Zenon DEF SeqExt!Cardinality, Cardinality
    <2> QED
        BY <2>1, Zenon DEF SeqExt!SetToSeq, SeqExt!IsInjective
<1>4. Is(f)
    BY <1>2
<1>5. Is(r)
    <2> HIDE DEF Is
    <2> QED
        BY <1>4, Zenon
<1> QED
    BY <1>1, <1>3, <1>5

LEMMA ControlSetsAre ==
    ASSUME NEW t \in Lines
    PROVE  ControlSets(t) \subseteq SUBSET (Lines \X BOOLEAN) /\ IsFiniteSet(ControlSets(t))
<1>1. ASSUME NEW C \in ControlSets(t)
      PROVE  C \in SUBSET (Lines \X BOOLEAN)
    <2>1. PICK L \in SUBSET (Lines \ {t}) : C \in {{<<l, p[l]>> : l \in L} : p \in [L -> BOOLEAN]}
        BY <1>1, Zenon DEF ControlSets
    <2>2. PICK p \in [L -> BOOLEAN] : C = {<<l, p[l]>> : l \in L}
        BY <2>1, Zenon
    <2>3. \A l \in L : <<l, p[l]>> \in Lines \X BOOLEAN
        BY <2>1, <2>2
    <2> QED
        BY <2>2, <2>3
<1>2. IsFiniteSet(SUBSET (Lines \X BOOLEAN))
    <2>1. IsFiniteSet(Lines)
        BY AreFinite
    <2>2. IsFiniteSet(BOOLEAN)
        <3>1. BOOLEAN = {TRUE, FALSE}
            OBVIOUS
        <3>2. IsFiniteSet({TRUE, FALSE})
            <4>1. IsFiniteSet({TRUE})
                BY FS_Singleton
            <4>2. IsFiniteSet({TRUE} \cup {FALSE})
                BY <4>1, FS_AddElement
            <4>3. {TRUE} \cup {FALSE} = {TRUE, FALSE}
                OBVIOUS
            <4> QED
                BY <4>2, <4>3
        <3> QED
            BY <3>1, <3>2
    <2>3. IsFiniteSet(Lines \X BOOLEAN)
        BY <2>1, <2>2, FS_Product
    <2> QED
        BY <2>3, FS_SUBSET
<1>3. ControlSets(t) \subseteq SUBSET (Lines \X BOOLEAN)
    BY <1>1, Zenon
<1> QED
    BY <1>2, <1>3, FS_Subset

LEMMA MinimizedIs ==
    ASSUME NEW run \in Seq(GateSet) \ {<<>>}, NEW r \in Minimized(run)
    PROVE  r \in Seq(GateSet) /\ Len(r) <= Len(run)
<1> DEFINE t == Target(run[1])
           U == UNION {kSubset(m, ControlSets(t)) : m \in 0..Len(run)}
           Cubes(s) == SeqExt!SetToSeq(s)
<1>1. run \in Seq(GateSet) /\ Len(run) \in Nat /\ run[1] \in GateSet
    OBVIOUS
<1>2. t \in Lines
    BY <1>1, GateParts
<1>3. PICK s \in U : r = [i \in DOMAIN Cubes(s) |-> Toffoli(Cubes(s)[i], t)]
    BY Zenon DEF Minimized, ExclusiveSums
<1> HIDE DEF t
<1>4. PICK m \in 0..Len(run) : s \in kSubset(m, ControlSets(t))
    BY <1>3, Zenon
<1>5. s \subseteq ControlSets(t) /\ Cardinality(s) = m
    BY <1>4, Zenon DEF kSubset
<1>6. IsFiniteSet(s) /\ s \subseteq SUBSET (Lines \X BOOLEAN)
    <2>1. ControlSets(t) \subseteq SUBSET (Lines \X BOOLEAN) /\ IsFiniteSet(ControlSets(t))
        BY <1>2, ControlSetsAre
    <2> QED
        BY <1>5, <2>1, FS_Subset
<1>7. Cubes(s) \in [1..m -> s] /\ m \in Nat
    <2>1. Cubes(s) \in [1..Cardinality(s) -> s]
        BY <1>6, SetToSeqIs
    <2> QED
        BY <1>5, <2>1
<1> HIDE DEF Cubes, U
<1>8. \A i \in 1..m : Toffoli(Cubes(s)[i], t) \in GateSet
    <2> TAKE i \in 1..m
    <2>1. Cubes(s)[i] \in SUBSET (Lines \X BOOLEAN)
        BY <1>6, <1>7
    <2> QED
        BY <1>2, <2>1, ToffoliIsGate
<1>9. r = [i \in 1..m |-> Toffoli(Cubes(s)[i], t)]
    BY <1>3, <1>7
<1>10. r \in Seq(GateSet) /\ Len(r) = m
    BY <1>7, <1>8, <1>9
<1> QED
    BY <1>1, <1>4, <1>10

LEMMA WithRunIs ==
    ASSUME NEW D \in SUBSET Seq(GateSet), NEW run \in Seq(GateSet) \ {<<>>},
           NEW e \in WithRun(D, run)
    PROVE  e \in Seq(GateSet) /\ \E d \in D : Len(e) <= Len(d) + Len(run)
<1>1. PICK d \in D, r \in Replacements(run) : e = d \o r
    BY DEF WithRun
<1>2. r \in Seq(GateSet) /\ Len(r) <= Len(run)
    <2>1. CASE r = run
        BY <2>1
    <2>2. CASE r \in Minimized(run)
        BY <2>2, MinimizedIs
    <2> QED
        BY <1>1, <2>1, <2>2 DEF Replacements
<1>3. d \in Seq(GateSet)
    OBVIOUS
<1>4. e \in Seq(GateSet) /\ Len(e) = Len(d) + Len(r)
    BY <1>1, <1>2, <1>3, ConcatProperties
<1>5. Len(e) <= Len(d) + Len(run)
    BY <1>2, <1>3, <1>4
<1> QED
    BY <1>4, <1>5

ExorcismWalk(h, runs) ==
    /\ h \in [0..Len(runs) -> SUBSET Seq(GateSet)] /\ h[0] = {<<>>}
    /\ \A k \in 1..Len(runs) : h[k] = WithRun(h[k - 1], runs[k])

LEMMA ExorcismFolds ==
    ASSUME NEW c, Runs(c) \in RunLists
    PROVE  \E h : ExorcismWalk(h, Runs(c)) /\ ExorcismMerged(c) = h[Len(Runs(c))]
<1> DEFINE n == Len(Runs(c))
           V == SUBSET Seq(GateSet)
           F == [e \in (1..n) \X V |-> WithRun(e[2], Runs(c)[e[1]])]
           Is(it) == it = [s \in SUBSET (DOMAIN Runs(c)) |->
                            IF s = {} THEN {<<>>}
                            ELSE WithRun(it[s \ {SeqExt!Max(s)}], Runs(c)[SeqExt!Max(s)])]
           r == CHOOSE r : Is(r)
<1>1. n \in Nat /\ DOMAIN Runs(c) = 1..n
    BY DEF RunLists
<1>2. ExorcismMerged(c) = r[DOMAIN Runs(c)]
    BY Zenon DEF ExorcismMerged, SeqExt!FoldLeft, SeqExt!MapThenFoldSet
<1>3. \A i \in 1..n, v \in V : WithRun(v, Runs(c)[i]) \in V
    <2> DEFINE R == Seq(GateSet) \ {<<>>}
    <2>1. Runs(c) \in Seq(R)
        BY DEF RunLists
    <2>2. \A i \in 1..n : Runs(c)[i] \in R
        <3> HIDE DEF R
        <3> QED
            BY <2>1
    <2>3. ASSUME NEW i \in 1..n, NEW v \in V, NEW e \in WithRun(v, Runs(c)[i])
          PROVE  e \in Seq(GateSet)
        BY <2>2, <2>3, WithRunIs
    <2> QED
        BY <2>3
<1>4. {<<>>} \in V
    OBVIOUS
<1> HIDE DEF n, V
<1>5. F \in [(1..n) \X V -> V]
    BY <1>3
<1>6. PICK it \in [SUBSET (1..n) -> V] : IsFold(it, F, {<<>>}, n)
    <2> HIDE DEF F
    <2> QED
        BY <1>1, <1>4, <1>5, FoldExists
<1>7. Is(it)
    <2>1. ASSUME NEW s \in SUBSET (1..n), s # {}
          PROVE  F[<<SeqExt!Max(s), it[s \ {SeqExt!Max(s)}]>>]
                 = WithRun(it[s \ {SeqExt!Max(s)}], Runs(c)[SeqExt!Max(s)])
        <3>1. SeqExt!Max(s) \in 1..n /\ it[s \ {SeqExt!Max(s)}] \in V
            BY <1>1, <2>1, MaxOf
        <3> QED
            BY <3>1
    <2> HIDE DEF F
    <2> QED
        BY <1>1, <1>6, <2>1 DEF IsFold
<1>8. Is(r)
    <2> HIDE DEF Is
    <2> QED
        BY <1>7, Zenon
<1> HIDE DEF r
<1>9. Unfolds(r, F, {<<>>}, n, V)
    <2>1. r[{}] = {<<>>}
        BY <1>8
    <2>2. ASSUME NEW s \in SUBSET (1..n), s # {}, r[s \ {SeqExt!Max(s)}] \in V
          PROVE  r[s] = F[<<SeqExt!Max(s), r[s \ {SeqExt!Max(s)}]>>]
        <3>1. SeqExt!Max(s) \in 1..n
            BY <1>1, <2>2, MaxOf
        <3>2. r[s] = WithRun(r[s \ {SeqExt!Max(s)}], Runs(c)[SeqExt!Max(s)])
            BY <1>1, <1>8, <2>2, Zenon
        <3> QED
            BY <2>2, <3>1, <3>2
    <2> HIDE DEF F
    <2> QED
        BY <2>1, <2>2 DEF Unfolds
<1>10. PICK h : Walk(h, F, {<<>>}, n, V) /\ r[1..n] = h[n]
    <2> HIDE DEF F
    <2>1. WalksTo(r[1..n], F, {<<>>}, n, V)
        BY <1>1, <1>4, <1>5, <1>9, WalkOfUnfolds, Zenon
    <2> QED
        BY <2>1 DEF WalksTo
<1>11. \A k \in 1..n : h[k] = WithRun(h[k - 1], Runs(c)[k])
    <2> TAKE k \in 1..n
    <2>1. k - 1 \in 0..n /\ h[k - 1] \in V
        BY <1>1, <1>10 DEF Walk
    <2>2. F[<<k, h[k - 1]>>] = WithRun(h[k - 1], Runs(c)[k])
        BY <2>1
    <2> HIDE DEF F
    <2> QED
        BY <1>10, <2>2 DEF Walk
<1> HIDE DEF F
<1>12. ExorcismWalk(h, Runs(c))
    BY <1>10, <1>11 DEF Walk, ExorcismWalk, n, V
<1> QED
    BY <1>1, <1>2, <1>10, <1>12 DEF n

LEMMA ExorcismNeverGrows ==
    ASSUME NEW c \in Seq(GateSet), NEW d \in ExorcismMerged(c)
    PROVE  d \in Seq(GateSet) /\ Len(d) <= Len(c)
<1> DEFINE runs == Runs(c)
           m == Len(runs)
           R == Seq(GateSet) \ {<<>>}
<1>1. runs \in RunLists /\ CutInto(runs, Len(c))
    BY RunsAreCut
<1>2. PICK h : ExorcismWalk(h, runs) /\ ExorcismMerged(c) = h[m]
    BY <1>1, ExorcismFolds
<1>3. PICK p : Ends(p, runs, Len(c))
    BY <1>1 DEF CutInto
<1> HIDE DEF runs
<1>4. runs \in Seq(R) /\ m \in Nat
    BY <1>1 DEF RunLists
<1>5. \A j \in 1..m : runs[j] \in R
    <2> HIDE DEF R
    <2> QED
        BY <1>4
<1>6. /\ p \in [0..m -> Nat] /\ p[0] = 0 /\ p[m] = Len(c)
      /\ \A j \in 1..m : p[j] = p[j - 1] + Len(runs[j])
    BY <1>3 DEF Ends
<1>7. /\ h \in [0..m -> SUBSET Seq(GateSet)] /\ h[0] = {<<>>}
      /\ \A j \in 1..m : h[j] = WithRun(h[j - 1], runs[j])
    BY <1>2 DEF ExorcismWalk
<1> HIDE DEF m, R
<1> DEFINE Short(j) == \A e \in h[j] : Len(e) <= p[j]
           T == {j \in 0..m : ~Short(j)}
<1>8. Short(0)
    BY <1>6, <1>7
<1>9. ASSUME NEW j \in 1..m, Short(j - 1)
      PROVE  Short(j)
    <2> SUFFICES ASSUME NEW e \in h[j] PROVE Len(e) <= p[j]
        OBVIOUS
    <2>1. j - 1 \in 0..m
        BY <1>4
    <2>2. h[j - 1] \in SUBSET Seq(GateSet) /\ runs[j] \in Seq(GateSet) \ {<<>>} /\ e \in WithRun(h[j - 1], runs[j])
        BY <1>5, <1>7, <2>1 DEF R
    <2>3. e \in Seq(GateSet) /\ \E a \in h[j - 1] : Len(e) <= Len(a) + Len(runs[j])
        BY <2>2, WithRunIs
    <2>4. PICK a \in h[j - 1] : Len(e) <= Len(a) + Len(runs[j])
        BY <2>3
    <2>5. Len(a) <= p[j - 1] /\ a \in Seq(GateSet)
        BY <1>9, <2>2
    <2>6. p[j] = p[j - 1] + Len(runs[j]) /\ p[j - 1] \in Nat
        BY <1>6, <2>1
    <2>7. Len(runs[j]) \in Nat /\ Len(a) \in Nat /\ Len(e) \in Nat
        <3>1. runs[j] \in Seq(GateSet)
            BY <2>2
        <3> QED
            BY <2>3, <2>5, <3>1
    <2> QED
        BY <2>4, <2>5, <2>6, <2>7
<1> HIDE DEF Short
<1>10. T = {}
    <2> SUFFICES ASSUME T # {} PROVE FALSE
        OBVIOUS
    <2>0. T \subseteq Nat
        OBVIOUS
    <2>1. PICK k \in T : \A j \in T : k <= j
        BY <2>0, Least, Zenon
    <2>2. k \in 1..m /\ k - 1 \in 0..m /\ ~ k <= k - 1
        BY <1>4, <1>8, <2>1
    <2>3. Short(k - 1)
        BY <2>1, <2>2
    <2> QED
        BY <1>9, <2>1, <2>2, <2>3
<1>11. m \in 0..m /\ m \notin T
    BY <1>4, <1>10
<1>12. Short(m)
    BY <1>11
<1>13. d \in h[m] /\ h[m] \in SUBSET Seq(GateSet)
    BY <1>2, <1>4, <1>7 DEF m
<1> QED
    BY <1>6, <1>12, <1>13 DEF Short
(* simplify_swap_gates keeps at most two inverters back.                      *)
TargetsMoved(ts, at) ==
    SeqExt!FoldLeft(LAMBDA moved, t : IF t \in DOMAIN at THEN Append(moved, at[t]) ELSE moved,
                    <<>>, ts)

TargetsWalk(h, ts, at) ==
    /\ h \in [0..Len(ts) -> Seq(Lines)] /\ h[0] = <<>>
    /\ \A k \in 1..Len(ts) :
            h[k] = IF ts[k] \in DOMAIN at THEN Append(h[k - 1], at[ts[k]]) ELSE h[k - 1]

LEMMA TargetsFold ==
    ASSUME NEW ts \in Seq(Lines), NEW at \in [Lines -> Lines]
    PROVE  \E h : TargetsWalk(h, ts, at) /\ TargetsMoved(ts, at) = h[Len(ts)]
<1> DEFINE n == Len(ts)
           V == Seq(Lines)
           F == [e \in (1..n) \X V |-> (IF ts[e[1]] \in DOMAIN at THEN Append(e[2], at[ts[e[1]]]) ELSE e[2])]
           Is(it) == it = [s \in SUBSET (DOMAIN ts) |->
                            IF s = {} THEN <<>>
                            ELSE (IF ts[SeqExt!Max(s)] \in DOMAIN at THEN Append(it[s \ {SeqExt!Max(s)}], at[ts[SeqExt!Max(s)]]) ELSE it[s \ {SeqExt!Max(s)}])]
           r == CHOOSE r : Is(r)
<1>1. n \in Nat /\ DOMAIN ts = 1..n
    OBVIOUS
<1>2. TargetsMoved(ts, at) = r[DOMAIN ts]
    BY Zenon DEF TargetsMoved, SeqExt!FoldLeft, SeqExt!MapThenFoldSet
<1>3. \A i \in 1..n, v \in V : (IF ts[i] \in DOMAIN at THEN Append(v, at[ts[i]]) ELSE v) \in V
    OBVIOUS
<1>4. <<>> \in V
    OBVIOUS
<1> HIDE DEF n, V
<1>5. F \in [(1..n) \X V -> V]
    BY <1>3
<1>6. PICK it \in [SUBSET (1..n) -> V] : IsFold(it, F, <<>>, n)
    <2> HIDE DEF F
    <2> QED
        BY <1>1, <1>4, <1>5, FoldExists
<1>7. Is(it)
    <2>1. ASSUME NEW s \in SUBSET (1..n), s # {}
          PROVE  F[<<SeqExt!Max(s), it[s \ {SeqExt!Max(s)}]>>]
                 = (IF ts[SeqExt!Max(s)] \in DOMAIN at THEN Append(it[s \ {SeqExt!Max(s)}], at[ts[SeqExt!Max(s)]]) ELSE it[s \ {SeqExt!Max(s)}])
        <3>1. SeqExt!Max(s) \in 1..n /\ it[s \ {SeqExt!Max(s)}] \in V
            BY <1>1, <2>1, MaxOf
        <3> QED
            BY <3>1
    <2> HIDE DEF F
    <2> QED
        BY <1>1, <1>6, <2>1 DEF IsFold
<1>8. Is(r)
    <2> HIDE DEF Is
    <2> QED
        BY <1>7, Zenon
<1> HIDE DEF r
<1>9. Unfolds(r, F, <<>>, n, V)
    <2>1. r[{}] = <<>>
        BY <1>8
    <2>2. ASSUME NEW s \in SUBSET (1..n), s # {}, r[s \ {SeqExt!Max(s)}] \in V
          PROVE  r[s] = F[<<SeqExt!Max(s), r[s \ {SeqExt!Max(s)}]>>]
        <3>1. SeqExt!Max(s) \in 1..n
            BY <1>1, <2>2, MaxOf
        <3>2. r[s] = (IF ts[SeqExt!Max(s)] \in DOMAIN at THEN Append(r[s \ {SeqExt!Max(s)}], at[ts[SeqExt!Max(s)]]) ELSE r[s \ {SeqExt!Max(s)}])
            BY <1>1, <1>8, <2>2, Zenon
        <3> QED
            BY <2>2, <3>1, <3>2
    <2> HIDE DEF F
    <2> QED
        BY <2>1, <2>2 DEF Unfolds
<1>10. PICK h : Walk(h, F, <<>>, n, V) /\ r[1..n] = h[n]
    <2> HIDE DEF F
    <2>1. WalksTo(r[1..n], F, <<>>, n, V)
        BY <1>1, <1>4, <1>5, <1>9, WalkOfUnfolds, Zenon
    <2> QED
        BY <2>1 DEF WalksTo
<1>11. \A k \in 1..n : h[k] = (IF ts[k] \in DOMAIN at THEN Append(h[k - 1], at[ts[k]]) ELSE h[k - 1])
    <2> TAKE k \in 1..n
    <2>1. k - 1 \in 0..n /\ h[k - 1] \in V
        BY <1>1, <1>10 DEF Walk
    <2>2. F[<<k, h[k - 1]>>] = (IF ts[k] \in DOMAIN at THEN Append(h[k - 1], at[ts[k]]) ELSE h[k - 1])
        BY <2>1
    <2> HIDE DEF F
    <2> QED
        BY <1>10, <2>2 DEF Walk
<1> HIDE DEF F
<1>12. TargetsWalk(h, ts, at)
    BY <1>10, <1>11 DEF Walk, TargetsWalk, n, V
<1> QED
    BY <1>1, <1>2, <1>10, <1>12 DEF n

LEMMA TargetsMovedAre ==
    ASSUME NEW at \in [Lines -> Lines]
    PROVE  /\ \A t \in Lines : TargetsMoved(<<t>>, at) = <<at[t]>>
           /\ \A t, u \in Lines : TargetsMoved(<<t, u>>, at) = <<at[t], at[u]>>
<1>1. ASSUME NEW t \in Lines
      PROVE  TargetsMoved(<<t>>, at) = <<at[t]>>
    <2> DEFINE ts == <<t>>
    <2>1. ts \in Seq(Lines) /\ Len(ts) = 1 /\ ts[1] = t
        OBVIOUS
    <2> HIDE DEF ts
    <2>2. PICK h : TargetsWalk(h, ts, at) /\ TargetsMoved(ts, at) = h[Len(ts)]
        BY <2>1, TargetsFold
    <2>3. h[0] = <<>> /\ h[1] = Append(h[0], at[t])
        BY <2>1, <2>2 DEF TargetsWalk
    <2>4. TargetsMoved(ts, at) = <<at[t]>>
        BY <2>1, <2>2, <2>3
    <2> QED
        BY <2>4 DEF ts
<1>2. ASSUME NEW t \in Lines, NEW u \in Lines
      PROVE  TargetsMoved(<<t, u>>, at) = <<at[t], at[u]>>
    <2> DEFINE ts == <<t, u>>
    <2>1. ts \in Seq(Lines) /\ Len(ts) = 2 /\ ts[1] = t /\ ts[2] = u
        OBVIOUS
    <2> HIDE DEF ts
    <2>2. PICK h : TargetsWalk(h, ts, at) /\ TargetsMoved(ts, at) = h[Len(ts)]
        BY <2>1, TargetsFold
    <2>3. h[0] = <<>> /\ h[1] = Append(h[0], at[t]) /\ h[2] = Append(h[1], at[u])
        BY <2>1, <2>2 DEF TargetsWalk
    <2>4. h[1] = <<at[t]>> /\ at[u] \in Lines /\ at[t] \in Lines
        BY <2>3
    <2>5. h[2] = Append(<<at[t]>>, at[u])
        BY <2>3, <2>4, Zenon
    <2>6. h[2] = <<at[t], at[u]>>
        <3> DEFINE x == at[t]
                   y == at[u]
        <3>1. x \in Lines /\ y \in Lines
            BY <2>4
        <3> HIDE DEF x, y
        <3> DEFINE a == Append(<<x>>, y)
                   b == <<x, y>>
        <3>2. <<x>> \in Seq(Lines) /\ Len(<<x>>) = 1 /\ <<x>>[1] = x
            BY <3>1
        <3>3. a \in Seq(Lines) /\ Len(a) = 2 /\ a[1] = x /\ a[2] = y
            BY <3>1, <3>2, AppendProperties
        <3>4. b \in Seq(Lines) /\ Len(b) = 2 /\ b[1] = x /\ b[2] = y
            BY <3>1
        <3> HIDE DEF a, b
        <3>5. \A i \in 1..Len(a) : a[i] = b[i]
            BY <3>3, <3>4
        <3>6. a = b
            BY <3>3, <3>4, <3>5, SeqEqual
        <3> QED
            BY <2>5, <3>6 DEF a, b, x, y
    <2>7. TargetsMoved(ts, at) = <<at[t], at[u]>>
        BY <2>1, <2>2, <2>6
    <2> QED
        BY <2>7 DEF ts
<1> QED
    BY <1>1, <1>2

LEMMA RenamedIsGate ==
    ASSUME NEW g \in GateSet, NEW at \in [Lines -> Lines]
    PROVE  Renamed(g, at) \in GateSet
<1> DEFINE M(c) == {<<at[d[1]], d[2]>> : d \in {e \in c : e[1] \in DOMAIN at}}
<1>1. Renamed(g, at) = Gate(g.type, M(g.controls), TargetsMoved(g.targets, at))
    BY DEF Renamed, TargetsMoved
<1>2. ASSUME NEW c \in SUBSET (Lines \X BOOLEAN)
      PROVE  M(c) \in SUBSET (Lines \X BOOLEAN)
    <2> DEFINE D == {e \in c : e[1] \in DOMAIN at}
    <2>1. ASSUME NEW d \in D
          PROVE  <<at[d[1]], d[2]>> \in Lines \X BOOLEAN
        OBVIOUS
    <2> HIDE DEF D
    <2>2. {<<at[d[1]], d[2]>> : d \in D} \in SUBSET (Lines \X BOOLEAN)
        BY <2>1
    <2> QED
        BY <2>2 DEF D
<1>3. CASE \E c \in SUBSET (Lines \X BOOLEAN), t \in Lines : g = Toffoli(c, t)
    <2>1. PICK c \in SUBSET (Lines \X BOOLEAN), t \in Lines : g = Toffoli(c, t)
        BY <1>3
    <2>2. g.type = "toffoli" /\ g.controls = c /\ g.targets = <<t>>
        BY <2>1 DEF Toffoli, Gate
    <2>3. M(c) \in SUBSET (Lines \X BOOLEAN)
        BY <1>2
    <2> HIDE DEF M
    <2>4. Renamed(g, at) = Gate("toffoli", M(c), <<at[t]>>)
        BY <1>1, <2>2, TargetsMovedAre
    <2>5. Renamed(g, at) = Toffoli(M(c), at[t])
        BY <2>4, Zenon DEF Toffoli
    <2>6. at[t] \in Lines
        OBVIOUS
    <2> QED
        BY <2>3, <2>5, <2>6, ToffoliIsGate
<1>4. CASE \E c \in SUBSET (Lines \X BOOLEAN), t \in Lines, u \in Lines : g = Fredkin(c, t, u)
    <2>1. PICK c \in SUBSET (Lines \X BOOLEAN), t \in Lines, u \in Lines : g = Fredkin(c, t, u)
        BY <1>4
    <2>2. g.type = "fredkin" /\ g.controls = c /\ g.targets = <<t, u>>
        BY <2>1 DEF Fredkin, Gate
    <2>3. M(c) \in SUBSET (Lines \X BOOLEAN)
        BY <1>2
    <2> HIDE DEF M
    <2>4. Renamed(g, at) = Gate("fredkin", M(c), <<at[t], at[u]>>)
        BY <1>1, <2>2, TargetsMovedAre
    <2>5. Renamed(g, at) = Fredkin(M(c), at[t], at[u])
        BY <2>4, Zenon DEF Fredkin
    <2>6. at[t] \in Lines /\ at[u] \in Lines
        OBVIOUS
    <2> QED
        BY <2>3, <2>5, <2>6 DEF GateSet, GatesIn
<1>5. CASE \E c \in Lines, t \in Lines, u \in Lines : g = Peres(c, t, u)
    <2>1. PICK c \in Lines, t \in Lines, u \in Lines : g = Peres(c, t, u)
        BY <1>5
    <2>2. g.type = "peres" /\ g.controls = Pos({c}) /\ g.targets = <<t, u>>
        BY <2>1 DEF Peres, Gate
    <2>3. M(Pos({c})) = Pos({at[c]})
        <3>1. Pos({c}) = {<<c, TRUE>>} /\ Pos({at[c]}) = {<<at[c], TRUE>>}
            BY DEF Pos
        <3> DEFINE v == <<c, TRUE>>
        <3>a. c \in Lines /\ v[1] = c /\ v[2] = TRUE /\ DOMAIN at = Lines
            BY <2>1
        <3> HIDE DEF v
        <3>b. {e \in {v} : e[1] \in DOMAIN at} = {v}
            BY <3>a
        <3>2. {e \in {<<c, TRUE>>} : e[1] \in DOMAIN at} = {<<c, TRUE>>}
            BY <3>b DEF v
        <3>c. {<<at[d[1]], d[2]>> : d \in {v}} = {<<at[v[1]], v[2]>>}
            BY Zenon
        <3>3. {<<at[d[1]], d[2]>> : d \in {<<c, TRUE>>}} = {<<at[c], TRUE>>}
            BY <3>a, <3>c DEF v
        <3> QED
            BY <3>1, <3>2, <3>3
    <2> HIDE DEF M
    <2>4. Renamed(g, at) = Gate("peres", Pos({at[c]}), <<at[t], at[u]>>)
        BY <1>1, <2>1, <2>2, <2>3, TargetsMovedAre
    <2>5. Renamed(g, at) = Peres(at[c], at[t], at[u])
        BY <2>4, Zenon DEF Peres
    <2>6. at[t] \in Lines /\ at[u] \in Lines /\ at[c] \in Lines
        BY <2>1
    <2> QED
        BY <2>5, <2>6 DEF GateSet, GatesIn
<1> QED
    BY <1>3, <1>4, <1>5, GateCases DEF GateSet

LinePairs == Lines \X Lines

Permuted == [circ : Seq(GateSet), perm : [Lines -> Lines],
             prefix : {q \in Seq(LinePairs) : Len(q) <= 2}]

Spent(s) == Len(s.circ) + Len(s.prefix)

LEMMA PermutedIs ==
    ASSUME NEW s \in Permuted
    PROVE  /\ s = [circ |-> s.circ, perm |-> s.perm, prefix |-> s.prefix]
           /\ s.circ \in Seq(GateSet) /\ s.perm \in [Lines -> Lines]
           /\ s.prefix \in Seq(LinePairs) /\ Len(s.prefix) \in 0..2
           /\ Len(s.circ) \in Nat
<1>1. s \in [circ : Seq(GateSet), perm : [Lines -> Lines], prefix : Seq(LinePairs)] /\ Len(s.prefix) <= 2
    BY DEF Permuted
<1>2. s.prefix \in Seq(LinePairs) /\ Len(s.prefix) \in Nat
    BY <1>1
<1>3. s = [circ |-> s.circ, perm |-> s.perm, prefix |-> s.prefix]
    BY <1>1
<1>4. s.circ \in Seq(GateSet) /\ s.perm \in [Lines -> Lines] /\ Len(s.circ) \in Nat
    BY <1>1
<1>5. Len(s.prefix) \in 0..2
    <2> DEFINE n == Len(s.prefix)
    <2>1. n \in Nat /\ n <= 2
        BY <1>1, <1>2
    <2> HIDE DEF n
    <2>2. n \in 0..2
        BY <2>1
    <2> QED
        BY <2>2 DEF n
<1> QED
    BY <1>2, <1>3, <1>4, <1>5

LEMMA MakePermuted ==
    ASSUME NEW x, NEW d \in Seq(GateSet), NEW perm \in [Lines -> Lines],
           NEW prefix \in Seq(LinePairs), Len(prefix) \in 0..2,
           x = [circ |-> d, perm |-> perm, prefix |-> prefix]
    PROVE  x \in Permuted
<1> DEFINE L == Seq(LinePairs)
<1>1. prefix \in L /\ Len(prefix) <= 2
    <2> DEFINE n == Len(prefix)
    <2>1. n \in 0..2
        OBVIOUS
    <2> HIDE DEF n
    <2>2. n <= 2
        BY <2>1
    <2> QED
        BY <2>2 DEF n
<1> HIDE DEF L
<1>2. prefix \in {q \in L : Len(q) <= 2}
    BY <1>1
<1> QED
    BY <1>2, Zenon DEF Permuted, L

LEMMA ChangedPermuted ==
    ASSUME NEW s, NEW d, NEW perm, NEW prefix,
           s = [circ |-> s.circ, perm |-> s.perm, prefix |-> s.prefix]
    PROVE  /\ [s EXCEPT !.circ = d, !.prefix = prefix] = [circ |-> d, perm |-> s.perm, prefix |-> prefix]
           /\ [s EXCEPT !.circ = d, !.perm = perm, !.prefix = prefix]
                = [circ |-> d, perm |-> perm, prefix |-> prefix]
           /\ [s EXCEPT !.perm = perm, !.prefix = prefix]
                = [circ |-> s.circ, perm |-> perm, prefix |-> prefix]
           /\ [s EXCEPT !.prefix = prefix] = [circ |-> s.circ, perm |-> s.perm, prefix |-> prefix]
<1> DEFINE a == s.circ
           b == s.perm
           c == s.prefix
<1>1. s = [circ |-> a, perm |-> b, prefix |-> c]
    OBVIOUS
<1> HIDE DEF a, b, c
<1> DEFINE t == [circ |-> a, perm |-> b, prefix |-> c]
           u == [t EXCEPT !.circ = d]
           v == [u EXCEPT !.perm = perm]
           w == [t EXCEPT !.perm = perm]
<1>a. u = [circ |-> d, perm |-> b, prefix |-> c] /\ w = [circ |-> a, perm |-> perm, prefix |-> c]
    OBVIOUS
<1> HIDE DEF u
<1>b. v = [circ |-> d, perm |-> perm, prefix |-> c]
    BY <1>a
<1> HIDE DEF v, w
<1>c. [u EXCEPT !.prefix = prefix] = [circ |-> d, perm |-> b, prefix |-> prefix]
    BY <1>a
<1>d. [v EXCEPT !.prefix = prefix] = [circ |-> d, perm |-> perm, prefix |-> prefix]
    BY <1>b
<1>e. [w EXCEPT !.prefix = prefix] = [circ |-> a, perm |-> perm, prefix |-> prefix]
    BY <1>a
<1>2. [t EXCEPT !.circ = d, !.prefix = prefix] = [circ |-> d, perm |-> b, prefix |-> prefix]
    BY <1>c, Zenon DEF u
<1>3. [t EXCEPT !.circ = d, !.perm = perm, !.prefix = prefix] = [circ |-> d, perm |-> perm, prefix |-> prefix]
    BY <1>d, Zenon DEF u, v
<1>4. [t EXCEPT !.perm = perm, !.prefix = prefix] = [circ |-> a, perm |-> perm, prefix |-> prefix]
    BY <1>e, Zenon DEF w
<1>5. [t EXCEPT !.prefix = prefix] = [circ |-> a, perm |-> b, prefix |-> prefix]
    OBVIOUS
<1> HIDE DEF t
<1>6. s = t
    BY <1>1 DEF t
<1>7. [s EXCEPT !.circ = d, !.prefix = prefix] = [circ |-> d, perm |-> s.perm, prefix |-> prefix]
    BY <1>2, <1>6, Zenon DEF b
<1>8. [s EXCEPT !.circ = d, !.perm = perm, !.prefix = prefix] = [circ |-> d, perm |-> perm, prefix |-> prefix]
    BY <1>3, <1>6, Zenon
<1>9. [s EXCEPT !.perm = perm, !.prefix = prefix] = [circ |-> s.circ, perm |-> perm, prefix |-> prefix]
    BY <1>4, <1>6, Zenon DEF a
<1>10. [s EXCEPT !.prefix = prefix] = [circ |-> s.circ, perm |-> s.perm, prefix |-> prefix]
    BY <1>5, <1>6, Zenon DEF a, b
<1> QED
    BY <1>7, <1>8, <1>9, <1>10, Zenon

LEMMA MovedCnotIsGate ==
    ASSUME NEW perm \in [Lines -> Lines], NEW p \in LinePairs
    PROVE  MovedCnot(perm, p) \in GateSet /\ ExchangedLines(perm, p) \in [Lines -> Lines]
<1>1. p[1] \in Lines /\ p[2] \in Lines /\ perm[p[1]] \in Lines /\ perm[p[2]] \in Lines
    BY DEF LinePairs
<1>2. Pos({perm[p[1]]}) \in SUBSET (Lines \X BOOLEAN)
    <2>1. Pos({perm[p[1]]}) = {<<perm[p[1]], TRUE>>}
        BY DEF Pos
    <2>2. <<perm[p[1]], TRUE>> \in Lines \X BOOLEAN
        BY <1>1
    <2> QED
        BY <2>1, <2>2
<1>3. MovedCnot(perm, p) \in GateSet
    BY <1>1, <1>2, ToffoliIsGate DEF MovedCnot, Cnot
<1>4. ExchangedLines(perm, p) \in [Lines -> Lines]
    BY <1>1 DEF ExchangedLines
<1> QED
    BY <1>3, <1>4

LEMMA AddPrefixIs ==
    ASSUME NEW s \in Permuted
    PROVE  /\ AddPrefix(s) \in Permuted /\ AddPrefix(s).prefix = <<>>
           /\ Len(AddPrefix(s).circ) <= Spent(s)
<1> DEFINE p == s.prefix[1]
           a == [s EXCEPT !.circ = Append(@, MovedCnot(s.perm, p)), !.prefix = <<>>]
           b == [s EXCEPT !.circ = Append(@, MovedCnot(s.perm, <<p[2], p[1]>>)),
                          !.perm = ExchangedLines(@, p), !.prefix = <<>>]
<1>1. /\ s = [circ |-> s.circ, perm |-> s.perm, prefix |-> s.prefix]
      /\ s.circ \in Seq(GateSet) /\ s.perm \in [Lines -> Lines]
      /\ s.prefix \in Seq(LinePairs) /\ Len(s.prefix) \in 0..2
      /\ Len(s.circ) \in Nat
    BY PermutedIs
<1>2. AddPrefix(s) = CASE s.prefix = <<>> -> s [] Len(s.prefix) = 1 -> a [] Len(s.prefix) = 2 -> b
    BY Zenon DEF AddPrefix
<1>3. s.prefix = <<>> <=> Len(s.prefix) = 0
    BY <1>1
<1>4. <<>> \in Seq(LinePairs) /\ Len(<<>>) = 0 /\ Len(<<>>) \in 0..2
    OBVIOUS
<1>5. Spent(s) = Len(s.circ) + Len(s.prefix)
    BY DEF Spent
<1> HIDE DEF a, b, p
<1>6. CASE Len(s.prefix) = 0
    <2>1. AddPrefix(s) = s
        BY <1>2, <1>3, <1>6
    <2> QED
        BY <1>1, <1>3, <1>5, <1>6, <2>1
<1>7. CASE Len(s.prefix) # 0
    <2>1. p \in LinePairs /\ <<p[2], p[1]>> \in LinePairs
        <3>1. p \in LinePairs
            BY <1>1, <1>7 DEF p
        <3> QED
            BY <3>1 DEF LinePairs
    <2>2. /\ MovedCnot(s.perm, p) \in GateSet /\ MovedCnot(s.perm, <<p[2], p[1]>>) \in GateSet
          /\ ExchangedLines(s.perm, p) \in [Lines -> Lines]
        BY <1>1, <2>1, MovedCnotIsGate
    <2>3. CASE Len(s.prefix) = 1
        <3> DEFINE d == Append(s.circ, MovedCnot(s.perm, p))
        <3>1. AddPrefix(s) = a
            BY <1>2, <1>3, <2>3
        <3>2. d \in Seq(GateSet) /\ Len(d) = Len(s.circ) + 1
            BY <1>1, <2>2
        <3>a. a = [s EXCEPT !.circ = d, !.prefix = <<>>]
            BY Zenon DEF a
        <3> HIDE DEF d
        <3>3. a = [circ |-> d, perm |-> s.perm, prefix |-> <<>>]
            BY <1>1, <3>a, ChangedPermuted
        <3>4. a \in Permuted
            BY <1>1, <1>4, <3>2, <3>3, MakePermuted, Zenon
        <3> QED
            BY <1>1, <1>5, <2>3, <3>1, <3>2, <3>3, <3>4
    <2>4. CASE Len(s.prefix) = 2
        <3> DEFINE d == Append(s.circ, MovedCnot(s.perm, <<p[2], p[1]>>))
                   e == ExchangedLines(s.perm, p)
        <3>1. AddPrefix(s) = b
            BY <1>2, <1>3, <2>4
        <3>2. d \in Seq(GateSet) /\ Len(d) = Len(s.circ) + 1 /\ e \in [Lines -> Lines]
            BY <1>1, <2>2
        <3>a. b = [s EXCEPT !.circ = d, !.perm = e, !.prefix = <<>>]
            BY Zenon DEF b
        <3> HIDE DEF d, e
        <3>3. b = [circ |-> d, perm |-> e, prefix |-> <<>>]
            BY <1>1, <3>a, ChangedPermuted
        <3>4. b \in Permuted
            BY <1>1, <1>4, <3>2, <3>3, MakePermuted, Zenon
        <3> QED
            BY <1>1, <1>5, <2>4, <3>1, <3>2, <3>3, <3>4
    <2> QED
        BY <1>1, <1>7, <2>3, <2>4
<1> QED
    BY <1>6, <1>7

CnotLines(g) == <<(CHOOSE c \in g.controls : TRUE)[1], Target(g)>>

LEMMA CnotLinesAre ==
    ASSUME NEW g \in GateSet, IsCnot(g)
    PROVE  CnotLines(g) \in LinePairs
<1>1. Target(g) \in Lines
    BY GateParts
<1>2. PICK l \in Lines : g.controls = Pos({l})
    BY DEF IsCnot
<1>3. g.controls = {<<l, TRUE>>}
    BY <1>2 DEF Pos
<1>4. (CHOOSE c \in g.controls : TRUE) = <<l, TRUE>>
    BY <1>3
<1> DEFINE v == CHOOSE c \in g.controls : TRUE
<1>a. v[1] = l
    <2>1. v = <<l, TRUE>>
        BY <1>4
    <2> HIDE DEF v
    <2> QED
        BY <2>1
<1>b. CnotLines(g) = <<v[1], Target(g)>>
    BY Zenon DEF CnotLines
<1> HIDE DEF v
<1>5. CnotLines(g) = <<l, Target(g)>>
    BY <1>a, <1>b
<1> QED
    BY <1>1, <1>5 DEF LinePairs

LEMMA SwapGateIs ==
    ASSUME NEW s \in Permuted, NEW g \in GateSet
    PROVE  SwapGate(s, g) \in Permuted /\ Spent(SwapGate(s, g)) <= Spent(s) + 1
<1> DEFINE p == CnotLines(g)
           previous == IF Len(s.prefix) % 2 = 1 THEN <<p[2], p[1]>> ELSE p
           t == AddPrefix(s)
           a == [t EXCEPT !.circ = Append(@, Renamed(g, t.perm))]
           b == [s EXCEPT !.prefix = <<p>>]
           d == [t EXCEPT !.circ = Append(@, MovedCnot(t.perm, p))]
           e == [s EXCEPT !.prefix = Append(@, p)]
           f == [s EXCEPT !.perm = ExchangedLines(@, p), !.prefix = <<>>]
<1>1. /\ s = [circ |-> s.circ, perm |-> s.perm, prefix |-> s.prefix]
      /\ s.circ \in Seq(GateSet) /\ s.perm \in [Lines -> Lines]
      /\ s.prefix \in Seq(LinePairs) /\ Len(s.prefix) \in 0..2
      /\ Len(s.circ) \in Nat
    BY PermutedIs
<1>2. t \in Permuted /\ t.prefix = <<>> /\ Len(t.circ) <= Spent(s)
    BY AddPrefixIs
<1>3. SwapGate(s, g) =
        CASE ~IsCnot(g) -> a
          [] IsCnot(g) /\ s.prefix = <<>> -> b
          [] IsCnot(g) /\ s.prefix # <<>> /\ s.prefix[1] # previous -> d
          [] IsCnot(g) /\ Len(s.prefix) = 1 /\ s.prefix[1] = previous -> e
          [] IsCnot(g) /\ Len(s.prefix) = 2 /\ s.prefix[1] = previous -> f
    BY Zenon DEF SwapGate, CnotLines
<1>4. s.prefix = <<>> <=> Len(s.prefix) = 0
    BY <1>1
<1>5. <<>> \in Seq(LinePairs) /\ Len(<<>>) = 0 /\ Len(<<>>) \in 0..2
    OBVIOUS
<1>6. Spent(s) = Len(s.circ) + Len(s.prefix)
    BY DEF Spent
<1>7. IsCnot(g) => p \in LinePairs
    BY CnotLinesAre
<1> HIDE DEF t, p, previous
<1>8. /\ t = [circ |-> t.circ, perm |-> t.perm, prefix |-> <<>>]
      /\ t.circ \in Seq(GateSet) /\ t.perm \in [Lines -> Lines] /\ Len(t.circ) \in Nat
    BY <1>2, PermutedIs, SMTT(40)
<1>9. ASSUME NEW x \in GateSet
      PROVE  LET y == [t EXCEPT !.circ = Append(@, x)] IN y \in Permuted /\ Spent(y) <= Spent(s) + 1
    <2> DEFINE y == [t EXCEPT !.circ = Append(@, x)]
               z == Append(t.circ, x)
    <2>1. z \in Seq(GateSet) /\ Len(z) = Len(t.circ) + 1
        BY <1>8
    <2>2. y = [circ |-> z, perm |-> t.perm, prefix |-> <<>>]
        BY <1>8, SMTT(40)
    <2> HIDE DEF y, z
    <2>3. y \in Permuted
        BY <1>5, <1>8, <2>1, <2>2, MakePermuted, Zenon
    <2>4. Spent(y) = Len(t.circ) + 1
        BY <1>5, <1>8, <2>1, <2>2 DEF Spent
    <2>5. Spent(y) <= Spent(s) + 1
        BY <1>1, <1>2, <1>6, <1>8, <2>4
    <2> QED
        BY <2>3, <2>5 DEF y
<1>10. CASE ~IsCnot(g)
    <2>1. SwapGate(s, g) = a
        <3> HIDE DEF a, b, d, e, f
        <3> QED
            BY <1>3, <1>10
    <2>2. Renamed(g, t.perm) \in GateSet
        BY <1>8, RenamedIsGate
    <2> QED
        BY <1>9, <2>1, <2>2
<1>11. CASE IsCnot(g) /\ s.prefix = <<>>
    <2>1. SwapGate(s, g) = b
        <3>1. Len(s.prefix) # 1 /\ Len(s.prefix) # 2
            BY <1>4, <1>11
        <3> HIDE DEF a, b, d, e, f
        <3> QED
            BY <1>3, <1>11, <3>1
    <2>2. <<p>> \in Seq(LinePairs) /\ Len(<<p>>) = 1 /\ Len(<<p>>) \in 0..2
        BY <1>7, <1>11
    <2>3. b = [circ |-> s.circ, perm |-> s.perm, prefix |-> <<p>>]
        BY <1>1
    <2> HIDE DEF b
    <2>4. b \in Permuted
        BY <1>1, <2>2, <2>3, MakePermuted, Zenon
    <2>5. Spent(b) = Len(s.circ) + 1
        BY <2>2, <2>3 DEF Spent
    <2>6. Spent(b) <= Spent(s) + 1
        BY <1>1, <1>4, <1>6, <1>11, <2>5
    <2> QED
        BY <2>1, <2>4, <2>6
<1>12. CASE IsCnot(g) /\ s.prefix # <<>> /\ s.prefix[1] # previous
    <2>1. SwapGate(s, g) = d
        <3> HIDE DEF a, b, d, e, f
        <3> QED
            BY <1>3, <1>12
    <2>2. MovedCnot(t.perm, p) \in GateSet
        BY <1>7, <1>8, <1>12, MovedCnotIsGate
    <2> QED
        BY <1>9, <2>1, <2>2
<1>13. CASE IsCnot(g) /\ Len(s.prefix) = 1 /\ s.prefix[1] = previous
    <2> DEFINE q == Append(s.prefix, p)
    <2>1. SwapGate(s, g) = e
        <3>1. s.prefix # <<>> /\ Len(s.prefix) # 2
            BY <1>4, <1>13
        <3> HIDE DEF a, b, d, e, f, q
        <3> QED
            BY <1>3, <1>13, <3>1
    <2>2. q \in Seq(LinePairs) /\ Len(q) = 2 /\ Len(q) \in 0..2
        <3> DEFINE o == s.prefix
        <3>1. o \in Seq(LinePairs) /\ p \in LinePairs /\ Len(o) = 1
            BY <1>1, <1>7, <1>13
        <3>2. q = Append(o, p)
            OBVIOUS
        <3> HIDE DEF o, q
        <3>3. q \in Seq(LinePairs) /\ Len(q) = Len(o) + 1
            BY <3>1, <3>2, AppendProperties
        <3> QED
            BY <3>1, <3>3
    <2>a. e = [s EXCEPT !.prefix = q]
        BY Zenon
    <2> HIDE DEF e, q
    <2>3. e = [circ |-> s.circ, perm |-> s.perm, prefix |-> q]
        BY <1>1, <2>a, ChangedPermuted
    <2>4. e \in Permuted
        BY <1>1, <2>2, <2>3, MakePermuted, Zenon
    <2>5. Spent(e) = Len(s.circ) + 2
        BY <2>2, <2>3 DEF Spent
    <2>6. Spent(e) <= Spent(s) + 1
        BY <1>1, <1>6, <1>13, <2>5
    <2> QED
        BY <2>1, <2>4, <2>6
<1>14. CASE IsCnot(g) /\ Len(s.prefix) = 2 /\ s.prefix[1] = previous
    <2> DEFINE m == ExchangedLines(s.perm, p)
    <2>1. SwapGate(s, g) = f
        <3>1. s.prefix # <<>> /\ Len(s.prefix) # 1
            BY <1>4, <1>14
        <3> HIDE DEF a, b, d, e, f, m
        <3> QED
            BY <1>3, <1>14, <3>1
    <2>2. m \in [Lines -> Lines]
        BY <1>1, <1>7, <1>14, MovedCnotIsGate
    <2>a. f = [s EXCEPT !.perm = m, !.prefix = <<>>]
        BY Zenon
    <2> HIDE DEF f, m
    <2>3. f = [circ |-> s.circ, perm |-> m, prefix |-> <<>>]
        BY <1>1, <2>a, ChangedPermuted
    <2>4. f \in Permuted
        BY <1>1, <1>5, <2>2, <2>3, MakePermuted, Zenon
    <2>5. Spent(f) = Len(s.circ)
        BY <1>1, <1>5, <2>3 DEF Spent
    <2>6. Spent(f) <= Spent(s) + 1
        BY <1>1, <1>6, <1>14, <2>5
    <2> QED
        BY <2>1, <2>4, <2>6
<1> QED
    BY <1>1, <1>4, <1>10, <1>11, <1>12, <1>13, <1>14

SwapsWalk(h, c) ==
    /\ h \in [0..Len(c) -> Permuted]
    /\ h[0] = [circ |-> <<>>, perm |-> IdentityPermutation, prefix |-> <<>>]
    /\ \A k \in 1..Len(c) : h[k] = SwapGate(h[k - 1], c[k])

LEMMA SwapsFold ==
    ASSUME NEW c \in Seq(GateSet)
    PROVE  \E h : SwapsWalk(h, c) /\ SimplifySwapGates(c) = AddPrefix(h[Len(c)])
<1> DEFINE n == Len(c)
           V == Permuted
           F == [e \in (1..n) \X V |-> SwapGate(e[2], c[e[1]])]
           Is(it) == it = [s \in SUBSET (DOMAIN c) |->
                            IF s = {} THEN [circ |-> <<>>, perm |-> IdentityPermutation, prefix |-> <<>>]
                            ELSE SwapGate(it[s \ {SeqExt!Max(s)}], c[SeqExt!Max(s)])]
           r == CHOOSE r : Is(r)
<1>1. n \in Nat /\ DOMAIN c = 1..n
    OBVIOUS
<1>2. SimplifySwapGates(c) = AddPrefix(r[DOMAIN c])
    BY Zenon DEF SimplifySwapGates, SeqExt!FoldLeft, SeqExt!MapThenFoldSet
<1>3. \A i \in 1..n, v \in V : SwapGate(v, c[i]) \in V
    BY SwapGateIs
<1>4. [circ |-> <<>>, perm |-> IdentityPermutation, prefix |-> <<>>] \in V
    BY DEF Permuted, IdentityPermutation
<1> HIDE DEF n, V
<1>5. F \in [(1..n) \X V -> V]
    BY <1>3
<1>6. PICK it \in [SUBSET (1..n) -> V] : IsFold(it, F, [circ |-> <<>>, perm |-> IdentityPermutation, prefix |-> <<>>], n)
    <2> HIDE DEF F
    <2> QED
        BY <1>1, <1>4, <1>5, FoldExists
<1>7. Is(it)
    <2>1. ASSUME NEW s \in SUBSET (1..n), s # {}
          PROVE  F[<<SeqExt!Max(s), it[s \ {SeqExt!Max(s)}]>>]
                 = SwapGate(it[s \ {SeqExt!Max(s)}], c[SeqExt!Max(s)])
        <3>1. SeqExt!Max(s) \in 1..n /\ it[s \ {SeqExt!Max(s)}] \in V
            BY <1>1, <2>1, MaxOf
        <3> QED
            BY <3>1
    <2> HIDE DEF F
    <2> QED
        BY <1>1, <1>6, <2>1 DEF IsFold
<1>8. Is(r)
    <2> HIDE DEF Is
    <2> QED
        BY <1>7, Zenon
<1> HIDE DEF r
<1>9. Unfolds(r, F, [circ |-> <<>>, perm |-> IdentityPermutation, prefix |-> <<>>], n, V)
    <2>1. r[{}] = [circ |-> <<>>, perm |-> IdentityPermutation, prefix |-> <<>>]
        BY <1>8
    <2>2. ASSUME NEW s \in SUBSET (1..n), s # {}, r[s \ {SeqExt!Max(s)}] \in V
          PROVE  r[s] = F[<<SeqExt!Max(s), r[s \ {SeqExt!Max(s)}]>>]
        <3>1. SeqExt!Max(s) \in 1..n
            BY <1>1, <2>2, MaxOf
        <3>2. r[s] = SwapGate(r[s \ {SeqExt!Max(s)}], c[SeqExt!Max(s)])
            BY <1>1, <1>8, <2>2, Zenon
        <3> QED
            BY <2>2, <3>1, <3>2
    <2> HIDE DEF F
    <2> QED
        BY <2>1, <2>2 DEF Unfolds
<1>10. PICK h : Walk(h, F, [circ |-> <<>>, perm |-> IdentityPermutation, prefix |-> <<>>], n, V) /\ r[1..n] = h[n]
    <2> HIDE DEF F
    <2>1. WalksTo(r[1..n], F, [circ |-> <<>>, perm |-> IdentityPermutation, prefix |-> <<>>], n, V)
        BY <1>1, <1>4, <1>5, <1>9, WalkOfUnfolds, Zenon
    <2> QED
        BY <2>1 DEF WalksTo
<1>11. \A k \in 1..n : h[k] = SwapGate(h[k - 1], c[k])
    <2> TAKE k \in 1..n
    <2>1. k - 1 \in 0..n /\ h[k - 1] \in V
        BY <1>1, <1>10 DEF Walk
    <2>2. F[<<k, h[k - 1]>>] = SwapGate(h[k - 1], c[k])
        BY <2>1
    <2> HIDE DEF F
    <2> QED
        BY <1>10, <2>2 DEF Walk
<1> HIDE DEF F
<1>12. SwapsWalk(h, c)
    BY <1>10, <1>11 DEF Walk, SwapsWalk, n, V
<1> QED
    BY <1>1, <1>2, <1>10, <1>12 DEF n

LEMMA SwapsNeverGrow ==
    ASSUME NEW c \in Seq(GateSet)
    PROVE  /\ SimplifySwapGates(c).circ \in Seq(GateSet)
           /\ SimplifySwapGates(c).perm \in [Lines -> Lines]
           /\ Len(SimplifySwapGates(c).circ) <= Len(c)
<1> DEFINE n == Len(c)
<1>1. n \in Nat /\ \A k \in 1..n : c[k] \in GateSet
    OBVIOUS
<1>2. PICK h : SwapsWalk(h, c) /\ SimplifySwapGates(c) = AddPrefix(h[n])
    BY SwapsFold
<1> DEFINE T == {k \in 0..n : ~(Spent(h[k]) <= k)}
<1>3. \A k \in 0..n : h[k] \in Permuted /\ Spent(h[k]) \in Nat
    <2> TAKE k \in 0..n
    <2>1. h[k] \in Permuted
        BY <1>2 DEF SwapsWalk
    <2>2. Len(h[k].circ) \in Nat /\ Len(h[k].prefix) \in 0..2
        BY <2>1, PermutedIs
    <2> DEFINE a == Len(h[k].circ)
               b == Len(h[k].prefix)
    <2>3. Spent(h[k]) = a + b
        BY DEF Spent
    <2>4. a \in Nat /\ b \in 0..2
        BY <2>2
    <2> HIDE DEF a, b
    <2>5. a + b \in Nat
        BY <2>4
    <2> QED
        BY <2>1, <2>3, <2>5
<1>4. Spent(h[0]) = 0
    <2>1. h[0].circ = <<>> /\ h[0].prefix = <<>>
        BY <1>2 DEF SwapsWalk
    <2> QED
        BY <2>1 DEF Spent
<1>5. ASSUME NEW k \in 1..n
      PROVE  Spent(h[k]) <= Spent(h[k - 1]) + 1
    <2>1. k - 1 \in 0..n
        BY <1>1
    <2>2. h[k - 1] \in Permuted /\ c[k] \in GateSet /\ h[k] = SwapGate(h[k - 1], c[k])
        BY <1>1, <1>2, <1>3, <2>1 DEF SwapsWalk
    <2> QED
        BY <2>2, SwapGateIs
<1>6. T = {}
    <2> SUFFICES ASSUME T # {} PROVE FALSE
        OBVIOUS
    <2>0. T \subseteq Nat
        OBVIOUS
    <2>1. PICK k \in T : \A j \in T : k <= j
        BY <2>0, Least, Zenon
    <2>2. k \in 1..n /\ k - 1 \in 0..n /\ k \in 0..n /\ ~ k <= k - 1
        BY <1>4, <2>1
    <2>3. Spent(h[k - 1]) <= k - 1
        BY <2>1, <2>2
    <2> QED
        BY <1>3, <1>5, <2>1, <2>2, <2>3
<1>7. n \in 0..n /\ n \notin T
    BY <1>1, <1>6
<1>8. Spent(h[n]) <= n /\ h[n] \in Permuted /\ Spent(h[n]) \in Nat
    BY <1>3, <1>7
<1> DEFINE r == AddPrefix(h[n])
<1>9. r \in Permuted /\ Len(r.circ) <= Spent(h[n])
    BY <1>8, AddPrefixIs
<1>10. SimplifySwapGates(c) = r
    BY <1>2
<1> HIDE DEF r
<1>11. r.circ \in Seq(GateSet) /\ r.perm \in [Lines -> Lines] /\ Len(r.circ) \in Nat
    BY <1>9, PermutedIs
<1> QED
    BY <1>1, <1>8, <1>9, <1>10, <1>11

(* Every pass of a round hands on a circuit that is no longer than the one it  *)
(* was given, whatever the minimiser of exorcism chooses.                    *)
SimplifyWorks ==
    [passes : {work.passes}, at : Nat, size : Nat, gperm : [Lines -> Lines],
     outputs : [Lines -> Lines], before : Nat, done : BOOLEAN]

SimplifyInv ==
    /\ algorithm = "simplify"
    /\ work \in SimplifyWorks
    /\ circ \in Seq(GateSet)
    /\ Len(circ) <= work.before

LEMMA SimplifyStart == SimplifyInit => SimplifyInv
<1> SUFFICES ASSUME NEW base \in Seq(GatesOn(Lines)), NEW methods, NEW reverse_opt,
                    StartSimplify(base, methods, reverse_opt)
             PROVE  SimplifyInv
    BY DEF SimplifyInit
<1> DEFINE p == Schedule(methods, reverse_opt)
<1>1. /\ algorithm = "simplify" /\ circ = base
      /\ work = [passes |-> p, at |-> 1, size |-> Len(base),
                 gperm |-> IdentityPermutation, outputs |-> IdentityPermutation,
                 before |-> Len(base), done |-> FALSE]
    BY DEF StartSimplify
<1>2. base \in Seq(GateSet) /\ Len(base) \in Nat
    <2>1. GatesOn(Lines) \subseteq GateSet
        BY GatesOnAreIn DEF GateSet
    <2>2. \A i \in 1..Len(base) : base[i] \in GatesOn(Lines)
        OBVIOUS
    <2> QED
        BY <2>1, <2>2
<1>3. IdentityPermutation \in [Lines -> Lines]
    BY DEF IdentityPermutation
<1> HIDE DEF p
<1>4. work \in SimplifyWorks
    BY <1>1, <1>2, <1>3 DEF SimplifyWorks
<1>5. Len(circ) <= work.before
    BY <1>1, <1>2
<1> QED
    BY <1>1, <1>2, <1>4, <1>5 DEF SimplifyInv

LEMMA MultiplyTyped ==
    ASSUME NEW a \in [Lines -> Lines], NEW b \in [Lines -> Lines]
    PROVE  Multiply(a, b) \in [Lines -> Lines]
BY DEF Multiply

LEMMA GivesKeeps ==
    ASSUME SimplifyInv, NEW c \in Seq(GateSet), Len(c) <= Len(circ), Gives(c)
    PROVE  SimplifyInv'
<1>1. algorithm = "simplify" /\ work \in SimplifyWorks /\ circ \in Seq(GateSet) /\ Len(circ) <= work.before
    BY DEF SimplifyInv
<1>2. circ' = c /\ work' = [work EXCEPT !.at = @ + 1] /\ algorithm' = algorithm
    BY DEF Gives
<1>3. /\ work \in [passes : {work.passes}, at : Nat, size : Nat, gperm : [Lines -> Lines],
                   outputs : [Lines -> Lines], before : Nat, done : BOOLEAN]
      /\ work.at + 1 \in Nat /\ work.before \in Nat
    BY <1>1 DEF SimplifyWorks
<1>4. work' = [work EXCEPT !.at = work.at + 1]
    BY <1>2
<1>5. work'.before = work.before /\ work'.passes = work.passes
    BY <1>3, <1>4
<1>6. work' \in SimplifyWorks'
    BY <1>3, <1>4, <1>5 DEF SimplifyWorks
<1>7. Len(circ') <= work'.before
    <2>1. Len(c) \in Nat /\ Len(circ) \in Nat
        BY <1>1
    <2> QED
        BY <1>1, <1>2, <1>3, <1>5, <2>1
<1> QED
    BY <1>1, <1>2, <1>6, <1>7 DEF SimplifyInv

LEMMA SwapPassKeeps ==
    ASSUME SimplifyInv, SwapPass
    PROVE  SimplifyInv'
<1>1. algorithm = "simplify" /\ work \in SimplifyWorks /\ circ \in Seq(GateSet) /\ Len(circ) <= work.before
    BY DEF SimplifyInv
<1> DEFINE s == SimplifySwapGates(circ)
           m == Multiply(work.gperm, s.perm)
<1>2. /\ circ' = s.circ /\ algorithm' = algorithm
      /\ work' = [work EXCEPT !.at = @ + 1, !.gperm = Multiply(@, s.perm)]
    BY DEF SwapPass
<1>3. s.circ \in Seq(GateSet) /\ s.perm \in [Lines -> Lines] /\ Len(s.circ) <= Len(circ)
    BY <1>1, SwapsNeverGrow
<1>4. /\ work \in [passes : {work.passes}, at : Nat, size : Nat, gperm : [Lines -> Lines],
                   outputs : [Lines -> Lines], before : Nat, done : BOOLEAN]
      /\ work.at + 1 \in Nat /\ work.before \in Nat /\ work.gperm \in [Lines -> Lines]
    BY <1>1 DEF SimplifyWorks
<1>5. m \in [Lines -> Lines]
    BY <1>3, <1>4, MultiplyTyped
<1> DEFINE v == [work EXCEPT !.at = work.at + 1]
<1>6. work' = [v EXCEPT !.gperm = m]
    BY <1>2
<1>7. /\ v \in [passes : {work.passes}, at : Nat, size : Nat, gperm : [Lines -> Lines],
                outputs : [Lines -> Lines], before : Nat, done : BOOLEAN]
      /\ v.before = work.before /\ v.passes = work.passes
    BY <1>4
<1> HIDE DEF v, m, s
<1>8. work'.before = work.before /\ work'.passes = work.passes
    BY <1>6, <1>7
<1>9. work' \in SimplifyWorks'
    BY <1>5, <1>6, <1>7, <1>8 DEF SimplifyWorks
<1>10. Len(circ') <= work'.before
    <2>1. Len(s.circ) \in Nat /\ Len(circ) \in Nat
        BY <1>1, <1>3
    <2> QED
        BY <1>1, <1>2, <1>3, <1>4, <1>8, <2>1
<1> QED
    BY <1>1, <1>2, <1>3, <1>9, <1>10 DEF SimplifyInv

LEMMA EndRoundKeeps ==
    ASSUME SimplifyInv, EndRound
    PROVE  SimplifyInv'
<1>1. algorithm = "simplify" /\ work \in SimplifyWorks /\ circ \in Seq(GateSet) /\ Len(circ) <= work.before
    BY DEF SimplifyInv
<1> DEFINE o == [l \in Lines |-> work.gperm[l]]
           v == [work EXCEPT !.at = 1]
           u == [work EXCEPT !.done = TRUE]
<1>2. /\ circ' = circ /\ algorithm' = algorithm
      /\ \/ work' = [v EXCEPT !.size = Len(circ)]
         \/ work' = [u EXCEPT !.outputs = o]
    BY Zenon DEF EndRound
<1>3. /\ work \in [passes : {work.passes}, at : Nat, size : Nat, gperm : [Lines -> Lines],
                   outputs : [Lines -> Lines], before : Nat, done : BOOLEAN]
      /\ work.before \in Nat /\ work.gperm \in [Lines -> Lines] /\ Len(circ) \in Nat
    BY <1>1 DEF SimplifyWorks
<1>4. o \in [Lines -> Lines]
    BY <1>3
<1>5. /\ v \in [passes : {work.passes}, at : Nat, size : Nat, gperm : [Lines -> Lines],
                outputs : [Lines -> Lines], before : Nat, done : BOOLEAN]
      /\ v.before = work.before /\ v.passes = work.passes
    BY <1>3
<1>6. /\ u \in [passes : {work.passes}, at : Nat, size : Nat, gperm : [Lines -> Lines],
                outputs : [Lines -> Lines], before : Nat, done : BOOLEAN]
      /\ u.before = work.before /\ u.passes = work.passes
    BY <1>3
<1> HIDE DEF o, v, u
<1>7. work'.before = work.before /\ work'.passes = work.passes
    BY <1>2, <1>5, <1>6
<1>8. work' \in SimplifyWorks'
    <2>1. CASE work' = [v EXCEPT !.size = Len(circ)]
        BY <1>3, <1>5, <1>7, <2>1 DEF SimplifyWorks
    <2>2. CASE work' = [u EXCEPT !.outputs = o]
        BY <1>4, <1>6, <1>7, <2>2 DEF SimplifyWorks
    <2> QED
        BY <1>2, <2>1, <2>2
<1> QED
    BY <1>1, <1>2, <1>7, <1>8 DEF SimplifyInv

LEMMA SimplifyStep == SimplifyInv /\ [Simplify]_vars => SimplifyInv'
<1> SUFFICES ASSUME SimplifyInv, [Simplify]_vars PROVE SimplifyInv'
    OBVIOUS
<1>1. circ \in Seq(GateSet) /\ Len(circ) \in Nat /\ Len(circ) <= Len(circ)
    BY DEF SimplifyInv
<1>2. CASE MergePass
    <2>1. Gives(SimpleMerge(circ))
        BY <1>2 DEF MergePass
    <2>2. SimpleMerge(circ) \in Seq(GateSet) /\ Len(SimpleMerge(circ)) <= Len(circ)
        BY <1>1, MergeKeepsLength
    <2> QED
        BY <2>1, <2>2, GivesKeeps
<1>3. CASE NotsPass
    <2>1. Gives(SimplifyNotGates(circ))
        BY <1>3 DEF NotsPass
    <2>2. SimplifyNotGates(circ) \in Seq(GateSet) /\ Len(SimplifyNotGates(circ)) <= Len(circ)
        BY <1>1, NotsNeverGrow
    <2> QED
        BY <2>1, <2>2, GivesKeeps
<1>4. CASE AdjacentPass
    <2>1. Gives(SimplifyAdjacent(circ))
        BY <1>4 DEF AdjacentPass
    <2>2. SimplifyAdjacent(circ) \in Seq(GateSet) /\ Len(SimplifyAdjacent(circ)) <= Len(circ)
        BY <1>1, AdjacentNeverGrows
    <2> QED
        BY <2>1, <2>2, GivesKeeps
<1>5. CASE ExorcismPass
    <2>1. PICK c \in ExorcismMerged(circ) : Gives(c)
        BY <1>5 DEF ExorcismPass
    <2>2. c \in Seq(GateSet) /\ Len(c) <= Len(circ)
        BY <1>1, ExorcismNeverGrows
    <2> QED
        BY <2>1, <2>2, GivesKeeps
<1>6. CASE ReversePass
    <2>1. Gives(ReverseCircuit(circ))
        BY <1>6 DEF ReversePass
    <2>2. ReverseCircuit(circ) \in Seq(GateSet) /\ Len(ReverseCircuit(circ)) <= Len(circ)
        BY <1>1, ReverseKeepsLength
    <2> QED
        BY <2>1, <2>2, GivesKeeps
<1>7. CASE SwapPass
    BY <1>7, SwapPassKeeps
<1>8. CASE EndRound
    BY <1>8, EndRoundKeeps
<1>9. CASE UNCHANGED vars
    BY <1>9 DEF vars, SimplifyInv, SimplifyWorks
<1> QED
    BY <1>2, <1>3, <1>4, <1>5, <1>6, <1>7, <1>8, <1>9 DEF Simplify

-------------------------------------------------------------------------------
(* The three optimisations together, one call of one of them.                 *)
OptimisationInit == SimplifyInit \/ WindowsInit \/ LinesInit

OptimisationNext ==
    \/ algorithm = "simplify" /\ Simplify
    \/ algorithm = "windows" /\ WindowStep
    \/ algorithm = "lines" /\ AddLines

OptimisationSpec == OptimisationInit /\ [][OptimisationNext]_vars

OptimisationInv == SimplifyInv \/ WInv \/ (LInv /\ CostsInv)

LEMMA OptimisationStep == OptimisationInv /\ [OptimisationNext]_vars => OptimisationInv'
<1> SUFFICES ASSUME OptimisationInv, [OptimisationNext]_vars PROVE OptimisationInv'
    OBVIOUS
<1>1. CASE SimplifyInv
    <2>1. algorithm = "simplify"
        BY <1>1 DEF SimplifyInv
    <2>2. [Simplify]_vars
        BY <2>1 DEF OptimisationNext
    <2> QED
        BY <1>1, <2>2, SimplifyStep DEF OptimisationInv
<1>2. CASE WInv
    <2>1. algorithm = "windows"
        BY <1>2 DEF WInv
    <2>2. [WindowStep]_vars
        BY <2>1 DEF OptimisationNext
    <2> QED
        BY <1>2, <2>2, WindowsStep DEF OptimisationInv
<1>3. CASE LInv /\ CostsInv
    <2>1. algorithm = "lines"
        BY <1>3 DEF LInv, LinesTyped
    <2>2. [AddLines]_vars
        BY <2>1 DEF OptimisationNext
    <2> QED
        BY <1>3, <2>2, LinesStep, CostsStep DEF OptimisationInv
<1> QED
    BY <1>1, <1>2, <1>3 DEF OptimisationInv

(* NeverWorse: no simplification, whichever passes run in whichever direction  *)
(* and for however many rounds, no window and no helper line gives back a      *)
(* circuit that is dearer in the costs it minimises than the one it was given. *)
THEOREM OptimisationNeverLoses == OptimisationSpec => []NeverWorse
<1>1. OptimisationInit => OptimisationInv
    BY SimplifyStart, WindowsStart, LinesStart, CostsStart DEF OptimisationInit, OptimisationInv
<1>2. OptimisationInv => NeverWorse
    <2>1. SimplifyInv => NeverWorse
        BY DEF SimplifyInv, NeverWorse, SimplifiedIsNoLonger, NeverLonger, NeverDearer
    <2>2. WInv => NeverWorse
        BY DEF WInv, NeverWorse, SimplifiedIsNoLonger, NeverLonger, NeverDearer
    <2>3. LInv /\ CostsInv => NeverWorse
        BY DEF LInv, LinesTyped, CostsInv, NeverWorse, SimplifiedIsNoLonger, NeverLonger, NeverDearer
    <2> QED
        BY <2>1, <2>2, <2>3 DEF OptimisationInv
<1> QED
    BY <1>1, <1>2, OptimisationStep, PTL DEF OptimisationSpec
===============================================================================
