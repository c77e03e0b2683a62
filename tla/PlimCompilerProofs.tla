-------------------------- MODULE PlimCompilerProofs --------------------------
(***************************************************************************)
(* Proofs about the PLiM compiler, for any graph, any order in which the     *)
(* gates are compiled, and both ways to hand out released registers.        *)
(***************************************************************************)
EXTENDS PlimCompiler, FiniteSetTheorems, SequenceTheorems, WellFoundedInduction, TLAPS

-------------------------------------------------------------------------------
(* A machine apart from the state: its types, the values it holds for a set  *)
(* of live nodes, and who owns its registers.                               *)
Typed(s) ==
    /\ s.mem \in Seq(SUBSET Assignments)
    /\ s.func_to_rram \in [Nodes -> [BOOLEAN -> 0..Len(s.mem)]]
    /\ s.free \in Seq(1..Len(s.mem))
    /\ s.rram_count \in 0..Len(s.mem)

Held(s, A, v) ==
    \A n \in A :
        /\ Reg(s, n, FALSE) # 0 /\ s.mem[Reg(s, n, FALSE)] = v[n]
        /\ Reg(s, n, TRUE) # 0 => s.mem[Reg(s, n, TRUE)] = Assignments \ v[n]

Owned(s, A) ==
    /\ \A m, n \in A, c, d \in BOOLEAN :
          Reg(s, m, c) # 0 /\ Reg(s, m, c) = Reg(s, n, d) => m = n /\ c = d
    /\ \A n \in A, c \in BOOLEAN, e \in DOMAIN s.free : s.free[e] # Reg(s, n, c)
    /\ \A d, e \in DOMAIN s.free : s.free[d] = s.free[e] => d = e

(* A register that is neither free nor owned by a live node. *)
Outside(s, A, r) ==
    /\ r \in 1..Len(s.mem)
    /\ \A e \in DOMAIN s.free : s.free[e] # r
    /\ \A n \in A, c \in BOOLEAN : Reg(s, n, c) # r

-------------------------------------------------------------------------------
(* A register that was asked for belongs to nobody, and nothing else changes. *)
LEMMA RequestGives ==
    ASSUME NEW s, NEW A \in SUBSET Nodes, Typed(s), Owned(s, A), Unknown \subseteq Assignments
    PROVE  LET t == Request(s)
               r == Requested(s) IN
           /\ Typed(t) /\ Owned(t, A) /\ Outside(t, A, r)
           /\ t.func_to_rram = s.func_to_rram
           /\ Len(s.mem) <= Len(t.mem)
           /\ \A q \in 1..Len(s.mem) : t.mem[q] = s.mem[q]
           /\ \A q : Outside(s, A, q) => Outside(t, A, q) /\ q # r
<1> DEFINE t == Request(s)
           r == Requested(s)
           L == Len(s.mem)
<1>0. /\ s.mem \in Seq(SUBSET Assignments) /\ s.free \in Seq(1..L) /\ L \in Nat
      /\ s.func_to_rram \in [Nodes -> [BOOLEAN -> 0..L]] /\ s.rram_count \in 0..L
    BY DEF Typed
<1>1. CASE s.free = <<>>
    <2>1. /\ t.mem = Append(s.mem, Unknown) /\ t.func_to_rram = s.func_to_rram
          /\ t.free = <<>> /\ t.rram_count = s.rram_count /\ r = L + 1
        BY <1>1 DEF Request, Requested, Machine
    <2>2. /\ t.mem \in Seq(SUBSET Assignments) /\ Len(t.mem) = L + 1
          /\ \A q \in 1..L : t.mem[q] = s.mem[q]
        BY <2>1, <1>0
    <2> HIDE DEF t, r
    <2>3. s.func_to_rram \in [Nodes -> [BOOLEAN -> 0..L + 1]]
        BY <1>0
    <2>4. Typed(t)
        BY <2>1, <2>2, <2>3, <1>0 DEF Typed
    <2>5. Owned(t, A)
        BY <2>1, <1>1 DEF Owned, Reg
    <2>6. \A n \in A, c \in BOOLEAN : Reg(t, n, c) \in 0..L
        BY <2>1, <1>0 DEF Reg
    <2>7. Outside(t, A, r)
        BY <2>1, <2>2, <2>6, <1>0 DEF Outside
    <2>8. \A q : Outside(s, A, q) => Outside(t, A, q) /\ q # r
        BY <2>1, <2>2, <1>0, <1>1 DEF Outside, Reg
    <2> QED
        BY <2>1, <2>2, <2>4, <2>5, <2>7, <2>8, <1>0 DEF t, r
<1>2. CASE s.free # <<>>
    <2> DEFINE N == Len(s.free)
               F == t.free
    <2>0. N \in Nat /\ N > 0 /\ DOMAIN s.free = 1..N /\ \A e \in 1..N : s.free[e] \in 1..L
        BY <1>0, <1>2
    <2>1. /\ t.mem = s.mem /\ t.func_to_rram = s.func_to_rram /\ t.rram_count = s.rram_count
          /\ F = IF strategy = "lifo" THEN SubSeq(s.free, 1, N - 1) ELSE Tail(s.free)
          /\ r = IF strategy = "lifo" THEN s.free[N] ELSE s.free[1]
        BY <1>2, <2>0 DEF Request, Requested, Machine
    <2>2. \E d \in {0, 1} :
             /\ F \in Seq(1..L) /\ Len(F) = N - 1
             /\ \A e \in 1..N - 1 : F[e] = s.free[e + d]
             /\ r = s.free[IF d = 0 THEN N ELSE 1]
        <3>1. CASE strategy = "lifo"
            <4>1. F = SubSeq(s.free, 1, N - 1) /\ r = s.free[N]
                BY <2>1, <3>1
            <4> HIDE DEF t, r
            <4>2. F \in Seq(1..L) /\ Len(F) = N - 1 /\ \A e \in 1..N - 1 : F[e] = s.free[e]
                BY <4>1, <2>0, <1>0, SubSeqProperties
            <4>3. \A e \in 1..N - 1 : F[e] = s.free[e + 0]
                BY <4>2, <2>0
            <4> WITNESS 0 \in {0, 1}
            <4> QED
                BY <4>1, <4>2, <4>3
        <3>2. CASE strategy # "lifo"
            <4>1. F = Tail(s.free) /\ r = s.free[1]
                BY <2>1, <3>2
            <4> HIDE DEF t, r
            <4>2. F \in Seq(1..L) /\ Len(F) = N - 1 /\ \A e \in 1..N - 1 : F[e] = s.free[e + 1]
                <5>1. Tail(s.free) \in Seq(1..L) /\ Len(Tail(s.free)) = N - 1
                    BY <1>0, <1>2, HeadTailProperties
                <5>2. \A e \in 1..Len(Tail(s.free)) : Tail(s.free)[e] = s.free[e + 1]
                    BY <1>0, <1>2, HeadTailProperties
                <5> QED
                    BY <4>1, <5>1, <5>2
            <4> WITNESS 1 \in {0, 1}
            <4> QED
                BY <4>1, <4>2
        <3> QED
            BY <3>1, <3>2
    <2>3. PICK d \in {0, 1} :
             /\ F \in Seq(1..L) /\ Len(F) = N - 1
             /\ \A e \in 1..N - 1 : F[e] = s.free[e + d]
             /\ r = s.free[IF d = 0 THEN N ELSE 1]
        BY <2>2
    <2> DEFINE last == IF d = 0 THEN N ELSE 1
    <2>4. last \in 1..N /\ r = s.free[last] /\ \A e \in 1..N - 1 : e + d \in 1..N /\ e + d # last
        BY <2>0, <2>3
    <2>5. DOMAIN F = 1..N - 1
        BY <2>3
    <2> HIDE DEF t, r, last, N
    <2>6. Typed(t)
        BY <2>1, <2>3, <1>0 DEF Typed
    <2>7. \A e \in DOMAIN F : e + d \in DOMAIN s.free /\ F[e] = s.free[e + d] /\ e + d # last
        BY <2>0, <2>3, <2>4, <2>5
    <2>8. \A n \in Nodes, c \in BOOLEAN : Reg(t, n, c) = Reg(s, n, c)
        BY <2>1 DEF Reg
    <2>9. Owned(t, A)
        <3>1. \A a, b \in DOMAIN F : F[a] = F[b] => a = b
            <4> SUFFICES ASSUME NEW a \in DOMAIN F, NEW b \in DOMAIN F, F[a] = F[b]
                         PROVE  a = b
                OBVIOUS
            <4>1. a + d = b + d
                BY <2>7 DEF Owned
            <4>2. a \in Int /\ b \in Int
                BY <2>5, <2>0
            <4>3. (a + 0 = b + 0 => a = b) /\ (a + 1 = b + 1 => a = b)
                BY <4>2
            <4>4. d = 0 \/ d = 1
                OBVIOUS
            <4> QED
                BY <4>1, <4>3, <4>4
        <3>2. \A n \in A, c \in BOOLEAN, e \in DOMAIN F : F[e] # Reg(t, n, c)
            BY <2>7, <2>8 DEF Owned
        <3>3. \A m, n \in A, b, c \in BOOLEAN :
                 Reg(t, m, b) # 0 /\ Reg(t, m, b) = Reg(t, n, c) => m = n /\ b = c
            BY <2>8 DEF Owned
        <3> QED
            BY <3>1, <3>2, <3>3 DEF Owned
    <2>10. Outside(t, A, r)
        <3>1. r \in 1..Len(t.mem)
            BY <2>0, <2>1, <2>4
        <3>2. \A e \in DOMAIN F : F[e] # r
            BY <2>0, <2>4, <2>7 DEF Owned
        <3>3. \A n \in A, c \in BOOLEAN : Reg(t, n, c) # r
            BY <2>0, <2>4, <2>8 DEF Owned
        <3> QED
            BY <3>1, <3>2, <3>3 DEF Outside
    <2>11. \A q : Outside(s, A, q) => Outside(t, A, q) /\ q # r
        BY <2>0, <2>1, <2>4, <2>7, <2>8 DEF Outside
    <2> QED
        BY <2>1, <2>6, <2>9, <2>10, <2>11, <1>0 DEF t, r
<1> QED
    BY <1>1, <1>2

-------------------------------------------------------------------------------
(* Operands of an instruction: constants and registers. *)
Operands(s) == {-1, -2} \cup 1..Len(s.mem)

LEMMA ContentType ==
    ASSUME NEW s, Typed(s), NEW o \in Operands(s)
    PROVE  Content(s.mem, o) \in SUBSET Assignments
BY DEF Typed, Operands, Content

(* What a constant holds. *)
LEMMA ConstantContent ==
    ASSUME NEW mem, NEW b \in BOOLEAN
    PROVE  /\ Content(mem, Constant(b)) = IF b THEN Assignments ELSE {}
           /\ Constant(b) \in {-1, -2}
BY DEF Content, Constant

(* An instruction changes its destination and nothing else. *)
LEMMA Rm3Gives ==
    ASSUME NEW s, Typed(s), NEW r \in 1..Len(s.mem), NEW p \in Operands(s), NEW o \in Operands(s)
    PROVE  LET t == Rm3(s, r, p, o) IN
           /\ Typed(t) /\ Len(t.mem) = Len(s.mem)
           /\ t.func_to_rram = s.func_to_rram /\ t.free = s.free
           /\ t.mem[r] = Maj(s.mem[r], Content(s.mem, p), Assignments \ Content(s.mem, o))
           /\ \A q \in 1..Len(s.mem) : q # r => t.mem[q] = s.mem[q]
<1> DEFINE t == Rm3(s, r, p, o)
           x == Maj(s.mem[r], Content(s.mem, p), Assignments \ Content(s.mem, o))
           L == Len(s.mem)
<1>0. s.mem \in Seq(SUBSET Assignments) /\ L \in Nat /\ s.rram_count \in 0..L
    BY DEF Typed
<1>1. /\ t.mem = [s.mem EXCEPT ![r] = x] /\ t.func_to_rram = s.func_to_rram
      /\ t.free = s.free /\ t.rram_count = IF r > s.rram_count THEN r ELSE s.rram_count
    BY DEF Rm3, Machine, Executed
<1>2. x \in SUBSET Assignments
    <2>1. s.mem[r] \in SUBSET Assignments
        BY <1>0
    <2>2. Content(s.mem, p) \in SUBSET Assignments
        BY ContentType
    <2> QED
        BY <2>1, <2>2 DEF Maj
<1> HIDE DEF t, x
<1>3. /\ t.mem \in Seq(SUBSET Assignments) /\ Len(t.mem) = L /\ t.mem[r] = x
      /\ \A q \in 1..L : q # r => t.mem[q] = s.mem[q]
    BY <1>0, <1>1, <1>2
<1>4. Typed(t)
    BY <1>0, <1>1, <1>3 DEF Typed
<1> QED
    BY <1>1, <1>3, <1>4 DEF t, x

(* The idioms: a constant, a complement, a copy. *)
LEMMA ReadConstantGives ==
    ASSUME NEW s, Typed(s), NEW r \in 1..Len(s.mem), NEW b \in BOOLEAN
    PROVE  LET t == ReadConstant(s, r, b) IN
           /\ Typed(t) /\ Len(t.mem) = Len(s.mem)
           /\ t.func_to_rram = s.func_to_rram /\ t.free = s.free
           /\ t.mem[r] = IF b THEN Assignments ELSE {}
           /\ \A q \in 1..Len(s.mem) : q # r => t.mem[q] = s.mem[q]
<1> DEFINE p == Constant(b)
           o == Constant(~b)
           t == Rm3(s, r, p, o)
<1>1. p \in Operands(s) /\ o \in Operands(s)
    BY ConstantContent DEF Operands
<1>2. ReadConstant(s, r, b) = t
    BY DEF ReadConstant
<1> HIDE DEF p, o
<1>3. /\ Typed(t) /\ Len(t.mem) = Len(s.mem)
      /\ t.func_to_rram = s.func_to_rram /\ t.free = s.free
      /\ t.mem[r] = Maj(s.mem[r], Content(s.mem, p), Assignments \ Content(s.mem, o))
      /\ \A q \in 1..Len(s.mem) : q # r => t.mem[q] = s.mem[q]
    BY <1>1, Rm3Gives
<1> HIDE DEF t
<1>4. s.mem[r] \in SUBSET Assignments
    BY DEF Typed
<1>5. t.mem[r] = IF b THEN Assignments ELSE {}
    <2>1. CASE b
        <3>1. t.mem[r] = Maj(s.mem[r], Assignments, Assignments \ {})
            BY <1>3, <2>1, ConstantContent DEF p, o
        <3> QED
            BY <1>4, <2>1, <3>1 DEF Maj
    <2>2. CASE ~b
        <3>1. t.mem[r] = Maj(s.mem[r], {}, Assignments \ Assignments)
            BY <1>3, <2>2, ConstantContent DEF p, o
        <3> QED
            BY <1>4, <2>2, <3>1 DEF Maj
    <2> QED
        BY <2>1, <2>2
<1> QED
    BY <1>2, <1>3, <1>5

LEMMA InvertGives ==
    ASSUME NEW s, Typed(s), NEW r \in 1..Len(s.mem), NEW src \in 1..Len(s.mem), r # src
    PROVE  LET t == Invert(s, r, src) IN
           /\ Typed(t) /\ Len(t.mem) = Len(s.mem)
           /\ t.func_to_rram = s.func_to_rram /\ t.free = s.free
           /\ t.mem[r] = Assignments \ s.mem[src]
           /\ \A q \in 1..Len(s.mem) : q # r => t.mem[q] = s.mem[q]
<1> DEFINE b == FALSE
           one == Constant(TRUE)
           u == ReadConstant(s, r, b)
           t == Rm3(u, r, one, src)
<1>1. /\ Typed(u) /\ Len(u.mem) = Len(s.mem)
      /\ u.func_to_rram = s.func_to_rram /\ u.free = s.free
      /\ u.mem[r] = {}
      /\ \A q \in 1..Len(s.mem) : q # r => u.mem[q] = s.mem[q]
    <2>1. b \in BOOLEAN /\ ~b
        OBVIOUS
    <2> HIDE DEF b
    <2> QED
        BY <2>1, ReadConstantGives
<1>2. one \in Operands(u) /\ src \in Operands(u) /\ r \in 1..Len(u.mem)
    BY <1>1, ConstantContent DEF Operands
<1> HIDE DEF u, one
<1>3. /\ Typed(t) /\ Len(t.mem) = Len(s.mem)
      /\ t.func_to_rram = s.func_to_rram /\ t.free = s.free
      /\ t.mem[r] = Maj({}, Content(u.mem, one), Assignments \ Content(u.mem, src))
      /\ \A q \in 1..Len(s.mem) : q # r => t.mem[q] = s.mem[q]
    <2>1. /\ Typed(t) /\ Len(t.mem) = Len(u.mem)
          /\ t.func_to_rram = u.func_to_rram /\ t.free = u.free
          /\ t.mem[r] = Maj(u.mem[r], Content(u.mem, one), Assignments \ Content(u.mem, src))
          /\ \A q \in 1..Len(u.mem) : q # r => t.mem[q] = u.mem[q]
        BY <1>1, <1>2, Rm3Gives
    <2> HIDE DEF t
    <2> QED
        BY <1>1, <2>1
<1>4. Content(u.mem, one) = Assignments
    BY ConstantContent DEF one
<1>5. Content(u.mem, src) = s.mem[src]
    BY <1>1 DEF Content
<1>6. t.mem[r] = Assignments \ s.mem[src]
    BY <1>3, <1>4, <1>5 DEF Maj
<1> QED
    BY <1>3, <1>6 DEF Invert, u, one, b

LEMMA AssignGives ==
    ASSUME NEW s, Typed(s), NEW r \in 1..Len(s.mem), NEW src \in 1..Len(s.mem), r # src
    PROVE  LET t == Assign(s, r, src) IN
           /\ Typed(t) /\ Len(t.mem) = Len(s.mem)
           /\ t.func_to_rram = s.func_to_rram /\ t.free = s.free
           /\ t.mem[r] = s.mem[src]
           /\ \A q \in 1..Len(s.mem) : q # r => t.mem[q] = s.mem[q]
<1> DEFINE b == TRUE
           one == Constant(TRUE)
           u == ReadConstant(s, r, b)
           t == Rm3(u, r, src, one)
<1>1. /\ Typed(u) /\ Len(u.mem) = Len(s.mem)
      /\ u.func_to_rram = s.func_to_rram /\ u.free = s.free
      /\ u.mem[r] = Assignments
      /\ \A q \in 1..Len(s.mem) : q # r => u.mem[q] = s.mem[q]
    <2>0. b \in BOOLEAN
        OBVIOUS
    <2>1. b = TRUE
        OBVIOUS
    <2> HIDE DEF b
    <2>2. /\ Typed(u) /\ Len(u.mem) = Len(s.mem)
          /\ u.func_to_rram = s.func_to_rram /\ u.free = s.free
          /\ u.mem[r] = IF b THEN Assignments ELSE {}
          /\ \A q \in 1..Len(s.mem) : q # r => u.mem[q] = s.mem[q]
        BY <2>0, ReadConstantGives
    <2>3. u.mem[r] = Assignments
        BY <2>1, <2>2
    <2> QED
        BY <2>2, <2>3
<1>2. one \in Operands(u) /\ src \in Operands(u) /\ r \in 1..Len(u.mem)
    BY <1>1, ConstantContent DEF Operands
<1> HIDE DEF u, one
<1>3. /\ Typed(t) /\ Len(t.mem) = Len(s.mem)
      /\ t.func_to_rram = s.func_to_rram /\ t.free = s.free
      /\ t.mem[r] = Maj(Assignments, Content(u.mem, src),
                        Assignments \ Content(u.mem, one))
      /\ \A q \in 1..Len(s.mem) : q # r => t.mem[q] = s.mem[q]
    <2>1. /\ Typed(t) /\ Len(t.mem) = Len(u.mem)
          /\ t.func_to_rram = u.func_to_rram /\ t.free = u.free
          /\ t.mem[r] = Maj(u.mem[r], Content(u.mem, src), Assignments \ Content(u.mem, one))
          /\ \A q \in 1..Len(u.mem) : q # r => t.mem[q] = u.mem[q]
        BY <1>1, <1>2, Rm3Gives
    <2> HIDE DEF t
    <2> QED
        BY <1>1, <2>1
<1>4. Content(u.mem, one) = Assignments
    BY ConstantContent DEF one
<1>5. Content(u.mem, src) = s.mem[src] /\ s.mem[src] \in SUBSET Assignments
    BY <1>1 DEF Content, Typed
<1>6. t.mem[r] = s.mem[src]
    BY <1>3, <1>4, <1>5 DEF Maj
<1> QED
    BY <1>3, <1>6 DEF Assign, u, one, b

-------------------------------------------------------------------------------
LEMMA InsertGives ==
    ASSUME NEW s, Typed(s), NEW n \in Nodes, NEW c \in BOOLEAN, NEW r \in 1..Len(s.mem)
    PROVE  LET t == Insert(s, n, c, r) IN
           /\ Typed(t) /\ t.mem = s.mem /\ t.free = s.free
           /\ Reg(t, n, c) = r
           /\ \A x \in Nodes, d \in BOOLEAN : x # n \/ d # c => Reg(t, x, d) = Reg(s, x, d)
<1> DEFINE t == Insert(s, n, c, r)
           f == s.func_to_rram
           L == Len(s.mem)
<1>0. f \in [Nodes -> [BOOLEAN -> 0..L]]
    BY DEF Typed
<1>1. /\ t.mem = s.mem /\ t.free = s.free /\ t.rram_count = s.rram_count
      /\ t.func_to_rram = [f EXCEPT ![n] = [f[n] EXCEPT ![c] = r]]
    BY DEF Insert, Machine
<1> DEFINE F == t.func_to_rram
<1> HIDE DEF t
<1>2. [f[n] EXCEPT ![c] = r] \in [BOOLEAN -> 0..L]
    <2>1. r \in 0..L
        OBVIOUS
    <2>2. f[n] \in [BOOLEAN -> 0..L]
        BY <1>0
    <2> HIDE DEF L, f
    <2> QED
        BY <2>1, <2>2
<1>3. F \in [Nodes -> [BOOLEAN -> 0..L]]
    BY <1>0, <1>1, <1>2
<1>4. F[n] = [f[n] EXCEPT ![c] = r]
    BY <1>0, <1>1
<1>5. F[n][c] = r
    BY <1>0, <1>4
<1>6. \A x \in Nodes : x # n => F[x] = f[x]
    BY <1>0, <1>1
<1>7. \A d \in BOOLEAN : d # c => F[n][d] = f[n][d]
    BY <1>0, <1>4
<1>8. Typed(t)
    BY <1>1, <1>3 DEF Typed
<1> QED
    BY <1>1, <1>5, <1>6, <1>7, <1>8 DEF Reg, t

(* A complement is made in a register that belongs to nobody. *)
LEMMA WithComplementGives ==
    ASSUME NEW s, NEW A \in SUBSET Nodes, NEW v \in [Nodes -> SUBSET Assignments],
           Typed(s), Owned(s, A), Held(s, A, v), NEW n \in A, Unknown \subseteq Assignments
    PROVE  LET t == WithComplement(s, n) IN
           /\ Typed(t) /\ Owned(t, A) /\ Held(t, A, v)
           /\ Reg(t, n, TRUE) # 0
           /\ \A x \in Nodes, c \in BOOLEAN : x # n \/ c # TRUE => Reg(t, x, c) = Reg(s, x, c)
           /\ \A q : Outside(s, A, q) => Outside(t, A, q) /\ t.mem[q] = s.mem[q]
<1>1. CASE Reg(s, n, TRUE) # 0
    BY <1>1 DEF WithComplement
<1>2. CASE Reg(s, n, TRUE) = 0
    <2> DEFINE L == Len(s.mem)
               u == Request(s)
               r == Requested(s)
               a == Reg(s, n, FALSE)
               w == Invert(u, r, a)
               yes == TRUE
               t == Insert(w, n, yes, r)
    <2>0. WithComplement(s, n) = t
        BY <1>2 DEF WithComplement
    <2>1. /\ Typed(u) /\ Owned(u, A) /\ Outside(u, A, r)
          /\ u.func_to_rram = s.func_to_rram
          /\ L <= Len(u.mem)
          /\ \A q \in 1..L : u.mem[q] = s.mem[q]
          /\ \A q : Outside(s, A, q) => Outside(u, A, q) /\ q # r
        BY RequestGives
    <2>2. L \in Nat /\ \A x \in Nodes, c \in BOOLEAN : Reg(s, x, c) \in 0..L
        BY DEF Typed, Reg
    <2>3. \A x \in Nodes, c \in BOOLEAN : Reg(u, x, c) = Reg(s, x, c)
        BY <2>1 DEF Reg
    <2>4. a \in 1..L /\ s.mem[a] = v[n] /\ Len(u.mem) \in Nat
        <3>1. a # 0 /\ s.mem[a] = v[n]
            BY DEF Held
        <3>2. a \in 0..L
            BY <2>2
        <3>3. Len(u.mem) \in Nat
            BY <2>1 DEF Typed
        <3> HIDE DEF a, L, u
        <3> QED
            BY <2>2, <3>1, <3>2, <3>3
    <2>5. r \in 1..Len(u.mem) /\ a \in 1..Len(u.mem) /\ r # a
        <3>1. r \in 1..Len(u.mem) /\ Reg(u, n, FALSE) # r
            BY <2>1 DEF Outside
        <3>2. Reg(u, n, FALSE) = a
            BY <2>3
        <3>3. r # a
            BY <3>1, <3>2
        <3>4. L \in Nat /\ L <= Len(u.mem) /\ Len(u.mem) \in Nat /\ a \in 1..L
            BY <2>1, <2>2, <2>4
        <3> HIDE DEF a, L, u, r
        <3>5. a \in 1..Len(u.mem)
            BY <3>4
        <3> QED
            BY <3>1, <3>3, <3>5
    <2> HIDE DEF u, r, a
    <2>6. /\ Typed(w) /\ Len(w.mem) = Len(u.mem)
          /\ w.func_to_rram = u.func_to_rram /\ w.free = u.free
          /\ w.mem[r] = Assignments \ u.mem[a]
          /\ \A q \in 1..Len(u.mem) : q # r => w.mem[q] = u.mem[q]
        BY <2>1, <2>5, InvertGives
    <2> HIDE DEF w
    <2>7. n \in Nodes /\ yes \in BOOLEAN /\ r \in 1..Len(w.mem)
        BY <2>5, <2>6
    <2> HIDE DEF yes
    <2>8. /\ Typed(t) /\ t.mem = w.mem /\ t.free = w.free
          /\ Reg(t, n, yes) = r
          /\ \A x \in Nodes, d \in BOOLEAN : x # n \/ d # yes => Reg(t, x, d) = Reg(w, x, d)
        BY <2>6, <2>7, InsertGives
    <2> HIDE DEF t
    <2>9. \A x \in Nodes, d \in BOOLEAN : x # n \/ d # yes => Reg(t, x, d) = Reg(s, x, d)
        BY <2>3, <2>6, <2>8 DEF Reg
    <2>10. t.free = u.free /\ Len(t.mem) = Len(u.mem)
        BY <2>6, <2>8
    <2>11. \A q \in 1..L : q # r => t.mem[q] = s.mem[q]
        BY <2>1, <2>2, <2>4, <2>6, <2>8
    <2>12. t.mem[r] = Assignments \ v[n]
        BY <2>1, <2>4, <2>6, <2>8
    <2>13. \A x \in A, d \in BOOLEAN : Reg(s, x, d) # r /\ Reg(u, x, d) # r
        BY <2>1, <2>3 DEF Outside
    <2>14. Owned(t, A)
        <3>1. \A m1, m2 \in A, c, d \in BOOLEAN :
                Reg(t, m1, c) # 0 /\ Reg(t, m1, c) = Reg(t, m2, d) => m1 = m2 /\ c = d
            <4> SUFFICES ASSUME NEW m1 \in A, NEW m2 \in A, NEW c \in BOOLEAN, NEW d \in BOOLEAN,
                                Reg(t, m1, c) # 0, Reg(t, m1, c) = Reg(t, m2, d)
                         PROVE  m1 = m2 /\ c = d
                OBVIOUS
            <4>0. m1 \in Nodes /\ m2 \in Nodes
                OBVIOUS
            <4>1. CASE m1 = n /\ c = yes
                BY <2>8, <2>9, <2>13, <4>0, <4>1
            <4>2. CASE m2 = n /\ d = yes
                BY <2>8, <2>9, <2>13, <4>0, <4>2
            <4>3. CASE (m1 # n \/ c # yes) /\ (m2 # n \/ d # yes)
                BY <2>9, <4>0, <4>3 DEF Owned
            <4> QED
                BY <4>1, <4>2, <4>3
        <3>2. \A x \in A, d \in BOOLEAN, e \in DOMAIN t.free : t.free[e] # Reg(t, x, d)
            <4> SUFFICES ASSUME NEW x \in A, NEW d \in BOOLEAN, NEW e \in DOMAIN u.free
                         PROVE  u.free[e] # Reg(t, x, d)
                BY <2>10
            <4>1. u.free[e] # Reg(u, x, d)
                BY <2>1 DEF Owned
            <4>2. u.free[e] # r
                BY <2>1 DEF Outside
            <4> QED
                BY <2>3, <2>8, <2>9, <4>1, <4>2
        <3>3. \A d, e \in DOMAIN t.free : t.free[d] = t.free[e] => d = e
            BY <2>1, <2>10 DEF Owned
        <3> QED
            BY <3>1, <3>2, <3>3 DEF Owned
    <2>15. \A q : Outside(s, A, q) => Outside(t, A, q) /\ t.mem[q] = s.mem[q]
        <3> SUFFICES ASSUME NEW q, Outside(s, A, q)
                     PROVE  Outside(t, A, q) /\ t.mem[q] = s.mem[q]
            OBVIOUS
        <3>1. Outside(u, A, q) /\ q # r /\ q \in 1..L
            BY <2>1 DEF Outside
        <3>2. \A x \in A, d \in BOOLEAN : Reg(t, x, d) # q
            BY <2>3, <2>8, <2>9, <3>1 DEF Outside
        <3> QED
            BY <2>10, <2>11, <3>1, <3>2 DEF Outside
    <2>16. \A x \in A, d \in BOOLEAN :
              Reg(s, x, d) # 0 => t.mem[Reg(s, x, d)] = s.mem[Reg(s, x, d)]
        BY <2>2, <2>11, <2>13
    <2>17. Reg(t, n, yes) # 0
        BY <2>5, <2>8
    <2>18. Held(t, A, v)
        <3> SUFFICES ASSUME NEW x \in A
                     PROVE  /\ Reg(t, x, FALSE) # 0 /\ t.mem[Reg(t, x, FALSE)] = v[x]
                            /\ Reg(t, x, TRUE) # 0 => t.mem[Reg(t, x, TRUE)] = Assignments \ v[x]
            BY DEF Held
        <3>1. Reg(t, x, FALSE) = Reg(s, x, FALSE)
            BY <2>9 DEF yes
        <3>2. Reg(s, x, FALSE) # 0 /\ s.mem[Reg(s, x, FALSE)] = v[x]
            BY DEF Held
        <3>3. t.mem[Reg(s, x, FALSE)] = v[x]
            BY <2>16, <3>2
        <3>4. CASE x = n
            <4>1. Reg(t, x, TRUE) = r
                BY <2>8, <3>4 DEF yes
            <4> QED
                BY <2>12, <3>1, <3>2, <3>3, <3>4, <4>1
        <3>5. CASE x # n
            <4>1. Reg(t, x, TRUE) = Reg(s, x, TRUE)
                BY <2>9, <3>5
            <4>2. Reg(s, x, TRUE) # 0 => s.mem[Reg(s, x, TRUE)] = Assignments \ v[x]
                BY DEF Held
            <4>3. Reg(s, x, TRUE) # 0 => t.mem[Reg(s, x, TRUE)] = Assignments \ v[x]
                BY <2>16, <4>2
            <4> QED
                BY <3>1, <3>2, <3>3, <4>1, <4>3
        <3> QED
            BY <3>4, <3>5
    <2> HIDE DEF L
    <2> QED
        BY <2>0, <2>8, <2>9, <2>14, <2>15, <2>17, <2>18 DEF yes
<1> QED
    BY <1>1, <1>2

-------------------------------------------------------------------------------
Edges == [node : Nodes, complemented : BOOLEAN]

Sound(s, A, v) == Typed(s) /\ Owned(s, A) /\ Held(s, A, v)

(* A write to a register that belongs to nobody disturbs nobody. *)
LEMMA OutsideWrite ==
    ASSUME NEW s, NEW t, NEW A \in SUBSET Nodes, NEW v, Sound(s, A, v), NEW r, Outside(s, A, r),
           Typed(t), Len(t.mem) = Len(s.mem), t.func_to_rram = s.func_to_rram, t.free = s.free,
           \A q \in 1..Len(s.mem) : q # r => t.mem[q] = s.mem[q]
    PROVE  Sound(t, A, v) /\ Outside(t, A, r)
<1>1. \A x, c : Reg(t, x, c) = Reg(s, x, c)
    BY DEF Reg
<1>2. Outside(t, A, r)
    BY <1>1 DEF Outside
<1>3. Owned(t, A)
    BY <1>1 DEF Sound, Owned
<1>4. Held(t, A, v)
    <2> SUFFICES ASSUME NEW n \in A
                 PROVE  /\ Reg(s, n, FALSE) # 0 /\ t.mem[Reg(s, n, FALSE)] = v[n]
                        /\ Reg(s, n, TRUE) # 0 => t.mem[Reg(s, n, TRUE)] = Assignments \ v[n]
        BY <1>1, ZenonT(60) DEF Held
    <2>1. \A c \in BOOLEAN : Reg(s, n, c) \in 0..Len(s.mem) /\ Reg(s, n, c) # r
        BY DEF Sound, Typed, Reg, Outside
    <2>2. \A c \in BOOLEAN : Reg(s, n, c) # 0 => t.mem[Reg(s, n, c)] = s.mem[Reg(s, n, c)]
        BY <2>1
    <2> QED
        BY <2>2 DEF Sound, Held
<1> QED
    BY <1>2, <1>3, <1>4 DEF Sound

(* The new register of a destination holds what the child stands for. *)
LEMMA LoadGives ==
    ASSUME NEW s, NEW A \in SUBSET Nodes, NEW v \in [Nodes -> SUBSET Assignments], v[0] = {},
           Sound(s, A, v), NEW child \in Edges, child.node = 0 \/ child.node \in A,
           NEW r, Outside(s, A, r)
    PROVE  LET t == Load(s, r, child) IN
           /\ Sound(t, A, v) /\ Outside(t, A, r)
           /\ t.func_to_rram = s.func_to_rram
           /\ t.mem[r] = Literal(v[child.node], child.complemented)
<1> DEFINE t == Load(s, r, child)
           a == Reg(s, child.node, FALSE)
<1>0. Typed(s) /\ r \in 1..Len(s.mem) /\ child.complemented \in BOOLEAN
    BY DEF Sound, Outside, Edges
<1>1. CASE child.node = 0
    <2> DEFINE b == child.complemented
    <2>1. t = ReadConstant(s, r, b) /\ b \in BOOLEAN
        BY <1>0, <1>1 DEF Load
    <2> HIDE DEF b, t
    <2>2. /\ Typed(t) /\ Len(t.mem) = Len(s.mem)
          /\ t.func_to_rram = s.func_to_rram /\ t.free = s.free
          /\ t.mem[r] = IF b THEN Assignments ELSE {}
          /\ \A q \in 1..Len(s.mem) : q # r => t.mem[q] = s.mem[q]
        BY <1>0, <2>1, ReadConstantGives
    <2>3. Sound(t, A, v) /\ Outside(t, A, r)
        BY <2>2, OutsideWrite
    <2>4. t.mem[r] = Literal(v[child.node], b)
        BY <1>1, <2>2 DEF Literal
    <2> QED
        BY <2>2, <2>3, <2>4 DEF b, t
<1>2. CASE child.node # 0
    <2>1. a # 0 /\ s.mem[a] = v[child.node] /\ a # r
        BY <1>2 DEF Sound, Held, Outside
    <2>2. a \in 0..Len(s.mem)
        <3>1. \A x \in Nodes, c \in BOOLEAN : Reg(s, x, c) \in 0..Len(s.mem)
            BY <1>0 DEF Typed, Reg
        <3>2. child.node \in Nodes
            BY DEF Edges
        <3> QED
            BY <3>1, <3>2
    <2>3. a \in 1..Len(s.mem)
        <3> HIDE DEF a
        <3> QED
            BY <1>0, <2>1, <2>2
    <2>4. CASE child.complemented
        <3>1. t = Invert(s, r, a)
            BY <1>2, <2>4 DEF Load
        <3> HIDE DEF a, t
        <3>2. /\ Typed(t) /\ Len(t.mem) = Len(s.mem)
              /\ t.func_to_rram = s.func_to_rram /\ t.free = s.free
              /\ t.mem[r] = Assignments \ s.mem[a]
              /\ \A q \in 1..Len(s.mem) : q # r => t.mem[q] = s.mem[q]
            BY <1>0, <2>1, <2>3, <3>1, InvertGives
        <3>3. Sound(t, A, v) /\ Outside(t, A, r)
            BY <3>2, OutsideWrite
        <3>4. t.mem[r] = Literal(v[child.node], child.complemented)
            BY <2>1, <2>4, <3>2 DEF Literal
        <3> QED
            BY <3>2, <3>3, <3>4 DEF t
    <2>5. CASE ~child.complemented
        <3>1. t = Assign(s, r, a)
            BY <1>2, <2>5 DEF Load
        <3> HIDE DEF a, t
        <3>2. /\ Typed(t) /\ Len(t.mem) = Len(s.mem)
              /\ t.func_to_rram = s.func_to_rram /\ t.free = s.free
              /\ t.mem[r] = s.mem[a]
              /\ \A q \in 1..Len(s.mem) : q # r => t.mem[q] = s.mem[q]
            BY <1>0, <2>1, <2>3, <3>1, AssignGives
        <3>3. Sound(t, A, v) /\ Outside(t, A, r)
            BY <3>2, OutsideWrite
        <3>4. t.mem[r] = Literal(v[child.node], child.complemented)
            BY <2>1, <2>5, <3>2 DEF Literal
        <3> QED
            BY <3>2, <3>3, <3>4 DEF t
    <2> QED
        BY <2>4, <2>5
<1> QED
    BY <1>1, <1>2

(* A register holds the function that it is the register of. *)
LEMMA RegContent ==
    ASSUME NEW s, NEW A, NEW v, Held(s, A, v), NEW n \in A, NEW c \in BOOLEAN, Reg(s, n, c) # 0
    PROVE  s.mem[Reg(s, n, c)] = Literal(v[n], c)
<1>1. CASE c = TRUE
    BY <1>1 DEF Held, Literal
<1>2. CASE c = FALSE
    BY <1>2 DEF Held, Literal
<1> QED
    BY <1>1, <1>2

(* Whichever way, the destination holds a child that nobody else will miss. *)
LEMMA PreparedGives ==
    ASSUME NEW s, NEW A \in SUBSET Nodes, NEW v \in [Nodes -> SUBSET Assignments], v[0] = {},
           Sound(s, A, v), NEW child \in Edges, child.node = 0 \/ child.node \in A,
           Unknown \subseteq Assignments
    PROVE  LET t == Prepared(s, child)
               r == Destination(s, child) IN
           /\ Sound(t, A, v) /\ t.func_to_rram = s.func_to_rram
           /\ r \in 1..Len(t.mem)
           /\ t.mem[r] = Literal(v[child.node], child.complemented)
           /\ \/ Outside(t, A, r)
              \/ Reusable(s, child) /\ r = Reg(t, child.node, child.complemented)
<1>0. child.complemented \in BOOLEAN /\ child.node \in Nodes
    BY DEF Edges
<1>1. CASE Reusable(s, child)
    <2> DEFINE r == Reg(s, child.node, child.complemented)
    <2>1. Prepared(s, child) = s /\ Destination(s, child) = r
        BY <1>1 DEF Prepared, Destination
    <2>2. r # 0 /\ child.node # 0
        BY <1>1 DEF Reusable
    <2>3. r \in 0..Len(s.mem)
        BY <1>0 DEF Sound, Typed, Reg
    <2>4. s.mem[r] = Literal(v[child.node], child.complemented)
        BY <1>0, <2>2, RegContent DEF Sound
    <2>5. r \in 1..Len(s.mem)
        <3>1. Len(s.mem) \in Nat
            BY DEF Sound, Typed
        <3> HIDE DEF r
        <3> QED
            BY <3>1, <2>2, <2>3
    <2> QED
        BY <1>1, <2>1, <2>4, <2>5
<1>2. CASE ~Reusable(s, child)
    <2> DEFINE u == Request(s)
               r == Requested(s)
               t == Load(u, r, child)
    <2>1. Prepared(s, child) = t /\ Destination(s, child) = r
        BY <1>2 DEF Prepared, Destination
    <2>2. /\ Typed(u) /\ Owned(u, A) /\ Outside(u, A, r)
          /\ u.func_to_rram = s.func_to_rram
          /\ \A q \in 1..Len(s.mem) : u.mem[q] = s.mem[q]
        BY RequestGives DEF Sound
    <2>3. Held(u, A, v)
        <3> SUFFICES ASSUME NEW n \in A
                     PROVE  /\ Reg(s, n, FALSE) # 0 /\ u.mem[Reg(s, n, FALSE)] = v[n]
                            /\ Reg(s, n, TRUE) # 0 => u.mem[Reg(s, n, TRUE)] = Assignments \ v[n]
            BY <2>2 DEF Held, Reg
        <3>1. \A c \in BOOLEAN : Reg(s, n, c) \in 0..Len(s.mem)
            BY DEF Sound, Typed, Reg
        <3>2. \A c \in BOOLEAN : Reg(s, n, c) # 0 => u.mem[Reg(s, n, c)] = s.mem[Reg(s, n, c)]
            BY <2>2, <3>1
        <3> QED
            BY <3>2 DEF Sound, Held
    <2>4. Sound(u, A, v)
        BY <2>2, <2>3 DEF Sound
    <2> HIDE DEF u, r
    <2>5. /\ Sound(t, A, v) /\ Outside(t, A, r)
          /\ t.func_to_rram = u.func_to_rram
          /\ t.mem[r] = Literal(v[child.node], child.complemented)
        <3>1. Outside(u, A, r)
            BY <2>2
        <3> QED
            <4>1. Sound(Load(u, r, child), A, v)
                BY <2>4, <3>1, LoadGives
            <4>2. Outside(Load(u, r, child), A, r)
                BY <2>4, <3>1, LoadGives
            <4>3. Load(u, r, child).func_to_rram = u.func_to_rram
                BY <2>4, <3>1, <4>1, <4>2, LoadGives, SMTT(30)
            <4>4. Load(u, r, child).mem[r] = Literal(v[child.node], child.complemented)
                BY <2>4, <3>1, LoadGives
            <4> QED
                BY <4>1, <4>2, <4>3, <4>4
    <2> HIDE DEF t
    <2> QED
        BY <2>1, <2>2, <2>5 DEF Outside
<1> QED
    BY <1>1, <1>2

(* Registers that were given to a function stay with it. *)
Grown(t, s, A) ==
    \A x \in Nodes, c \in BOOLEAN : x \notin A \/ Reg(s, x, c) # 0 => Reg(t, x, c) = Reg(s, x, c)

LEMMA WithComplementGrows ==
    ASSUME NEW s, NEW A \in SUBSET Nodes, NEW v \in [Nodes -> SUBSET Assignments],
           Sound(s, A, v), NEW n \in A, Unknown \subseteq Assignments
    PROVE  LET t == WithComplement(s, n) IN
           /\ Sound(t, A, v) /\ Grown(t, s, A) /\ Reg(t, n, TRUE) # 0
           /\ \A q : Outside(s, A, q) => Outside(t, A, q) /\ t.mem[q] = s.mem[q]
<1> DEFINE t == WithComplement(s, n)
<1>1. /\ Typed(t) /\ Owned(t, A) /\ Held(t, A, v)
      /\ Reg(t, n, TRUE) # 0
      /\ \A x \in Nodes, c \in BOOLEAN : x # n \/ c # TRUE => Reg(t, x, c) = Reg(s, x, c)
      /\ \A q : Outside(s, A, q) => Outside(t, A, q) /\ t.mem[q] = s.mem[q]
    BY WithComplementGives DEF Sound
<1>2. Reg(s, n, TRUE) # 0 => t = s
    BY DEF WithComplement
<1> HIDE DEF t
<1>3. Grown(t, s, A)
    <2> SUFFICES ASSUME NEW x \in Nodes, NEW c \in BOOLEAN, x \notin A \/ Reg(s, x, c) # 0
                 PROVE  Reg(t, x, c) = Reg(s, x, c)
        BY DEF Grown
    <2>1. CASE x = n /\ c = TRUE
        BY <1>2, <2>1
    <2>2. CASE x # n \/ c # TRUE
        BY <1>1, <2>2
    <2> QED
        BY <2>1, <2>2
<1> QED
    BY <1>1, <1>3 DEF Sound, t

(* The operand for a literal holds it. *)
Readable(s, A, n, c) == n = 0 \/ (n \in A /\ Reg(s, n, c) # 0)

LEMMA OperandHolds ==
    ASSUME NEW s, NEW A \in SUBSET Nodes, NEW v, v[0] = {}, Sound(s, A, v),
           NEW n \in Nodes, NEW c \in BOOLEAN, Readable(s, A, n, c)
    PROVE  /\ Operand(s, n, c) \in Operands(s)
           /\ Content(s.mem, Operand(s, n, c)) = Literal(v[n], c)
<1>1. CASE n = 0
    <2>1. Operand(s, n, c) = Constant(c)
        BY <1>1 DEF Operand
    <2>2. Constant(c) \in {-1, -2} /\ Content(s.mem, Constant(c)) = IF c THEN Assignments ELSE {}
        BY ConstantContent
    <2> QED
        BY <1>1, <2>1, <2>2 DEF Operands, Literal
<1>2. CASE n # 0
    <2> DEFINE r == Reg(s, n, c)
    <2>1. Operand(s, n, c) = r /\ r # 0 /\ n \in A
        BY <1>2 DEF Operand, Readable
    <2>2. r \in 0..Len(s.mem) /\ Len(s.mem) \in Nat
        BY DEF Sound, Typed, Reg
    <2>3. s.mem[r] = Literal(v[n], c)
        BY <2>1, RegContent DEF Sound
    <2> HIDE DEF r
    <2>4. r \in 1..Len(s.mem)
        BY <2>1, <2>2
    <2>5. Content(s.mem, r) = s.mem[r]
        BY <2>2, <2>4 DEF Content
    <2> QED
        BY <2>1, <2>3, <2>4, <2>5 DEF Operands
<1> QED
    BY <1>1, <1>2

(* The three children of a gate may change places. *)
LEMMA MajSymmetric ==
    ASSUME NEW a, NEW b, NEW c
    PROVE  /\ Maj(a, b, c) = Maj(a, c, b) /\ Maj(a, b, c) = Maj(b, a, c)
           /\ Maj(a, b, c) = Maj(b, c, a) /\ Maj(a, b, c) = Maj(c, a, b)
           /\ Maj(a, b, c) = Maj(c, b, a)
BY DEF Maj

(* The instruction of a gate leaves the majority of its children.           *)
LEMMA InstructionGives ==
    ASSUME NEW s, NEW A \in SUBSET Nodes, NEW v \in [Nodes -> SUBSET Assignments], v[0] = {},
           Sound(s, A, v), NEW a \in Edges, NEW p \in Edges, NEW o \in Edges,
           NEW dst \in 1..Len(s.mem), s.mem[dst] = Literal(v[a.node], a.complemented),
           Readable(s, A, p.node, p.complemented), Readable(s, A, o.node, ~o.complemented)
    PROVE  LET t == Rm3(s, dst, Operand(s, p.node, p.complemented),
                                Operand(s, o.node, ~o.complemented)) IN
           /\ Typed(t) /\ Len(t.mem) = Len(s.mem)
           /\ t.func_to_rram = s.func_to_rram /\ t.free = s.free
           /\ t.mem[dst] = Maj(Literal(v[a.node], a.complemented),
                               Literal(v[p.node], p.complemented),
                               Literal(v[o.node], o.complemented))
           /\ \A q \in 1..Len(s.mem) : q # dst => t.mem[q] = s.mem[q]
<1> DEFINE c == p.complemented
           d == ~o.complemented
           x == Operand(s, p.node, c)
           y == Operand(s, o.node, d)
           t == Rm3(s, dst, x, y)
<1>0. /\ p.node \in Nodes /\ o.node \in Nodes
      /\ c \in BOOLEAN /\ o.complemented \in BOOLEAN /\ d \in BOOLEAN
    BY DEF Edges
<1>1. /\ x \in Operands(s) /\ Content(s.mem, x) = Literal(v[p.node], c)
      /\ y \in Operands(s) /\ Content(s.mem, y) = Literal(v[o.node], d)
    <2>1. Readable(s, A, p.node, c) /\ Readable(s, A, o.node, d)
        OBVIOUS
    <2> HIDE DEF c, d
    <2>2. x \in Operands(s) /\ Content(s.mem, x) = Literal(v[p.node], c)
        BY <1>0, <2>1, OperandHolds
    <2>3. y \in Operands(s) /\ Content(s.mem, y) = Literal(v[o.node], d)
        BY <1>0, <2>1, OperandHolds
    <2> QED
        BY <2>2, <2>3
<1>2. Assignments \ Literal(v[o.node], d) = Literal(v[o.node], o.complemented)
    <2>1. v[o.node] \in SUBSET Assignments
        BY <1>0
    <2> QED
        BY <1>0, <2>1 DEF Literal
<1>3. Typed(s)
    BY DEF Sound
<1> HIDE DEF c, d, x, y
<1>4. /\ Typed(t) /\ Len(t.mem) = Len(s.mem)
      /\ t.func_to_rram = s.func_to_rram /\ t.free = s.free
      /\ t.mem[dst] = Maj(s.mem[dst], Content(s.mem, x), Assignments \ Content(s.mem, y))
      /\ \A q \in 1..Len(s.mem) : q # dst => t.mem[q] = s.mem[q]
    BY <1>1, <1>3, Rm3Gives, ZenonT(60)
<1> HIDE DEF t
<1>5. t.mem[dst] = Maj(Literal(v[a.node], a.complemented), Literal(v[p.node], c),
                      Literal(v[o.node], o.complemented))
    BY <1>1, <1>2, <1>4
<1> QED
    BY <1>4, <1>5 DEF t, x, y, c, d

-------------------------------------------------------------------------------
(* The list of released registers. *)
InList(f, r) == \E e \in DOMAIN f : f[e] = r
Distinct(f) == \A d, e \in DOMAIN f : f[d] = f[e] => d = e

LEMMA AppendNew ==
    ASSUME NEW S, NEW f \in Seq(S), Distinct(f), NEW r \in S, ~InList(f, r)
    PROVE  /\ Append(f, r) \in Seq(S) /\ Distinct(Append(f, r))
           /\ \A q : InList(Append(f, r), q) => InList(f, q) \/ q = r
<1> DEFINE h == Append(f, r)
           L == Len(f)
<1>1. /\ h \in Seq(S) /\ DOMAIN h = 1..L + 1 /\ DOMAIN f = 1..L /\ L \in Nat
      /\ h[L + 1] = r /\ \A e \in 1..L : h[e] = f[e]
    OBVIOUS
<1> HIDE DEF h, L
<1>2. \A e \in DOMAIN h : (e \in DOMAIN f /\ h[e] = f[e]) \/ e = L + 1
    BY <1>1
<1>3. Distinct(h)
    <2> SUFFICES ASSUME NEW d \in DOMAIN h, NEW e \in DOMAIN h, h[d] = h[e]
                 PROVE  d = e
        BY DEF Distinct
    <2> QED
        BY <1>1, <1>2 DEF Distinct, InList
<1>4. \A q : InList(h, q) => InList(f, q) \/ q = r
    BY <1>1, <1>2 DEF InList
<1> QED
    BY <1>1, <1>3, <1>4 DEF h

LEMMA ReleasedGives ==
    ASSUME NEW L \in Nat, NEW f \in Seq(1..L), Distinct(f), NEW r \in 0..L, NEW dst,
           r # 0 => ~InList(f, r)
    PROVE  LET h == Released(f, r, dst) IN
           /\ h \in Seq(1..L) /\ Distinct(h)
           /\ \A q : InList(h, q) => InList(f, q) \/ (q = r /\ r # 0 /\ r # dst)
<1>1. CASE r \in {0, dst}
    BY <1>1 DEF Released
<1>2. CASE r \notin {0, dst}
    <2>1. r \in 1..L /\ ~InList(f, r) /\ Released(f, r, dst) = Append(f, r)
        BY <1>2 DEF Released
    <2> QED
        BY <1>2, <2>1, AppendNew
<1> QED
    BY <1>1, <1>2

(* The last read of a node. *)
Dies(n) == n # 0 /\ fanout_count[n] = 1

(* What a child gives back is its own. *)
LEMMA FreedGives ==
    ASSUME NEW s, NEW A \in SUBSET Nodes, Typed(s), Owned(s, A), NEW f \in Seq(1..Len(s.mem)),
           Distinct(f), NEW child \in Edges, child.node = 0 \/ child.node \in A, NEW dst,
           \A c \in BOOLEAN : Reg(s, child.node, c) # 0 => ~InList(f, Reg(s, child.node, c))
    PROVE  LET h == Freed(s, f, child, dst) IN
           /\ h \in Seq(1..Len(s.mem)) /\ Distinct(h)
           /\ \A q : InList(h, q) =>
                 \/ InList(f, q)
                 \/ /\ q # dst /\ Dies(child.node)
                    /\ \E c \in BOOLEAN : q = Reg(s, child.node, c) /\ q # 0
<1> DEFINE L == Len(s.mem)
           n == child.node
           a == Reg(s, n, FALSE)
           b == Reg(s, n, TRUE)
           f1 == Released(f, a, dst)
           f2 == Released(f1, b, dst)
<1>1. CASE ~Dies(n)
    <2>1. Freed(s, f, child, dst) = f
        BY <1>1 DEF Freed, Dies
    <2> QED
        BY <2>1
<1>2. CASE Dies(n)
    <2>0. L \in Nat /\ n \in A
        BY <1>2 DEF Typed, Dies
    <2>1. Freed(s, f, child, dst) = f2
        BY <1>2 DEF Freed, Dies
    <2>2. a \in 0..L /\ b \in 0..L
        <3>1. \A c \in BOOLEAN : Reg(s, n, c) \in 0..L
            BY <2>0 DEF Typed, Reg
        <3> QED
            BY <3>1
    <2>3. (a # 0 => ~InList(f, a)) /\ (b # 0 => ~InList(f, b))
        OBVIOUS
    <2>4. b # 0 => b # a
        BY <2>0 DEF Owned
    <2>5. \A q : q \in {a, b} /\ q # 0 => \E c \in BOOLEAN : q = Reg(s, n, c) /\ q # 0
        OBVIOUS
    <2> HIDE DEF a, b, L
    <2>6. /\ f1 \in Seq(1..L) /\ Distinct(f1)
          /\ \A q : InList(f1, q) => InList(f, q) \/ (q = a /\ a # 0 /\ a # dst)
        BY <2>0, <2>2, <2>3, ReleasedGives DEF L
    <2> HIDE DEF f1
    <2>7. b # 0 => ~InList(f1, b)
        BY <2>3, <2>4, <2>6
    <2>8. /\ f2 \in Seq(1..L) /\ Distinct(f2)
          /\ \A q : InList(f2, q) => InList(f1, q) \/ (q = b /\ b # 0 /\ b # dst)
        BY <2>0, <2>2, <2>6, <2>7, ReleasedGives
    <2> HIDE DEF f2
    <2>9. ASSUME NEW q, InList(f2, q)
          PROVE  \/ InList(f, q)
                 \/ q # dst /\ Dies(n) /\ \E c \in BOOLEAN : q = Reg(s, n, c) /\ q # 0
        <3>1. InList(f, q) \/ (q \in {a, b} /\ q # 0 /\ q # dst)
            BY <2>6, <2>8, <2>9
        <3> QED
            BY <1>2, <2>5, <3>1
    <2> QED
        BY <2>1, <2>8, <2>9 DEF L
<1> QED
    BY <1>1, <1>2

(* All that is released belonged to children that nobody reads again.       *)
LEMMA FreedByAllGives ==
    ASSUME NEW s, NEW A \in SUBSET Nodes, Typed(s), Owned(s, A), NEW g \in Gates, NEW dst,
           \A k \in 1..3 : mig[g][k] \in Edges /\ (mig[g][k].node = 0 \/ mig[g][k].node \in A),
           \A k, l \in 1..3 : k # l => mig[g][k].node # mig[g][l].node,
           \A c \in BOOLEAN : Reg(s, 0, c) = 0
    PROVE  LET h == FreedByAll(s, g, dst) IN
           /\ h \in Seq(1..Len(s.mem)) /\ Distinct(h)
           /\ \A q : InList(h, q) =>
                 \/ InList(s.free, q)
                 \/ /\ q # dst /\ q # 0
                    /\ \E k \in 1..3, c \in BOOLEAN :
                          Dies(mig[g][k].node) /\ q = Reg(s, mig[g][k].node, c)
<1> DEFINE N(k) == mig[g][k].node
           From(q, k) == /\ q # dst /\ Dies(N(k))
                         /\ \E c \in BOOLEAN : q = Reg(s, N(k), c) /\ q # 0
           f1 == Freed(s, s.free, mig[g][1], dst)
           f2 == Freed(s, f1, mig[g][2], dst)
           f3 == Freed(s, f2, mig[g][3], dst)
<1>0. 1 \in 1..3 /\ 2 \in 1..3 /\ 3 \in 1..3
    OBVIOUS
<1>1. s.free \in Seq(1..Len(s.mem)) /\ Distinct(s.free)
    BY DEF Typed, Owned, Distinct
<1>2. \A k \in 1..3 : Dies(N(k)) => N(k) \in A
    BY DEF Dies
(* What one child gives back, another does not hold. *)
<1>3. ASSUME NEW k \in 1..3, NEW l \in 1..3, k # l, NEW q, From(q, k), N(l) \in A
      PROVE  \A c \in BOOLEAN : Reg(s, N(l), c) # q
    <2>1. N(k) \in A /\ N(k) # N(l)
        BY <1>2, <1>3
    <2>2. PICK c \in BOOLEAN : q = Reg(s, N(k), c) /\ q # 0
        BY <1>3
    <2> HIDE DEF N
    <2> QED
        BY <1>3, <2>1, <2>2 DEF Owned
<1>4. ASSUME NEW k \in 1..3, N(k) \in A
      PROVE  \A c \in BOOLEAN : ~InList(s.free, Reg(s, N(k), c))
    BY <1>4 DEF Owned, InList
<1>5. ASSUME NEW k \in 1..3
      PROVE  mig[g][k] \in Edges /\ (N(k) = 0 \/ N(k) \in A)
    OBVIOUS
<1>6. FreedByAll(s, g, dst) = f3
    BY DEF FreedByAll
<1>7. ASSUME NEW f, NEW l \in 1..3,
             \A q : InList(f, q) => InList(s.free, q) \/ \E k \in 1..3 \ {l} : From(q, k)
      PROVE  \A c \in BOOLEAN : Reg(s, N(l), c) # 0 => ~InList(f, Reg(s, N(l), c))
    <2>1. CASE N(l) = 0
        BY <2>1
    <2>2. CASE N(l) \in A
        <3> SUFFICES ASSUME NEW c \in BOOLEAN, InList(f, Reg(s, N(l), c))
                     PROVE  FALSE
            OBVIOUS
        <3> DEFINE q == Reg(s, N(l), c)
        <3>1. ~InList(s.free, q)
            BY <1>4, <2>2
        <3>2. PICK k \in 1..3 \ {l} : From(q, k)
            BY <1>7, <3>1
        <3>3. Reg(s, N(l), c) # q
            <4> HIDE DEF q, From, N
            <4> QED
                BY <1>3, <2>2, <3>2
        <3> QED
            BY <3>3
    <2> QED
        BY <1>5, <2>1, <2>2
<1> DEFINE L == Len(s.mem)
<1>8. ASSUME NEW f \in Seq(1..L), Distinct(f), NEW l \in 1..3,
             \A q : InList(f, q) => InList(s.free, q) \/ \E k \in 1..3 \ {l} : From(q, k)
      PROVE  LET h == Freed(s, f, mig[g][l], dst) IN
             /\ h \in Seq(1..L) /\ Distinct(h)
             /\ \A q : InList(h, q) => InList(f, q) \/ From(q, l)
    <2> DEFINE child == mig[g][l]
    <2>1. \A c \in BOOLEAN : Reg(s, child.node, c) # 0 => ~InList(f, Reg(s, child.node, c))
        BY <1>7, <1>8
    <2>2. child \in Edges /\ (child.node = 0 \/ child.node \in A)
        BY <1>5
    <2> HIDE DEF child
    <2> DEFINE h == Freed(s, f, child, dst)
    <2>3. /\ h \in Seq(1..L) /\ Distinct(h)
          /\ \A q : InList(h, q) =>
                \/ InList(f, q)
                \/ /\ q # dst /\ Dies(child.node)
                   /\ \E c \in BOOLEAN : q = Reg(s, child.node, c) /\ q # 0
        BY <1>8, <2>1, <2>2, FreedGives
    <2> HIDE DEF h
    <2> QED
        BY <2>3 DEF child, h
<1> HIDE DEF From, N
<1>9. /\ f1 \in Seq(1..L) /\ Distinct(f1)
      /\ \A q : InList(f1, q) => InList(s.free, q) \/ From(q, 1)
    BY <1>0, <1>1, <1>8
<1> HIDE DEF f1
<1>10. /\ f2 \in Seq(1..L) /\ Distinct(f2)
       /\ \A q : InList(f2, q) => InList(f1, q) \/ From(q, 2)
    <2>1. \A q : InList(f1, q) => InList(s.free, q) \/ \E k \in 1..3 \ {2} : From(q, k)
        BY <1>0, <1>9
    <2> QED
        BY <1>0, <1>8, <1>9, <2>1
<1> HIDE DEF f2
<1>11. /\ f3 \in Seq(1..L) /\ Distinct(f3)
       /\ \A q : InList(f3, q) => InList(f2, q) \/ From(q, 3)
    <2>1. \A q : InList(f2, q) => InList(s.free, q) \/ \E k \in 1..3 \ {3} : From(q, k)
        BY <1>0, <1>9, <1>10
    <2> QED
        BY <1>0, <1>8, <1>10, <2>1
<1> HIDE DEF f3
<1>12. \A q : InList(f3, q) => InList(s.free, q) \/ \E k \in 1..3 : From(q, k)
    BY <1>0, <1>9, <1>10, <1>11
<1> QED
    BY <1>6, <1>11, <1>12 DEF From, N

-------------------------------------------------------------------------------
(* Which child goes where. *)
LEMMA FirstIn ==
    ASSUME NEW S \in SUBSET (1..3), S # {}
    PROVE  First(S) \in S
<1>1. \E i \in S : \A j \in S : i <= j
    <2>1. CASE 1 \in S
        BY <2>1
    <2>2. CASE 1 \notin S /\ 2 \in S
        <3>1. \A j \in S : 2 <= j
            BY <2>2
        <3> QED
            BY <2>2, <3>1
    <2>3. CASE S = {3}
        BY <2>3
    <2>4. 1 \in S \/ 2 \in S \/ S = {3}
        <3>1. \A x \in S : x = 1 \/ x = 2 \/ x = 3
            OBVIOUS
        <3> QED
            BY <3>1
    <2> QED
        BY <2>1, <2>2, <2>3, <2>4
<1> QED
    BY <1>1 DEF First

LEMMA NegativeChildIn ==
    ASSUME NEW g \in Gates
    PROVE  NegativeChild(g) \in 1..3
<1> DEFINE inv == Inverters(g)
           inverted == {i \in 1..3 : Reg(work, mig[g][i].node, TRUE) # 0}
           shared == SharedChildren(g)
<1>1. inv \in SUBSET (1..3) /\ inverted \in SUBSET (1..3) /\ shared \in SUBSET (1..3)
    BY DEF Inverters, SharedChildren
<1>2. inverted # {} => First(inverted) \in 1..3
    BY <1>1, FirstIn
<1>3. shared # {} => First(shared) \in 1..3
    BY <1>1, FirstIn
<1>4. inv \cap shared # {} => First(inv \cap shared) \in 1..3
    BY <1>1, FirstIn
<1>5. Cardinality(inv) = 1 \/ Cardinality(inv) > 1 => First(inv) \in inv
    BY <1>1, FirstIn, FS_EmptySet
<1>6. Cardinality(inv) > 1 => First(inv \ {First(inv)}) \in 1..3
    <2> SUFFICES ASSUME Cardinality(inv) > 1
                 PROVE  First(inv \ {First(inv)}) \in 1..3
        OBVIOUS
    <2> DEFINE f == First(inv)
    <2>1. f \in inv
        BY <1>5
    <2> HIDE DEF f, inv
    <2>2. inv \ {f} # {}
        <3>1. Cardinality({f}) = 1
            BY FS_Singleton
        <3>2. inv \ {f} = {} => inv = {f}
            BY <2>1
        <3> QED
            BY <3>1, <3>2
    <2>3. First(inv \ {f}) \in inv \ {f}
        BY <1>1, <2>2, FirstIn
    <2> QED
        BY <1>1, <2>3 DEF f
<1> HIDE DEF inv, inverted, shared
<1>7. NegativeChild(g) =
        CASE Cardinality(inv) = 1 -> First(inv)
          [] Cardinality(inv) > 1 ->
                IF mig[g][First(inv)].node = 0 THEN First(inv \ {First(inv)})
                ELSE IF inv \cap shared # {} THEN First(inv \cap shared)
                ELSE First(inv)
          [] OTHER ->
                IF mig[g][1].node = 0 THEN 1
                ELSE IF inverted # {} THEN First(inverted)
                ELSE IF shared # {} THEN First(shared)
                ELSE 1
    BY DEF NegativeChild, inv, inverted, shared
<1> QED
    BY <1>1, <1>2, <1>3, <1>4, <1>5, <1>6, <1>7

LEMMA DestinationChildIn ==
    ASSUME NEW s, NEW g \in Gates, NEW others \in SUBSET (1..3), others # {}
    PROVE  DestinationChild(s, g, others) \in others
<1> DEFINE reusable == {i \in others : Reusable(s, mig[g][i])}
           inv == others \cap Inverters(g)
<1>1. reusable \in SUBSET (1..3) /\ inv \in SUBSET (1..3)
    OBVIOUS
<1>2. First(others) \in others
    BY FirstIn
<1>3. reusable # {} => First(reusable) \in others
    BY <1>1, FirstIn
<1>4. inv # {} => First(inv) \in others
    BY <1>1, FirstIn
<1>5. reusable \cap inv # {} => First(reusable \cap inv) \in others
    BY <1>1, FirstIn
<1> HIDE DEF reusable, inv
<1>6. DestinationChild(s, g, others) =
        CASE reusable # {} -> First(IF reusable \cap inv # {} THEN reusable \cap inv ELSE reusable)
          [] reusable = {} /\ mig[g][First(others)].node # 0 /\ inv # {} -> First(inv)
          [] OTHER -> First(others)
    BY DEF DestinationChild, reusable, inv
<1> QED
    BY <1>2, <1>3, <1>4, <1>5, <1>6

-------------------------------------------------------------------------------
(* The operands of a gate, made one after the other. *)
LEMMA NegatedGives ==
    ASSUME NEW A \in SUBSET Nodes, NEW v \in [Nodes -> SUBSET Assignments],
           Sound(work, A, v), NEW child \in Edges, child.node = 0 \/ child.node \in A,
           Unknown \subseteq Assignments
    PROVE  LET t == Negated(child) IN
           /\ Sound(t, A, v) /\ Grown(t, work, A)
           /\ Readable(t, A, child.node, ~child.complemented)
<1> DEFINE c == child.complemented
<1>0. c \in BOOLEAN /\ child.node \in Nodes
    BY DEF Edges
<1>1. CASE child.node = 0
    BY <1>1 DEF Negated, Grown, Readable
<1>2. CASE child.node # 0 /\ c = TRUE
    <2>1. Negated(child) = work /\ Grown(work, work, A)
        BY <1>2 DEF Negated, Grown
    <2>2. Reg(work, child.node, FALSE) # 0
        BY <1>2 DEF Sound, Held
    <2>3. (~c) = FALSE
        BY <1>2
    <2> QED
        BY <1>2, <2>1, <2>2, <2>3 DEF Readable
<1>3. CASE child.node # 0 /\ c = FALSE
    <2> DEFINE t == WithComplement(work, child.node)
    <2>1. Negated(child) = t /\ child.node \in A
        BY <1>3 DEF Negated
    <2>2. Sound(t, A, v) /\ Grown(t, work, A) /\ Reg(t, child.node, TRUE) # 0
        BY <2>1, WithComplementGrows
    <2>3. (~c) = TRUE
        BY <1>3
    <2> QED
        BY <1>3, <2>1, <2>2, <2>3 DEF Readable
<1> QED
    BY <1>0, <1>1, <1>2, <1>3

LEMMA ComplementedGives ==
    ASSUME NEW s, NEW A \in SUBSET Nodes, NEW v \in [Nodes -> SUBSET Assignments],
           Sound(s, A, v), NEW pos \in Edges, pos.node = 0 \/ pos.node \in A,
           Unknown \subseteq Assignments
    PROVE  LET t == Complemented(s, pos) IN
           /\ Sound(t, A, v) /\ Grown(t, s, A)
           /\ Readable(t, A, pos.node, pos.complemented)
           /\ \A q : Outside(s, A, q) => Outside(t, A, q) /\ t.mem[q] = s.mem[q]
<1> DEFINE c == pos.complemented
           n == pos.node
<1>0. c \in BOOLEAN /\ n \in Nodes
    BY DEF Edges
<1>1. CASE n = 0
    BY <1>1 DEF Complemented, Grown, Readable
<1>2. CASE n # 0 /\ c = FALSE
    <2>1. Complemented(s, pos) = s /\ Grown(s, s, A)
        BY <1>2 DEF Complemented, Grown
    <2>2. Reg(s, n, FALSE) # 0
        BY <1>2 DEF Sound, Held
    <2> QED
        BY <1>2, <2>1, <2>2 DEF Readable
<1>3. CASE n # 0 /\ c = TRUE
    <2> DEFINE t == WithComplement(s, n)
    <2>1. Complemented(s, pos) = t /\ n \in A
        BY <1>3 DEF Complemented
    <2>2. /\ Sound(t, A, v) /\ Grown(t, s, A) /\ Reg(t, n, TRUE) # 0
          /\ \A q : Outside(s, A, q) => Outside(t, A, q) /\ t.mem[q] = s.mem[q]
        BY <2>1, WithComplementGrows
    <2> QED
        BY <1>3, <2>1, <2>2 DEF Readable
<1> QED
    BY <1>0, <1>1, <1>2, <1>3

(* What one gate's operands need: dst holds its child, the other two can be   *)
(* read, and nobody who is still to be read loses the destination.          *)
Ready(s, A, v, dst, a, p, o) ==
    /\ Sound(s, A, v)
    /\ dst \in 1..Len(s.mem) /\ s.mem[dst] = Literal(v[a.node], a.complemented)
    /\ Readable(s, A, p.node, p.complemented) /\ Readable(s, A, o.node, ~o.complemented)
    /\ \/ Outside(s, A, dst)
       \/ Dies(a.node) /\ dst = Reg(s, a.node, a.complemented)

LEMMA ReadableStays ==
    ASSUME NEW s, NEW t, NEW A \in SUBSET Nodes, Grown(t, s, A), NEW n, NEW c \in BOOLEAN,
           Readable(s, A, n, c)
    PROVE  Readable(t, A, n, c)
BY DEF Grown, Readable

LEMMA OperandsReady ==
    ASSUME NEW A \in SUBSET Nodes, NEW v \in [Nodes -> SUBSET Assignments], v[0] = {},
           Sound(work, A, v), Unknown \subseteq Assignments,
           NEW a \in Edges, NEW p \in Edges, NEW o \in Edges,
           \A x \in {a, p, o} : x.node = 0 \/ x.node \in A
    PROVE  LET s1 == Negated(o)
               dst == Destination(s1, a)
               s == Complemented(Prepared(s1, a), p) IN
           Ready(s, A, v, dst, a, p, o) /\ Grown(s, work, A)
<1> DEFINE s1 == Negated(o)
           dst == Destination(s1, a)
           s2 == Prepared(s1, a)
           s == Complemented(s2, p)
           c == a.complemented
           d == ~o.complemented
<1>0. c \in BOOLEAN /\ d \in BOOLEAN /\ p.complemented \in BOOLEAN /\ a.node \in Nodes
    BY DEF Edges
<1>1. Sound(s1, A, v) /\ Grown(s1, work, A) /\ Readable(s1, A, o.node, d)
    BY NegatedGives
<1> HIDE DEF s1, d
<1>2. /\ Sound(s2, A, v) /\ s2.func_to_rram = s1.func_to_rram
      /\ dst \in 1..Len(s2.mem) /\ s2.mem[dst] = Literal(v[a.node], c)
      /\ \/ Outside(s2, A, dst)
         \/ Reusable(s1, a) /\ dst = Reg(s2, a.node, c)
    <2>0. Sound(s1, A, v) /\ (a.node = 0 \/ a.node \in A)
        BY <1>1
    <2>1. Sound(Prepared(s1, a), A, v)
        BY <2>0, PreparedGives
    <2>2. Prepared(s1, a).func_to_rram = s1.func_to_rram
        BY <2>0, <2>1, PreparedGives
    <2>3. Destination(s1, a) \in 1..Len(Prepared(s1, a).mem)
        BY <2>0, <2>1, PreparedGives
    <2>4. Prepared(s1, a).mem[Destination(s1, a)] = Literal(v[a.node], a.complemented)
        BY <2>0, <2>1, PreparedGives
    <2>5. \/ Outside(Prepared(s1, a), A, Destination(s1, a))
          \/ /\ Reusable(s1, a)
             /\ Destination(s1, a) = Reg(Prepared(s1, a), a.node, a.complemented)
        BY <2>0, <2>1, PreparedGives
    <2> QED
        BY <2>1, <2>2, <2>3, <2>4, <2>5
<1> HIDE DEF s2, dst
<1>3. /\ Sound(s, A, v) /\ Grown(s, s2, A) /\ Readable(s, A, p.node, p.complemented)
      /\ \A q : Outside(s2, A, q) => Outside(s, A, q) /\ s.mem[q] = s2.mem[q]
    BY <1>2, ComplementedGives
<1> HIDE DEF s
<1>4. Grown(s, s1, A) /\ Grown(s, work, A)
    BY <1>1, <1>2, <1>3 DEF Grown, Reg
<1>5. Readable(s, A, o.node, d)
    BY <1>0, <1>1, <1>4, ReadableStays
<1>6. CASE Outside(s2, A, dst)
    <2>1. Outside(s, A, dst) /\ s.mem[dst] = s2.mem[dst]
        BY <1>3, <1>6
    <2>2. dst \in 1..Len(s.mem)
        BY <2>1 DEF Outside
    <2> QED
        BY <1>2, <1>3, <1>4, <1>5, <2>1, <2>2 DEF Ready, s, s1, s2, dst, d
<1>7. CASE Reusable(s1, a) /\ dst = Reg(s2, a.node, c)
    <2>1. Dies(a.node) /\ a.node \in A
        BY <1>7 DEF Reusable, Dies
    <2>2. Reg(s2, a.node, c) # 0
        BY <1>2, <1>7 DEF Reusable, Reg
    <2>3. Reg(s, a.node, c) = dst /\ dst # 0
        BY <1>0, <1>3, <1>7, <2>1, <2>2 DEF Grown
    <2>4. s.mem[dst] = Literal(v[a.node], c)
        <3>1. Held(s, A, v)
            BY <1>3 DEF Sound
        <3>2. s.mem[Reg(s, a.node, c)] = Literal(v[a.node], c)
            BY <1>0, <2>1, <2>3, <3>1, RegContent
        <3> QED
            BY <2>3, <3>2
    <2>5. Reg(s, a.node, c) \in 0..Len(s.mem) /\ Len(s.mem) \in Nat
        <3>1. Typed(s)
            BY <1>3 DEF Sound
        <3> HIDE DEF c
        <3> QED
            BY <1>0, <3>1, SMTT(40) DEF Typed, Reg
    <2>6. dst \in 1..Len(s.mem)
        BY <2>3, <2>5
    <2> QED
        BY <1>2, <1>3, <1>4, <1>5, <2>1, <2>3, <2>4, <2>6 DEF Ready, s, s1, s2, dst, d
<1> QED
    BY <1>2, <1>6, <1>7

(* The three children are different nodes, and the constant or live. *)
ChildrenIn(g, A) ==
    /\ \A k \in 1..3 : mig[g][k] \in Edges /\ (mig[g][k].node = 0 \/ mig[g][k].node \in A)
    /\ \A k, l \in 1..3 : k # l => mig[g][k].node # mig[g][l].node

Unused(s, g) == \A c \in BOOLEAN : Reg(s, 0, c) = 0 /\ Reg(s, g, c) = 0

(* Who is live after a gate: the gate, and who was so and has other readers. *)
Survive(B, A, g) ==
    \A n \in B : n # g => n \in A /\ \A k \in 1..3 : mig[g][k].node = n => ~Dies(n)

SameElsewhere(t, s, g) ==
    \A n \in Nodes, c \in BOOLEAN : n # g => Reg(t, n, c) = Reg(s, n, c)

(* After the instruction the gate is live, its dying children are not, and    *)
(* every register has one owner again.                                      *)
LEMMA FinishedGives ==
    ASSUME NEW s, NEW A \in SUBSET Nodes, NEW v \in [Nodes -> SUBSET Assignments], v[0] = {},
           NEW g \in Gates, NEW dst, NEW a \in 1..3, NEW p \in 1..3, NEW o \in 1..3,
           Ready(s, A, v, dst, mig[g][a], mig[g][p], mig[g][o]),
           ChildrenIn(g, A), Unused(s, g), g \notin A,
           NEW B \in SUBSET Nodes, Survive(B, A, g),
           NEW new \in SUBSET Assignments,
           new = Maj(Literal(v[mig[g][a].node], mig[g][a].complemented),
                     Literal(v[mig[g][p].node], mig[g][p].complemented),
                     Literal(v[mig[g][o].node], mig[g][o].complemented))
    PROVE  LET t == Finished(s, g, dst, mig[g][p], mig[g][o]) IN
           /\ Sound(t, B, [v EXCEPT ![g] = new])
           /\ SameElsewhere(t, s, g)
<1> DEFINE ca == mig[g][a]
           cp == mig[g][p]
           co == mig[g][o]
           x == Rm3(s, dst, Operand(s, cp.node, cp.complemented),
                            Operand(s, co.node, ~co.complemented))
           no == FALSE
           u == Insert(x, g, no, dst)
           F == FreedByAll(s, g, dst)
           t == Machine(u.mem, u.func_to_rram, F, u.rram_count)
           w == [v EXCEPT ![g] = new]
           L == Len(s.mem)
<1>0. /\ ca \in Edges /\ cp \in Edges /\ co \in Edges /\ g \in Nodes /\ 0 \in Nodes
      /\ (ca.node = 0 \/ ca.node \in A) /\ ca.complemented \in BOOLEAN
    BY DEF Nodes, Edges, ChildrenIn
<1>1. /\ Sound(s, A, v) /\ dst \in 1..L
      /\ s.mem[dst] = Literal(v[ca.node], ca.complemented)
      /\ Readable(s, A, cp.node, cp.complemented) /\ Readable(s, A, co.node, ~co.complemented)
      /\ \/ Outside(s, A, dst)
         \/ Dies(ca.node) /\ dst = Reg(s, ca.node, ca.complemented)
    BY DEF Ready
<1>2. Typed(s) /\ Owned(s, A) /\ Held(s, A, v) /\ L \in Nat
    BY <1>1 DEF Sound, Typed
<1>3. Finished(s, g, dst, cp, co) = t
    BY DEF Finished
<1> HIDE DEF ca, cp, co
<1>4. /\ Typed(x) /\ Len(x.mem) = L
      /\ x.func_to_rram = s.func_to_rram /\ x.free = s.free
      /\ x.mem[dst] = Maj(Literal(v[ca.node], ca.complemented),
                          Literal(v[cp.node], cp.complemented),
                          Literal(v[co.node], co.complemented))
      /\ \A q \in 1..L : q # dst => x.mem[q] = s.mem[q]
    <2> DEFINE xx == Rm3(s, dst, Operand(s, cp.node, cp.complemented),
                                 Operand(s, co.node, ~co.complemented))
    <2>1. /\ Typed(xx) /\ Len(xx.mem) = Len(s.mem)
          /\ xx.func_to_rram = s.func_to_rram /\ xx.free = s.free
          /\ xx.mem[dst] = Maj(Literal(v[ca.node], ca.complemented),
                               Literal(v[cp.node], cp.complemented),
                               Literal(v[co.node], co.complemented))
          /\ \A q \in 1..Len(s.mem) : q # dst => xx.mem[q] = s.mem[q]
        BY <1>0, <1>1, InstructionGives, SMTT(40)
    <2> QED
        BY <2>1, SMTT(40)
<1>5. x.mem[dst] = new
    BY <1>4 DEF ca, cp, co
<1> HIDE DEF x
<1>6. dst \in 1..Len(x.mem) /\ no \in BOOLEAN
    BY <1>1, <1>4
<1> HIDE DEF no
<1>7. /\ Typed(u) /\ u.mem = x.mem
      /\ Reg(u, g, no) = dst
      /\ \A n \in Nodes, d \in BOOLEAN : n # g \/ d # no => Reg(u, n, d) = Reg(x, n, d)
    BY <1>0, <1>4, <1>6, InsertGives, SMTT(40)
<1> HIDE DEF u
<1>8. /\ F \in Seq(1..L) /\ Distinct(F)
      /\ \A q : InList(F, q) =>
            \/ InList(s.free, q)
            \/ /\ q # dst /\ q # 0
               /\ \E k \in 1..3, c \in BOOLEAN :
                     Dies(mig[g][k].node) /\ q = Reg(s, mig[g][k].node, c)
    BY <1>2, FreedByAllGives, SMTT(40) DEF ChildrenIn, Unused
<1> HIDE DEF F
<1>9. /\ t.mem = x.mem /\ t.func_to_rram = u.func_to_rram /\ t.free = F
      /\ t.rram_count = u.rram_count
    BY <1>7 DEF Machine
<1> HIDE DEF t
<1>10. Typed(t)
    BY <1>4, <1>7, <1>8, <1>9 DEF Typed
<1>11. /\ Reg(t, g, no) = dst
       /\ \A n \in Nodes, d \in BOOLEAN : n # g \/ d # no => Reg(t, n, d) = Reg(s, n, d)
    BY <1>4, <1>7, <1>9 DEF Reg
<1>12. \A c \in BOOLEAN : c # no => Reg(t, g, c) = 0
    BY <1>0, <1>11 DEF Unused
<1>13. \A n \in B : n # g => n \in A /\ n \in Nodes /\ \A c \in BOOLEAN : Reg(t, n, c) = Reg(s, n, c)
    BY <1>11 DEF Survive
(* The others keep clear of the destination. *)
<1>14. ASSUME NEW n \in B, n # g, NEW c \in BOOLEAN
       PROVE  Reg(s, n, c) # dst
    <2>1. CASE Outside(s, A, dst)
        BY <1>13, <1>14, <2>1 DEF Outside
    <2>2. CASE Dies(ca.node) /\ dst = Reg(s, ca.node, ca.complemented)
        <3>1. ca.node \in A /\ ca.node # n
            BY <1>0, <1>14, <2>2 DEF ca, Dies, Survive
        <3>2. dst # 0
            BY <1>1, <1>2
        <3> QED
            BY <1>0, <1>2, <1>13, <1>14, <2>2, <3>1, <3>2 DEF Owned
    <2> QED
        BY <1>1, <2>1, <2>2
<1>15. ~InList(s.free, dst)
    <2>1. CASE Outside(s, A, dst)
        BY <2>1 DEF Outside, InList
    <2>2. CASE Dies(ca.node) /\ dst = Reg(s, ca.node, ca.complemented)
        <3>1. ca.node \in A
            BY <1>0, <2>2 DEF Dies
        <3> QED
            BY <1>0, <1>2, <2>2, <3>1 DEF Owned, InList
    <2> QED
        BY <1>1, <2>1, <2>2
<1>16. ~InList(F, dst)
    BY <1>8, <1>15
<1>17. ASSUME NEW n \in B, n # g, NEW c \in BOOLEAN
       PROVE  ~InList(F, Reg(s, n, c))
    <2> SUFFICES ASSUME InList(F, Reg(s, n, c))
                 PROVE  FALSE
        OBVIOUS
    <2> DEFINE q == Reg(s, n, c)
    <2>0. n \in A
        BY <1>13, <1>17
    <2>1. ~InList(s.free, q)
        BY <1>2, <2>0 DEF Owned, InList
    <2>2. q # 0
        BY <1>8, <2>1
    <2>3. PICK k \in 1..3, d \in BOOLEAN :
             Dies(mig[g][k].node) /\ q = Reg(s, mig[g][k].node, d)
        BY <1>8, <2>1
    <2>4. mig[g][k].node \in A /\ mig[g][k].node # n
        BY <1>17, <2>3 DEF Dies, ChildrenIn, Survive
    <2> QED
        BY <1>2, <2>0, <2>2, <2>3, <2>4 DEF Owned
<1>18. Owned(t, B)
    <2>1. ASSUME NEW m \in B, NEW n \in B, NEW c \in BOOLEAN, NEW d \in BOOLEAN,
                 Reg(t, m, c) # 0, Reg(t, m, c) = Reg(t, n, d)
          PROVE  m = n /\ c = d
        <3>1. CASE m = g /\ n = g
            BY <1>6, <1>12, <2>1, <3>1
        <3>2. CASE m = g /\ n # g
            <4>1. Reg(t, m, c) = dst
                BY <1>11, <1>12, <2>1, <3>2
            <4>2. Reg(t, n, d) = Reg(s, n, d) /\ Reg(s, n, d) # dst
                BY <1>13, <1>14, <2>1, <3>2
            <4> QED
                BY <2>1, <4>1, <4>2
        <3>3. CASE m # g /\ n = g
            <4>1. Reg(t, n, d) = dst
                BY <1>11, <1>12, <2>1, <3>3
            <4>2. Reg(t, m, c) = Reg(s, m, c) /\ Reg(s, m, c) # dst
                BY <1>13, <1>14, <2>1, <3>3
            <4> QED
                BY <2>1, <4>1, <4>2
        <3>4. CASE m # g /\ n # g
            <4>1. /\ m \in A /\ Reg(t, m, c) = Reg(s, m, c)
                  /\ n \in A /\ Reg(t, n, d) = Reg(s, n, d)
                BY <1>13, <2>1, <3>4
            <4>2. Reg(s, m, c) # 0 /\ Reg(s, m, c) = Reg(s, n, d)
                BY <2>1, <4>1
            <4> QED
                BY <1>2, <4>1, <4>2 DEF Owned
        <3> QED
            BY <3>1, <3>2, <3>3, <3>4
    <2>2. ASSUME NEW n \in B, NEW c \in BOOLEAN, NEW e \in DOMAIN F
          PROVE  F[e] # Reg(t, n, c)
        <3>0. InList(F, F[e]) /\ F[e] # 0
            BY <1>2, <1>8 DEF InList
        <3>1. CASE n = g
            BY <1>11, <1>12, <1>16, <3>0, <3>1
        <3>2. CASE n # g
            BY <1>13, <1>17, <3>0, <3>2
        <3> QED
            BY <3>1, <3>2
    <2>3. \A d, e \in DOMAIN F : F[d] = F[e] => d = e
        BY <1>8 DEF Distinct
    <2> QED
        BY <1>9, <2>1, <2>2, <2>3 DEF Owned
<1>19. w[g] = new /\ \A n \in Nodes : n # g => w[n] = v[n]
    BY <1>0
<1> HIDE DEF w
<1>20. Held(t, B, w)
    <2> SUFFICES ASSUME NEW n \in B
                 PROVE  /\ Reg(t, n, FALSE) # 0 /\ t.mem[Reg(t, n, FALSE)] = w[n]
                        /\ Reg(t, n, TRUE) # 0 => t.mem[Reg(t, n, TRUE)] = Assignments \ w[n]
        BY DEF Held
    <2>1. CASE n = g
        <3>1. Reg(t, g, FALSE) = dst
            BY <1>11 DEF no
        <3>2. dst # 0
            BY <1>1, <1>2
        <3>3. TRUE # no
            BY DEF no
        <3>4. Reg(t, g, TRUE) = 0
            BY <1>12, <3>3
        <3> QED
            BY <1>5, <1>9, <1>19, <2>1, <3>1, <3>2, <3>4
    <2>2. CASE n # g
        <3>1. n \in A /\ w[n] = v[n] /\ \A c \in BOOLEAN : Reg(t, n, c) = Reg(s, n, c)
            BY <1>13, <1>19, <2>2
        <3>2. \A c \in BOOLEAN : Reg(s, n, c) \in 0..L /\ Reg(s, n, c) # dst
            BY <1>2, <1>13, <1>14, <2>2 DEF Typed, Reg
        <3>3. \A c \in BOOLEAN : Reg(s, n, c) # 0 => t.mem[Reg(s, n, c)] = s.mem[Reg(s, n, c)]
            BY <1>2, <1>4, <1>9, <3>2
        <3> QED
            BY <1>2, <3>1, <3>3 DEF Held
    <2> QED
        BY <2>1, <2>2
<1>21. Sound(t, B, w)
    BY <1>10, <1>18, <1>20 DEF Sound
<1> QED
    BY <1>3, <1>11, <1>21 DEF w, t, cp, co, SameElsewhere

-------------------------------------------------------------------------------
(* The state, in the terms of a machine. *)
LEMMA StateIsSound ==
    ASSUME TypeOK
    PROVE  /\ Typed(work) /\ Alive \in SUBSET Nodes
           /\ RegistersHold <=> Held(work, Alive, value)
           /\ OneOwner <=> Owned(work, Alive)
<1>1. Typed(work) /\ Alive \in SUBSET Nodes
    BY DEF TypeOK, Typed, Alive
<1>2. \A n : Literal(value[n], TRUE) = Assignments \ value[n]
    BY DEF Literal
<1>3. RegistersHold <=> Held(work, Alive, value)
    BY <1>2 DEF RegistersHold, Held
<1>4. OneOwner <=> Owned(work, Alive)
    BY DEF OneOwner, Owned
<1> QED
    BY <1>1, <1>3, <1>4

(* A candidate has everything it reads. *)
LEMMA CandidateGives ==
    ASSUME IInv, NEW g \in Gates, g \in candidates
    PROVE  /\ g \notin computed /\ Children(g) \subseteq computed /\ g \notin Children(g)
           /\ \A n \in Children(g) : n \in Nodes /\ g \in Readers(n) /\ fanout_count[n] > 0
           /\ \A k \in 1..3 : mig[g][k] \in Edges /\ (mig[g][k].node = 0 \/ mig[g][k].node \in Alive)
           /\ \A k, l \in 1..3 : k # l => mig[g][k].node # mig[g][l].node
<1>0. /\ IsMig(mig) /\ fanout_count \in [Nodes -> Nat] /\ computed \subseteq Nodes
      /\ IsFiniteSet(Gates) /\ Nodes \subseteq Nat
    BY GraphAssumption DEF IInv, TypeOK, Nodes
<1>1. g \notin computed /\ Children(g) \subseteq computed
    BY DEF IInv, CandidatesReady
<1>2. \A k \in 1..3 : mig[g][k] \in Edges
    BY <1>0 DEF IsMig, Edges
<1>3. \A k \in 1..3 : mig[g][k].node \in Nodes /\ mig[g][k].node \in Children(g)
    BY <1>2 DEF Edges, Children
<1>4. /\ mig[g][1].node < mig[g][2].node /\ mig[g][2].node < mig[g][3].node
      /\ mig[g][3].node < g
    BY <1>0 DEF IsMig
<1>5. mig[g][1].node \in Nat /\ mig[g][2].node \in Nat /\ mig[g][3].node \in Nat /\ g \in Nat
    BY <1>0, <1>3 DEF Nodes
<1>6. g \notin Children(g)
    <2>1. mig[g][1].node # g /\ mig[g][2].node # g /\ mig[g][3].node # g
        BY <1>4, <1>5
    <2>2. \A k \in 1..3 : k = 1 \/ k = 2 \/ k = 3
        OBVIOUS
    <2> QED
        BY <2>1, <2>2 DEF Children
<1>7. \A k, l \in 1..3 : k # l => mig[g][k].node # mig[g][l].node
    <2>1. /\ mig[g][1].node # mig[g][2].node /\ mig[g][1].node # mig[g][3].node
          /\ mig[g][2].node # mig[g][3].node
        BY <1>4, <1>5
    <2>2. \A k \in 1..3 : k = 1 \/ k = 2 \/ k = 3
        OBVIOUS
    <2> QED
        BY <2>1, <2>2
<1>8. \A n \in Children(g) : n \in Nodes /\ g \in Readers(n) /\ fanout_count[n] > 0
    <2> SUFFICES ASSUME NEW n \in Children(g)
                 PROVE  n \in Nodes /\ g \in Readers(n) /\ fanout_count[n] > 0
        OBVIOUS
    <2>1. n \in Nodes /\ g \in Readers(n)
        BY <1>0, <1>1 DEF Readers
    <2>2. IsFiniteSet(Readers(n))
        BY <1>0, FS_Subset DEF Readers
    <2>3. Cardinality(Readers(n)) # 0
        BY <2>1, <2>2, FS_EmptySet
    <2>4. fanout_count[n] = Cardinality(Readers(n)) /\ fanout_count[n] \in Nat
        BY <1>0, <2>1 DEF IInv, FanoutsRemain
    <2> QED
        BY <2>1, <2>3, <2>4
<1>9. \A k \in 1..3 : mig[g][k].node = 0 \/ mig[g][k].node \in Alive
    BY <1>1, <1>3, <1>8 DEF Alive
<1> QED
    BY <1>1, <1>2, <1>6, <1>7, <1>8, <1>9

(* What a round leaves of the machine. *)
LEMMA CompileWorks ==
    ASSUME IInv, NEW g \in Gates, Compile(g)
    PROVE  /\ Sound(work', Alive', value')
           /\ value' \in [Nodes -> SUBSET Assignments] /\ value'[0] = {}
           /\ \A n \in Nodes, c \in BOOLEAN :
                 n # g /\ n \notin Alive => Reg(work', n, c) = Reg(work, n, c)
<1> DEFINE A == Alive
           i == NegativeChild(g)
           o == mig[g][i]
           s1 == Negated(o)
           j == DestinationChild(s1, g, 1..3 \ {i})
           a == mig[g][j]
           dst == Destination(s1, a)
           k == 6 - i - j
           p == mig[g][k]
           s == Complemented(Prepared(s1, a), p)
           t == Finished(s, g, dst, p, o)
           lit(l) == Literal(value[mig[g][l].node], mig[g][l].complemented)
           new == Maj(lit(1), lit(2), lit(3))
<1>0. /\ TypeOK /\ g \in candidates /\ value[0] = {} /\ Unassigned /\ RegistersHold /\ OneOwner
      /\ value \in [Nodes -> SUBSET Assignments] /\ fanout_count \in [Nodes -> Nat]
      /\ 0 \in computed /\ mig' = mig /\ Unknown \subseteq Assignments
      /\ g \in Nodes /\ g # 0 /\ 0 \in Nodes /\ computed \subseteq Nodes
    BY GraphAssumption, ValueAssumption DEF IInv, TypeOK, Compile, Nodes
<1>1. Sound(work, A, value) /\ A \in SUBSET Nodes
    BY <1>0, StateIsSound DEF Sound
<1>2. /\ g \notin computed /\ Children(g) \subseteq computed /\ g \notin Children(g)
      /\ \A n \in Children(g) : n \in Nodes /\ g \in Readers(n) /\ fanout_count[n] > 0
      /\ \A l \in 1..3 : mig[g][l] \in Edges /\ (mig[g][l].node = 0 \/ mig[g][l].node \in A)
      /\ \A l, m \in 1..3 : l # m => mig[g][l].node # mig[g][m].node
    BY <1>0, CandidateGives
<1>3. work' = t
    BY DEF Compile
<1>4. /\ computed' = computed \cup {g}
      /\ fanout_count' = [n \in Nodes |-> IF n \in Children(g) THEN fanout_count[n] - 1
                                          ELSE fanout_count[n]]
      /\ value' = [value EXCEPT ![g] = new]
    BY DEF Compile
<1>5. i \in 1..3
    BY NegativeChildIn
<1>6. j \in 1..3 \ {i}
    <2> HIDE DEF i, s1
    <2>1. (1..3 \ {i}) \in SUBSET (1..3) /\ 1..3 \ {i} # {}
        BY <1>5
    <2> QED
        BY <2>1, DestinationChildIn
<1> HIDE DEF i, j
<1>7. /\ i \in {1, 2, 3} /\ j \in {1, 2, 3} /\ k \in {1, 2, 3} /\ i # j /\ k # i /\ k # j
    BY <1>5, <1>6
<1> HIDE DEF k
<1>8. a \in Edges /\ p \in Edges /\ o \in Edges /\ \A x \in {a, p, o} : x.node = 0 \/ x.node \in A
    BY <1>2, <1>7
<1>9. Ready(s, A, value, dst, a, p, o) /\ Grown(s, work, A)
    <2> HIDE DEF a, p, o, s1
    <2>1. Ready(Complemented(Prepared(Negated(o), a), p), A, value, Destination(Negated(o), a), a, p, o)
        BY <1>0, <1>1, <1>8, OperandsReady
    <2>2. Grown(Complemented(Prepared(Negated(o), a), p), work, A)
        BY <1>0, <1>1, <1>8, <2>1, OperandsReady
    <2> QED
        BY <2>1, <2>2 DEF s1
<1> HIDE DEF s, dst, s1
<1>10. \A n \in Nodes, c \in BOOLEAN : n \notin A => Reg(s, n, c) = Reg(work, n, c)
    BY <1>9 DEF Grown
<1>11. g \notin A /\ 0 \notin A
    BY <1>2 DEF Alive
<1>12. \A c \in BOOLEAN : Reg(s, 0, c) = 0 /\ Reg(s, g, c) = 0
    BY <1>0, <1>2, <1>10, <1>11 DEF Unassigned
(* Who is still alive was alive, and has another reader. *)
<1> DEFINE B == Alive'
<1>13. B = {n \in computed' \ {0} : fanout_count'[n] > 0 \/ NeverRead(n)}
    BY <1>0 DEF Alive, NeverRead, Children
<1> HIDE DEF B
<1>14. B \in SUBSET Nodes
    BY <1>0, <1>4, <1>13
<1>15. \A n \in B : n # g => n \in A /\ \A l \in 1..3 : mig[g][l].node = n => ~Dies(n)
    <2> SUFFICES ASSUME NEW n \in B, n # g
                 PROVE  n \in A /\ \A l \in 1..3 : mig[g][l].node = n => ~Dies(n)
        OBVIOUS
    <2>1. n \in computed \ {0} /\ n \in Nodes /\ (fanout_count'[n] > 0 \/ NeverRead(n))
        BY <1>0, <1>4, <1>13
    <2>2. CASE n \in Children(g)
        <3>1. ~NeverRead(n)
            BY <2>2 DEF NeverRead
        <3>2. fanout_count[n] - 1 > 0 /\ fanout_count[n] \in Nat
            BY <1>0, <1>4, <2>1, <2>2, <3>1
        <3> QED
            BY <2>1, <3>2 DEF Alive, Dies
    <2>3. CASE n \notin Children(g)
        <3>1. n \in A
            BY <1>4, <2>1, <2>3 DEF Alive
        <3>2. \A l \in 1..3 : mig[g][l].node # n
            BY <2>3 DEF Children
        <3> QED
            BY <3>1, <3>2
    <2> QED
        BY <2>2, <2>3
<1>16. new \in SUBSET Assignments
    <2>1. \A l \in 1..3 : lit(l) \in SUBSET Assignments
        <3> SUFFICES ASSUME NEW l \in 1..3
                     PROVE  lit(l) \in SUBSET Assignments
            OBVIOUS
        <3>1. value[mig[g][l].node] \in SUBSET Assignments
            BY <1>0, <1>2 DEF Edges
        <3> QED
            BY <3>1 DEF Literal
    <2> HIDE DEF lit
    <2>2. lit(1) \in SUBSET Assignments /\ lit(2) \in SUBSET Assignments
        BY <2>1
    <2> QED
        BY <2>2 DEF Maj
<1>17. new = Maj(lit(j), lit(k), lit(i))
    <2> HIDE DEF lit
    <2>1. \/ (j = 1 /\ k = 2 /\ i = 3) \/ (j = 1 /\ k = 3 /\ i = 2)
          \/ (j = 2 /\ k = 1 /\ i = 3) \/ (j = 2 /\ k = 3 /\ i = 1)
          \/ (j = 3 /\ k = 1 /\ i = 2) \/ (j = 3 /\ k = 2 /\ i = 1)
        <3>1. (i = 1 \/ i = 2 \/ i = 3) /\ (j = 1 \/ j = 2 \/ j = 3) /\ (k = 1 \/ k = 2 \/ k = 3)
            BY <1>7
        <3> QED
            BY <1>7, <3>1
    <2> DEFINE x == lit(1)
               y == lit(2)
               z == lit(3)
    <2>2. /\ Maj(x, y, z) = Maj(x, z, y) /\ Maj(x, y, z) = Maj(y, x, z)
          /\ Maj(x, y, z) = Maj(y, z, x) /\ Maj(x, y, z) = Maj(z, x, y)
          /\ Maj(x, y, z) = Maj(z, y, x)
        BY MajSymmetric
    <2> QED
        BY <2>1, <2>2
<1>18. Sound(t, B, value') /\ \A n \in Nodes, c \in BOOLEAN : n # g => Reg(t, n, c) = Reg(s, n, c)
    <2>1. /\ i \in 1..3 /\ j \in 1..3 /\ k \in 1..3
          /\ new = Maj(Literal(value[mig[g][j].node], mig[g][j].complemented),
                       Literal(value[mig[g][k].node], mig[g][k].complemented),
                       Literal(value[mig[g][i].node], mig[g][i].complemented))
          /\ Ready(s, A, value, dst, mig[g][j], mig[g][k], mig[g][i])
        BY <1>7, <1>9, <1>17
    <2>2. t = Finished(s, g, dst, mig[g][k], mig[g][i])
        OBVIOUS
    <2> HIDE DEF new, t, A, a, p, o
    <2>5. ChildrenIn(g, A) /\ Unused(s, g) /\ Survive(B, A, g)
        BY <1>2, <1>12, <1>15, SMTT(40) DEF ChildrenIn, Unused, Survive
    <2> DEFINE w == [value EXCEPT ![g] = new]
               X == Finished(s, g, dst, mig[g][k], mig[g][i])
    <2>3. /\ Sound(X, B, w)
          /\ SameElsewhere(X, s, g)
        BY <1>0, <1>1, <1>11, <1>14, <1>16, <2>1, <2>5, FinishedGives
    <2> HIDE DEF X
    <2> QED
        BY <1>4, <2>2, <2>3 DEF X, SameElsewhere
<1>19. \A n \in Nodes, c \in BOOLEAN :
          n # g /\ n \notin A => Reg(work', n, c) = Reg(work, n, c)
    BY <1>3, <1>10, <1>18
<1>20. value' \in [Nodes -> SUBSET Assignments] /\ value'[0] = {}
    BY <1>0, <1>4, <1>16
<1> QED
    BY <1>3, <1>18, <1>19, <1>20 DEF B

(* The readers of a child are one fewer after the gate. *)
LEMMA ReadersAfter ==
    ASSUME IInv, NEW g \in Gates, Compile(g), NEW n \in Nodes
    PROVE  /\ n \in Children(g) => Readers(n)' = Readers(n) \ {g}
           /\ n \notin Children(g) => Readers(n)' = Readers(n)
<1>1. mig' = mig /\ computed' = computed \cup {g}
    BY DEF Compile
<1>2. Readers(n)' = {h \in Gates \ computed' : n \in Children(h)}
    BY <1>1 DEF Readers, Children
<1> QED
    BY <1>1, <1>2 DEF Readers

LEMMA CompileCounts ==
    ASSUME IInv, NEW g \in Gates, Compile(g)
    PROVE  FanoutsRemain' /\ fanout_count' \in [Nodes -> Nat]
<1>0. /\ fanout_count \in [Nodes -> Nat] /\ g \in candidates /\ IsFiniteSet(Gates)
      /\ \A n \in Nodes : fanout_count[n] = Cardinality(Readers(n))
    BY GraphAssumption DEF IInv, TypeOK, Compile, FanoutsRemain
<1>1. fanout_count' = [n \in Nodes |-> IF n \in Children(g) THEN fanout_count[n] - 1
                                       ELSE fanout_count[n]]
    BY DEF Compile
<1>2. \A n \in Children(g) : g \in Readers(n) /\ fanout_count[n] > 0
    BY <1>0, CandidateGives
<1>3. ASSUME NEW n \in Nodes
      PROVE  fanout_count'[n] = Cardinality(Readers(n)') /\ fanout_count'[n] \in Nat
    <2>1. IsFiniteSet(Readers(n))
        BY <1>0, FS_Subset DEF Readers
    <2>2. CASE n \in Children(g)
        <3>1. Readers(n)' = Readers(n) \ {g}
            BY <2>2, ReadersAfter
        <3>2. Cardinality(Readers(n) \ {g}) = Cardinality(Readers(n)) - 1
            BY <1>2, <2>1, <2>2, FS_RemoveElement
        <3> QED
            BY <1>0, <1>1, <1>2, <2>2, <3>1, <3>2
    <2>3. CASE n \notin Children(g)
        <3>1. Readers(n)' = Readers(n)
            BY <2>3, ReadersAfter
        <3> QED
            BY <1>0, <1>1, <2>3, <3>1
    <2> QED
        BY <2>2, <2>3
<1>4. fanout_count' \in [Nodes -> Nat]
    BY <1>1, <1>3
<1>5. FanoutsRemain'
    BY <1>3 DEF FanoutsRemain
<1> QED
    BY <1>4, <1>5

LEMMA CompileQueues ==
    ASSUME IInv, NEW g \in Gates, Compile(g)
    PROVE  CandidatesReady' /\ candidates' \in SUBSET Gates
<1>0. /\ candidates = {h \in Gates \ computed : Children(h) \subseteq computed}
      /\ g \in candidates
    BY DEF IInv, CandidatesReady, Compile
<1>1. /\ mig' = mig /\ computed' = computed \cup {g}
      /\ candidates' = (candidates \ {g}) \cup NewCandidates(g)
    BY DEF Compile
<1>2. g \notin Children(g)
    BY <1>0, CandidateGives
<1>3. candidates' = {h \in Gates \ computed' : Children(h) \subseteq computed'}
    BY <1>0, <1>1, <1>2 DEF NewCandidates
<1>4. \A h : Children(h)' = Children(h)
    BY <1>1 DEF Children
<1>5. CandidatesReady'
    BY <1>3, <1>4 DEF CandidatesReady
<1> QED
    BY <1>3, <1>5

(* One round keeps the invariant. *)
LEMMA CompileKeeps ==
    ASSUME IInv, NEW g \in Gates, Compile(g)
    PROVE  IInv'
<1>0. /\ mig' = mig /\ strategy' = strategy /\ computed' = computed \cup {g} /\ g \in candidates
      /\ IsMig(mig) /\ strategy \in {"lifo", "fifo"} /\ computed \subseteq Nodes /\ g \in Nodes
      /\ {0} \cup Inputs \subseteq computed /\ Unassigned /\ g # 0 /\ g \notin computed
    BY CandidateGives, GraphAssumption DEF IInv, TypeOK, Compile, Nodes
<1>1. /\ Sound(work', Alive', value')
      /\ value' \in [Nodes -> SUBSET Assignments] /\ value'[0] = {}
      /\ \A n \in Nodes, c \in BOOLEAN :
            n # g /\ n \notin Alive => Reg(work', n, c) = Reg(work, n, c)
    BY CompileWorks
<1>2. FanoutsRemain' /\ fanout_count' \in [Nodes -> Nat]
    BY CompileCounts
<1>3. CandidatesReady' /\ candidates' \in SUBSET Gates
    BY CompileQueues
<1>4. Typed(work') /\ Owned(work', Alive') /\ Held(work', Alive', value')
    BY <1>1 DEF Sound
<1>5. TypeOK'
    <2>1. computed' \subseteq Nodes
        BY <1>0
    <2> QED
        BY <1>0, <1>1, <1>2, <1>3, <1>4, <2>1 DEF TypeOK, Typed
<1>6. RegistersHold'
    <2>1. \A n : Literal(value'[n], TRUE) = Assignments \ value'[n]
        BY DEF Literal
    <2> QED
        BY <1>4, <2>1 DEF RegistersHold, Held
<1>7. OneOwner'
    BY <1>4 DEF OneOwner, Owned
<1>8. Unassigned'
    <2> SUFFICES ASSUME NEW n \in Nodes, NEW c \in BOOLEAN, n = 0 \/ n \notin computed'
                 PROVE  Reg(work', n, c) = 0
        BY DEF Unassigned
    <2>1. n # g /\ n \notin Alive /\ (n = 0 \/ n \notin computed)
        BY <1>0 DEF Alive
    <2> QED
        BY <1>0, <1>1, <2>1 DEF Unassigned
<1> QED
    BY <1>0, <1>1, <1>2, <1>3, <1>5, <1>6, <1>7, <1>8, SMTT(40) DEF IInv

-------------------------------------------------------------------------------
(* The inputs are numbered from 1, each once. *)
LEMMA InputRegisters ==
    /\ Cardinality(Inputs) \in Nat
    /\ \A x \in Inputs : InputRegister(x) \in 1..Cardinality(Inputs)
    /\ \A x, y \in Inputs : InputRegister(x) = InputRegister(y) => x = y
    /\ \A r \in 1..Cardinality(Inputs) : \E x \in Inputs : InputRegister(x) = r
<1> DEFINE N == Cardinality(Inputs)
           Upto(x) == {y \in Inputs : y <= x}
           f == [x \in Inputs |-> InputRegister(x)]
<1>0. IsFiniteSet(Inputs) /\ Inputs \subseteq Nat
    BY GraphAssumption
<1>1. N \in Nat
    BY <1>0, FS_CardinalityType
<1>2. ASSUME NEW x \in Inputs
      PROVE  IsFiniteSet(Upto(x)) /\ InputRegister(x) \in 1..N
    <2>1. Upto(x) \in SUBSET Inputs /\ x \in Upto(x)
        BY <1>0
    <2>2. InputRegister(x) = Cardinality(Upto(x))
        BY DEF InputRegister
    <2> HIDE DEF Upto
    <2>3. IsFiniteSet(Upto(x)) /\ Cardinality(Upto(x)) <= N
        BY <1>0, <2>1, FS_Subset
    <2>4. Cardinality(Upto(x)) # 0
        BY <2>1, <2>3, FS_EmptySet
    <2>5. Cardinality(Upto(x)) \in Nat
        BY <2>3, FS_CardinalityType
    <2> QED
        BY <1>1, <2>2, <2>3, <2>4, <2>5
<1>3. ASSUME NEW x \in Inputs, NEW y \in Inputs, x < y
      PROVE  InputRegister(x) # InputRegister(y)
    <2>1. Upto(x) \in SUBSET Upto(y) /\ Upto(x) # Upto(y)
        <3>1. y \in Upto(y) /\ y \notin Upto(x)
            BY <1>0, <1>3
        <3>2. \A z \in Upto(x) : z \in Upto(y)
            BY <1>0, <1>3
        <3> QED
            BY <3>1, <3>2
    <2>2. InputRegister(x) = Cardinality(Upto(x)) /\ InputRegister(y) = Cardinality(Upto(y))
        BY DEF InputRegister
    <2>3. IsFiniteSet(Upto(y))
        BY <1>2
    <2> HIDE DEF Upto
    <2> QED
        BY <2>1, <2>2, <2>3, FS_Subset
<1>4. \A x, y \in Inputs : InputRegister(x) = InputRegister(y) => x = y
    <2>1. \A x, y \in Inputs : x < y \/ y < x \/ x = y
        BY <1>0
    <2> QED
        BY <1>3, <2>1
<1>5. f \in Injection(Inputs, 1..N)
    BY <1>2, <1>4 DEF Injection, IsInjective
<1>6. IsFiniteSet(1..N) /\ Cardinality(1..N) = N
    BY <1>1, FS_Interval
<1>7. f \in Surjection(Inputs, 1..N)
    BY <1>5, <1>6, FS_Injection
<1>8. \A r \in 1..N : \E x \in Inputs : InputRegister(x) = r
    BY <1>7 DEF Surjection
<1> QED
    BY <1>1, <1>2, <1>4, <1>8

(* At first the inputs are where they are given, and nothing else is. *)
LEMMA InitHolds ==
    ASSUME Init
    PROVE  IInv
<1> DEFINE N == Cardinality(Inputs)
           Given(r) == CHOOSE x \in Inputs : InputRegister(x) = r
           reg == [n \in Nodes |-> [c \in BOOLEAN |->
                      IF n \in Inputs /\ ~c THEN InputRegister(n) ELSE 0]]
<1>0. /\ IsFiniteSet(Inputs) /\ IsFiniteSet(Gates) /\ 0 \notin Inputs /\ 0 \notin Gates
      /\ Inputs \cap Gates = {} /\ \A x \in Inputs : InputValue(x) \subseteq Assignments
      /\ 0 \in Nodes /\ Inputs \subseteq Nodes
    BY GraphAssumption, ValueAssumption DEF Nodes
<1>1. /\ IsMig(mig) /\ strategy \in {"lifo", "fifo"} /\ computed = {0} \cup Inputs
      /\ candidates = {g \in Gates : Children(g) \subseteq {0} \cup Inputs}
      /\ fanout_count = [n \in Nodes |-> Cardinality({g \in Gates : n \in Children(g)})]
      /\ value = [n \in Nodes |-> IF n \in Inputs THEN InputValue(n) ELSE {}]
    BY GraphAssumption DEF Init
<1>2. /\ work.mem = [r \in 1..N |-> InputValue(Given(r))]
      /\ work.func_to_rram = reg /\ work.free = <<>> /\ work.rram_count = 0
    BY DEF Init, Machine
<1>3. /\ N \in Nat
      /\ \A x \in Inputs : InputRegister(x) \in 1..N
      /\ \A x, y \in Inputs : InputRegister(x) = InputRegister(y) => x = y
      /\ \A r \in 1..N : \E x \in Inputs : InputRegister(x) = r
    BY InputRegisters
<1>4. \A r \in 1..N : Given(r) \in Inputs /\ InputRegister(Given(r)) = r
    BY <1>3
<1>5. \A x \in Inputs : Given(InputRegister(x)) = x
    BY <1>3, <1>4
<1> HIDE DEF N, Given
<1>6. work.mem \in Seq(SUBSET Assignments) /\ Len(work.mem) = N
    <2>1. \A r \in 1..N : InputValue(Given(r)) \in SUBSET Assignments
        BY <1>0, <1>4
    <2> QED
        BY <1>2, <1>3, <2>1
<1>7. \A n \in Nodes, c \in BOOLEAN :
         Reg(work, n, c) = IF n \in Inputs /\ ~c THEN InputRegister(n) ELSE 0
    BY <1>2 DEF Reg
<1>8. reg \in [Nodes -> [BOOLEAN -> 0..N]]
    <2>1. \A n \in Nodes, c \in BOOLEAN :
             (IF n \in Inputs /\ ~c THEN InputRegister(n) ELSE 0) \in 0..N
        BY <1>3
    <2> QED
        BY <2>1
<1>9. ASSUME NEW n \in Nodes
      PROVE  fanout_count[n] = Cardinality(Readers(n)) /\ fanout_count[n] \in Nat
    <2>1. Readers(n) = {g \in Gates : n \in Children(g)}
        BY <1>0, <1>1 DEF Readers
    <2>2. IsFiniteSet({g \in Gates : n \in Children(g)})
        BY <1>0, FS_Subset
    <2>3. fanout_count[n] = Cardinality({g \in Gates : n \in Children(g)})
        BY <1>1
    <2>4. Cardinality({g \in Gates : n \in Children(g)}) \in Nat
        BY <2>2, FS_CardinalityType
    <2> QED
        BY <2>1, <2>3, <2>4
<1>10. TypeOK
    <2>1. computed \subseteq Nodes /\ candidates \subseteq Gates
        BY <1>0, <1>1
    <2>2. fanout_count \in [Nodes -> Nat]
        BY <1>1, <1>9
    <2>3. value \in [Nodes -> SUBSET Assignments]
        BY <1>0, <1>1
    <2>4. work.func_to_rram \in [Nodes -> [BOOLEAN -> 0..N]]
        BY <1>2, <1>8
    <2>5. work.free \in Seq(1..N) /\ work.rram_count \in 0..N
        BY <1>2, <1>3
    <2> QED
        BY <1>1, <1>6, <2>1, <2>2, <2>3, <2>4, <2>5 DEF TypeOK
<1>11. CandidatesReady
    BY <1>0, <1>1 DEF CandidatesReady
<1>12. Unassigned
    BY <1>0, <1>1, <1>7 DEF Unassigned
<1>13. Alive \subseteq Inputs
    BY <1>1 DEF Alive
<1>14. \A x \in Inputs : /\ Reg(work, x, FALSE) = InputRegister(x)
                         /\ Reg(work, x, TRUE) = 0
    BY <1>0, <1>7
<1>15. RegistersHold
    <2> SUFFICES ASSUME NEW n \in Inputs
                 PROVE  /\ Reg(work, n, FALSE) # 0 /\ work.mem[Reg(work, n, FALSE)] = value[n]
                        /\ Reg(work, n, TRUE) = 0
        BY <1>13 DEF RegistersHold
    <2>1. InputRegister(n) \in 1..N /\ InputRegister(n) # 0
        BY <1>3
    <2>2. work.mem[InputRegister(n)] = InputValue(n)
        BY <1>2, <1>5, <2>1
    <2> QED
        BY <1>0, <1>1, <1>14, <2>1, <2>2
<1>16. OneOwner
    <2>1. ASSUME NEW m \in Inputs, NEW n \in Inputs, NEW c \in BOOLEAN, NEW d \in BOOLEAN,
                 Reg(work, m, c) # 0, Reg(work, m, c) = Reg(work, n, d)
          PROVE  m = n /\ c = d
        <3>1. c = FALSE /\ d = FALSE
            BY <1>14, <2>1
        <3>2. Reg(work, m, FALSE) = Reg(work, n, FALSE)
            BY <2>1, <3>1
        <3>3. InputRegister(m) = InputRegister(n)
            BY <1>14, <3>2
        <3>4. m = n
            BY <1>3, <3>3
        <3> QED
            BY <3>1, <3>4
    <2>2. DOMAIN work.free = {}
        BY <1>2
    <2> QED
        BY <1>13, <2>1, <2>2 DEF OneOwner
<1>17. FanoutsRemain
    BY <1>9 DEF FanoutsRemain
<1>18. {0} \cup Inputs \subseteq computed /\ value[0] = {}
    BY <1>0, <1>1
<1> QED
    BY <1>10, <1>11, <1>12, <1>15, <1>16, <1>17, <1>18 DEF IInv

-------------------------------------------------------------------------------
(* The counts of the gates to come decide which registers are overwritten,   *)
(* so no live function is lost, whatever the order of the gates.            *)
THEOREM Inductive == Spec => []IInv
<1>1. Init => IInv
    BY InitHolds
<1>2. IInv /\ [Next]_vars => IInv'
    <2> SUFFICES ASSUME IInv, [Next]_vars
                 PROVE  IInv'
        OBVIOUS
    <2>1. CASE Next
        <3>1. PICK g \in Gates : Compile(g)
            BY <2>1 DEF Next
        <3> QED
            BY <3>1, CompileKeeps
    <2>2. CASE UNCHANGED vars
        <3>1. /\ mig' = mig /\ strategy' = strategy /\ computed' = computed
              /\ candidates' = candidates /\ fanout_count' = fanout_count
              /\ work' = work /\ value' = value
            BY <2>2 DEF vars
        <3>2. TypeOK'
            BY <3>1 DEF IInv, TypeOK
        <3>3. \A n : Children(n)' = Children(n)
            BY <3>1 DEF Children
        <3>4. FanoutsRemain'
            BY <3>1, <3>3 DEF IInv, FanoutsRemain, Readers
        <3>5. CandidatesReady'
            BY <3>1, <3>3 DEF IInv, CandidatesReady
        <3>6. Unassigned'
            BY <3>1 DEF IInv, Unassigned
        <3>7. Alive' = Alive
            BY <3>1, <3>3 DEF Alive, NeverRead
        <3>8. RegistersHold'
            BY <3>1, <3>7 DEF IInv, RegistersHold
        <3>9. OneOwner'
            BY <3>1, <3>7 DEF IInv, OneOwner
        <3> QED
            BY <3>1, <3>2, <3>4, <3>5, <3>6, <3>8, <3>9 DEF IInv
    <2> QED
        BY <2>1, <2>2
<1> QED
    BY <1>1, <1>2, PTL DEF Spec

(* The types of the compiler's state. *)
THEOREM TypeCorrect == Spec => []TypeOK
<1>1. IInv => TypeOK
    BY DEF IInv
<1> QED
    BY <1>1, Inductive, PTL

(* The queue holds the gates whose children are all computed, and all of them. *)
THEOREM CandidatesAreReady == Spec => []CandidatesReady
<1>1. IInv => CandidatesReady
    BY DEF IInv
<1> QED
    BY <1>1, Inductive, PTL

(* The emitted program is right: every node that is still to be read, or that  *)
(* no gate reads, is in the register the compiler keeps for it.             *)
THEOREM ProgramIsRight == Spec => []RegistersHold
<1>1. IInv => RegistersHold
    BY DEF IInv
<1> QED
    BY <1>1, Inductive, PTL

(* No register is handed out, or given back, twice. *)
THEOREM RegistersHaveOneOwner == Spec => []OneOwner
<1>1. IInv => OneOwner
    BY DEF IInv
<1> QED
    BY <1>1, Inductive, PTL

(* The loop ends with every gate compiled: a gate that is not, and is the      *)
(* least of those, has all its children computed and is in the queue.       *)
THEOREM NoGateIsForgotten == Spec => [](candidates = {} => Gates \subseteq computed)
<1>1. ASSUME IInv, candidates = {}
      PROVE  Gates \subseteq computed
    <2> DEFINE T == Gates \ computed
    <2>1. /\ IsMig(mig) /\ T \subseteq Nat /\ Gates \subseteq Nat /\ Nodes = {0} \cup Inputs \cup Gates
          /\ {0} \cup Inputs \subseteq computed /\ Nodes \subseteq Nat
        BY <1>1, GraphAssumption DEF IInv, TypeOK, Nodes
    <2>2. ASSUME T # {}
          PROVE  FALSE
        <3>1. PICK g \in T : \A h \in T : ~ <<h, g>> \in OpToRel(<, Nat)
            BY <2>1, <2>2, NatLessThanWellFounded, WFMin
        <3>2. \A h \in T : ~ h < g
            BY <2>1, <3>1 DEF OpToRel
        <3>3. \A k \in 1..3 : mig[g][k].node \in Nodes /\ mig[g][k].node < g
            <4>1. /\ mig[g][1].node \in Nat /\ mig[g][2].node \in Nat /\ mig[g][3].node \in Nat
                  /\ mig[g][1].node \in Nodes /\ mig[g][2].node \in Nodes
                  /\ mig[g][3].node \in Nodes
                BY <2>1 DEF IsMig
            <4>2. /\ mig[g][1].node < mig[g][2].node /\ mig[g][2].node < mig[g][3].node
                  /\ mig[g][3].node < g /\ g \in Nat
                BY <2>1 DEF IsMig
            <4>3. mig[g][1].node < g /\ mig[g][2].node < g
                BY <4>1, <4>2
            <4>4. \A k \in 1..3 : k = 1 \/ k = 2 \/ k = 3
                OBVIOUS
            <4> QED
                BY <4>1, <4>2, <4>3, <4>4
        <3>4. \A k \in 1..3 : mig[g][k].node \in computed
            BY <2>1, <3>2, <3>3
        <3>5. g \in candidates
            BY <1>1, <3>4 DEF IInv, CandidatesReady, Children
        <3> QED
            BY <1>1, <3>5
    <2> QED
        BY <2>2
<1>2. IInv => (candidates = {} => Gates \subseteq computed)
    BY <1>1
<1> QED
    BY <1>2, Inductive, PTL

===============================================================================
