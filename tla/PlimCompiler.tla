----------------------------- MODULE PlimCompiler -----------------------------
(***************************************************************************)
(* cirkit::compile_for_plim (classical/plim/plim_compiler.cpp): a           *)
(* majority-inverter graph becomes a program of RM3 instructions.  An RM3   *)
(* instruction overwrites its destination, so the compiler decides which    *)
(* register may be lost, and hands registers out again when nobody reads    *)
(* them any more.  The program is run while it is emitted: mem is what the  *)
(* registers hold, for all assignments to the inputs at once.               *)
(***************************************************************************)
EXTENDS Integers, Sequences, FiniteSets

CONSTANTS Inputs, Gates,        \* nodes of the graph; 0 is the constant
          Migs,                 \* the graphs to compile: children per gate
          Assignments,          \* a value is the set of those that make it true
          InputValue(_),
          Unknown               \* what a register holds that was never written

Nodes == {0} \cup Inputs \cup Gates

(* What mig_create_maj leaves of the children: three nodes in ascending      *)
(* order, all of them older than the gate, and no two gates alike.          *)
IsMig(m) ==
    /\ m \in [Gates -> [1..3 -> [node : Nodes, complemented : BOOLEAN]]]
    /\ \A g \in Gates : m[g][1].node < m[g][2].node /\ m[g][2].node < m[g][3].node
                        /\ m[g][3].node < g
    /\ \A g, h \in Gates : m[g] = m[h] => g = h

ASSUME GraphAssumption ==
    /\ IsFiniteSet(Inputs) /\ IsFiniteSet(Gates)
    /\ Inputs \subseteq Nat \ {0} /\ Gates \subseteq Nat \ {0} /\ Inputs \cap Gates = {}
    /\ \A m \in Migs : IsMig(m)

ASSUME ValueAssumption ==
    /\ \A x \in Inputs : InputValue(x) \subseteq Assignments
    /\ Unknown \subseteq Assignments

VARIABLES mig,              \* the argument
          strategy,         \* of the register generator: "lifo" or "fifo"
          computed,
          candidates,
          fanout_count,
          work,             \* func_to_rram, the generator and the program's effect
          value             \* history: the value of each computed node

vars == <<mig, strategy, computed, candidates, fanout_count, work, value>>

Maj(a, b, c) == (a \cap b) \cup (a \cap c) \cup (b \cap c)

Literal(v, complemented) == IF complemented THEN Assignments \ v ELSE v

Children(g) == {mig[g][i].node : i \in 1..3}

-------------------------------------------------------------------------------
(* What the program has done to the registers, which of them hold which       *)
(* function, and the released ones in their order.                          *)
Machine(mem, func_to_rram, free, rram_count) ==
    [mem |-> mem, func_to_rram |-> func_to_rram, free |-> free, rram_count |-> rram_count]

(* auto_index_generator: a released register first, else a new one. *)
Requested(s) ==
    IF s.free = <<>> THEN Len(s.mem) + 1
    ELSE IF strategy = "lifo" THEN s.free[Len(s.free)]
    ELSE Head(s.free)

Request(s) ==
    IF s.free = <<>> THEN Machine(Append(s.mem, Unknown), s.func_to_rram, <<>>, s.rram_count)
    ELSE Machine(s.mem, s.func_to_rram,
                 IF strategy = "lifo" THEN SubSeq(s.free, 1, Len(s.free) - 1) ELSE Tail(s.free),
                 s.rram_count)

(* operand_t: a constant or a register, registers count from 1. *)
Constant(b) == IF b THEN -1 ELSE -2
Content(mem, o) == CASE o = -1 -> Assignments [] o = -2 -> {} [] OTHER -> mem[o]

(* The machine's instruction, and the three idioms of plim_program. *)
Executed(mem, dst, pos, neg) ==
    [mem EXCEPT ![dst] = Maj(@, Content(mem, pos), Assignments \ Content(mem, neg))]

Rm3(s, dst, pos, neg) ==
    Machine(Executed(s.mem, dst, pos, neg), s.func_to_rram, s.free,
            IF dst > s.rram_count THEN dst ELSE s.rram_count)

ReadConstant(s, dst, b) == Rm3(s, dst, Constant(b), Constant(~b))

Invert(s, dst, src) == Rm3(ReadConstant(s, dst, FALSE), dst, Constant(TRUE), src)

Assign(s, dst, src) == Rm3(ReadConstant(s, dst, TRUE), dst, src, Constant(TRUE))

(* The register that holds a node or its complement; 0 if there is none. *)
Reg(s, n, c) == s.func_to_rram[n][c]

Operand(s, n, c) == IF n = 0 THEN Constant(c) ELSE Reg(s, n, c)

(* func_to_rram.insert *)
Insert(s, n, c, r) ==
    Machine(s.mem, [s.func_to_rram EXCEPT ![n] = [@ EXCEPT ![c] = r]], s.free, s.rram_count)

(* A complement that no register holds is made. *)
WithComplement(s, n) ==
    IF Reg(s, n, TRUE) # 0 THEN s
    ELSE Insert(Invert(Request(s), Requested(s), Reg(s, n, FALSE)), n, TRUE, Requested(s))

-------------------------------------------------------------------------------
First(set) == CHOOSE i \in set : \A j \in set : i <= j

Inverters(g) == {i \in 1..3 : mig[g][i].complemented}

SharedChildren(g) == {i \in 1..3 : fanout_count[mig[g][i].node] > 1}

(* Find the inverter: the child that becomes the negated operand. *)
NegativeChild(g) ==
    LET inv == Inverters(g)
        inverted == {i \in 1..3 : Reg(work, mig[g][i].node, TRUE) # 0}
    IN
    CASE Cardinality(inv) = 1 -> First(inv)
      [] Cardinality(inv) > 1 ->
            IF mig[g][First(inv)].node = 0 THEN First(inv \ {First(inv)})
            ELSE IF inv \cap SharedChildren(g) # {} THEN First(inv \cap SharedChildren(g))
            ELSE First(inv)
      [] OTHER ->
            IF mig[g][1].node = 0 THEN 1
            ELSE IF inverted # {} THEN First(inverted)
            ELSE IF SharedChildren(g) # {} THEN First(SharedChildren(g))
            ELSE 1

(* A child that is not complemented needs its complement for the negation.  *)
Negated(child) ==
    IF child.node = 0 \/ child.complemented THEN work ELSE WithComplement(work, child.node)

(* Mutant: the child is overwritten though other gates still read it. *)
ReusableShared(s, child) ==
    /\ child.node # 0
    /\ Reg(s, child.node, child.complemented) # 0

(* The register of a child is overwritten when this gate is its last reader. *)
Reusable(s, child) ==
    /\ child.node # 0 /\ fanout_count[child.node] = 1
    /\ Reg(s, child.node, child.complemented) # 0

(* Find the destination among the other two children: one that is reusable,  *)
(* a complemented one first; else the one a new register is loaded with.    *)
DestinationChild(s, g, others) ==
    LET reusable == {i \in others : Reusable(s, mig[g][i])}
        inv == others \cap Inverters(g)
    IN
    CASE reusable # {} -> First(IF reusable \cap inv # {} THEN reusable \cap inv ELSE reusable)
      [] reusable = {} /\ mig[g][First(others)].node # 0 /\ inv # {} -> First(inv)
      [] OTHER -> First(others)

Destination(s, child) ==
    IF Reusable(s, child) THEN Reg(s, child.node, child.complemented) ELSE Requested(s)

Load(s, dst, child) ==
    IF child.node = 0 THEN ReadConstant(s, dst, child.complemented)
    ELSE IF child.complemented THEN Invert(s, dst, Reg(s, child.node, FALSE))
    ELSE Assign(s, dst, Reg(s, child.node, FALSE))

Prepared(s, child) ==
    IF Reusable(s, child) THEN s ELSE Load(Request(s), Requested(s), child)

-------------------------------------------------------------------------------
(* Mutant: the destination is released with its former owner. *)
ReleasedWithDst(free, r, dst) == IF r = 0 THEN free ELSE Append(free, r)

Released(free, r, dst) == IF r \in {0, dst} THEN free ELSE Append(free, r)

(* The registers given back when the last reader of a child is compiled. *)
Freed(s, free, child, dst) ==
    IF child.node = 0 \/ fanout_count[child.node] # 1 THEN free
    ELSE Released(Released(free, Reg(s, child.node, FALSE), dst), Reg(s, child.node, TRUE), dst)

FreedByAll(s, g, dst) ==
    Freed(s, Freed(s, Freed(s, s.free, mig[g][1], dst), mig[g][2], dst), mig[g][3], dst)

(* Mutant: a parent is pushed by its last child in the order of the nodes.   *)
NewCandidatesInOrder(g) ==
    {p \in Gates \ computed : g = mig[p][3].node /\ Children(p) \subseteq computed \cup {g}}

(* The parents of which the gate was the last child to be computed. *)
NewCandidates(g) ==
    {p \in Gates \ computed : g \in Children(p) /\ Children(p) \subseteq computed \cup {g}}

(* A positive operand that is complemented needs its complement. *)
Complemented(s, pos) ==
    IF pos.node # 0 /\ pos.complemented THEN WithComplement(s, pos.node) ELSE s

(* The gate's instruction; its register, and those that nobody reads again. *)
Finished(s, g, dst, pos, neg) ==
    LET t == Rm3(s, dst, Operand(s, pos.node, pos.complemented),
                         Operand(s, neg.node, ~neg.complemented))
        u == Insert(t, g, FALSE, dst)
    IN Machine(u.mem, u.func_to_rram, FreedByAll(s, g, dst), u.rram_count)

(* One round of the synthesis loop.  The queue's order is left open: what    *)
(* holds here holds for every cost function and for the naive order.        *)
Compile(g) ==
    /\ g \in candidates
    /\ \E i \in {NegativeChild(g)} : \E s1 \in {Negated(mig[g][i])} :
       \E j \in {DestinationChild(s1, g, 1..3 \ {i})} :
       \E dst \in {Destination(s1, mig[g][j])} : \E s2 \in {Prepared(s1, mig[g][j])} :
       \E s \in {Complemented(s2, mig[g][6 - i - j])} :
            work' = Finished(s, g, dst, mig[g][6 - i - j], mig[g][i])
    /\ fanout_count' = [n \in Nodes |-> IF n \in Children(g) THEN fanout_count[n] - 1
                                        ELSE fanout_count[n]]
    /\ computed' = computed \cup {g}
    /\ candidates' = (candidates \ {g}) \cup NewCandidates(g)
    /\ value' = [value EXCEPT ![g] = Maj(Literal(value[mig[g][1].node], mig[g][1].complemented),
                                         Literal(value[mig[g][2].node], mig[g][2].complemented),
                                         Literal(value[mig[g][3].node], mig[g][3].complemented))]
    /\ UNCHANGED <<mig, strategy>>

(* The inputs occupy the first registers, in the order of the nodes. *)
InputRegister(x) == Cardinality({y \in Inputs : y <= x})

Init ==
    /\ mig \in Migs
    /\ strategy \in {"lifo", "fifo"}
    /\ computed = {0} \cup Inputs
    /\ candidates = {g \in Gates : Children(g) \subseteq {0} \cup Inputs}
    /\ fanout_count = [n \in Nodes |-> Cardinality({g \in Gates : n \in Children(g)})]
    /\ work = Machine([r \in 1..Cardinality(Inputs) |->
                           InputValue(CHOOSE x \in Inputs : InputRegister(x) = r)],
                      [n \in Nodes |-> [c \in BOOLEAN |->
                           IF n \in Inputs /\ ~c THEN InputRegister(n) ELSE 0]],
                      <<>>, 0)
    /\ value = [n \in Nodes |-> IF n \in Inputs THEN InputValue(n) ELSE {}]

Next == \E g \in Gates : Compile(g)

Spec == Init /\ [][Next]_vars

-------------------------------------------------------------------------------
(* Types; a register index is one that was handed out. *)
TypeOK ==
    /\ IsMig(mig) /\ strategy \in {"lifo", "fifo"}
    /\ computed \subseteq Nodes /\ candidates \subseteq Gates
    /\ fanout_count \in [Nodes -> Nat]
    /\ value \in [Nodes -> SUBSET Assignments]
    /\ work.mem \in Seq(SUBSET Assignments)
    /\ work.func_to_rram \in [Nodes -> [BOOLEAN -> 0..Len(work.mem)]]
    /\ work.free \in Seq(1..Len(work.mem))
    /\ work.rram_count \in 0..Len(work.mem)

(* "candidates elements' children are all computed", and no other gate is    *)
(* forgotten: the queue runs empty only when every gate is compiled.        *)
CandidatesReady ==
    candidates = {g \in Gates \ computed : Children(g) \subseteq computed}

(* A node is alive when a gate has still to read it, or none ever does: an    *)
(* output of the graph that is read by no gate.                             *)
NeverRead(n) == \A g \in Gates : n \notin Children(g)

Alive == {n \in computed \ {0} : fanout_count[n] > 0 \/ NeverRead(n)}

(* The program is right: a live node is in its register, and its complement  *)
(* in the register that was made for it.                                    *)
RegistersHold ==
    \A n \in Alive :
        /\ Reg(work, n, FALSE) # 0 /\ work.mem[Reg(work, n, FALSE)] = value[n]
        /\ Reg(work, n, TRUE) # 0 =>
              work.mem[Reg(work, n, TRUE)] = Literal(value[n], TRUE)

(* A register has one owner: it holds one live function, or it is free once. *)
OneOwner ==
    /\ \A m, n \in Alive, c, d \in BOOLEAN :
          Reg(work, m, c) # 0 /\ Reg(work, m, c) = Reg(work, n, d) => m = n /\ c = d
    /\ \A n \in Alive, c \in BOOLEAN, e \in DOMAIN work.free : work.free[e] # Reg(work, n, c)
    /\ \A d, e \in DOMAIN work.free : work.free[d] = work.free[e] => d = e

-------------------------------------------------------------------------------
(* The inductive invariant behind these. *)

Readers(n) == {g \in Gates \ computed : n \in Children(g)}

(* The counts that decide what may be lost are those of the gates to come.   *)
FanoutsRemain == \A n \in Nodes : fanout_count[n] = Cardinality(Readers(n))

(* Only what is computed has a register. *)
Unassigned ==
    \A n \in Nodes, c \in BOOLEAN : n = 0 \/ n \notin computed => Reg(work, n, c) = 0

IInv ==
    /\ TypeOK /\ FanoutsRemain /\ CandidatesReady /\ Unassigned
    /\ {0} \cup Inputs \subseteq computed /\ value[0] = {}
    /\ RegistersHold /\ OneOwner
===============================================================================
