------------------------------ MODULE ShellProofs ------------------------------
(***************************************************************************)
(* Proofs about the shell, for any stores, lines, aliases and files.         *)
(***************************************************************************)
EXTENDS Shell, TLAPS

StoreType(V) == [data : Seq(V), current : Int]

-------------------------------------------------------------------------------
(* Stores. *)

LEMMA EmptyIsStore == ASSUME NEW V PROVE IsStore(EmptyStore, V)
<1>1. <<>> \in Seq(V)
    OBVIOUS
<1> QED
    BY <1>1 DEF IsStore, EmptyStore, NoCurrent

LEMMA ExtendIsStore ==
    ASSUME NEW V, NEW s \in StoreType(V), NEW x \in V
    PROVE  IsStore(Extend(s, x), V) /\ Extend(s, x).data # <<>>
<1> DEFINE d == Append(s.data, x)
<1>1. s.data \in Seq(V)
    BY DEF StoreType
<1>2. d \in Seq(V) /\ Len(d) = Len(s.data) + 1 /\ Len(s.data) \in Nat
    BY <1>1
<1>3. d # <<>>
    BY <1>2
<1> HIDE DEF d
<1>4. Extend(s, x) = [data |-> d, current |-> Len(s.data)]
    BY DEF Extend, d
<1>5. Extend(s, x).data = d /\ Extend(s, x).current = Len(s.data)
    BY <1>4
<1>6. Extend(s, x) \in [data : Seq(V), current : Int]
    BY <1>2, <1>4
<1> QED
    BY <1>2, <1>3, <1>5, <1>6 DEF IsStore

LEMMA SetCurrentIsStore ==
    ASSUME NEW V, NEW s, IsStore(s, V), s.data # <<>>, NEW x \in V
    PROVE  IsStore(SetCurrent(s, x), V)
<1> DEFINE d == [s.data EXCEPT ![s.current + 1] = x]
<1>1. s.data \in Seq(V) /\ s.current \in 0..Len(s.data) - 1
    BY DEF IsStore
<1>2. d \in Seq(V) /\ Len(d) = Len(s.data) /\ Len(d) \in Nat
    BY <1>1
<1>3. d # <<>>
    BY <1>1, <1>2
<1> HIDE DEF d
<1>4. SetCurrent(s, x) = [data |-> d, current |-> s.current]
    BY DEF SetCurrent, d
<1>5. SetCurrent(s, x).data = d /\ SetCurrent(s, x).current = s.current
    BY <1>4
<1>6. SetCurrent(s, x) \in [data : Seq(V), current : Int]
    BY <1>1, <1>2, <1>4
<1> QED
    BY <1>1, <1>2, <1>3, <1>5, <1>6 DEF IsStore

LEMMA SwitchIsStore ==
    ASSUME NEW V, NEW s, IsStore(s, V), NEW i \in Nat
    PROVE  IsStore(Switch(s, i), V)
<1>1. CASE i < Size(s)
    <2>1. s.data \in Seq(V) /\ Len(s.data) \in Nat
        BY DEF IsStore
    <2>2. Switch(s, i) = [data |-> s.data, current |-> i]
        BY <1>1 DEF Switch, SetCurrentIndex
    <2>3. Switch(s, i).data = s.data /\ Switch(s, i).current = i
        BY <2>2
    <2>4. Switch(s, i) \in [data : Seq(V), current : Int]
        BY <2>1, <2>2
    <2>5. s.data # <<>> /\ i \in 0..Len(s.data) - 1
        BY <1>1, <2>1 DEF Size
    <2> QED
        BY <2>3, <2>4, <2>5 DEF IsStore
<1>2. CASE ~(i < Size(s))
    BY <1>2 DEF Switch
<1> QED
    BY <1>1, <1>2

(* An entry that is current has a value. *)
LEMMA CurrentIsValue ==
    ASSUME NEW V, NEW s, IsStore(s, V), HasCurrent(s)
    PROVE  Current(s) \in V
<1>1. s.data \in Seq(V) /\ s.current \in 0..Len(s.data) - 1
    BY DEF IsStore, HasCurrent, NoCurrent
<1> QED
    BY <1>1 DEF Current

LEMMA PreparedIsStore ==
    ASSUME NEW s, IsStore(s, Values), NEW new
    PROVE  IsStore(Prepared(s, new), Values) /\ Prepared(s, new).data # <<>>
<1>1. s \in StoreType(Values) /\ Nothing \in Values
    BY DEF IsStore, StoreType, Values
<1>2. IsStore(Extend(s, Nothing), Values) /\ Extend(s, Nothing).data # <<>>
    BY <1>1, ExtendIsStore
<1> QED
    BY <1>2 DEF Prepared

-------------------------------------------------------------------------------
(* The stack. *)

(* The prompt is the last of the calls that run makes. *)
InOrder(s) == \A i \in DOMAIN s : s[i].kind = "prompt" => i = Len(s)

LEMMA PushKeeps ==
    ASSUME NEW s \in Seq(Frames), InOrder(s), NEW f \in Frames, f.kind # "prompt"
    PROVE  <<f>> \o s \in Seq(Frames) /\ InOrder(<<f>> \o s)
<1> DEFINE t == <<f>> \o s
<1>1. t \in Seq(Frames) /\ Len(t) = Len(s) + 1 /\ Len(s) \in Nat
    OBVIOUS
<1>2. t[1] = f /\ \A i \in 2..Len(t) : t[i] = s[i - 1] /\ i - 1 \in DOMAIN s
    BY <1>1
<1>3. ASSUME NEW i \in DOMAIN t, t[i].kind = "prompt"
      PROVE  i = Len(t)
    <2>1. i \in 1..Len(t) /\ i # 1
        BY <1>1, <1>2, <1>3
    <2>2. t[i] = s[i - 1] /\ i - 1 \in DOMAIN s
        BY <1>2, <2>1
    <2> QED
        BY <1>1, <1>3, <2>1, <2>2 DEF InOrder
<1> QED
    BY <1>1, <1>3 DEF InOrder

LEMMA TailKeeps ==
    ASSUME NEW s \in Seq(Frames), s # <<>>, InOrder(s)
    PROVE  Tail(s) \in Seq(Frames) /\ InOrder(Tail(s))
<1>1. Tail(s) \in Seq(Frames) /\ Len(Tail(s)) = Len(s) - 1 /\ Len(s) \in Nat /\ Len(s) > 0
    OBVIOUS
<1>2. \A i \in DOMAIN Tail(s) : Tail(s)[i] = s[i + 1] /\ i + 1 \in DOMAIN s
    BY <1>1
<1> QED
    BY <1>1, <1>2 DEF InOrder

LEMMA TopIsFrame ==
    ASSUME stack \in Seq(Frames), stack # <<>>
    PROVE  Top \in Frames /\ Top = stack[1]
BY DEF Top

LEMMA ProceedsKeeps ==
    ASSUME TypeOK, InOrder(stack), stack # <<>>, Top.rest # <<>>, Top.kind # "prompt", Proceeds
    PROVE  stack' \in Seq(Frames) /\ InOrder(stack') /\ Head(Top.rest) \in Lines
<1> DEFINE f == [kind |-> Top.kind, rest |-> Tail(Top.rest), fresh |-> FALSE]
<1>1. stack \in Seq(Frames)
    BY DEF TypeOK
<1>2. Top.rest \in Seq(Lines) /\ Top.kind \in {"file", "command", "list", "prompt"}
    BY <1>1, TopIsFrame DEF Frames
<1>3. Tail(Top.rest) \in Seq(Lines) /\ Head(Top.rest) \in Lines
    BY <1>2
<1>4. f \in Frames /\ f.kind # "prompt"
    BY <1>2, <1>3 DEF Frames
<1>5. Tail(stack) \in Seq(Frames) /\ InOrder(Tail(stack))
    BY <1>1, TailKeeps
<1> HIDE DEF f
<1>6. <<f>> \o Tail(stack) \in Seq(Frames) /\ InOrder(<<f>> \o Tail(stack))
    BY <1>4, <1>5, PushKeeps
<1> QED
    BY <1>3, <1>6 DEF Proceeds, f

-------------------------------------------------------------------------------
Inv == TypeOK /\ CurrentIsValid /\ InOrder(stack)

LEMMA InitInv == Init => Inv
<1> SUFFICES ASSUME NEW mode \in {"command", "file", "prompt"}, NEW script \in Seq(Lines),
                    NEW interactive \in BOOLEAN, Start(mode, script, interactive)
             PROVE  Inv
    <2>1. Scripts \subseteq Seq(Lines) /\ <<>> \in Seq(Lines)
        BY ShellAssumption DEF ParsedAssumption
    <2> QED
        BY <2>1 DEF Init
<1>1. \A s \in Stores : IsStore(stores[s], Values)
    BY EmptyIsStore DEF Start
<1>2. stores \in [Stores -> [data : Seq(Values), current : Int]]
    <2>1. EmptyStore \in [data : Seq(Values), current : Int]
        BY EmptyIsStore DEF IsStore
    <2> QED
        BY <2>1 DEF Start
<1>3. AliasFile \in Seq(Lines) /\ <<>> \in Seq(Lines)
    BY ShellAssumption DEF ParsedAssumption
<1> DEFINE first == Frame("file", AliasFile)
           second == Frame(mode, script)
           last == Frame("prompt", <<>>)
<1>4. /\ first \in Frames /\ first.kind = "file"
      /\ second \in Frames /\ second.kind = mode
      /\ last \in Frames
    BY <1>3 DEF Frame, Frames
<1> DEFINE end == IF mode = "prompt" \/ interactive THEN <<last>> ELSE <<>>
           rest == IF mode = "prompt" THEN end ELSE <<second>> \o end
<1> HIDE DEF first, second, last
<1>5. end \in Seq(Frames) /\ InOrder(end)
    BY <1>4 DEF InOrder
<1> HIDE DEF end
<1>6. rest \in Seq(Frames) /\ InOrder(rest)
    <2>1. CASE mode = "prompt"
        BY <1>5, <2>1
    <2>2. CASE mode # "prompt"
        BY <1>4, <1>5, <2>2, PushKeeps
    <2> QED
        BY <2>1, <2>2
<1>7. stack = <<first>> \o rest
    <2>1. stack = <<first>> \o (IF mode = "prompt" THEN <<>> ELSE <<second>>) \o end
        BY DEF Start, Run, first, second, last, end
    <2>2. CASE mode = "prompt"
        BY <1>4, <1>5, <2>1, <2>2
    <2>3. CASE mode # "prompt"
        BY <1>4, <1>5, <2>1, <2>3
    <2> QED
        BY <2>2, <2>3
<1>8. stack \in Seq(Frames) /\ InOrder(stack)
    <2> HIDE DEF rest
    <2> QED
        BY <1>4, <1>6, <1>7, PushKeeps
<1>9. aliases \in [DOMAIN Patterns -> Lines \cup {NoLine}] /\ kept.index = NoIndex
    BY DEF Start
<1>10. /\ quit = FALSE /\ line = NoLine /\ converted = <<>> /\ result = TRUE
       /\ collecting = FALSE /\ typed = 0 /\ exit = "no"
    BY DEF Start
<1>11. TypeOK
    <2>1. /\ quit \in BOOLEAN /\ result \in BOOLEAN /\ collecting \in BOOLEAN
          /\ line \in Lines \cup {NoLine} /\ typed \in Nat
          /\ exit \in {"no", "normal", "failed", "thrown"}
        BY <1>10
    <2>2. converted \in Seq(Stores \X Stores) /\ kept.index \in Nat \cup {NoIndex}
        BY <1>9, <1>10
    <2> QED
        BY <1>2, <1>8, <1>9, <2>1, <2>2 DEF TypeOK
<1> QED
    BY <1>1, <1>8, <1>11 DEF Inv, CurrentIsValid

-------------------------------------------------------------------------------
(* A change of one store. *)
LEMMA OneStore ==
    ASSUME TypeOK, CurrentIsValid, NEW s \in Stores, NEW t, IsStore(t, Values),
           stores' = [stores EXCEPT ![s] = t]
    PROVE  /\ stores' \in [Stores -> [data : Seq(Values), current : Int]]
           /\ CurrentIsValid'
<1>1. t \in [data : Seq(Values), current : Int]
    BY DEF IsStore
<1>2. stores \in [Stores -> [data : Seq(Values), current : Int]]
    BY DEF TypeOK
<1>3. stores' \in [Stores -> [data : Seq(Values), current : Int]]
    <2> DEFINE T == [data : Seq(Values), current : Int]
    <2>1. t \in T /\ stores \in [Stores -> T]
        BY <1>1, <1>2
    <2> HIDE DEF T
    <2>2. stores' \in [Stores -> T]
        BY <2>1
    <2> QED
        BY <2>2 DEF T
<1>4. \A r \in Stores : stores'[r] = IF r = s THEN t ELSE stores[r]
    BY <1>2
<1> QED
    BY <1>3, <1>4 DEF CurrentIsValid

LEMMA LineIsLine ==
    ASSUME TypeOK, line # NoLine
    PROVE  line \in Lines
BY DEF TypeOK

LEMMA ExpandInv == ASSUME Inv, Expand PROVE Inv'
<1> USE DEF Inv
<1>1. line' \in Lines \cup {NoLine}
    BY DEF Expand, TypeOK
<1>2. CurrentIsValid' /\ InOrder(stack)'
    BY DEF Expand, env, CurrentIsValid
<1>3. TypeOK'
    BY <1>1 DEF Expand, env, TypeOK
<1> QED
    BY <1>2, <1>3

(* Steps of execute_line that leave the stores alone. *)
LEMMA ExecuteNothingInv ==
    ASSUME Inv, ExecuteNothing \/ EscapeToShell
    PROVE  Inv'
<1> USE DEF Inv
<1>1. UNCHANGED <<env, stack, converted, collecting, typed, exit>> /\ result' \in BOOLEAN /\ line' = NoLine
    BY DEF ExecuteNothing, EscapeToShell, Return
<1>2. CurrentIsValid' /\ InOrder(stack)'
    BY <1>1 DEF env, CurrentIsValid
<1> QED
    BY <1>1, <1>2 DEF env, TypeOK

LEMMA NestedInv ==
    ASSUME Inv, ExecuteList \/ ReadCommands
    PROVE  Inv'
<1> USE DEF Inv
<1>1. line \in Lines /\ stack \in Seq(Frames)
    BY LineIsLine DEF ExecuteList, ReadCommands, Executes, TypeOK
<1>2. stack' \in Seq(Frames) /\ InOrder(stack')
    <2>1. CASE ExecuteList
        <3>1. Parsed[line].lines \in Seq(Lines)
            BY <1>1, <2>1, ShellAssumption DEF ExecuteList, Executes, ParsedAssumption
        <3>2. /\ Frame("list", Parsed[line].lines) \in Frames
              /\ Frame("list", Parsed[line].lines).kind # "prompt"
            BY <3>1 DEF Frame, Frames
        <3> QED
            BY <1>1, <2>1, <3>2, PushKeeps DEF ExecuteList
    <2>2. CASE ReadCommands
        <3> DEFINE name == Parsed[line].file
        <3>1. CASE stack' = stack
            BY <1>1, <3>1
        <3>2. CASE name \in DOMAIN Files /\ stack' = <<Frame("file", Files[name])>> \o stack
            <4>1. Files[name] \in Seq(Lines)
                BY <3>2, ShellAssumption DEF ParsedAssumption
            <4>2. Frame("file", Files[name]) \in Frames /\ Frame("file", Files[name]).kind # "prompt"
                BY <4>1 DEF Frame, Frames
            <4> QED
                BY <1>1, <3>2, <4>2, PushKeeps
        <3> QED
            BY <2>2, <3>1, <3>2 DEF ReadCommands, FileNames
    <2> QED
        BY <2>1, <2>2
<1>3. UNCHANGED <<env, converted, collecting, typed, exit>> /\ result' = TRUE /\ line' = NoLine
    BY DEF ExecuteList, ReadCommands, Return
<1>4. CurrentIsValid'
    BY <1>3 DEF env, CurrentIsValid
<1> QED
    BY <1>2, <1>3, <1>4 DEF env, TypeOK

-------------------------------------------------------------------------------
(* Commands. *)

(* A command changes stores and options, and returns or throws. *)
LEMMA CommandInv ==
    ASSUME Inv,
           stores' \in [Stores -> [data : Seq(Values), current : Int]], CurrentIsValid',
           aliases' \in [DOMAIN Patterns -> Lines \cup {NoLine}],
           kept'.index \in Nat \cup {NoIndex}, quit' \in BOOLEAN,
           NEW value \in BOOLEAN, Return(value), RunsOn \/ Throws
    PROVE  Inv'
<1>1. result' \in BOOLEAN /\ line' \in Lines \cup {NoLine}
    BY DEF Return, Throws
<1>2. stack' \in Seq(Frames) /\ InOrder(stack')
    <2>1. CASE stack' = stack
        BY <2>1 DEF Inv, TypeOK
    <2>2. CASE stack' = <<>>
        BY <2>2 DEF InOrder
    <2> QED
        BY <2>1, <2>2 DEF RunsOn, Throws
<1>3. /\ UNCHANGED <<converted, collecting, typed>>
      /\ exit' \in {"no", "normal", "failed", "thrown"}
    BY DEF RunsOn, Throws, Inv, TypeOK
<1> QED
    BY <1>1, <1>2, <1>3 DEF Inv, TypeOK

LEMMA OptionsInv ==
    ASSUME Inv, Reject \/ PrintStore \/ Quit \/ Alias \/ Show
    PROVE  Inv'
<1> USE DEF Inv
<1>1. UNCHANGED <<stores, kept>>
    BY DEF Reject, PrintStore, Quit, Alias, Show, env
<1>2. quit' \in BOOLEAN
    BY DEF Reject, PrintStore, Quit, Alias, Show, env, TypeOK
<1>3. aliases' \in [DOMAIN Patterns -> Lines \cup {NoLine}]
    <2>1. CASE Alias
        <3>1. line \in Lines
            BY <2>1, LineIsLine DEF Alias, Command, Executes
        <3>2. Parsed[line].expansion \in Lines
            BY <2>1, <3>1, ShellAssumption DEF Alias, Command, Executes, ParsedAssumption
        <3> QED
            BY <2>1, <3>2 DEF Alias, Args, TypeOK
    <2>2. CASE UNCHANGED aliases
        BY <2>2 DEF TypeOK
    <2> QED
        BY <2>1, <2>2 DEF Reject, PrintStore, Quit, Show, env
<1>4. /\ RunsOn \/ Throws
      /\ Return(TRUE) \/ Return(FALSE)
    BY DEF Reject, PrintStore, Quit, Alias, Show, Throws
<1>5. CurrentIsValid' /\ stores' \in [Stores -> [data : Seq(Values), current : Int]]
    BY <1>1 DEF CurrentIsValid, TypeOK
<1>6. kept'.index \in Nat \cup {NoIndex}
    BY <1>1 DEF TypeOK
<1> QED
    BY <1>2, <1>3, <1>4, <1>5, <1>6, CommandInv

LEMMA StoreClearInv == ASSUME Inv, StoreClear PROVE Inv'
<1> USE DEF Inv
<1> DEFINE T == [data : Seq(Values), current : Int]
<1>1. EmptyStore \in T /\ IsStore(EmptyStore, Values)
    BY EmptyIsStore DEF IsStore
<1>2. stores \in [Stores -> T]
    BY DEF TypeOK
<1>3. stores' = [s \in Stores |-> IF s \in Args.stores THEN EmptyStore ELSE stores[s]]
    BY DEF StoreClear, Clear
<1> HIDE DEF T
<1>4. stores' \in [Stores -> T]
    BY <1>1, <1>2, <1>3
<1>5. CurrentIsValid'
    BY <1>1, <1>3 DEF CurrentIsValid
<1>6. /\ aliases' \in [DOMAIN Patterns -> Lines \cup {NoLine}]
      /\ kept'.index \in Nat \cup {NoIndex} /\ quit' \in BOOLEAN
    BY DEF StoreClear, TypeOK
<1> QED
    BY <1>4, <1>5, <1>6, CommandInv DEF StoreClear, T

LEMMA SetCurrentStoreInv == ASSUME Inv, SetCurrentStore PROVE Inv'
<1> USE DEF Inv
<1>1. /\ line \in Lines /\ Parsed[line].kind = "command" /\ Parsed[line].command = "current"
    BY LineIsLine DEF SetCurrentStore, Command, Executes
<1>2. Args.store \in Stores /\ Args.index \in Nat \cup {NoIndex}
    BY <1>1, ShellAssumption DEF ParsedAssumption, Args, NoIndex
<1>3. PICK i \in IndexOf(Args.index) : stores' = [stores EXCEPT ![Args.store] = Switch(@, i)]
    BY DEF SetCurrentStore
<1>4. i \in Nat
    BY <1>2, <1>3 DEF IndexOf, NoIndex, MaxIndex, TypeOK
<1>5. IsStore(stores[Args.store], Values)
    BY <1>2 DEF CurrentIsValid
<1>6. IsStore(Switch(stores[Args.store], i), Values)
    BY <1>4, <1>5, SwitchIsStore
<1>7. stores' = [stores EXCEPT ![Args.store] = Switch(stores[Args.store], i)]
    BY <1>3
<1>8. CurrentIsValid' /\ stores' \in [Stores -> [data : Seq(Values), current : Int]]
    BY <1>2, <1>6, <1>7, OneStore
<1>9. kept'.index \in Nat \cup {NoIndex}
    BY <1>2 DEF SetCurrentStore, TypeOK
<1>10. aliases' \in [DOMAIN Patterns -> Lines \cup {NoLine}] /\ quit' \in BOOLEAN
    BY DEF SetCurrentStore, TypeOK
<1> QED
    BY <1>8, <1>9, <1>10, CommandInv DEF SetCurrentStore

LEMMA ReadInv == ASSUME Inv, Read PROVE Inv'
<1> USE DEF Inv
<1>1. line \in Lines /\ Parsed[line].kind = "command" /\ Parsed[line].command = "read"
    BY LineIsLine DEF Read, Command, Executes
<1>2. Args.store \in Stores
    BY <1>1, ShellAssumption DEF ParsedAssumption, Args
<1> DEFINE s == Prepared(stores[Args.store], Args.new)
<1>3. IsStore(s, Values) /\ s.data # <<>>
    BY <1>2, PreparedIsStore DEF CurrentIsValid
<1>4. \A x \in Values : IsStore(SetCurrent(s, x), Values)
    BY <1>3, SetCurrentIsStore
<1>5. Nothing \in Values /\ FileNames \subseteq Values
    BY DEF Values
<1>6. /\ kept'.index = kept.index /\ UNCHANGED <<aliases, quit>>
      /\ RunsOn \/ Throws
      /\ Return(TRUE) \/ Return(FALSE)
    BY DEF Read, Throws
<1>7. \/ UNCHANGED stores
      \/ stores' = [stores EXCEPT ![Args.store] = s]
      \/ \E x \in Values : stores' = [stores EXCEPT ![Args.store] = SetCurrent(s, x)]
    BY <1>5 DEF Read
<1> HIDE DEF s
<1>8. CurrentIsValid' /\ stores' \in [Stores -> [data : Seq(Values), current : Int]]
    <2>1. CASE UNCHANGED stores
        BY <2>1 DEF CurrentIsValid, TypeOK
    <2>2. CASE stores' = [stores EXCEPT ![Args.store] = s]
        BY <1>2, <1>3, <2>2, OneStore
    <2>3. ASSUME NEW x \in Values, stores' = [stores EXCEPT ![Args.store] = SetCurrent(s, x)]
          PROVE  CurrentIsValid' /\ stores' \in [Stores -> [data : Seq(Values), current : Int]]
        <3>1. IsStore(SetCurrent(s, x), Values)
            BY <1>4
        <3> QED
            BY <1>2, <2>3, <3>1, OneStore
    <2> QED
        BY <1>7, <2>1, <2>2, <2>3
<1>9. /\ kept'.index \in Nat \cup {NoIndex} /\ quit' \in BOOLEAN
      /\ aliases' \in [DOMAIN Patterns -> Lines \cup {NoLine}]
    BY <1>6 DEF TypeOK
<1> QED
    BY <1>6, <1>8, <1>9, CommandInv

LEMMA AfterAbcValid ==
    ASSUME TypeOK, CurrentIsValid, stores' \in AfterAbc
    PROVE  CurrentIsValid' /\ stores' \in [Stores -> [data : Seq(Values), current : Int]]
<1>1. CASE UNCHANGED stores
    BY <1>1 DEF CurrentIsValid, TypeOK
<1>2. ASSUME NEW new \in BOOLEAN,
             stores' = [stores EXCEPT ![AbcStore] = SetCurrent(Prepared(@, new), Nothing)]
      PROVE  CurrentIsValid' /\ stores' \in [Stores -> [data : Seq(Values), current : Int]]
    <2>1. AbcStore \in Stores /\ Nothing \in Values
        BY ShellAssumption DEF ParsedAssumption, Values
    <2> DEFINE s == Prepared(stores[AbcStore], new)
    <2>2. IsStore(s, Values) /\ s.data # <<>>
        BY <2>1, PreparedIsStore DEF CurrentIsValid
    <2>3. IsStore(SetCurrent(s, Nothing), Values)
        BY <2>1, <2>2, SetCurrentIsStore
    <2>4. stores' = [stores EXCEPT ![AbcStore] = SetCurrent(s, Nothing)]
        BY <1>2
    <2> HIDE DEF s
    <2> QED
        BY <2>1, <2>3, <2>4, OneStore
<1> QED
    BY <1>1, <1>2 DEF AfterAbc

LEMMA AbcInv == ASSUME Inv, Abc PROVE Inv'
<1> USE DEF Inv
<1>1. CurrentIsValid' /\ stores' \in [Stores -> [data : Seq(Values), current : Int]]
    <2>1. CASE stores' \in AfterAbc
        BY <2>1, AfterAbcValid
    <2>2. CASE UNCHANGED stores
        BY <2>2 DEF CurrentIsValid, TypeOK
    <2> QED
        BY <2>1, <2>2 DEF Abc
<1>2. /\ RunsOn
      /\ Return(TRUE) \/ Return(FALSE)
      /\ UNCHANGED <<aliases, kept, quit>>
    BY DEF Abc
<1>3. /\ kept'.index \in Nat \cup {NoIndex} /\ quit' \in BOOLEAN
      /\ aliases' \in [DOMAIN Patterns -> Lines \cup {NoLine}]
    BY <1>2 DEF TypeOK
<1> QED
    BY <1>1, <1>2, <1>3, CommandInv

LEMMA ConvertPairInv == ASSUME Inv, ConvertPair PROVE Inv'
<1> USE DEF Inv
<1>1. /\ line \in Lines /\ Parsed[line].kind = "command" /\ Parsed[line].command = "convert"
    BY LineIsLine DEF ConvertPair, Command, Executes
<1>2. PICK pair \in Left : /\ stores' = Converted(stores, pair[1], pair[2])
                           /\ converted' = Append(converted, pair)
    BY DEF ConvertPair
<1>3. pair \in Stores \X Stores /\ pair[1] \in Stores /\ pair[2] \in Stores
    BY <1>1, <1>2, ShellAssumption DEF ParsedAssumption, Args, Left
<1>4. converted' \in Seq(Stores \X Stores)
    BY <1>2, <1>3 DEF TypeOK
<1>5. CurrentIsValid' /\ stores' \in [Stores -> [data : Seq(Values), current : Int]]
    <2>1. CASE ~HasCurrent(stores[pair[1]])
        BY <1>2, <2>1 DEF Converted, CurrentIsValid, TypeOK
    <2>2. CASE HasCurrent(stores[pair[1]])
        <3> DEFINE s == Extend(stores[pair[2]], Nothing)
                   x == Current(stores[pair[1]])
        <3>1. x \in Values /\ Nothing \in Values
            BY <1>3, <2>2, CurrentIsValue DEF CurrentIsValid, Values
        <3>2. stores[pair[2]] \in StoreType(Values)
            BY <1>3 DEF CurrentIsValid, IsStore, StoreType
        <3>3. IsStore(s, Values) /\ s.data # <<>>
            BY <3>1, <3>2, ExtendIsStore
        <3>4. IsStore(SetCurrent(s, x), Values)
            BY <3>1, <3>3, SetCurrentIsStore
        <3>5. stores' = [stores EXCEPT ![pair[2]] = SetCurrent(s, x)]
            BY <1>2, <2>2 DEF Converted
        <3> HIDE DEF s, x
        <3> QED
            BY <1>3, <3>4, <3>5, OneStore
    <2> QED
        BY <2>1, <2>2
<1>6. UNCHANGED <<aliases, kept, quit, stack, line, result, collecting, typed, exit>>
    BY DEF ConvertPair
<1>7. InOrder(stack)'
    BY <1>6
<1> QED
    BY <1>4, <1>5, <1>6, <1>7 DEF TypeOK

LEMMA ConvertInv == ASSUME Inv, Convert PROVE Inv'
<1> USE DEF Inv
<1>1. /\ UNCHANGED <<env, stack, collecting, typed, exit>>
      /\ converted' = <<>> /\ result' = TRUE /\ line' = NoLine
    BY DEF Convert, Return
<1>2. CurrentIsValid' /\ InOrder(stack)'
    BY <1>1 DEF env, CurrentIsValid
<1>3. converted' \in Seq(Stores \X Stores)
    BY <1>1
<1> QED
    BY <1>1, <1>2, <1>3 DEF env, TypeOK

LEMMA ExecuteLineInv == ASSUME Inv, ExecuteLine PROVE Inv'
BY ExecuteNothingInv, NestedInv, OptionsInv, AbcInv, StoreClearInv, SetCurrentStoreInv, ReadInv,
   ConvertPairInv, ConvertInv DEF ExecuteLine

-------------------------------------------------------------------------------
(* The loops that take the next line. *)

(* A step of a loop takes a line, skips one, or leaves calls. *)
LEMMA LoopInv ==
    ASSUME Inv, UNCHANGED <<aliases, kept, quit, converted>>,
           stores' \in [Stores -> [data : Seq(Values), current : Int]], CurrentIsValid',
           stack' \in Seq(Frames), InOrder(stack'), line' \in Lines \cup {NoLine},
           result' \in BOOLEAN, collecting' \in BOOLEAN, typed' \in Nat,
           exit' \in {"no", "normal", "failed", "thrown"}
    PROVE  Inv'
<1>1. /\ aliases' \in [DOMAIN Patterns -> Lines \cup {NoLine}]
      /\ kept'.index \in Nat \cup {NoIndex} /\ quit' \in BOOLEAN
      /\ converted' \in Seq(Stores \X Stores)
    BY DEF Inv, TypeOK
<1> QED
    BY <1>1 DEF Inv, TypeOK

LEMMA TakesKeeps ==
    ASSUME Inv, stack # <<>>, Top.rest # <<>>, Top.kind # "prompt", Takes
    PROVE  stack' \in Seq(Frames) /\ InOrder(stack') /\ line' \in Lines
BY ProceedsKeeps DEF Takes, Inv

LEMMA PopKeeps ==
    ASSUME Inv, stack # <<>>, Pop
    PROVE  stack' \in Seq(Frames) /\ InOrder(stack')
BY TailKeeps DEF Pop, Inv, TypeOK

LEMMA SameStores ==
    ASSUME Inv, UNCHANGED stores
    PROVE  CurrentIsValid' /\ stores' \in [Stores -> [data : Seq(Values), current : Int]]
BY DEF Inv, CurrentIsValid, TypeOK

LEMMA NextOfListInv == ASSUME Inv, NextOfList \/ NextOfFile PROVE Inv'
<1>1. stack # <<>> /\ Top.kind # "prompt" /\ line \in Lines \cup {NoLine}
    BY DEF NextOfList, NextOfFile, At, Inv, TypeOK
<1>2. /\ \/ Top.rest # <<>> /\ Takes
         \/ Pop /\ UNCHANGED line
      /\ result' \in BOOLEAN
    BY DEF NextOfList, NextOfFile, Inv, TypeOK
<1>3. stack' \in Seq(Frames) /\ InOrder(stack') /\ line' \in Lines \cup {NoLine}
    BY <1>1, <1>2, TakesKeeps, PopKeeps
<1>4. UNCHANGED <<stores, aliases, kept, quit, converted, collecting, typed, exit>>
    BY DEF NextOfList, NextOfFile, env
<1>5. /\ collecting' \in BOOLEAN /\ typed' \in Nat
      /\ exit' \in {"no", "normal", "failed", "thrown"}
    BY <1>4 DEF Inv, TypeOK
<1> QED
    BY <1>2, <1>3, <1>4, <1>5, SameStores, LoopInv

LEMMA NextOfCommandsInv == ASSUME Inv, NextOfCommands PROVE Inv'
<1>1. stack # <<>> /\ Top.kind # "prompt" /\ line \in Lines \cup {NoLine}
    BY DEF NextOfCommands, At, Inv, TypeOK
<1>2. /\ UNCHANGED <<aliases, kept, quit, converted, result, typed>>
      /\ result' \in BOOLEAN /\ typed' \in Nat
    BY DEF NextOfCommands, Inv, TypeOK
<1>3. /\ collecting' \in BOOLEAN
      /\ exit' \in {"no", "normal", "failed", "thrown"}
    BY DEF NextOfCommands, Inv, TypeOK
<1>4. CurrentIsValid' /\ stores' \in [Stores -> [data : Seq(Values), current : Int]]
    <2>1. UNCHANGED stores \/ stores' \in AfterAbc
        BY DEF NextOfCommands
    <2> QED
        BY <2>1, SameStores, AfterAbcValid DEF Inv
<1>5. \/ stack' = <<>> /\ UNCHANGED line
      \/ Pop /\ UNCHANGED line
      \/ Top.rest # <<>> /\ Proceeds /\ UNCHANGED line
      \/ Top.rest # <<>> /\ Takes
    BY DEF NextOfCommands
<1>6. stack' \in Seq(Frames) /\ InOrder(stack') /\ line' \in Lines \cup {NoLine}
    <2>1. CASE stack' = <<>> /\ UNCHANGED line
        BY <1>1, <2>1 DEF InOrder
    <2>2. CASE Pop /\ UNCHANGED line
        BY <1>1, <2>2, PopKeeps
    <2>3. CASE Top.rest # <<>> /\ Proceeds /\ UNCHANGED line
        BY <1>1, <2>3, ProceedsKeeps DEF Inv
    <2>4. CASE Top.rest # <<>> /\ Takes
        BY <1>1, <2>4, TakesKeeps
    <2> QED
        BY <1>5, <2>1, <2>2, <2>3, <2>4
<1> QED
    BY <1>2, <1>3, <1>4, <1>6, LoopInv

LEMMA PromptInv == ASSUME Inv, Prompt \/ LeavePrompt \/ Exit PROVE Inv'
<1>1. /\ UNCHANGED <<stores, aliases, kept, quit, converted, result, collecting>>
      /\ result' \in BOOLEAN /\ collecting' \in BOOLEAN
    BY DEF Prompt, LeavePrompt, Exit, env, Inv, TypeOK
<1>2. /\ line' \in Lines \cup {NoLine} /\ typed' \in Nat
      /\ exit' \in {"no", "normal", "failed", "thrown"}
    BY DEF Prompt, LeavePrompt, Exit, Inv, TypeOK
<1>3. stack' \in Seq(Frames) /\ InOrder(stack')
    <2>1. CASE UNCHANGED stack
        BY <2>1 DEF Inv, TypeOK
    <2>2. CASE stack # <<>> /\ Pop
        BY <2>2, PopKeeps
    <2> QED
        BY <2>1, <2>2 DEF Prompt, LeavePrompt, Exit, At
<1> QED
    BY <1>1, <1>2, <1>3, SameStores, LoopInv

LEMMA StepInv == ASSUME Inv, [Next]_vars PROVE Inv'
<1>1. CASE Next
    BY <1>1, ExpandInv, ExecuteLineInv, NextOfListInv, NextOfCommandsInv, PromptInv
    DEF Next, Step
<1>2. CASE UNCHANGED vars
    BY <1>2 DEF vars, Inv, TypeOK, CurrentIsValid, InOrder
<1> QED
    BY <1>1, <1>2

LEMMA Inductive == Spec => []Inv
<1> QED
    BY InitInv, StepInv, PTL DEF Spec

-------------------------------------------------------------------------------
(* Every variable keeps its type, whatever lines and files hold.              *)
THEOREM TypeCorrect == Spec => []TypeOK
<1>1. Inv => TypeOK
    BY DEF Inv
<1> QED
    BY <1>1, Inductive, PTL

(* For any stores, lines, aliases and files, the current index of a store is   *)
(* that of an entry whenever there is one: no command reads beyond the end.    *)
THEOREM EntriesAreCurrent == Spec => []CurrentIsValid
<1>1. Inv => CurrentIsValid
    BY DEF Inv
<1> QED
    BY <1>1, Inductive, PTL

(* Nothing happens in command mode after a failure but that the lists around it *)
(* and the program end, for any script.                                      *)
THEOREM ScriptsStop == Spec => FailureStops
<1> DEFINE A == InScript /\ line = NoLine /\ ~result =>
                    /\ UNCHANGED env /\ line' = NoLine
                    /\ exit' = "failed" \/ (InScript' /\ ~result')
<1>1. ASSUME Inv, Next, InScript, line = NoLine, ~result
      PROVE  /\ UNCHANGED env /\ line' = NoLine
             /\ exit' = "failed" \/ (InScript' /\ ~result')
    <2>1. PICK i \in DOMAIN stack : stack[i].kind = "command"
        BY <1>1 DEF InScript
    <2>2. stack \in Seq(Frames) /\ stack # <<>> /\ i \in 1..Len(stack) /\ Len(stack) \in Nat
        BY <1>1, <2>1 DEF Inv, TypeOK
    <2>3. Top = stack[1] /\ Top.kind # "file"
        BY <1>1, <2>2 DEF Top, InScript, Scripted
    <2>4. Top.kind # "prompt"
        BY <1>1, <2>1, <2>2, <2>3 DEF Inv, InOrder
    <2>5. NextOfList \/ NextOfCommands
        BY <1>1, <2>2, <2>3, <2>4
        DEF Next, Step, Expand, ExecuteLine, ExecuteNothing, ExecuteList, EscapeToShell,
            ReadCommands, Reject, PrintStore, Abc, Quit, Alias, Show, StoreClear, SetCurrentStore,
            Read, ConvertPair, Convert, Command, Executes, NextOfFile, LeavePrompt, Prompt, Exit, At
    <2>6. CASE NextOfCommands
        BY <1>1, <2>6 DEF NextOfCommands, env
    <2>7. CASE NextOfList
        <3>1. UNCHANGED <<env, result, line>> /\ stack' = Tail(stack) /\ Top.kind = "list"
            BY <1>1, <2>7 DEF NextOfList, At, Pop
        <3>2. i # 1
            BY <2>1, <2>3, <3>1
        <3>3. /\ i - 1 \in DOMAIN stack' /\ stack'[i - 1] = stack[i]
              /\ \A j \in DOMAIN stack' : stack'[j] = stack[j + 1] /\ j + 1 \in DOMAIN stack
            BY <2>2, <3>1, <3>2
        <3>4. InScript'
            BY <1>1, <2>1, <3>3 DEF InScript, Scripted
        <3> QED
            BY <1>1, <3>1, <3>4
    <2> QED
        BY <2>5, <2>6, <2>7
<1>2. ASSUME UNCHANGED vars
      PROVE  A
    BY <1>2 DEF vars, env, InScript, Scripted
<1>3. Inv /\ [Next]_vars => [A]_vars
    BY <1>1, <1>2
<1> QED
    BY <1>3, Inductive, PTL DEF Spec, FailureStops
===============================================================================
