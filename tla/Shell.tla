--------------------------------- MODULE Shell ---------------------------------
(***************************************************************************)
(* cli_main and the generic commands of the shell alice (src/alice).          *)
(* execute_line, process_file and run call each other: the stack has a frame   *)
(* for each call that has lines left.  A line is a value that Parsed takes     *)
(* apart; an alias is a pattern, the set of lines it matches, and the line    *)
(* it expands to.  Output, history and the log are left out.                 *)
(***************************************************************************)
EXTENDS Integers, Sequences, FiniteSets

CONSTANTS
    Stores, AbcStore,   \* ABC reads and writes the store of AIGs
    Lines, Parsed,
    Patterns,           \* a sequence of sets of lines, in the order of env->aliases
    Files,              \* the lines of the files that exist
    AliasFile,          \* the lines of $CIRKIT_HOME/alias
    MaxOpenFiles,       \* files a process may have open
    Scripts,            \* what may be on the command line or in the file to run
    MaxTyped,           \* bound on the lines typed at the prompt
    NoLine, NoFile, Nothing

(* What the parsers of options make sure of. *)
ParsedAssumption ==
    /\ AbcStore \in Stores
    /\ Scripts \subseteq Seq(Lines)
    /\ AliasFile \in Seq(Lines) /\ \A f \in DOMAIN Files : Files[f] \in Seq(Lines)
    /\ \A l \in Lines :
        /\ Parsed[l].kind = "list" => Parsed[l].lines \in Seq(Lines)
        /\ Parsed[l].kind = "command" =>
            /\ Parsed[l].command \in {"read", "current"} => Parsed[l].store \in Stores
            /\ Parsed[l].command = "current" => Parsed[l].index \in Nat \cup {-1}
            /\ Parsed[l].command = "convert" => Parsed[l].pairs \subseteq Stores \X Stores
            /\ Parsed[l].command = "alias" => Parsed[l].expansion \in Lines

ASSUME ShellAssumption == ParsedAssumption

-------------------------------------------------------------------------------
(* cli_store: the entries of one type and the index of the current one,     *)
(* counted from 0, or -1.  An operation that fails with an exception has no *)
(* result.                                                                  *)

NoCurrent == -1

EmptyStore == [data |-> <<>>, current |-> NoCurrent]

Size(s) == Len(s.data)

(* current() and operator* throw if there is no current entry.              *)
HasCurrent(s) == s.current >= 0
Current(s) == s.data[s.current + 1]
SetCurrent(s, value) ==
    [data |-> [s.data EXCEPT ![s.current + 1] = value], current |-> s.current]

SetCurrentIndex(s, i) == [data |-> s.data, current |-> i]

(* The new entry holds nothing until it is assigned. *)
Extend(s, nothing) == [data |-> Append(s.data, nothing), current |-> Len(s.data)]

Clear(s) == EmptyStore

(* What a store may hold, and that its index is one of its entries. *)
IsStore(s, values) ==
    /\ s \in [data : Seq(values), current : Int]
    /\ IF s.data = <<>> THEN s.current = NoCurrent ELSE s.current \in 0..Len(s.data) - 1
-------------------------------------------------------------------------------

VARIABLES
    stores,
    aliases,            \* per pattern the expansion or NoLine
    kept,               \* filename and index, which the commands keep between calls
    quit,
    stack,              \* the innermost call comes first
    line,               \* the line that is expanded and executed next
    converted,          \* the conversions of a call of convert that were done
    result,             \* what execute_line returned last
    collecting,         \* between abc and quit in command mode
    typed,
    exit

env == <<stores, aliases, kept, quit>>
vars == <<stores, aliases, kept, quit, stack, line, converted, result, collecting, typed, exit>>

FileNames == DOMAIN Files
Values == FileNames \cup {Nothing}
NoIndex == -1

Frames == [kind : {"file", "command", "list", "prompt"}, rest : Seq(Lines), fresh : BOOLEAN]

Frame(kind, lines) == [kind |-> kind, rest |-> lines, fresh |-> TRUE]
Top == Head(stack)
Pop == stack' = Tail(stack)

(* The calls that run makes: the file of aliases, the commands or the file,   *)
(* and the prompt.                                                          *)
Run(mode, lines, interactive) ==
    <<Frame("file", AliasFile)>> \o
    (IF mode = "prompt" THEN <<>> ELSE <<Frame(mode, lines)>>) \o
    (IF mode = "prompt" \/ interactive THEN <<Frame("prompt", <<>>)>> ELSE <<>>)

Start(mode, lines, interactive) ==
    /\ stores = [s \in Stores |-> EmptyStore]
    /\ aliases = [p \in DOMAIN Patterns |-> NoLine]
    /\ kept = [filename |-> NoFile, index |-> NoIndex]
    /\ quit = FALSE
    /\ stack = Run(mode, lines, interactive)
    /\ line = NoLine
    /\ converted = <<>>
    /\ result = TRUE
    /\ collecting = FALSE
    /\ typed = 0
    /\ exit = "no"

(* The commands on the command line are split at every semicolon. *)
Init ==
    \/ Start("prompt", <<>>, TRUE)
    \/ \E mode \in {"command", "file"}, interactive \in BOOLEAN, script \in Scripts :
            /\ mode = "command" => \A i \in DOMAIN script : Parsed[script[i]].kind # "list"
            /\ Start(mode, script, interactive)

-------------------------------------------------------------------------------
(* preprocess_alias: the first pattern that matches, again and again. *)
Matching(l) == {p \in DOMAIN Patterns : aliases[p] # NoLine /\ l \in Patterns[p]}

IsFirst(p, l) == p \in Matching(l) /\ \A q \in Matching(l) : p <= q

Expand ==
    /\ line # NoLine
    /\ \E p \in DOMAIN Patterns : IsFirst(p, line) /\ line' = aliases[p]
    /\ UNCHANGED <<env, stack, result, converted, collecting, typed, exit>>

(* A line without an alias is executed. *)
Executes(kind) == line # NoLine /\ Matching(line) = {} /\ Parsed[line].kind = kind

Return(value) == result' = value /\ line' = NoLine

-------------------------------------------------------------------------------
(* execute_line up to the commands. *)

(* Empty lines, comments, unknown commands. *)
ExecuteNothing ==
    /\ Executes("none")
    /\ Return(FALSE)
    /\ UNCHANGED <<env, stack, converted, collecting, typed, exit>>

(* Several commands in one line. *)
ExecuteList ==
    /\ Executes("list")
    /\ stack' = <<Frame("list", Parsed[line].lines)>> \o stack
    /\ Return(TRUE)
    /\ UNCHANGED <<env, converted, collecting, typed, exit>>

EscapeToShell ==
    /\ Executes("escape")
    /\ Return(TRUE)
    /\ UNCHANGED <<env, stack, converted, collecting, typed, exit>>

OpenFiles == Cardinality({i \in DOMAIN stack : stack[i].kind = "file"})

(* A file that cannot be opened is reported and otherwise like an empty one. *)
ReadCommands ==
    /\ Executes("file")
    /\ LET name == Parsed[line].file
       IN  stack' = IF name \in FileNames /\ OpenFiles < MaxOpenFiles
                    THEN <<Frame("file", Files[name])>> \o stack ELSE stack
    /\ Return(TRUE)
    /\ UNCHANGED <<env, converted, collecting, typed, exit>>

-------------------------------------------------------------------------------
(* Commands.  notify stores the options given before the rules are tested.   *)

Command(name) == Executes("command") /\ Parsed[line].command = name
Args == Parsed[line]

RunsOn == UNCHANGED <<stack, converted, collecting, typed, exit>>

(* An exception that nobody catches ends the program. *)
Throws ==
    /\ exit' = "thrown" /\ stack' = <<>> /\ Return(FALSE)
    /\ UNCHANGED <<converted, collecting, typed>>

(* Options that cannot be parsed. *)
Reject ==
    /\ Command("reject") /\ Return(FALSE)
    /\ RunsOn /\ UNCHANGED env

(* print, ps and write_io do nothing more than warn if there is no entry. *)
PrintStore ==
    /\ Command("print") /\ Return(TRUE)
    /\ RunsOn /\ UNCHANGED env

Prepared(s, new) == IF new \/ s.data = <<>> THEN Extend(s, Nothing) ELSE s

(* ABC may leave an AIG, for the current entry or a new one, or not start. *)
AfterAbc ==
    {stores} \cup {[stores EXCEPT ![AbcStore] = SetCurrent(Prepared(@, new), Nothing)] : new \in BOOLEAN}

Abc ==
    /\ Command("abc")
    /\ \/ stores' \in AfterAbc /\ Return(TRUE)
       \/ UNCHANGED stores /\ Return(FALSE)
    /\ RunsOn /\ UNCHANGED <<aliases, kept, quit>>

Quit ==
    /\ Command("quit") /\ Return(TRUE) /\ quit' = TRUE
    /\ RunsOn /\ UNCHANGED <<stores, aliases, kept>>

Alias ==
    /\ Command("alias") /\ Return(TRUE)
    /\ aliases' = [aliases EXCEPT ![Args.pattern] = Args.expansion]
    /\ RunsOn /\ UNCHANGED <<stores, kept, quit>>

(* show takes the current entry without asking whether there is one. *)
Show ==
    /\ Command("show")
    /\ IF HasCurrent(stores[Args.store]) THEN Return(TRUE) /\ RunsOn ELSE Throws
    /\ UNCHANGED env

StoreClear ==
    /\ Command("clear") /\ Return(TRUE)
    /\ stores' = [s \in Stores |-> IF s \in Args.stores THEN Clear(stores[s]) ELSE stores[s]]
    /\ RunsOn /\ UNCHANGED <<aliases, kept, quit>>

(* The index of the call before, if none is given; before the first call the   *)
(* variable has not been initialized.                                       *)
MaxIndex == 3
IndexOf(given) ==
    IF given # NoIndex THEN {given} ELSE IF kept.index # NoIndex THEN {kept.index} ELSE 0..MaxIndex

(* Mutant: the size itself is accepted. *)
SwitchLoose(s, i) == IF i <= Size(s) THEN SetCurrentIndex(s, i) ELSE s

Switch(s, i) == IF i < Size(s) THEN SetCurrentIndex(s, i) ELSE s

SetCurrentStore ==
    /\ Command("current") /\ Return(TRUE)
    /\ kept' = [filename |-> kept.filename,
                index |-> IF Args.index = NoIndex THEN kept.index ELSE Args.index]
    /\ \E i \in IndexOf(Args.index) :
            stores' = [stores EXCEPT ![Args.store] = Switch(@, i)]
    /\ RunsOn /\ UNCHANGED <<aliases, quit>>

(* A file given must exist.  Without one, that of the call before is read,     *)
(* which may be one that was refused, or none; readers differ in what they    *)
(* do then.                                                                *)
Read ==
    /\ Command("read")
    /\ kept' = [filename |-> IF Args.file = NoFile THEN kept.filename ELSE Args.file,
                index |-> kept.index]
    /\ IF Args.file # NoFile /\ Args.file \notin FileNames
       THEN Return(FALSE) /\ RunsOn /\ UNCHANGED stores
       ELSE LET s == Prepared(stores[Args.store], Args.new)
                name == kept'.filename
            IN  \/ /\ stores' = [stores EXCEPT ![Args.store] =
                                    SetCurrent(s, IF name \in FileNames THEN name ELSE Nothing)]
                   /\ Return(TRUE) /\ RunsOn
                \/ /\ name \notin FileNames
                   /\ stores' = [stores EXCEPT ![Args.store] = s]
                   /\ Throws
    /\ UNCHANGED <<aliases, quit>>

(* One conversion of a call that may ask for several, of whatever the current *)
(* entry of the source is then.                                             *)
Converted(all, source, target) ==
    IF HasCurrent(all[source])
    THEN [all EXCEPT ![target] = SetCurrent(Extend(@, Nothing), Current(all[source]))]
    ELSE all

(* The compiler chooses the order in which the conversions are evaluated: that *)
(* of the targets, and for each that of the sources.                        *)
Left == Args.pairs \ {converted[i] : i \in DOMAIN converted}
LastTarget == converted[Len(converted)][2]
MayFollow(pair) ==
    converted # <<>> => pair[2] = LastTarget \/ \A other \in Left : other[2] # LastTarget

ConvertPair ==
    /\ Command("convert")
    /\ \E pair \in Left :
            /\ MayFollow(pair)
            /\ stores' = Converted(stores, pair[1], pair[2])
            /\ converted' = Append(converted, pair)
    /\ UNCHANGED <<aliases, kept, quit, stack, line, result, collecting, typed, exit>>

Convert ==
    /\ Command("convert") /\ Left = {} /\ Return(TRUE)
    /\ converted' = <<>>
    /\ UNCHANGED <<env, stack, collecting, typed, exit>>

ExecuteLine ==
    \/ ExecuteNothing \/ ExecuteList \/ EscapeToShell \/ ReadCommands
    \/ Reject \/ PrintStore \/ Abc \/ Quit \/ Alias \/ Show \/ StoreClear \/ SetCurrentStore
    \/ Read \/ ConvertPair \/ Convert

-------------------------------------------------------------------------------
(* The loops that take the next line. *)

At(kind) == exit = "no" /\ line = NoLine /\ stack # <<>> /\ Top.kind = kind

Proceeds ==
    stack' = <<[kind |-> Top.kind, rest |-> Tail(Top.rest), fresh |-> FALSE]>> \o Tail(stack)
Takes == line' = Head(Top.rest) /\ Proceeds

(* Mutant: the rest of the list is executed after a failure. *)
NextOfListAnyway ==
    /\ At("list")
    /\ IF Top.rest # <<>> THEN Takes ELSE Pop /\ UNCHANGED line
    /\ UNCHANGED <<env, result, converted, collecting, typed, exit>>

(* A list ends at the first command that fails, and fails with it; that the    *)
(* shell is to quit does not matter.                                        *)
NextOfList ==
    /\ At("list")
    /\ IF result /\ Top.rest # <<>> THEN Takes ELSE Pop /\ UNCHANGED line
    /\ UNCHANGED <<env, result, converted, collecting, typed, exit>>

(* A file goes on after a failure and ends when the shell is to quit.  Where   *)
(* its lines were asked for by a line this one has succeeded.                *)
NextOfFile ==
    /\ At("file")
    /\ IF Top.rest # <<>> /\ (Top.fresh \/ ~quit)
       THEN Takes /\ UNCHANGED result
       ELSE Pop /\ result' = TRUE /\ UNCHANGED line
    /\ UNCHANGED <<env, converted, collecting, typed, exit>>

IsCommand(l, name) == Parsed[l].kind = "command" /\ Parsed[l].command = name

(* Command mode: the program ends with the first failure.  Lines after one     *)
(* that starts with abc are collected, until quit, and handed to ABC.        *)
NextOfCommands ==
    /\ At("command")
    /\ \/ /\ ~result
          /\ exit' = "failed" /\ stack' = <<>>
          /\ UNCHANGED <<stores, line, collecting>>
       \/ /\ result /\ (Top.rest = <<>> \/ (~Top.fresh /\ quit))
          /\ Pop
          /\ UNCHANGED <<stores, line, collecting, exit>>
       \/ /\ result /\ Top.rest # <<>> /\ (Top.fresh \/ ~quit)
          /\ LET next == Head(Top.rest)
             IN  \/ /\ collecting /\ IsCommand(next, "quit")
                    /\ Proceeds /\ collecting' = FALSE /\ stores' \in AfterAbc
                    /\ UNCHANGED line
                 \/ /\ IF collecting THEN ~IsCommand(next, "quit") ELSE IsCommand(next, "abc")
                    /\ Proceeds /\ collecting' = TRUE
                    /\ UNCHANGED <<stores, line>>
                 \/ /\ ~collecting /\ ~IsCommand(next, "abc")
                    /\ Takes
                    /\ UNCHANGED <<stores, collecting>>
          /\ UNCHANGED exit
    /\ UNCHANGED <<aliases, kept, quit, converted, result, typed>>

(* Mutant: quit is obeyed only if the line it was in succeeded. *)
LeavePromptOnSuccess ==
    /\ At("prompt") /\ quit /\ result
    /\ Pop
    /\ UNCHANGED <<env, line, result, converted, collecting, typed, exit>>

LeavePrompt ==
    /\ At("prompt") /\ quit
    /\ Pop
    /\ UNCHANGED <<env, line, result, converted, collecting, typed, exit>>

(* The user types a line or ends the input. *)
Prompt ==
    /\ At("prompt") /\ ~quit
    /\ \/ /\ typed < MaxTyped
          /\ \E l \in Lines : line' = l
          /\ typed' = typed + 1
          /\ UNCHANGED stack
       \/ Pop /\ UNCHANGED <<line, typed>>
    /\ UNCHANGED <<env, result, converted, collecting, exit>>

Exit ==
    /\ exit = "no" /\ line = NoLine /\ stack = <<>>
    /\ exit' = "normal"
    /\ UNCHANGED <<env, stack, line, result, converted, collecting, typed>>

Step == Expand \/ ExecuteLine \/ NextOfList \/ NextOfFile \/ NextOfCommands \/ LeavePrompt \/ Exit

Next == Step \/ Prompt

Spec == Init /\ [][Next]_vars /\ WF_vars(Step)

TypeOK ==
    /\ stores \in [Stores -> [data : Seq(Values), current : Int]]
    /\ aliases \in [DOMAIN Patterns -> Lines \cup {NoLine}]
    /\ kept.index \in Nat \cup {NoIndex}
    /\ quit \in BOOLEAN /\ result \in BOOLEAN /\ collecting \in BOOLEAN
    /\ stack \in Seq(Frames)
    /\ line \in Lines \cup {NoLine}
    /\ converted \in Seq(Stores \X Stores)
    /\ typed \in Nat
    /\ exit \in {"no", "normal", "failed", "thrown"}

-------------------------------------------------------------------------------
(* The current index of a store is the index of an entry, or -1 when there is  *)
(* none: that an entry is current is all that most commands ask.             *)
CurrentIsValid == \A s \in Stores : IsStore(stores[s], Values)

(* In command mode nothing happens after the first failure: unless a file is    *)
(* in between, the lists around it end too, and the program with exit code 1.  *)
Scripted == \A i \in DOMAIN stack : stack[i].kind \in {"list", "command", "prompt"}
InScript == Scripted /\ \E i \in DOMAIN stack : stack[i].kind = "command"

FailureStops ==
    [][InScript /\ line = NoLine /\ ~result =>
            /\ UNCHANGED env /\ line' = NoLine
            /\ exit' = "failed" \/ (InScript' /\ ~result')]_vars

(* A line expands for ever if it does so once more often than there are      *)
(* patterns: then an expansion has come up twice.                           *)
Once(l) ==
    IF Matching(l) = {} THEN l ELSE aliases[CHOOSE p \in DOMAIN Patterns : IsFirst(p, l)]

Endless ==
    /\ line # NoLine
    /\ LET nth[n \in 0..Len(Patterns)] == IF n = 0 THEN line ELSE Once(nth[n - 1])
       IN  Matching(nth[Len(Patterns)]) # {}

(* Whatever the lines say, files that read themselves among them, the shell   *)
(* ends or comes back to its prompt, and once it is to quit it does not come   *)
(* back; nothing but an alias that expands for ever stops it.                *)
Settles == []<>(exit # "no" \/ Endless \/ (At("prompt") /\ ~quit))
===============================================================================
