-------------------------------- MODULE MCShell --------------------------------
(* Two stores, a script of up to two lines in the three modes of the program,  *)
(* and up to two lines typed afterwards.                                     *)
EXTENDS Shell, TLC

Cmd(name) == [kind |-> "command", command |-> name]

MCParsed ==
    "" :> [kind |-> "none"] @@
    "!ls" :> [kind |-> "escape"] @@
    "< f" :> [kind |-> "file", file |-> "f"] @@
    "< g" :> [kind |-> "file", file |-> "g"] @@
    "x" :> [kind |-> "none"] @@
    "y" :> [kind |-> "none"] @@
    "read f; x" :> [kind |-> "list", lines |-> <<"read f", "x">>] @@
    "quit; bad; clear" :> [kind |-> "list", lines |-> <<"quit", "bad", "clear">>] @@
    "bad" :> Cmd("reject") @@
    "print" :> Cmd("print") @@
    "abc" :> Cmd("abc") @@
    "quit" :> Cmd("quit") @@
    "alias x bad" :> [kind |-> "command", command |-> "alias", pattern |-> 1, expansion |-> "quit; bad; clear"] @@
    "alias x x" :> [kind |-> "command", command |-> "alias", pattern |-> 1, expansion |-> "x"] @@
    "alias . x" :> [kind |-> "command", command |-> "alias", pattern |-> 2, expansion |-> "x"] @@
    "read f" :> [kind |-> "command", command |-> "read", store |-> "aig", new |-> FALSE, file |-> "f"] @@
    "read g" :> [kind |-> "command", command |-> "read", store |-> "aig", new |-> FALSE, file |-> "g"] @@
    "read -n" :> [kind |-> "command", command |-> "read", store |-> "aig", new |-> TRUE, file |-> "none"] @@
    "current 1" :> [kind |-> "command", command |-> "current", store |-> "aig", index |-> 1] @@
    "current" :> [kind |-> "command", command |-> "current", store |-> "aig", index |-> NoIndex] @@
    "convert" :> [kind |-> "command", command |-> "convert",
                  pairs |-> {<<"aig", "mig">>, <<"mig", "aig">>}] @@
    "show" :> [kind |-> "command", command |-> "show", store |-> "aig"] @@
    "clear" :> [kind |-> "command", command |-> "clear", stores |-> {"aig"}]

MCLines == DOMAIN MCParsed

MCPatterns == <<{"x"}, {"x", "y"}>>

(* f reads itself and ends the program after that; g does not exist.          *)
MCFiles == "f" :> <<"< f", "read -n", "y", "quit">>

MCAliasFile == <<"alias x bad">>

MaxScript == 3

MCScripts == UNION {[1..n -> MCLines] : n \in 1..MaxScript}
===============================================================================
