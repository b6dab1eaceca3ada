------------------------------- MODULE MCGoal -------------------------------
(***************************************************************************)
(* The instance of Goal that TLC checks: an agent that writes below the    *)
(* directory an external node writes, and a local node beside them that    *)
(* takes an input from the external one.                                   *)
(***************************************************************************)
EXTENDS GoalProperties

Directory == [absolute |-> FALSE, parts |-> <<"src">>]
File      == [absolute |-> FALSE, parts |-> <<"src", "api">>]

Docs      == [absolute |-> FALSE, parts |-> <<"docs">>]

Writer(kind, paths, inputs) ==
  [kind |-> kind, read_only |-> FALSE, write_paths |-> paths, inputs |-> inputs]

MCPlan == <<Writer("agent", {File}, {}),
            Writer("external", {Directory}, {}),
            Writer("local", {Docs}, {2})>>
=============================================================================
