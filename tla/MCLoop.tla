------------------------------- MODULE MCLoop -------------------------------
(***************************************************************************)
(* The instances of Loop that TLC checks.                                  *)
(***************************************************************************)
EXTENDS LoopProperties

CONSTANTS root, dashboard, daemon, other1, other2
=============================================================================
