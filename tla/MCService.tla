----------------------------- MODULE MCService ------------------------------
(* The instances of Service that TLC checks. *)
EXTENDS ServiceProperties

CONSTANTS c1, c2, p1, p2, p3
=============================================================================
