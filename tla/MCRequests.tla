----------------------------- MODULE MCRequests -----------------------------
(* The instances of Requests that TLC checks. *)
EXTENDS RequestsProperties

CONSTANTS session1, session2

\* A standalone watch of a client with and one without a native follow, whose
\* session is to be woken.
Woken == {[client |-> c, mode |-> "plain", notify |-> TRUE] : c \in {"claude", "codex"}}
=============================================================================
