------------------------- MODULE GoalWaitProperties -------------------------
(***************************************************************************)
(* What the handshake of a goal's external wait promises (docs/goal.md,    *)
(* External waits), with its commands killed, late or answered too late.   *)
(***************************************************************************)
EXTENDS GoalWait

\* Every variable has its type (the goal's own are those of module Goal).
TypeOK ==
  /\ cmd \in [Uuids -> {"none", "prepared", "sent", "answered", "failing",
                        "verified", "rolled_back", "not_rolled_back"}]
  /\ pending \subseteq Uuids
  /\ rec \in [Uuids -> {"none", "activating", "started", "ended", "given_up"}]
  /\ held \subseteq Uuids /\ polling \subseteq held /\ looked \subseteq polling
  /\ receipts \subseteq Uuids
  /\ past \subseteq Uuids /\ cancelled \subseteq Uuids
  /\ activating \in [id : 0 .. MaxIds, pc : {"none", "checked", "committed"}]
  /\ up \in BOOLEAN /\ crashes \in Nat

\* A wait that was reported rolled back never starts its program, though its
\* request may be handled later and its node may be waiting again, on a newer
\* wait (goal.py:1271).
RolledBackNeverStarts ==
  [][\A i \in Uuids : cmd[i] = "rolled_back" /\ rec[i] # "started" => rec'[i] # "started"]_vars

\* A wait the command verified can be activated until its deadline: its watch
\* does not give up as long as the wait is the node's, whatever other waits
\* did before it, and is still on record when the service restarts.  And
\* "activate-wait makes it waiting and starts execution" (docs/goal.md:93): the
\* watch of an activated wait has not given up, unless its deadline passed
\* while the activation was being made (goal.py:944-951, waitd.py:900-910).
WatchFollowsWait ==
  \A i \in Uuids \ (past \cup cancelled) :
    /\ cmd[i] = "verified" /\ IsWait("prepared", i) => rec[i] = "activating"
    /\ IsWait("active", i) => rec[i] # "given_up"

\* A wait that is over is never brought back: not by an activation that was
\* under way when it was rolled back, nor by a late one.
SettledStaysOut == \A i \in Uuids : settled[i] > 0 => wait.watch_id # i

\* What every state of the handshake keeps: the types, and settled waits out.
WaitInvariant == TypeOK /\ SettledStaysOut

\* Every registered watch starts its program or gives up, also when the
\* command that submitted it was killed and nobody will activate its wait.
WatchSettles ==
  \A i \in Uuids : rec[i] = "activating" ~> rec[i] \in {"started", "given_up"}

\* The handshake is one of the orders of commands and locks of module Goal,
\* whose properties it has therefore: the activation commits as if it held
\* the lock it only saw.
ImplementsGoal == G!Spec

=============================================================================
