--------------------------- MODULE GoalProperties ---------------------------
(***************************************************************************)
(* What a goal's graph promises through every order of commands: no work   *)
(* before its dependencies, no two writers of one path, no id used twice,  *)
(* an end that stays, and no state the root cannot get out of.             *)
(***************************************************************************)
EXTENDS Goal

\* Every variable has its type; a wait and an assignment come as a whole.
TypeOK ==
  /\ status \in GoalStatuses
  /\ verified \in BOOLEAN
  /\ nodes \in [Ids -> Nodes]
  /\ ids \in 0 .. MaxIds
  /\ locks \subseteq Uuids
  /\ settled \in [Uuids -> Nat]

Active == {"dispatching", "running", "waiting"}

\* Work on a node, begun or accepted, rests on accepted dependencies, however
\* the graph was edited, extended in front of it, or failed and retried since
\* (docs/goal.md: ready releases nodes only after all dependencies complete).
DependenciesComplete ==
  \A n \in WithStatus(nodes, Active \cup {"completed"}) :
    \A d \in nodes[n].deps : nodes[d].status = "completed"

\* Two nodes that are being worked on never write overlapping paths, waits,
\* wakes, aborted waits and agents being dispatched included.
NoConflictingWriters ==
  \A m, n \in WithStatus(nodes, Active) : m # n => ~nodes_conflict(m, n)

\* How a dispatch comes to its end: the node is attached or taken back by its
\* own token, or cancelled with the goal, on the dependencies it was given.
DispatchEnds(d) ==
  LET token == nodes[d].assignment.token
  IN /\ nodes'[d].deps = nodes[d].deps
     /\ \/ settled'[token] > settled[token] /\ nodes'[d].status \in {"running", "pending"}
        \/ status' = "cancelled" /\ nodes'[d].status = "cancelled"
     /\ nodes'[d].status = "running" => nodes'[d].assignment.token = token

\* What a child agent was sent off with stays as it was sent, until its own
\* answer or the goal's cancellation ends the dispatch: no edit, insertion in
\* front of it, retry or late command touches the node's record or what it
\* depends on, and no other node leaves pending for work meanwhile.
DispatchFreezes ==
  [][\A d \in WithStatus(nodes, {"dispatching"}) :
       /\ nodes'[d] = nodes[d] \/ DispatchEnds(d)
       /\ \A e \in nodes[d].deps :
            nodes[e].status = "completed" /\ nodes'[e] = nodes[e]
       /\ \A n \in Ids \ {d} :
            nodes[n].status = "pending" => nodes'[n].status \notin Active]_vars

\* A completed or cancelled goal stays exactly as it ended.
GoalIsFinal ==
  [][(status \in {"completed", "cancelled"}) => UNCHANGED goal]_vars

\* A dispatch token or watch id settles its matter once at most: a late wake,
\* abort or start never settles a newer dispatch or wait in its place.
IdSettledOnce == \A i \in Uuids : settled[i] <= 1

\* The frontier ready_nodes offers can be started as a whole, each node of it
\* right now, and it leaves out no node that could be started beside it.  It
\* leaves the goal blocked only when a node failed: dependencies alone never
\* wedge it, through any edits and insertions.
SoundFrontier ==
  LET ready == ready_nodes(nodes, status)
  IN /\ \A n \in ready : MayStart(n) /\ ~ConflictingWith(n, ready \ {n})
     /\ \A n \in Ids : MayStart(n) /\ ~ConflictingWith(n, ready) => n \in ready
     /\ activity = "blocked" => WithStatus(nodes, {"failed"}) # {}

\* The ways out are never refused by validation: a goal can be cancelled, a
\* node failed, and a failed node of an open goal retried, in every state.
EscapesAreValid ==
  /\ status \in {"open", "paused"} => Valid(CancelledNodes, "cancelled", verified)
  /\ \A n \in Ids : MayFail(n)
       => Valid([nodes EXCEPT ![n] = Failed(n)], status, FALSE)
  /\ \A n \in WithStatus(nodes, {"failed"}) : status = "open"
       => Valid([nodes EXCEPT ![n] = Retried(n)], status, FALSE)
-----------------------------------------------------------------------------
(* What the proofs of these carry along: invariants that, with the types,  *)
(* are inductive.                                                          *)

\* What a load of the goal's file validates holds of every state.
GoalValid == Valid(nodes, status, verified)

\* In a cancelled goal every node has come to its end.
CancelledRests ==
  status = "cancelled" =>
    \A n \in Ids : nodes[n].status \in {"absent", "completed", "failed", "cancelled"}

\* Only a cancelled goal has cancelled nodes.
OnlyCancelledHasCancelled ==
  \A n \in Ids : nodes[n].status = "cancelled" => status = "cancelled"

\* A dispatch or a wait that is still to be settled by id i.
Live(n, i) == \/ nodes[n].status = "dispatching" /\ nodes[n].assignment.token = i
              \/ nodes[n].wait.watch_id = i

\* An id still to settle something was handed out, to one node only, and has
\* settled nothing yet; one not handed out never settled anything.
IdInv ==
  /\ \A i \in Uuids : i > ids => settled[i] = 0
  /\ \A n \in Ids, i \in Uuids : Live(n, i) => i <= ids /\ settled[i] = 0
  /\ \A m, n \in Ids, i \in Uuids : Live(m, i) /\ Live(n, i) => m = n
  /\ IdSettledOnce
=============================================================================
