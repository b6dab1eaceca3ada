-------------------------------- MODULE Goal --------------------------------
(***************************************************************************)
(* One goal (src/src/goal.py): its status, its verification and the graph  *)
(* of its nodes.  A command of the root, of a user at the dashboard or of  *)
(* a wait's rollback is one GoalStore.edit: under the file lock it loads   *)
(* the state, applies one GoalGraph operation, validates the whole result  *)
(* and replaces the file, or leaves the file alone.  A refused command is  *)
(* therefore no step at all.  Between two commands anything may happen, so *)
(* a command may carry an id of a dispatch or a wait that is long over.    *)
(*                                                                         *)
(* What a node is (kind, write scope, named inputs) is fixed by Plan when  *)
(* it is added; dependencies are chosen when it is added and edited.       *)
(* Titles, acceptance, artifacts, results, times and the event history are *)
(* left out.  A definition followed by one of nearly the same name and     *)
(* parameters is its deliberately wrong variant, used by no action.        *)
(***************************************************************************)
EXTENDS Naturals, FiniteSets, SequencesExt

CONSTANTS Size,     \* number of node ids; ids sort as their numbers
          Plan,     \* what add_node is told of each node, dependencies apart
          MaxIds    \* bound: dispatch tokens and watch ids handed out

Ids   == 1 .. Size
Kinds == {"agent", "local", "external"}

ASSUME GoalAssumption ==
  /\ Size \in Nat /\ MaxIds \in Nat
  /\ \A n \in Ids : /\ Plan[n].kind \in Kinds
                    /\ Plan[n].read_only \in BOOLEAN
                    /\ Plan[n].inputs \subseteq Ids

VARIABLES
  status,    \* the goal's status
  verified,  \* verification is recorded
  nodes,     \* the nodes; one never added is "absent"
  ids,       \* uuids handed out, by prepare_agent and prepare_external_wait
  locks,     \* watch ids whose watcher holds its lock (module Watch)
  settled    \* history: how often an id was accepted to settle its matter

goal == <<status, verified, nodes>>
vars == <<status, verified, nodes, ids, locks, settled>>

-----------------------------------------------------------------------------
(* Data.                                                                   *)

GoalStatuses == {"open", "paused", "completed", "cancelled"}
NodeStatuses == {"absent", "pending", "dispatching", "running", "waiting",
                 "completed", "failed", "cancelled"}
NoAssignment == [phase |-> "none", token |-> 0]
NoWait       == [phase |-> "none", watch_id |-> 0]
Uuids        == 1 .. MaxIds
Assignments  == [phase : {"prepared", "active"}, token : Uuids] \cup {NoAssignment}
Waits        == [phase : {"prepared", "active"}, watch_id : Uuids] \cup {NoWait}
Nodes == [deps : SUBSET Ids, status : NodeStatuses, started : BOOLEAN,
          assignment : Assignments, wait : Waits]

\* add_node's record.
Fresh(node_status, deps) ==
  [deps |-> deps, status |-> node_status, started |-> FALSE,
   assignment |-> NoAssignment, wait |-> NoWait]

WithStatus(ns, statuses) == {n \in Ids : ns[n].status \in statuses}
Present(ns) == {n \in Ids : ns[n].status # "absent"}

paths_overlap(p, q) == \/ p.absolute # q.absolute
                       \/ IsPrefix(p.parts, q.parts)
                       \/ IsPrefix(q.parts, p.parts)

\* An empty write scope is unknown and conflicts with every writer.
nodes_conflict(m, n) ==
  /\ ~Plan[m].read_only /\ ~Plan[n].read_only
  /\ \/ Plan[m].write_paths = {} \/ Plan[n].write_paths = {}
     \/ \E p \in Plan[m].write_paths, q \in Plan[n].write_paths : paths_overlap(p, q)

node_is_ready(ns, n) == /\ ns[n].status = "pending"
                        /\ \A d \in ns[n].deps : ns[d].status = "completed"

ConflictingWith(n, others) == \E m \in others : nodes_conflict(n, m)

\* The greedy frontier, in the order of the ids: a stored graph is sorted.
ready_nodes(ns, st) ==
  LET active == WithStatus(ns, {"running", "waiting"})
      selected[n \in 0 .. Size] ==
        IF n = 0 THEN {}
        ELSE IF node_is_ready(ns, n)
                  /\ ~ConflictingWith(n, active \cup selected[n - 1])
               THEN selected[n - 1] \cup {n} ELSE selected[n - 1]
  IN IF st = "open" /\ WithStatus(ns, {"dispatching"}) = {}
       THEN selected[Size] ELSE {}

orphaned_wait_ids(ns, held) ==
  {n \in WithStatus(ns, {"waiting"}) : ns[n].wait.watch_id \notin held}

\* What show reports of an open goal.
activity ==
  LET statuses == {nodes[n].status : n \in Present(nodes)}
  IN IF status # "open" THEN status
     ELSE IF "dispatching" \in statuses THEN "dispatching"
     ELSE IF orphaned_wait_ids(nodes, locks) # {} THEN "orphaned_wait"
     ELSE IF ready_nodes(nodes, status) # {} THEN "ready"
     ELSE IF "running" \in statuses THEN "running"
     ELSE IF "waiting" \in statuses THEN "waiting"
     ELSE IF statuses = {"completed"}
       THEN IF verified THEN "verified" ELSE "awaiting_verification"
     ELSE IF statuses # {} THEN "blocked" ELSE "idle"

-----------------------------------------------------------------------------
(* GoalGraph.validate, as far as the data above goes.                      *)

ValidWait(n, node) ==
  /\ node.wait.phase # "none" => Plan[n].kind = "external"
  /\ node.wait.phase = "prepared" => node.status = "running"
  /\ (node.wait.phase = "active") = (node.status = "waiting")

ValidLifecycle(n, node) ==
  /\ node.status \in {"running", "waiting", "completed"} => node.started
  /\ node.status \in {"pending", "dispatching"} => ~node.started
  /\ node.status = "dispatching" => Plan[n].kind = "agent"

ExpectedAssignmentUncancelled(node) ==
  IF node.status = "dispatching" THEN "prepared"
  ELSE IF node.started THEN "active" ELSE "none"
ExpectedAssignment(node) ==
  IF \/ node.status = "dispatching"
     \/ node.status = "cancelled" /\ node.assignment.phase = "prepared"
    THEN "prepared"
    ELSE IF node.started THEN "active" ELSE "none"

ValidNode(ns, n) ==
  /\ Plan[n].read_only => Plan[n].write_paths = {}
  /\ ns[n].deps \subseteq Present(ns)
  /\ Plan[n].inputs \subseteq ns[n].deps
  /\ ValidWait(n, ns[n])
  /\ ValidLifecycle(n, ns[n])
  /\ ns[n].assignment.phase =
       IF Plan[n].kind = "agent" THEN ExpectedAssignment(ns[n]) ELSE "none"

\* Every node completed, of at least one.
AllCompleted(ns) ==
  /\ Present(ns) # {}
  /\ \A n \in Present(ns) : ns[n].status = "completed"

\* _validate_acyclic: no nodes depend on each other in a circle.
AcyclicSelf(ns) == \A n \in Ids : n \notin ns[n].deps
Acyclic(ns) ==
  \A circle \in SUBSET Ids :
    circle # {} => {n \in circle : ns[n].deps \cap circle = {}} # {}

Valid(ns, st, ver) ==
  /\ \A n \in Present(ns) : ValidNode(ns, n)
  /\ ver => AllCompleted(ns)
  /\ st = "completed" => ver
  /\ Acyclic(ns)

\* GoalStore.edit writes only what validates.
Commit(ns, st, ver) ==
  /\ Valid(ns, st, ver)
  /\ nodes' = ns
  /\ status' = st
  /\ verified' = ver

Update(n, node) == Commit([nodes EXCEPT ![n] = node], status, verified)
\* The same for an operation that withdraws the verification.
Reopen(n, node) == Commit([nodes EXCEPT ![n] = node], status, FALSE)
Settle(i) == settled' = [settled EXCEPT ![i] = @ + 1]

-----------------------------------------------------------------------------
(* The operations of GoalGraph, by name.                                   *)

\* before = {t} inserts the new node in front of the pending node t.
add_node(n, deps, before) ==
  /\ status = "open"
  /\ nodes[n].status = "absent"
  /\ deps \subseteq Present(nodes)
  /\ \A t \in before : nodes[t].status = "pending"
  /\ Commit([m \in Ids |->
               IF m = n THEN Fresh("pending", deps)
               ELSE IF m \in before THEN [nodes[m] EXCEPT !.deps = @ \cup {n}]
               ELSE nodes[m]], status, FALSE)
  /\ UNCHANGED <<ids, locks, settled>>

edit_node_not_begun(n, deps) ==
  /\ status = "open"
  /\ nodes[n].status # "absent" /\ ~nodes[n].started
  /\ Update(n, [nodes[n] EXCEPT !.deps = deps])
  /\ UNCHANGED <<ids, locks, settled>>
edit_node(n, deps) ==
  /\ status = "open"
  /\ nodes[n].status = "pending"
  /\ Update(n, [nodes[n] EXCEPT !.deps = deps])
  /\ UNCHANGED <<ids, locks, settled>>

\* The checks prepare_agent and start_node share.
MayStartBesideWaiting(n) ==
  /\ status = "open"
  /\ WithStatus(nodes, {"dispatching"}) = {}
  /\ node_is_ready(nodes, n)
  /\ ~ConflictingWith(n, WithStatus(nodes, {"running"}))
MayStart(n) ==
  /\ status = "open"
  /\ WithStatus(nodes, {"dispatching"}) = {}
  /\ node_is_ready(nodes, n)
  /\ ~ConflictingWith(n, WithStatus(nodes, {"running", "waiting"}))

prepare_agent(n) ==
  /\ MayStart(n)
  /\ Plan[n].kind = "agent"
  /\ ids < MaxIds
  /\ ids' = ids + 1
  /\ Update(n, [nodes[n] EXCEPT !.status = "dispatching",
                  !.assignment = [phase |-> "prepared", token |-> ids + 1]])
  /\ UNCHANGED <<locks, settled>>

\* start_node of an agent: attach the child that was dispatched with token.
start_agent(n, token) ==
  /\ status = "open"
  /\ Plan[n].kind = "agent"
  /\ nodes[n].status = "dispatching"
  /\ nodes[n].assignment.token = token
  /\ Update(n, [nodes[n] EXCEPT !.status = "running", !.started = TRUE,
                  !.assignment.phase = "active"])
  /\ Settle(token)
  /\ UNCHANGED <<ids, locks>>

start_node(n) ==
  /\ MayStart(n)
  /\ Plan[n].kind # "agent"
  /\ Update(n, [nodes[n] EXCEPT !.status = "running", !.started = TRUE])
  /\ UNCHANGED <<ids, locks, settled>>

abort_agent(n, token) ==
  /\ status = "open"
  /\ Plan[n].kind = "agent"
  /\ nodes[n].status = "dispatching"
  /\ nodes[n].assignment.token = token
  /\ Update(n, [nodes[n] EXCEPT !.status = "pending", !.assignment = NoAssignment])
  /\ Settle(token)
  /\ UNCHANGED <<ids, locks>>

prepare_external_wait(n) ==
  /\ status = "open"
  /\ Plan[n].kind = "external"
  /\ nodes[n].status = "running"
  /\ nodes[n].wait = NoWait
  /\ ids < MaxIds
  /\ ids' = ids + 1
  /\ Update(n, [nodes[n] EXCEPT !.wait = [phase |-> "prepared", watch_id |-> ids + 1]])
  /\ UNCHANGED <<locks, settled>>

\* The receipt is there and in time when the watcher holds its lock.
activate_external_wait(n, watch_id) ==
  /\ status = "open"
  /\ nodes[n].status = "running"
  /\ nodes[n].wait = [phase |-> "prepared", watch_id |-> watch_id]
  /\ watch_id \in locks
  /\ Update(n, [nodes[n] EXCEPT !.status = "waiting", !.wait.phase = "active"])
  /\ UNCHANGED <<ids, locks, settled>>

abort_external_wait_kept_id(n, watch_id) ==
  /\ status \in {"open", "paused"}
  /\ nodes[n].status \in {"running", "waiting"}
  /\ nodes[n].wait.phase # "none" /\ nodes[n].wait.watch_id = watch_id
  /\ Update(n, [nodes[n] EXCEPT !.status = "running", !.wait.phase = "none"])
  /\ Settle(watch_id)
  /\ UNCHANGED <<ids, locks>>

\* Also the rollback of a wait whose submission failed.
abort_external_wait(n, watch_id) ==
  /\ status \in {"open", "paused"}
  /\ nodes[n].status \in {"running", "waiting"}
  /\ nodes[n].wait.phase # "none" /\ nodes[n].wait.watch_id = watch_id
  /\ Update(n, [nodes[n] EXCEPT !.status = "running", !.wait = NoWait])
  /\ Settle(watch_id)
  /\ UNCHANGED <<ids, locks>>

wake_node_any_event(n, event_id) ==
  /\ nodes[n].status = "waiting"
  /\ Update(n, [nodes[n] EXCEPT !.status = "running", !.wait = NoWait])
  /\ Settle(event_id)
  /\ UNCHANGED <<ids, locks>>

\* A repeated event is answered as a duplicate and changes nothing.
wake_node(n, event_id) ==
  /\ nodes[n].status = "waiting"
  /\ nodes[n].wait.watch_id = event_id
  /\ Update(n, [nodes[n] EXCEPT !.status = "running", !.wait = NoWait])
  /\ Settle(event_id)
  /\ UNCHANGED <<ids, locks>>

complete_node(n) ==
  /\ nodes[n].status = "running"
  /\ Reopen(n, [nodes[n] EXCEPT !.status = "completed"])
  /\ UNCHANGED <<ids, locks, settled>>

MayFailEvenCompleted(n) ==
  nodes[n].status \notin {"absent", "failed", "cancelled", "dispatching"}
MayFail(n) ==
  nodes[n].status \notin {"absent", "completed", "failed", "cancelled", "dispatching"}
Failed(n) == [nodes[n] EXCEPT !.status = "failed", !.wait = NoWait]

fail_node(n) ==
  /\ MayFail(n)
  /\ Reopen(n, Failed(n))
  /\ UNCHANGED <<ids, locks, settled>>

Retried(n) == [nodes[n] EXCEPT !.status = "pending", !.wait = NoWait,
                 !.assignment = NoAssignment, !.started = FALSE]

retry_node(n) ==
  /\ status = "open"
  /\ nodes[n].status = "failed"
  /\ Reopen(n, Retried(n))
  /\ UNCHANGED <<ids, locks, settled>>

verify ==
  /\ status = "open"
  /\ AllCompleted(nodes)
  /\ Commit(nodes, status, TRUE)
  /\ UNCHANGED <<ids, locks, settled>>

pause ==
  /\ status = "open"
  /\ Commit(nodes, "paused", verified)
  /\ UNCHANGED <<ids, locks, settled>>

resume_closed ==
  /\ status # "open"
  /\ Commit(nodes, "open", verified)
  /\ UNCHANGED <<ids, locks, settled>>
resume ==
  /\ status = "paused"
  /\ Commit(nodes, "open", verified)
  /\ UNCHANGED <<ids, locks, settled>>

CancelledNodes ==
  [n \in Ids |->
     IF nodes[n].status \in {"absent", "completed", "failed"} THEN nodes[n]
     ELSE [nodes[n] EXCEPT !.status = "cancelled", !.wait = NoWait]]

cancel ==
  /\ status # "completed"
  /\ Commit(CancelledNodes, "cancelled", verified)
  /\ UNCHANGED <<ids, locks, settled>>

finish ==
  /\ status = "open"
  /\ verified
  /\ Commit(nodes, "completed", verified)
  /\ UNCHANGED <<ids, locks, settled>>

-----------------------------------------------------------------------------
(* The watchers of module Watch, as lock_is_held sees them.                *)

TakeLock(i) ==
  /\ i \notin locks
  /\ i <= ids
  /\ locks' = locks \cup {i}
  /\ UNCHANGED <<goal, ids, settled>>

\* Of one watcher that ends, or of all those whose process ends.
ReleaseLocks(released) ==
  /\ locks' = locks \ released
  /\ UNCHANGED <<goal, ids, settled>>

NodeStep(n) ==
  \/ \E deps \in SUBSET Ids : edit_node(n, deps)
  \/ \E deps \in SUBSET Ids, before \in {{}} \cup {{t} : t \in Present(nodes)} :
       add_node(n, deps, before)
  \/ prepare_agent(n)
  \/ start_node(n)
  \/ prepare_external_wait(n)
  \/ complete_node(n)
  \/ fail_node(n)
  \/ retry_node(n)

\* Commands that carry an id: any id ever handed out, also an old one.
IdStep(n, i) ==
  \/ start_agent(n, i)
  \/ abort_agent(n, i)
  \/ activate_external_wait(n, i)
  \/ abort_external_wait(n, i)
  \/ wake_node(n, i)

GoalStep == verify \/ pause \/ resume \/ cancel \/ finish

Init ==
  /\ status = "open"
  /\ verified = FALSE
  /\ nodes = [n \in Ids |-> Fresh("absent", {})]
  /\ ids = 0
  /\ locks = {}
  /\ settled = [i \in Uuids |-> 0]

Next ==
  \/ \E n \in Ids : NodeStep(n)
  \/ \E n \in Ids, i \in 1 .. ids : IdStep(n, i)
  \/ GoalStep
  \/ \E i \in Uuids : TakeLock(i)
  \/ \E released \in SUBSET locks : ReleaseLocks(released)

Spec == Init /\ [][Next]_vars
=============================================================================
