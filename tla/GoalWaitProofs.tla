--------------------------- MODULE GoalWaitProofs ---------------------------
(***************************************************************************)
(* Proofs about GoalWait, for any number of waits and crashes: the         *)
(* handshake implements module Goal, a settled wait stays out, a watch     *)
(* follows its wait, a wait that was rolled back never starts.             *)
(***************************************************************************)
EXTENDS GoalWaitProperties, TLAPS

\* The goal's file has its types; the phase of a wait goes with the status of
\* its node; the wait in the file is one that was handed out and not settled.
FileInv ==
  /\ status \in G!GoalStatuses /\ verified \in BOOLEAN
  /\ nodes \in [G!Ids -> G!Nodes]
  /\ ids \in 0 .. MaxIds
  /\ settled \in [Uuids -> Nat]
  /\ wait.phase = "prepared" => nodes[Node].status = "running"
  /\ wait.phase = "active" <=> nodes[Node].status = "waiting"
  /\ wait.phase # "none" => wait.watch_id \in 1 .. ids /\ settled[wait.watch_id] = 0
  /\ \A i \in Uuids : i > ids => settled[i] = 0

\* What a step may do to the file.
Keeps    == nodes'[Node].wait = wait /\ UNCHANGED <<ids, settled>>
Drops(i) == /\ nodes'[Node].wait = G!NoWait /\ UNCHANGED ids
            /\ \/ UNCHANGED settled
               \/ wait.phase # "none" /\ wait.watch_id = i /\ G!Settle(i)
Prepares == /\ wait = G!NoWait /\ ids < MaxIds /\ ids' = ids + 1 /\ UNCHANGED settled
            /\ nodes'[Node].wait = [phase |-> "prepared", watch_id |-> ids + 1]
            /\ nodes'[Node].status = "running"

Activates == /\ activating.pc = "checked" /\ UNCHANGED <<ids, settled>>
             /\ nodes'[Node].wait = [phase |-> "active", watch_id |-> activating.id]

\* Only ids that were handed out are in use, and only of recorded watches are
\* there locks, receipts and cancellations.
IdsInv ==
  /\ \A i \in Uuids : cmd[i] # "none" \/ i \in pending \/ rec[i] # "none" => i <= ids
  /\ \A i \in held \cup receipts \cup cancelled : rec[i] # "none"

\* Between its check and its commit an activation has the file for itself.
CheckedInv ==
  /\ activating.pc = "none" => activating.id = 0
  /\ activating.pc # "none" => activating.id \in Uuids /\ rec[activating.id] # "none"
  /\ activating.pc = "checked" =>
       status = "open" /\ nodes[Node].status = "running" /\ IsWait("prepared", activating.id)

\* What the command reported.
ReportInv ==
  \A i \in Uuids : /\ cmd[i] = "verified" => i \in receipts
                   /\ cmd[i] = "rolled_back" => settled[i] > 0

\* A watch that started or ended did so on its active wait; one that gave up
\* lost its wait first, or was cancelled or too late.
FollowInv ==
  \A i \in Uuids : /\ rec[i] \in {"started", "ended"} => ~IsWait("prepared", i)
                   /\ /\ rec[i] = "given_up"
                      /\ IsWait("prepared", i) \/ IsWait("active", i)
                      => i \in past \cup cancelled

WInv == TypeOK /\ FileInv /\ IdsInv /\ CheckedInv /\ ReportInv /\ FollowInv

-----------------------------------------------------------------------------
(* The goal's file.                                                        *)

\* The node's record, for the steps that change parts of it.
LEMMA NodeType ==
  ASSUME FileInv
  PROVE  /\ Node \in G!Ids /\ nodes[Node] \in G!Nodes
         /\ wait \in G!Waits
         /\ wait.phase \in {"none", "prepared", "active"}
         /\ wait.phase = "none" => wait = G!NoWait
<1>1. Node \in G!Ids /\ nodes[Node] \in G!Nodes
  BY DEF FileInv, Node, G!Ids
<1>2. wait \in G!Waits
  BY <1>1 DEF wait, G!Nodes
<1>3. QED
  BY <1>1, <1>2 DEF G!Waits, G!NoWait

\* What replacing the node leaves in the file, and what was validated.
LEMMA Replaced ==
  ASSUME FileInv, NEW node \in G!Nodes, NEW st \in G!GoalStatuses, NEW ver \in BOOLEAN,
         G!Commit([nodes EXCEPT ![Node] = node], st, ver)
  PROVE  /\ nodes' \in [G!Ids -> G!Nodes] /\ nodes'[Node] = node
         /\ status' \in G!GoalStatuses /\ verified' \in BOOLEAN
         /\ status' = st
         /\ node.status # "absent" /\ node.wait.phase = "prepared" => node.status = "running"
<1>1. /\ nodes' = [nodes EXCEPT ![Node] = node] /\ status' = st /\ verified' = ver
      /\ G!Valid([nodes EXCEPT ![Node] = node], st, ver)
  BY DEF G!Commit
<1>2. nodes' \in [G!Ids -> G!Nodes] /\ nodes'[Node] = node
  BY <1>1, NodeType DEF FileInv
<1>3. ASSUME node.status # "absent", node.wait.phase = "prepared"
      PROVE  node.status = "running"
  <2>1. Node \in G!Present(nodes')
    BY <1>2, <1>3, NodeType DEF G!Present
  <2>2. G!ValidNode(nodes', Node)
    BY <1>1, <2>1 DEF G!Valid
  <2>3. QED
    BY <1>2, <1>3, <2>2 DEF G!ValidNode, G!ValidWait
<1>4. QED
  BY <1>1, <1>2, <1>3

\* A step that leaves the wait alone, or drops it, keeps FileInv.
LEMMA KeepsFile ==
  ASSUME FileInv, nodes' \in [G!Ids -> G!Nodes],
         status' \in G!GoalStatuses, verified' \in BOOLEAN, Keeps,
         wait.phase = "prepared" => nodes'[Node].status = "running",
         wait.phase = "active" <=> nodes'[Node].status = "waiting"
  PROVE  FileInv'
BY DEF FileInv, Keeps, wait

\* A step that drops the wait, settled or not, keeps FileInv.
LEMMA DropsFile ==
  ASSUME FileInv, nodes' \in [G!Ids -> G!Nodes],
         status' \in G!GoalStatuses, verified' \in BOOLEAN,
         NEW i, Drops(i), nodes'[Node].status # "waiting"
  PROVE  FileInv'
<1> USE GoalWaitAssumption
<1>1. wait' = G!NoWait /\ ids' = ids
  BY DEF Drops, wait
<1>2. settled' \in [Uuids -> Nat] /\ \A k \in Uuids : k > ids => settled'[k] = 0
  <2>1. CASE UNCHANGED settled
    BY <2>1 DEF FileInv
  <2>2. CASE wait.phase # "none" /\ wait.watch_id = i /\ G!Settle(i)
    BY <2>2 DEF FileInv, G!Settle, Uuids
  <2>3. QED
    BY <2>1, <2>2 DEF Drops
<1>3. QED
  BY <1>1, <1>2 DEF FileInv, G!NoWait, wait

\* Abort and wake drop the wait they name, and settle it.
LEMMA SettleOnFile ==
  ASSUME FileInv, NEW i, G!abort_external_wait(Node, i) \/ G!wake_node(Node, i)
  PROVE  FileInv' /\ Drops(i) /\ i \in 1 .. ids /\ settled'[i] > 0
<1> USE NodeType, GoalWaitAssumption
<1> DEFINE node == [nodes[Node] EXCEPT !.status = "running", !.wait = G!NoWait]
<1>1. node \in G!Nodes /\ node.wait = G!NoWait /\ node.status = "running"
  BY DEF G!Nodes, G!NodeStatuses, G!Waits
<1>2. /\ G!Commit([nodes EXCEPT ![Node] = node], status, verified)
      /\ G!Settle(i) /\ ids' = ids
      /\ wait.phase # "none" /\ wait.watch_id = i
  BY DEF G!abort_external_wait, G!wake_node, G!Update, FileInv, wait
<1>3. status \in G!GoalStatuses /\ verified \in BOOLEAN
      /\ i \in 1 .. ids /\ i \in Uuids /\ settled \in [Uuids -> Nat]
  BY <1>2 DEF FileInv, Uuids
<1> HIDE DEF node
<1>4. Drops(i)
  BY <1>1, <1>2, <1>3, Replaced DEF Drops
<1>5. settled'[i] > 0
  BY <1>2, <1>3 DEF G!Settle
<1>6. QED
  BY <1>1, <1>2, <1>3, <1>4, <1>5, Replaced, DropsFile

\* The commands on the node: they leave the wait alone or drop it, and only
\* abort and wake settle it.
LEMMA CommandOnFile ==
  ASSUME FileInv, GoalCommand
  PROVE  FileInv' /\ (Keeps \/ \E i \in 0 .. ids : Drops(i))
<1> USE NodeType, GoalWaitAssumption
<1>z. 0 \in 0 .. ids
  BY DEF FileInv
<1>t. status \in G!GoalStatuses /\ verified \in BOOLEAN /\ FALSE \in BOOLEAN
  BY DEF FileInv
<1>1. CASE G!add_node(Node, {}, {})
  <2>1. G!Fresh("pending", {}) \in G!Nodes
    BY DEF G!Fresh, G!Nodes, G!NodeStatuses, G!Assignments, G!Waits
  <2>2. nodes' = [nodes EXCEPT ![Node] = G!Fresh("pending", {})]
    BY <1>1 DEF G!add_node, G!Commit, FileInv
  <2>3. nodes' \in [G!Ids -> G!Nodes] /\ nodes'[Node] = G!Fresh("pending", {})
    BY <2>1, <2>2 DEF FileInv
  <2>4. status' \in G!GoalStatuses /\ verified' \in BOOLEAN /\ UNCHANGED <<ids, settled>>
    BY <1>1, <1>t DEF G!add_node, G!Commit
  <2>5. wait = G!NoWait
    BY <1>1 DEF G!add_node, FileInv
  <2>6. Keeps
    BY <2>3, <2>4, <2>5 DEF Keeps, G!Fresh
  <2>7. QED
    BY <2>3, <2>4, <2>5, <2>6, KeepsFile DEF G!Fresh, G!NoWait
<1>2. CASE G!start_node(Node)
  <2> DEFINE node == [nodes[Node] EXCEPT !.status = "running", !.started = TRUE]
  <2>1. node \in G!Nodes /\ node.wait = wait /\ node.status = "running"
    BY DEF G!Nodes, G!NodeStatuses, wait
  <2>2. G!Commit([nodes EXCEPT ![Node] = node], status, verified) /\ UNCHANGED <<ids, settled>>
    BY <1>2 DEF G!start_node, G!Update
  <2>3. wait = G!NoWait
    BY <1>2 DEF G!start_node, G!MayStart, G!node_is_ready, FileInv
  <2> HIDE DEF node
  <2>4. QED
    BY <1>t, <2>1, <2>2, <2>3, Replaced, KeepsFile DEF Keeps, G!NoWait
<1>3. CASE G!complete_node(Node)
  <2> DEFINE node == [nodes[Node] EXCEPT !.status = "completed"]
  <2>1. node \in G!Nodes /\ node.wait = wait /\ node.status = "completed"
    BY DEF G!Nodes, G!NodeStatuses, wait
  <2>2. G!Commit([nodes EXCEPT ![Node] = node], status, FALSE) /\ UNCHANGED <<ids, settled>>
    BY <1>3 DEF G!complete_node, G!Reopen
  <2>3. nodes[Node].status = "running"
    BY <1>3 DEF G!complete_node
  <2> HIDE DEF node
  <2>4. wait.phase # "prepared" /\ wait.phase # "active"
    BY <1>t, <2>1, <2>2, <2>3, Replaced DEF FileInv
  <2>5. QED
    BY <1>t, <2>1, <2>2, <2>4, Replaced, KeepsFile DEF Keeps
<1>4. CASE G!fail_node(Node) \/ G!retry_node(Node)
  <2>1. PICK node \in {G!Failed(Node), G!Retried(Node)} :
          G!Commit([nodes EXCEPT ![Node] = node], status, FALSE) /\ UNCHANGED <<ids, settled>>
    BY <1>4 DEF G!fail_node, G!retry_node, G!Reopen
  <2>2. node \in G!Nodes /\ node.wait = G!NoWait /\ node.status \in {"failed", "pending"}
    BY DEF G!Failed, G!Retried, G!Nodes, G!NodeStatuses, G!Waits, G!Assignments
  <2>3. Drops(0)
    BY <1>t, <2>1, <2>2, Replaced DEF Drops
  <2>4. QED
    BY <1>t, <1>z, <2>1, <2>2, <2>3, Replaced, DropsFile
<1>5. CASE G!pause \/ G!resume
  BY <1>5, KeepsFile DEF G!pause, G!resume, G!Commit, FileInv, Keeps, wait, G!GoalStatuses
<1>6. CASE G!cancel
  <2>1. /\ nodes' = G!CancelledNodes /\ status' = "cancelled" /\ verified' = verified
        /\ UNCHANGED <<ids, settled>>
    BY <1>6 DEF G!cancel, G!Commit
  <2>2. \A node \in G!Nodes :
          [node EXCEPT !.status = "cancelled", !.wait = G!NoWait] \in G!Nodes
    BY DEF G!Nodes, G!NodeStatuses, G!Waits
  <2>3. nodes' \in [G!Ids -> G!Nodes]
    BY <2>1, <2>2 DEF G!CancelledNodes, FileInv
  <2>4. status' \in G!GoalStatuses /\ verified' \in BOOLEAN
    BY <2>1, <1>t DEF G!GoalStatuses
  <2>5. CASE nodes[Node].status \in {"absent", "completed", "failed"}
    BY <2>1, <2>3, <2>4, <2>5, KeepsFile DEF G!CancelledNodes, Keeps, FileInv, wait
  <2>6. CASE nodes[Node].status \notin {"absent", "completed", "failed"}
    <3>1. nodes'[Node].wait = G!NoWait /\ nodes'[Node].status = "cancelled"
      BY <2>1, <2>6 DEF G!CancelledNodes, G!Nodes
    <3>2. QED
      BY <1>z, <2>1, <2>3, <2>4, <3>1, DropsFile DEF Drops
  <2>7. QED
    BY <2>5, <2>6
<1>7. ASSUME NEW i \in 1 .. ids, G!abort_external_wait(Node, i) \/ G!wake_node(Node, i)
      PROVE  FileInv' /\ Drops(i)
  BY <1>7, SettleOnFile
<1>8. QED
  <2>1. \A i \in 1 .. ids : i \in 0 .. ids
    BY DEF FileInv
  <2>2. QED
    BY <1>1, <1>2, <1>3, <1>4, <1>5, <1>6, <1>7, <2>1
    DEF GoalCommand, NodeCommand, StatusCommand
\* goal.py wait: a node that has no wait gets a prepared one with a new id.
LEMMA PrepareOnFile ==
  ASSUME FileInv, G!prepare_external_wait(Node)
  PROVE  FileInv' /\ Prepares
<1> USE NodeType, GoalWaitAssumption
<1> DEFINE new  == [phase |-> "prepared", watch_id |-> ids + 1]
           node == [nodes[Node] EXCEPT !.wait = new]
<1>1. ids < MaxIds /\ ids' = ids + 1 /\ UNCHANGED settled /\ wait = G!NoWait
      /\ nodes[Node].status = "running"
  BY DEF G!prepare_external_wait, wait
<1>2. ids + 1 \in Uuids /\ ids \in 0 .. MaxIds /\ ids' \in 0 .. MaxIds
  BY <1>1 DEF FileInv, Uuids
<1>3. new \in G!Waits
  BY <1>2 DEF G!Waits, G!Uuids, Uuids
<1>4. node \in G!Nodes /\ node.wait = new /\ node.status = "running"
  BY <1>1, <1>3 DEF G!Nodes
<1>5. G!Commit([nodes EXCEPT ![Node] = node], status, verified)
  BY DEF G!prepare_external_wait, G!Update
<1> HIDE DEF node
<1>6. nodes' \in [G!Ids -> G!Nodes] /\ nodes'[Node] = node
      /\ status' \in G!GoalStatuses /\ verified' \in BOOLEAN
  BY <1>4, <1>5, Replaced DEF FileInv
<1>7. Prepares
  BY <1>1, <1>4, <1>6 DEF Prepares
<1>8. settled[ids + 1] = 0 /\ \A i \in Uuids : i > ids + 1 => settled[i] = 0
  BY <1>2 DEF FileInv, Uuids
<1>9. wait' = new
  BY <1>4, <1>6 DEF wait
<1>10. QED
  BY <1>1, <1>2, <1>4, <1>6, <1>7, <1>8, <1>9 DEF FileInv, Uuids

\* goal.py activate-wait: the prepared wait it checked becomes active.
LEMMA ActivateOnFile ==
  ASSUME FileInv, TypeOK, CheckedInv, CommitActivation
  PROVE  FileInv' /\ Activates /\ G!activate_external_wait(Node, activating.id)
<1> USE NodeType, GoalWaitAssumption
<1> DEFINE i    == activating.id
           new  == [phase |-> "active", watch_id |-> i]
           node == [nodes[Node] EXCEPT !.status = "waiting", !.wait = new]
<1>1. /\ activating.pc = "checked" /\ UNCHANGED <<ids, settled>>
      /\ status = "open" /\ nodes[Node].status = "running" /\ IsWait("prepared", i)
      /\ i \in Uuids
  BY DEF CommitActivation, CheckedInv
<1>2. i \in 1 .. ids /\ settled[i] = 0 /\ wait = [phase |-> "prepared", watch_id |-> i]
  BY <1>1 DEF FileInv, IsWait
<1>3. node \in G!Nodes /\ node.wait = new /\ node.status = "waiting"
  BY <1>1 DEF G!Nodes, G!NodeStatuses, G!Waits, G!Uuids, Uuids
<1>4. G!Commit([nodes EXCEPT ![Node] = node], status, verified)
  BY DEF CommitActivation, G!Update
<1>5. node = [nodes[Node] EXCEPT !.status = "waiting", !.wait.phase = "active"]
  <2>1. [nodes[Node].wait EXCEPT !.phase = "active"] = new
    BY <1>2 DEF wait
  <2>2. QED
    BY <2>1
<1>6. G!activate_external_wait(Node, i)
  <2>1. i \in held \cup ({activating.id} \ {0})
    BY <1>1 DEF Uuids
  <2>2. /\ UNCHANGED <<ids, settled>>
        /\ held' \cup ({activating'.id} \ {0}) = held \cup ({activating.id} \ {0})
    BY <1>1 DEF CommitActivation, watches, TypeOK
  <2>3. QED
    BY <1>1, <1>2, <1>4, <1>5, <2>1, <2>2 DEF G!activate_external_wait, G!Update, wait
<1> HIDE DEF node
<1>7. nodes' \in [G!Ids -> G!Nodes] /\ nodes'[Node] = node
      /\ status' \in G!GoalStatuses /\ verified' \in BOOLEAN
  BY <1>3, <1>4, Replaced DEF FileInv
<1>8. Activates
  BY <1>1, <1>3, <1>7 DEF Activates
<1>9. QED
  BY <1>1, <1>2, <1>3, <1>6, <1>7, <1>8 DEF FileInv, wait
-----------------------------------------------------------------------------
(* The invariant.                                                          *)

\* What is settled stays settled, whatever happens to the file.
LEMMA SettledStays ==
  ASSUME FileInv, Keeps \/ (\E i \in 0 .. ids : Drops(i)) \/ Prepares \/ Activates,
         NEW i \in Uuids, settled[i] > 0
  PROVE  settled'[i] > 0
BY DEF FileInv, Keeps, Drops, Prepares, Activates, G!Settle

\* A watch still follows its wait when the file changes.
LEMMA FollowsFile ==
  ASSUME WInv, UNCHANGED <<rec, past, cancelled>>,
         Keeps \/ (\E i \in 0 .. ids : Drops(i)) \/ Prepares \/ Activates
  PROVE  FollowInv'
<1>1. CASE Keeps
  BY <1>1 DEF WInv, FollowInv, Keeps, IsWait, wait
<1>2. CASE \E i \in 0 .. ids : Drops(i)
  <2>1. wait' = [phase |-> "none", watch_id |-> 0]
    BY <1>2 DEF Drops, wait, G!NoWait
  <2>2. \A i \in Uuids : ~IsWait("prepared", i)' /\ ~IsWait("active", i)'
    BY <2>1 DEF IsWait
  <2>3. QED
    BY <2>2 DEF FollowInv
<1>3. CASE Prepares
  <2>1. wait' = [phase |-> "prepared", watch_id |-> ids + 1]
    BY <1>3 DEF Prepares, wait
  <2>2. \A i \in Uuids : i = ids + 1 => rec[i] = "none"
    BY DEF WInv, IdsInv, FileInv
  <2>3. QED
    BY <2>1, <2>2 DEF WInv, FollowInv, IsWait
<1>4. CASE Activates
  <2>1. wait' = [phase |-> "active", watch_id |-> activating.id]
        /\ IsWait("prepared", activating.id)
    BY <1>4 DEF Activates, wait, WInv, CheckedInv
  <2>2. QED
    BY <2>1 DEF WInv, FollowInv, IsWait
<1>5. QED
  BY <1>1, <1>2, <1>3, <1>4

\* The steps that change the goal's file.
LEMMA GoalSteps ==
  ASSUME WInv,
         \/ GoalCommand \/ command_wait \/ CommitActivation
         \/ \E i \in Uuids : RollBack(i) /\ G!abort_external_wait(Node, i)
  PROVE  WInv'
<1> USE GoalWaitAssumption DEF WInv
<1>1. CASE GoalCommand
  <2>1. FileInv' /\ (Keeps \/ \E i \in 0 .. ids : Drops(i))
    BY <1>1, CommandOnFile
  <2>2. UNCHANGED <<cmd, pending, rec, held, polling, looked, receipts, cancelled, past,
                    activating, up, crashes>>
    BY <1>1 DEF GoalCommand, process, watches, service
  <2>3. ids' = ids /\ activating.pc # "checked"
    BY <1>1, <2>1 DEF Keeps, Drops, GoalCommand, FileFree
  <2>4. IdsInv' /\ CheckedInv' /\ TypeOK'
    BY <2>2, <2>3 DEF IdsInv, CheckedInv, TypeOK
  <2>5. ReportInv'
    BY <2>1, <2>2, SettledStays DEF ReportInv
  <2>6. QED
    BY <2>1, <2>2, <2>4, <2>5, FollowsFile
<1>2. CASE command_wait
  <2>1. FileInv' /\ Prepares
    BY <1>2, PrepareOnFile DEF command_wait
  <2>2. /\ UNCHANGED <<pending, rec, held, polling, looked, receipts, cancelled, past,
                       activating, up, crashes>>
        /\ cmd' = [cmd EXCEPT ![ids + 1] = "prepared"]
    BY <1>2 DEF command_wait, Goes, watches, service
  <2>3. ids' = ids + 1 /\ activating.pc # "checked" /\ ids \in Nat
    BY <1>2, <2>1 DEF Prepares, command_wait, FileFree, FileInv
  <2>4. CheckedInv' /\ TypeOK'
    BY <2>2, <2>3 DEF CheckedInv, TypeOK
  <2>5. IdsInv'
    BY <2>2, <2>3 DEF IdsInv, TypeOK, Uuids
  <2>6. ReportInv'
    BY <2>1, <2>2, SettledStays DEF ReportInv, TypeOK
  <2>7. QED
    BY <2>1, <2>2, <2>4, <2>5, <2>6, FollowsFile
<1>3. CASE CommitActivation
  <2>1. FileInv' /\ Activates
    BY <1>3, ActivateOnFile
  <2>2. /\ UNCHANGED <<cmd, pending, rec, held, polling, looked, receipts, cancelled, past,
                       up, crashes, ids>>
        /\ activating' = [activating EXCEPT !.pc = "committed"]
    BY <1>3 DEF CommitActivation, process, watches, service
  <2>3. CheckedInv' /\ TypeOK' /\ IdsInv'
    BY <1>3, <2>2 DEF CheckedInv, TypeOK, IdsInv, CommitActivation
  <2>4. ReportInv'
    BY <2>1, <2>2, SettledStays DEF ReportInv
  <2>5. QED
    BY <2>1, <2>2, <2>3, <2>4, FollowsFile
<1>4. ASSUME NEW i \in Uuids, RollBack(i), G!abort_external_wait(Node, i)
      PROVE  WInv'
  <2>1. FileInv' /\ Drops(i) /\ i \in 0 .. ids /\ settled'[i] > 0 /\ ids' = ids
    BY <1>4, SettleOnFile DEF FileInv, Drops
  <2>2. /\ UNCHANGED <<pending, rec, held, polling, looked, receipts, cancelled, past,
                       activating, up, crashes>>
        /\ \E pc \in {"rolled_back", "not_rolled_back"} : cmd' = [cmd EXCEPT ![i] = pc]
        /\ cmd[i] = "failing" /\ activating.pc # "checked"
    BY <1>4 DEF RollBack, Goes, watches, service, FileFree
  <2>3. CheckedInv' /\ TypeOK'
    BY <2>2 DEF CheckedInv, TypeOK
  <2>4. IdsInv'
    BY <2>1, <2>2 DEF IdsInv, TypeOK
  <2>5. ReportInv'
    BY <2>1, <2>2, SettledStays DEF ReportInv, TypeOK
  <2>6. QED
    BY <2>1, <2>2, <2>3, <2>4, <2>5, FollowsFile
<1>5. QED
  BY <1>1, <1>2, <1>3, <1>4
\* A step that leaves the file alone.
LEMMA FileUnchanged ==
  ASSUME FileInv, UNCHANGED goal
  PROVE  FileInv' /\ wait' = wait
BY DEF FileInv, goal, wait

\* The steps of the commands, of the service and of its watches beside it.
LEMMA OtherSteps ==
  ASSUME WInv,
         \/ EndActivation \/ Crash \/ Restart \/ UNCHANGED vars
         \/ \E i \in Uuids :
              \/ SendSubmit(i) \/ RequestFails(i) \/ SeeReceipt(i) \/ ReceiptMissing(i)
              \/ RollBack(i) /\ UNCHANGED goal
              \/ CheckActivation(i) \/ HandleSubmit(i) \/ WatchStep(i)
              \/ CancelWatch(i) \/ DeadlinePasses(i)
  PROVE  WInv'
<1> USE GoalWaitAssumption DEF WInv, process, watches, service
<1>1. ASSUME NEW i \in Uuids, SendSubmit(i) PROVE WInv'
  <2> USE <1>1 DEF SendSubmit, Goes
  <2>1. FileInv' /\ wait' = wait /\ UNCHANGED goal
    BY FileUnchanged
  <2>2. TypeOK'
    BY DEF TypeOK
  <2>3. IdsInv'
    BY <2>1 DEF IdsInv, TypeOK, goal
  <2>4. CheckedInv'
    BY <2>1 DEF CheckedInv, IdsInv, TypeOK, IsWait, goal
  <2>5. ReportInv'
    BY <2>1 DEF ReportInv, TypeOK, goal
  <2>6. FollowInv'
    BY <2>1 DEF FollowInv, FileInv, TypeOK, IsWait
  <2>7. QED
    BY <2>1, <2>2, <2>3, <2>4, <2>5, <2>6
<1>2. ASSUME NEW i \in Uuids, RequestFails(i) PROVE WInv'
  <2> USE <1>2 DEF RequestFails, Goes
  <2>1. FileInv' /\ wait' = wait /\ UNCHANGED goal
    BY FileUnchanged
  <2>2. TypeOK'
    BY DEF TypeOK
  <2>3. IdsInv'
    BY <2>1 DEF IdsInv, TypeOK, goal
  <2>4. CheckedInv'
    BY <2>1 DEF CheckedInv, IdsInv, TypeOK, IsWait, goal
  <2>5. ReportInv'
    BY <2>1 DEF ReportInv, TypeOK, goal
  <2>6. FollowInv'
    BY <2>1 DEF FollowInv, FileInv, TypeOK, IsWait
  <2>7. QED
    BY <2>1, <2>2, <2>3, <2>4, <2>5, <2>6
<1>3. ASSUME NEW i \in Uuids, SeeReceipt(i) PROVE WInv'
  <2> USE <1>3 DEF SeeReceipt, Goes
  <2>1. FileInv' /\ wait' = wait /\ UNCHANGED goal
    BY FileUnchanged
  <2>2. TypeOK'
    BY DEF TypeOK
  <2>3. IdsInv'
    BY <2>1 DEF IdsInv, TypeOK, goal
  <2>4. CheckedInv'
    BY <2>1 DEF CheckedInv, IdsInv, TypeOK, IsWait, goal
  <2>5. ReportInv'
    BY <2>1 DEF ReportInv, TypeOK, goal
  <2>6. FollowInv'
    BY <2>1 DEF FollowInv, FileInv, TypeOK, IsWait
  <2>7. QED
    BY <2>1, <2>2, <2>3, <2>4, <2>5, <2>6
<1>4. ASSUME NEW i \in Uuids, ReceiptMissing(i) PROVE WInv'
  <2> USE <1>4 DEF ReceiptMissing, Goes
  <2>1. FileInv' /\ wait' = wait /\ UNCHANGED goal
    BY FileUnchanged
  <2>2. TypeOK'
    BY DEF TypeOK
  <2>3. IdsInv'
    BY <2>1 DEF IdsInv, TypeOK, goal
  <2>4. CheckedInv'
    BY <2>1 DEF CheckedInv, IdsInv, TypeOK, IsWait, goal
  <2>5. ReportInv'
    BY <2>1 DEF ReportInv, TypeOK, goal
  <2>6. FollowInv'
    BY <2>1 DEF FollowInv, FileInv, TypeOK, IsWait
  <2>7. QED
    BY <2>1, <2>2, <2>3, <2>4, <2>5, <2>6
<1>5. ASSUME NEW i \in Uuids, RollBack(i) /\ UNCHANGED goal PROVE WInv'
  <2> USE <1>5 DEF RollBack, Goes
  <2>1. FileInv' /\ wait' = wait /\ UNCHANGED goal
    BY FileUnchanged
  <2>2. TypeOK'
    BY DEF TypeOK
  <2>3. IdsInv'
    BY <2>1 DEF IdsInv, TypeOK, goal
  <2>4. CheckedInv'
    BY <2>1 DEF CheckedInv, IdsInv, TypeOK, IsWait, goal
  <2>5. ReportInv'
    <3>1. G!abort_external_wait(Node, i) => settled'[i] > 0
      BY SettleOnFile
    <3>2. \/ cmd' = [cmd EXCEPT ![i] = "not_rolled_back"]
          \/ cmd' = [cmd EXCEPT ![i] = "rolled_back"] /\ settled'[i] > 0
      BY <3>1
    <3>3. UNCHANGED <<settled, receipts>>
      BY <2>1 DEF goal
    <3>4. QED
      BY <3>2, <3>3 DEF ReportInv, TypeOK
  <2>6. FollowInv'
    BY <2>1 DEF FollowInv, FileInv, TypeOK, IsWait
  <2>7. QED
    BY <2>1, <2>2, <2>3, <2>4, <2>5, <2>6
<1>6. ASSUME NEW i \in Uuids, CheckActivation(i) PROVE WInv'
  <2> USE <1>6 DEF CheckActivation
  <2>1. FileInv' /\ wait' = wait /\ UNCHANGED goal
    BY FileUnchanged
  <2>2. TypeOK'
    BY DEF TypeOK, Uuids
  <2>3. IdsInv'
    BY <2>1 DEF IdsInv, TypeOK, goal
  <2>4. CheckedInv'
    BY <2>1 DEF CheckedInv, IdsInv, TypeOK, IsWait, goal
  <2>5. ReportInv'
    BY <2>1 DEF ReportInv, TypeOK, goal
  <2>6. FollowInv'
    BY <2>1 DEF FollowInv, FileInv, TypeOK, IsWait
  <2>7. QED
    BY <2>1, <2>2, <2>3, <2>4, <2>5, <2>6
<1>7. ASSUME NEW i \in Uuids, HandleSubmit(i) PROVE WInv'
  <2> USE <1>7 DEF HandleSubmit, Answer
  <2>1. FileInv' /\ wait' = wait /\ UNCHANGED goal
    BY FileUnchanged
  <2>2. TypeOK'
    BY DEF TypeOK
  <2>3. IdsInv'
    BY <2>1 DEF IdsInv, TypeOK, goal
  <2>4. CheckedInv'
    BY <2>1 DEF CheckedInv, IdsInv, TypeOK, IsWait, goal
  <2>5. ReportInv'
    BY <2>1 DEF ReportInv, TypeOK, goal
  <2>6. FollowInv'
    BY <2>1 DEF FollowInv, FileInv, TypeOK, IsWait
  <2>7. QED
    BY <2>1, <2>2, <2>3, <2>4, <2>5, <2>6
<1>8. ASSUME NEW i \in Uuids, TakeLock(i) PROVE WInv'
  <2> USE <1>8 DEF TakeLock
  <2>1. FileInv' /\ wait' = wait /\ UNCHANGED goal
    BY FileUnchanged
  <2>2. TypeOK'
    BY DEF TypeOK
  <2>3. IdsInv'
    BY <2>1 DEF IdsInv, TypeOK, goal
  <2>4. CheckedInv'
    BY <2>1 DEF CheckedInv, IdsInv, TypeOK, IsWait, goal
  <2>5. ReportInv'
    BY <2>1 DEF ReportInv, TypeOK, goal
  <2>6. FollowInv'
    BY <2>1 DEF FollowInv, FileInv, TypeOK, IsWait
  <2>7. QED
    BY <2>1, <2>2, <2>3, <2>4, <2>5, <2>6
<1>9. ASSUME NEW i \in Uuids, SeeActive(i) PROVE WInv'
  <2> USE <1>9 DEF SeeActive, StartsIf, Polls
  <2>1. FileInv' /\ wait' = wait /\ UNCHANGED goal
    BY FileUnchanged
  <2>2. TypeOK'
    BY DEF TypeOK
  <2>3. IdsInv'
    BY <2>1 DEF IdsInv, TypeOK, goal
  <2>4. CheckedInv'
    BY <2>1 DEF CheckedInv, IdsInv, TypeOK, IsWait, goal
  <2>5. ReportInv'
    BY <2>1 DEF ReportInv, TypeOK, goal
  <2>6. FollowInv'
    BY <2>1 DEF FollowInv, FileInv, TypeOK, IsWait
  <2>7. QED
    BY <2>1, <2>2, <2>3, <2>4, <2>5, <2>6
<1>10. ASSUME NEW i \in Uuids, SeePrepared(i) \/ LookAgain(i) PROVE WInv'
  <2> USE <1>10 DEF SeePrepared, LookAgain, Polls
  <2>1. FileInv' /\ wait' = wait /\ UNCHANGED goal
    BY FileUnchanged
  <2>2. TypeOK'
    BY DEF TypeOK
  <2>3. IdsInv'
    BY <2>1 DEF IdsInv, TypeOK, goal
  <2>4. CheckedInv'
    BY <2>1 DEF CheckedInv, IdsInv, TypeOK, IsWait, goal
  <2>5. ReportInv'
    BY <2>1 DEF ReportInv, TypeOK, goal
  <2>6. FollowInv'
    BY <2>1 DEF FollowInv, FileInv, TypeOK, IsWait
  <2>7. QED
    BY <2>1, <2>2, <2>3, <2>4, <2>5, <2>6
<1>11. ASSUME NEW i \in Uuids, SeeInvalid(i) PROVE WInv'
  <2> USE <1>11 DEF SeeInvalid, StartsIf, StillPrepared, EndWatch, Polls
  <2>1. FileInv' /\ wait' = wait /\ UNCHANGED goal
    BY FileUnchanged
  <2>2. TypeOK'
    BY DEF TypeOK
  <2>3. IdsInv'
    BY <2>1 DEF IdsInv, TypeOK, goal
  <2>4. CheckedInv'
    BY <2>1 DEF CheckedInv, IdsInv, TypeOK, IsWait, goal
  <2>5. ReportInv'
    BY <2>1 DEF ReportInv, TypeOK, goal
  <2>6. FollowInv'
    BY <2>1 DEF FollowInv, FileInv, TypeOK, IsWait
  <2>7. QED
    BY <2>1, <2>2, <2>3, <2>4, <2>5, <2>6
<1>12. ASSUME NEW i \in Uuids, GiveUp(i) \/ EndStarted(i) PROVE WInv'
  <2> USE <1>12 DEF GiveUp, EndStarted, EndWatch, Polls
  <2>1. FileInv' /\ wait' = wait /\ UNCHANGED goal
    BY FileUnchanged
  <2>2. TypeOK'
    BY DEF TypeOK
  <2>3. IdsInv'
    BY <2>1 DEF IdsInv, TypeOK, goal
  <2>4. CheckedInv'
    BY <2>1 DEF CheckedInv, IdsInv, TypeOK, IsWait, goal
  <2>5. ReportInv'
    BY <2>1 DEF ReportInv, TypeOK, goal
  <2>6. FollowInv'
    BY <2>1 DEF FollowInv, FileInv, TypeOK, IsWait
  <2>7. QED
    BY <2>1, <2>2, <2>3, <2>4, <2>5, <2>6
<1>13. ASSUME NEW i \in Uuids, CancelWatch(i) \/ DeadlinePasses(i) PROVE WInv'
  <2> USE <1>13 DEF CancelWatch, DeadlinePasses
  <2>1. FileInv' /\ wait' = wait /\ UNCHANGED goal
    BY FileUnchanged
  <2>2. TypeOK'
    BY DEF TypeOK
  <2>3. IdsInv'
    BY <2>1 DEF IdsInv, TypeOK, goal
  <2>4. CheckedInv'
    BY <2>1 DEF CheckedInv, IdsInv, TypeOK, IsWait, goal
  <2>5. ReportInv'
    BY <2>1 DEF ReportInv, TypeOK, goal
  <2>6. FollowInv'
    BY <2>1 DEF FollowInv, FileInv, TypeOK, IsWait
  <2>7. QED
    BY <2>1, <2>2, <2>3, <2>4, <2>5, <2>6
<1>14. CASE EndActivation
  <2> USE <1>14 DEF EndActivation, NoActivation
  <2>1. FileInv' /\ wait' = wait /\ UNCHANGED goal
    BY FileUnchanged
  <2>2. TypeOK'
    BY DEF TypeOK
  <2>3. IdsInv'
    BY <2>1 DEF IdsInv, TypeOK, goal
  <2>4. CheckedInv'
    BY <2>1 DEF CheckedInv, IdsInv, TypeOK, IsWait, goal
  <2>5. ReportInv'
    BY <2>1 DEF ReportInv, TypeOK, goal
  <2>6. FollowInv'
    BY <2>1 DEF FollowInv, FileInv, TypeOK, IsWait
  <2>7. QED
    BY <2>1, <2>2, <2>3, <2>4, <2>5, <2>6
<1>15. CASE Crash
  <2> USE <1>15 DEF Crash
  <2>1. FileInv' /\ wait' = wait /\ UNCHANGED goal
    BY FileUnchanged
  <2>2. TypeOK'
    <3>1. rec' \in [Uuids -> {"none", "activating", "started", "ended", "given_up"}]
      BY DEF TypeOK
    <3>2. /\ UNCHANGED <<cmd, receipts, past, cancelled, activating>>
          /\ held' = {} /\ polling' = {} /\ looked' = {} /\ pending' = {}
          /\ up' = FALSE /\ crashes' = crashes + 1
      OBVIOUS
    <3>3. up' \in BOOLEAN
      BY <3>2
    <3>4. QED
      BY <3>1, <3>2, <3>3 DEF TypeOK
  <2>3. IdsInv'
    BY <2>1 DEF IdsInv, TypeOK, goal
  <2>4. CheckedInv'
    BY <2>1 DEF CheckedInv, IdsInv, TypeOK, IsWait, goal
  <2>5. ReportInv'
    BY <2>1 DEF ReportInv, TypeOK, goal
  <2>6. FollowInv'
    BY <2>1 DEF FollowInv, FileInv, TypeOK, IsWait
  <2>7. QED
    BY <2>1, <2>2, <2>3, <2>4, <2>5, <2>6
<1>16. CASE Restart
  <2> USE <1>16 DEF Restart
  <2>1. FileInv' /\ wait' = wait /\ UNCHANGED goal
    BY FileUnchanged
  <2>2. TypeOK'
    BY DEF TypeOK
  <2>3. IdsInv'
    BY <2>1 DEF IdsInv, TypeOK, goal
  <2>4. CheckedInv'
    BY <2>1 DEF CheckedInv, IdsInv, TypeOK, IsWait, goal
  <2>5. ReportInv'
    BY <2>1 DEF ReportInv, TypeOK, goal
  <2>6. FollowInv'
    BY <2>1 DEF FollowInv, FileInv, TypeOK, IsWait
  <2>7. QED
    BY <2>1, <2>2, <2>3, <2>4, <2>5, <2>6
<1>17. CASE UNCHANGED vars
  <2> USE <1>17 DEF vars
  <2>1. FileInv' /\ wait' = wait /\ UNCHANGED goal
    BY FileUnchanged
  <2>2. TypeOK'
    BY DEF TypeOK
  <2>3. IdsInv'
    BY <2>1 DEF IdsInv, TypeOK, goal
  <2>4. CheckedInv'
    BY <2>1 DEF CheckedInv, IdsInv, TypeOK, IsWait, goal
  <2>5. ReportInv'
    BY <2>1 DEF ReportInv, TypeOK, goal
  <2>6. FollowInv'
    BY <2>1 DEF FollowInv, FileInv, TypeOK, IsWait
  <2>7. QED
    BY <2>1, <2>2, <2>3, <2>4, <2>5, <2>6
<1>18. ASSUME NEW i \in Uuids, WriteReceipt(i) PROVE WInv'
  <2> USE <1>18 DEF WriteReceipt
  <2>1. FileInv' /\ wait' = wait /\ UNCHANGED goal
    BY FileUnchanged
  <2>2. TypeOK'
    BY DEF TypeOK
  <2>3. IdsInv'
    BY <2>1 DEF IdsInv, TypeOK, goal
  <2>4. CheckedInv'
    BY <2>1 DEF CheckedInv, IdsInv, TypeOK, IsWait, goal
  <2>5. ReportInv'
    BY <2>1 DEF ReportInv, TypeOK, goal
  <2>6. FollowInv'
    BY <2>1 DEF FollowInv, FileInv, TypeOK, IsWait
  <2>7. QED
    BY <2>1, <2>2, <2>3, <2>4, <2>5, <2>6
<1>19. QED
  BY <1>1, <1>2, <1>3, <1>4, <1>5, <1>6, <1>7, <1>8, <1>9, <1>10, <1>11, <1>12,
     <1>13, <1>14, <1>15, <1>16, <1>17, <1>18 DEF WatchStep

\* Nothing is handed out yet.
LEMMA InitHolds == Init => WInv
<1> SUFFICES ASSUME Init PROVE WInv
  OBVIOUS
<1> USE GoalWaitAssumption DEF Init
<1>1. /\ status = "open" /\ verified = FALSE /\ ids = 0 /\ settled = [i \in Uuids |-> 0]
      /\ nodes = [n \in G!Ids |-> G!Fresh("absent", {})]
  BY DEF G!Init, G!Uuids, Uuids
<1>2. G!Fresh("absent", {}) \in G!Nodes
  BY DEF G!Fresh, G!Nodes, G!NodeStatuses, G!Assignments, G!Waits
<1>3. Node \in G!Ids
  BY DEF Node, G!Ids
<1>4. nodes[Node] = G!Fresh("absent", {})
  BY <1>1, <1>3
<1>5. nodes[Node].status = "absent" /\ wait = [phase |-> "none", watch_id |-> 0]
  BY <1>4 DEF wait, G!Fresh, G!NoWait
<1>6. FileInv
  <2>1. status \in G!GoalStatuses /\ nodes \in [G!Ids -> G!Nodes]
    BY <1>1, <1>2 DEF G!GoalStatuses
  <2>2. verified \in BOOLEAN
    BY <1>1, Zenon
  <2>3. ids \in 0 .. MaxIds /\ settled \in [Uuids -> Nat] /\ \A i \in Uuids : settled[i] = 0
    BY <1>1
  <2>4. QED
    BY <1>5, <2>1, <2>2, <2>3 DEF FileInv
<1>7. TypeOK /\ IdsInv /\ CheckedInv
  BY DEF TypeOK, IdsInv, CheckedInv, NoActivation
<1>8. ReportInv /\ FollowInv
  BY DEF ReportInv, FollowInv
<1>9. QED
  BY <1>6, <1>7, <1>8 DEF WInv

\* Every step changes the goal's file by one of its commands, or leaves it.
LEMMA Steps ==
  ASSUME [Next]_vars
  PROVE  \/ \/ GoalCommand \/ command_wait \/ CommitActivation
            \/ \E i \in Uuids : RollBack(i) /\ G!abort_external_wait(Node, i)
         \/ \/ EndActivation \/ Crash \/ Restart \/ UNCHANGED vars
            \/ \E i \in Uuids :
                 \/ SendSubmit(i) \/ RequestFails(i) \/ SeeReceipt(i) \/ ReceiptMissing(i)
                 \/ RollBack(i) /\ UNCHANGED goal
                 \/ CheckActivation(i) \/ HandleSubmit(i) \/ WatchStep(i)
                 \/ CancelWatch(i) \/ DeadlinePasses(i)
<1>1. ASSUME NEW i \in Uuids, RollBack(i)
      PROVE  G!abort_external_wait(Node, i) \/ UNCHANGED goal
  BY <1>1 DEF RollBack
<1>2. QED
  BY <1>1 DEF Next, Command

\* For every number of waits and crashes the invariant holds.
THEOREM WaitInductive == Spec => []WInv
<1>1. WInv /\ [Next]_vars => WInv'
  <2> SUFFICES ASSUME WInv, [Next]_vars PROVE WInv'
    OBVIOUS
  <2> QED BY Steps, GoalSteps, OtherSteps
<1> QED BY <1>1, InitHolds, PTL DEF Spec

\* A settled wait stays out of the file, and the types hold.
THEOREM WaitCorrect == Spec => []WaitInvariant
<1>1. WInv => WaitInvariant
  <2> SUFFICES ASSUME WInv, NEW i \in Uuids, settled[i] > 0, wait.watch_id = i
               PROVE  FALSE
    BY DEF WInv, WaitInvariant, SettledStaysOut
  <2>1. wait.phase = "none"
    BY DEF WInv, FileInv
  <2>2. wait.watch_id = 0
    BY <2>1, NodeType DEF WInv, G!NoWait
  <2> QED BY <2>2 DEF Uuids
<1> QED BY <1>1, WaitInductive, PTL

\* A verified wait is waited for, an activated one is not given up.
THEOREM FollowCorrect == Spec => []WatchFollowsWait
<1>1. WInv => WatchFollowsWait
  <2> SUFFICES ASSUME WInv, NEW i \in Uuids \ (past \cup cancelled)
               PROVE  /\ cmd[i] = "verified" /\ IsWait("prepared", i) => rec[i] = "activating"
                      /\ IsWait("active", i) => rec[i] # "given_up"
    BY DEF WatchFollowsWait
  <2>1. cmd[i] = "verified" => rec[i] # "none"
    BY DEF WInv, ReportInv, IdsInv
  <2>2. rec[i] \in {"none", "activating", "started", "ended", "given_up"}
    BY DEF WInv, TypeOK
  <2> QED BY <2>1, <2>2 DEF WInv, FollowInv
<1> QED BY <1>1, WaitInductive, PTL

\* What was rolled back never starts: a start needs the wait in the file, and
\* no settled wait comes back there.
THEOREM RolledBackCorrect == Spec => RolledBackNeverStarts
<1>1. ASSUME WInv, [Next]_vars, NEW i \in Uuids,
             cmd[i] = "rolled_back", rec[i] # "started", rec'[i] = "started"
      PROVE  FALSE
  <2>1. settled[i] > 0 /\ rec \in [Uuids -> {"none", "activating", "started", "ended", "given_up"}]
    BY <1>1 DEF WInv, ReportInv, TypeOK
  <2>2. ~IsWait("active", i)
    BY <2>1, <1>1 DEF WInv, FileInv, IsWait
  <2>3. ASSUME NEW j \in Uuids, SeeActive(j) PROVE FALSE
    BY <2>1, <2>2, <2>3, <1>1 DEF SeeActive, StartsIf
  <2>4. CASE GoalCommand \/ command_wait \/ CommitActivation \/ EndActivation \/ Restart
             \/ UNCHANGED vars
    BY <2>4, <1>1 DEF GoalCommand, command_wait, CommitActivation, EndActivation, Restart,
                      vars, watches
  <2>5. CASE Crash
    BY <2>5, <2>1, <1>1 DEF Crash
  <2>6. ASSUME NEW j \in Uuids,
               \/ SendSubmit(j) \/ RequestFails(j) \/ SeeReceipt(j) \/ ReceiptMissing(j)
               \/ RollBack(j) \/ CheckActivation(j) \/ TakeLock(j) \/ WriteReceipt(j)
               \/ SeePrepared(j) \/ LookAgain(j) \/ CancelWatch(j) \/ DeadlinePasses(j)
        PROVE  FALSE
    BY <2>6, <1>1 DEF SendSubmit, RequestFails, SeeReceipt, ReceiptMissing, RollBack,
         CheckActivation, TakeLock, WriteReceipt, SeePrepared, LookAgain, CancelWatch,
         DeadlinePasses, watches
  <2>7. ASSUME NEW j \in Uuids, HandleSubmit(j) \/ SeeInvalid(j) \/ GiveUp(j) \/ EndStarted(j)
        PROVE  FALSE
    BY <2>7, <2>1, <1>1 DEF HandleSubmit, SeeInvalid, GiveUp, EndStarted, EndWatch
  <2> QED BY <1>1, <2>3, <2>4, <2>5, <2>6, <2>7 DEF Next, Command, WatchStep
<1>2. WInv /\ [Next]_vars =>
        [\A i \in Uuids : cmd[i] = "rolled_back" /\ rec[i] # "started" => rec'[i] # "started"]_vars
  BY <1>1
<1> QED BY <1>2, WaitInductive, PTL DEF Spec, RolledBackNeverStarts
-----------------------------------------------------------------------------
(* The refinement.                                                         *)

\* What module Goal takes for the locks.
Locks == held \cup ({activating.id} \ {0})

\* A step that leaves the file alone and only gives up locks is one of Goal's.
LEMMA LocksShrink ==
  ASSUME UNCHANGED goal, NEW released \in SUBSET Locks, Locks' = Locks \ released
  PROVE  [G!Next]_(G!vars)
<1>1. G!ReleaseLocks(released)
  BY DEF G!ReleaseLocks, G!goal, goal, Locks
<1>2. QED
  BY <1>1 DEF G!Next, Locks

\* A step that leaves the file and the locks is a stutter of Goal.
LEMMA LocksSame ==
  ASSUME UNCHANGED goal, Locks' = Locks
  PROVE  [G!Next]_(G!vars)
BY DEF G!vars, G!goal, goal, Locks

\* The commands are the ones of Goal, made while nobody's locks change.
LEMMA CommandSteps ==
  ASSUME WInv, \/ GoalCommand \/ command_wait \/ CommitActivation
               \/ \E i \in Uuids : RollBack(i) /\ G!abort_external_wait(Node, i)
  PROVE  [G!Next]_(G!vars)
<1> USE NodeType DEF WInv
<1>1. ASSUME NEW i, G!abort_external_wait(Node, i) PROVE G!Next
  BY <1>1, SettleOnFile DEF G!Next, G!IdStep
<1>2. CASE GoalCommand
  <2>1. CASE G!add_node(Node, {}, {})
    BY <2>1 DEF G!Next, G!NodeStep
  <2>2. CASE \/ G!start_node(Node) \/ G!complete_node(Node)
             \/ G!fail_node(Node) \/ G!retry_node(Node)
    BY <2>2 DEF G!Next, G!NodeStep
  <2>3. CASE G!pause \/ G!resume \/ G!cancel
    BY <2>3 DEF G!Next, G!GoalStep
  <2>4. CASE \E i \in 1 .. ids : G!abort_external_wait(Node, i) \/ G!wake_node(Node, i)
    BY <2>4 DEF G!Next, G!IdStep
  <2>5. QED
    BY <1>2, <2>1, <2>2, <2>3, <2>4 DEF GoalCommand, NodeCommand, StatusCommand
<1>3. CASE command_wait
  BY <1>3 DEF command_wait, G!Next, G!NodeStep
<1>4. CASE CommitActivation
  <2>1. G!activate_external_wait(Node, activating.id)
    BY <1>4, ActivateOnFile
  <2>2. activating.id \in 1 .. ids
    BY <1>4 DEF CommitActivation, CheckedInv, FileInv, IsWait
  <2>3. QED
    BY <2>1, <2>2 DEF G!Next, G!IdStep
<1>5. QED
  BY <1>1, <1>2, <1>3, <1>4

\* The other steps only take or give up locks.
LEMMA LockSteps ==
  ASSUME WInv,
         \/ EndActivation \/ Crash \/ Restart \/ UNCHANGED vars
         \/ \E i \in Uuids :
              \/ SendSubmit(i) \/ RequestFails(i) \/ SeeReceipt(i) \/ ReceiptMissing(i)
              \/ RollBack(i) /\ UNCHANGED goal
              \/ CheckActivation(i) \/ HandleSubmit(i) \/ WatchStep(i)
              \/ CancelWatch(i) \/ DeadlinePasses(i)
  PROVE  [G!Next]_(G!vars)
<1> USE GoalWaitAssumption
<1>1. CASE EndActivation
  <2> DEFINE released == {activating.id} \ (held \cup {0})
  <2>1. released \in SUBSET Locks /\ Locks' = Locks \ released
    BY <1>1 DEF Locks, EndActivation, NoActivation, watches, WInv, TypeOK, Uuids
  <2>2. QED
    BY <1>1, <2>1, LocksShrink DEF EndActivation
<1>2. CASE Crash
  <2> DEFINE released == held \ {activating.id}
  <2>1. released \in SUBSET Locks /\ Locks' = Locks \ released
    BY <1>2 DEF Locks, Crash, WInv, TypeOK, Uuids
  <2>2. QED
    BY <1>2, <2>1, LocksShrink DEF Crash
<1>3. CASE Restart \/ UNCHANGED vars
  BY <1>3, LocksSame DEF Restart, vars, Locks, watches
<1>4. ASSUME NEW i \in Uuids,
             \/ SendSubmit(i) \/ RequestFails(i) \/ SeeReceipt(i) \/ ReceiptMissing(i)
             \/ RollBack(i) /\ UNCHANGED goal
             \/ HandleSubmit(i) \/ WriteReceipt(i) \/ SeeActive(i) \/ SeePrepared(i)
             \/ LookAgain(i) \/ CancelWatch(i) \/ DeadlinePasses(i)
      PROVE  [G!Next]_(G!vars)
  <2>1. UNCHANGED goal /\ held' = held /\ activating' = activating
    BY <1>4 DEF SendSubmit, RequestFails, SeeReceipt, ReceiptMissing, RollBack, HandleSubmit,
      WriteReceipt, SeeActive, SeePrepared, LookAgain, CancelWatch, DeadlinePasses, watches
  <2>2. QED
    BY <2>1, LocksSame DEF Locks
<1>5. ASSUME NEW i \in Uuids, CheckActivation(i) PROVE [G!Next]_(G!vars)
  <2>1. UNCHANGED goal /\ Locks' = Locks
    BY <1>5 DEF CheckActivation, Locks, watches, NoActivation, Uuids
  <2>2. QED
    BY <2>1, LocksSame
<1>6. ASSUME NEW i \in Uuids, TakeLock(i) PROVE [G!Next]_(G!vars)
  <2>1. UNCHANGED goal /\ Locks' = Locks \cup {i}
    BY <1>6 DEF TakeLock, Locks
  <2>2. CASE i \in Locks
    BY <2>1, <2>2, LocksSame
  <2>3. CASE i \notin Locks
    <3>1. i <= ids
      BY <1>6 DEF TakeLock, WInv, IdsInv
    <3>2. G!TakeLock(i) /\ i \in G!Uuids
      BY <2>1, <2>3, <3>1 DEF G!TakeLock, G!goal, goal, Locks, G!Uuids, Uuids
    <3>3. QED
      BY <3>2 DEF G!Next
  <2>4. QED
    BY <2>2, <2>3
<1>7. ASSUME NEW i \in Uuids, SeeInvalid(i) \/ GiveUp(i) \/ EndStarted(i)
      PROVE  [G!Next]_(G!vars)
  <2> DEFINE released == {i} \ {activating.id}
  <2>1. i \in held /\ held' = held \ {i} /\ UNCHANGED <<goal, activating>>
    BY <1>7 DEF SeeInvalid, GiveUp, EndStarted, EndWatch, Polls, WInv, TypeOK
  <2>2. released \in SUBSET Locks /\ Locks' = Locks \ released
    BY <2>1 DEF Locks, Uuids
  <2>3. QED
    BY <2>1, <2>2, LocksShrink
<1>8. QED
  BY <1>1, <1>2, <1>3, <1>4, <1>5, <1>6, <1>7 DEF WatchStep

\* The handshake implements Goal: the activation that only saw its watch's lock
\* held commits as if the lock had stayed.
THEOREM ImplementsCorrect == Spec => ImplementsGoal
<1>1. Init => G!Init
  BY DEF Init, G!Init, NoActivation
<1>2. WInv /\ [Next]_vars => [G!Next]_(G!vars)
  BY Steps, CommandSteps, LockSteps
<1>3. QED
  BY <1>1, <1>2, WaitInductive, PTL DEF Spec, ImplementsGoal, G!Spec
=============================================================================
