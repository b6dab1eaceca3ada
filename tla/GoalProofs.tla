----------------------------- MODULE GoalProofs -----------------------------
(***************************************************************************)
(* Proofs about Goal, for every number of nodes, every plan and every      *)
(* bound of ids: types, dependencies, write scopes.                        *)
(***************************************************************************)
EXTENDS GoalProperties, WellFoundedInduction, TLAPS

-----------------------------------------------------------------------------
(* Types.                                                                  *)

\* Replacing one node by a well-typed one keeps the types of the goal.
LEMMA UpdateType ==
  ASSUME TypeOK, NEW n \in Ids, NEW node \in Nodes, NEW ver \in BOOLEAN,
         Commit([nodes EXCEPT ![n] = node], status, ver)
  PROVE  /\ nodes' \in [Ids -> Nodes]
         /\ status' \in GoalStatuses /\ verified' \in BOOLEAN
BY DEF Commit, TypeOK

\* Counting an id keeps the history's type.
LEMMA SettleType ==
  ASSUME TypeOK, NEW i \in 1 .. ids, Settle(i)
  PROVE  settled' \in [Uuids -> Nat]
BY GoalAssumption DEF Settle, TypeOK, Uuids

\* Every step of a node without an id keeps the types.
LEMMA NodeStepType == TypeOK /\ (\E n \in Ids : NodeStep(n)) => TypeOK'
<1> SUFFICES ASSUME TypeOK, NEW n \in Ids, NodeStep(n) PROVE TypeOK'
  OBVIOUS
<1> USE GoalAssumption
<1>n. nodes[n] \in Nodes
  BY DEF TypeOK
<1>1. ASSUME NEW deps \in SUBSET Ids, edit_node(n, deps) PROVE TypeOK'
  <2>1. [nodes[n] EXCEPT !.deps = deps] \in Nodes
    BY <1>n DEF Nodes
  <2>2. QED
    BY <1>1, <2>1, UpdateType DEF edit_node, Update, TypeOK
<1>2. ASSUME NEW deps \in SUBSET Ids,
             NEW before \in {{}} \cup {{t} : t \in Present(nodes)},
             add_node(n, deps, before)
      PROVE  TypeOK'
  <2>1. Fresh("pending", deps) \in Nodes
    BY DEF Fresh, Nodes, NodeStatuses, Assignments, Waits
  <2>2. \A m \in Ids : nodes[m] \in Nodes
    BY DEF TypeOK
  <2>3. \A m \in Ids : [nodes[m] EXCEPT !.deps = @ \cup {n}] \in Nodes
    BY <2>2 DEF Nodes
  <2>4. nodes' \in [Ids -> Nodes]
    BY <1>2, <2>1, <2>2, <2>3 DEF add_node, Commit
  <2>5. QED
    BY <1>2, <2>4 DEF add_node, Commit, TypeOK
<1>3. CASE prepare_agent(n)
  <2>1. ids + 1 \in Uuids /\ ids' \in 0 .. MaxIds
    BY <1>3 DEF prepare_agent, TypeOK, Uuids
  <2>2. [nodes[n] EXCEPT !.status = "dispatching",
           !.assignment = [phase |-> "prepared", token |-> ids + 1]] \in Nodes
    BY <1>n, <2>1 DEF Nodes, NodeStatuses, Assignments
  <2>3. QED
    BY <1>3, <2>1, <2>2, UpdateType DEF prepare_agent, Update, TypeOK
<1>4. CASE start_node(n)
  <2>1. [nodes[n] EXCEPT !.status = "running", !.started = TRUE] \in Nodes
    BY <1>n DEF Nodes, NodeStatuses
  <2>2. QED
    BY <1>4, <2>1, UpdateType DEF start_node, Update, TypeOK
<1>5. CASE prepare_external_wait(n)
  <2>1. ids + 1 \in Uuids /\ ids' \in 0 .. MaxIds
    BY <1>5 DEF prepare_external_wait, TypeOK, Uuids
  <2>2. [nodes[n] EXCEPT !.wait = [phase |-> "prepared", watch_id |-> ids + 1]] \in Nodes
    BY <1>n, <2>1 DEF Nodes, Waits
  <2>3. QED
    BY <1>5, <2>1, <2>2, UpdateType DEF prepare_external_wait, Update, TypeOK
<1>6. CASE complete_node(n)
  <2>1. [nodes[n] EXCEPT !.status = "completed"] \in Nodes
    BY <1>n DEF Nodes, NodeStatuses
  <2>2. QED
    BY <1>6, <2>1, UpdateType DEF complete_node, Reopen, TypeOK
<1>7. CASE fail_node(n)
  <2>1. Failed(n) \in Nodes
    BY <1>n DEF Failed, Nodes, NodeStatuses, Waits
  <2>2. QED
    BY <1>7, <2>1, UpdateType DEF fail_node, Reopen, TypeOK
<1>8. CASE retry_node(n)
  <2>1. Retried(n) \in Nodes
    BY <1>n DEF Retried, Nodes, NodeStatuses, Waits, Assignments
  <2>2. QED
    BY <1>8, <2>1, UpdateType DEF retry_node, Reopen, TypeOK
<1>9. QED
  BY <1>1, <1>2, <1>3, <1>4, <1>5, <1>6, <1>7, <1>8 DEF NodeStep

\* Every step that carries an id keeps the types.
LEMMA IdStepType == TypeOK /\ (\E n \in Ids, i \in 1 .. ids : IdStep(n, i)) => TypeOK'
<1> SUFFICES ASSUME TypeOK, NEW n \in Ids, NEW i \in 1 .. ids, IdStep(n, i)
             PROVE  TypeOK'
  OBVIOUS
<1> USE GoalAssumption
<1>n. nodes[n] \in Nodes
  BY DEF TypeOK
<1>1. CASE start_agent(n, i)
  <2>1. nodes[n].assignment # NoAssignment
    BY <1>1 DEF start_agent, NoAssignment, TypeOK
  <2>2. [nodes[n] EXCEPT !.status = "running", !.started = TRUE,
           !.assignment.phase = "active"] \in Nodes
    BY <1>n, <2>1 DEF Nodes, NodeStatuses, Assignments
  <2>3. QED
    BY <1>1, <2>2, UpdateType, SettleType DEF start_agent, Update, TypeOK
<1>2. CASE abort_agent(n, i)
  <2>1. [nodes[n] EXCEPT !.status = "pending", !.assignment = NoAssignment] \in Nodes
    BY <1>n DEF Nodes, NodeStatuses, Assignments
  <2>2. QED
    BY <1>2, <2>1, UpdateType, SettleType DEF abort_agent, Update, TypeOK
<1>3. CASE activate_external_wait(n, i)
  <2>w. [nodes[n].wait EXCEPT !.phase = "active"] \in Waits
    BY <1>3 DEF activate_external_wait, Waits, Uuids, TypeOK
  <2>1. [nodes[n] EXCEPT !.status = "waiting", !.wait.phase = "active"] \in Nodes
    BY <1>n, <2>w DEF Nodes, NodeStatuses
  <2>2. QED
    BY <1>3, <2>1, UpdateType DEF activate_external_wait, Update, TypeOK
<1>4. CASE abort_external_wait(n, i)
  <2>1. [nodes[n] EXCEPT !.status = "running", !.wait = NoWait] \in Nodes
    BY <1>n DEF Nodes, NodeStatuses, Waits
  <2>2. QED
    BY <1>4, <2>1, UpdateType, SettleType DEF abort_external_wait, Update, TypeOK
<1>5. CASE wake_node(n, i)
  <2>1. [nodes[n] EXCEPT !.status = "running", !.wait = NoWait] \in Nodes
    BY <1>n DEF Nodes, NodeStatuses, Waits
  <2>2. QED
    BY <1>5, <2>1, UpdateType, SettleType DEF wake_node, Update, TypeOK
<1>6. QED
  BY <1>1, <1>2, <1>3, <1>4, <1>5 DEF IdStep

\* Every step of the goal as a whole keeps the types.
LEMMA GoalStepType == TypeOK /\ GoalStep => TypeOK'
<1> SUFFICES ASSUME TypeOK, GoalStep PROVE TypeOK'
  OBVIOUS
<1>1. CASE cancel
  <2>1. \A n \in Ids : nodes[n] \in Nodes
    BY DEF TypeOK
  <2>2. \A node \in Nodes : [node EXCEPT !.status = "cancelled", !.wait = NoWait] \in Nodes
    BY DEF Nodes, NodeStatuses, Waits
  <2>3. CancelledNodes \in [Ids -> Nodes]
    BY <2>1, <2>2 DEF CancelledNodes
  <2>4. QED
    BY <1>1, <2>3 DEF cancel, Commit, TypeOK, GoalStatuses
<1>2. CASE verify \/ pause \/ resume \/ finish
  BY <1>2 DEF verify, pause, resume, finish, Commit, TypeOK, GoalStatuses
<1>3. QED
  BY <1>1, <1>2 DEF GoalStep

\* In every state every variable of the goal has its type.
THEOREM GoalTypeCorrect == Spec => []TypeOK
<1>1. Init => TypeOK
  <2>1. Fresh("absent", {}) \in Nodes
    BY DEF Fresh, Nodes, NodeStatuses, Assignments, Waits
  <2>2. ASSUME Init PROVE nodes \in [Ids -> Nodes] /\ settled \in [Uuids -> Nat]
    BY <2>1, <2>2 DEF Init
  <2>3. ASSUME Init PROVE ids \in 0 .. MaxIds /\ locks \subseteq Uuids
    <3>1. ids = 0 /\ locks = {}
      BY <2>3 DEF Init
    <3>2. QED
      BY <3>1, GoalAssumption
  <2>4. ASSUME Init PROVE status \in GoalStatuses /\ verified \in BOOLEAN
    BY <2>4, Zenon DEF Init, GoalStatuses
  <2>5. QED
    BY <2>2, <2>3, <2>4 DEF TypeOK
<1>2. TypeOK /\ [Next]_vars => TypeOK'
  <2> SUFFICES ASSUME TypeOK, [Next]_vars PROVE TypeOK'
    OBVIOUS
  <2>1. CASE UNCHANGED vars
    BY <2>1 DEF TypeOK, vars
  <2>2. CASE \/ \E i \in Uuids : TakeLock(i)
           \/ \E released \in SUBSET locks : ReleaseLocks(released)
    BY <2>2 DEF TakeLock, ReleaseLocks, TypeOK, goal
  <2>3. QED
    BY <2>1, <2>2, NodeStepType, IdStepType, GoalStepType DEF Next
<1>3. QED
  BY <1>1, <1>2, PTL DEF Spec

-----------------------------------------------------------------------------
(* Dependencies and write scopes.  Both are inductive with the types.      *)

\* What every step does to the nodes is one of three things.  First: work on
\* one node begins.
Begins(n) ==
  /\ MayStart(n)
  /\ nodes'[n].status \in {"dispatching", "running"} /\ nodes'[n].deps = nodes[n].deps
  /\ \A m \in Ids \ {n} : nodes'[m] = nodes[m]

\* One node's work goes on, is accepted or is given up.
GoesOn(n) ==
  /\ nodes'[n].deps = nodes[n].deps
  /\ \/ nodes[n].status \in Active /\ nodes'[n].status \in Active \cup {"completed"}
     \/ nodes[n].status # "completed" /\ nodes'[n].status \in {"pending", "failed"}
  /\ \A m \in Ids \ {n} : nodes'[m] = nodes[m]

\* Nodes that are not worked on afterwards are added, edited or, with the
\* whole goal, cancelled; every other node stays as it is.
Rests ==
  \A n \in Ids : \/ nodes'[n] = nodes[n]
                 \/ /\ nodes[n].status # "completed"
                    /\ \/ nodes'[n].status = "pending"
                       \/ nodes'[n].status = "cancelled" /\ cancel

\* Every step of the specification is of one of these kinds.
LEMMA StepKinds ==
  ASSUME TypeOK, [Next]_vars
  PROVE  Rests \/ \E n \in Ids : Begins(n) \/ GoesOn(n)
<1> USE GoalAssumption
<1>t. \A n \in Ids : nodes[n] \in Nodes
  BY DEF TypeOK
<1>d. DOMAIN nodes = Ids
  BY DEF TypeOK
<1>1. CASE \E n \in Ids : NodeStep(n)
  <2>1. PICK n \in Ids : NodeStep(n)
    BY <1>1
  <2>2. ASSUME NEW deps \in SUBSET Ids, edit_node(n, deps) PROVE Rests
    BY <2>2, <1>t, <1>d DEF edit_node, Update, Commit, Rests, Nodes
  <2>3. ASSUME NEW deps \in SUBSET Ids,
               NEW before \in {{}} \cup {{t} : t \in Present(nodes)},
               add_node(n, deps, before)
        PROVE  Rests
    <3>1. SUFFICES ASSUME NEW m \in Ids, nodes'[m] # nodes[m]
                   PROVE  nodes[m].status # "completed" /\ nodes'[m].status = "pending"
      BY DEF Rests
    <3>2. CASE m = n
      BY <2>3, <3>2 DEF add_node, Commit, Fresh
    <3>3. CASE m # n
      <4>1. m \in before /\ nodes'[m] = [nodes[m] EXCEPT !.deps = @ \cup {n}]
        BY <2>3, <3>1, <3>3 DEF add_node, Commit
      <4>2. nodes[m].status = "pending"
        BY <2>3, <4>1 DEF add_node
      <4>3. QED
        BY <4>1, <4>2, <1>t DEF Nodes
    <3>4. QED
      BY <3>2, <3>3
  <2>4. CASE prepare_agent(n)
    BY <2>4, <1>t, <1>d DEF prepare_agent, Update, Commit, Begins, Nodes
  <2>5. CASE start_node(n)
    BY <2>5, <1>t, <1>d DEF start_node, Update, Commit, Begins, Nodes
  <2>6. CASE prepare_external_wait(n)
    BY <2>6, <1>t, <1>d DEF prepare_external_wait, Update, Commit, GoesOn, Active, Nodes
  <2>7. CASE complete_node(n)
    BY <2>7, <1>t, <1>d DEF complete_node, Reopen, Commit, GoesOn, Active, Nodes
  <2>8. CASE fail_node(n)
    BY <2>8, <1>t, <1>d DEF fail_node, MayFail, Failed, Reopen, Commit, GoesOn, Nodes
  <2>9. CASE retry_node(n)
    BY <2>9, <1>t, <1>d DEF retry_node, Retried, Reopen, Commit, GoesOn, Nodes
  <2>10. QED
    BY <2>1, <2>2, <2>3, <2>4, <2>5, <2>6, <2>7, <2>8, <2>9 DEF NodeStep
<1>2. CASE \E n \in Ids, i \in 1 .. ids : IdStep(n, i)
  <2>1. PICK n \in Ids, i \in 1 .. ids : IdStep(n, i)
    BY <1>2
  <2>2. CASE start_agent(n, i)
    BY <2>2, <1>t, <1>d DEF start_agent, Update, Commit, GoesOn, Active, Nodes
  <2>3. CASE abort_agent(n, i)
    BY <2>3, <1>t, <1>d DEF abort_agent, Update, Commit, GoesOn, Active, Nodes
  <2>4. CASE activate_external_wait(n, i)
    BY <2>4, <1>t, <1>d DEF activate_external_wait, Update, Commit, GoesOn, Active, Nodes
  <2>5. CASE abort_external_wait(n, i)
    BY <2>5, <1>t, <1>d DEF abort_external_wait, Update, Commit, GoesOn, Active, Nodes
  <2>6. CASE wake_node(n, i)
    BY <2>6, <1>t, <1>d DEF wake_node, Update, Commit, GoesOn, Active, Nodes
  <2>7. QED
    BY <2>1, <2>2, <2>3, <2>4, <2>5, <2>6 DEF IdStep
<1>3. CASE GoalStep
  <2>1. CASE cancel
    <3>1. \A n \in Ids : \/ nodes'[n] = nodes[n]
                         \/ /\ nodes[n].status # "completed"
                            /\ nodes'[n] = [nodes[n] EXCEPT !.status = "cancelled",
                                                            !.wait = NoWait]
      BY <2>1 DEF cancel, Commit, CancelledNodes
    <3>2. QED
      BY <2>1, <3>1, <1>t DEF Rests, Nodes
  <2>2. CASE verify \/ pause \/ resume \/ finish
    BY <2>2 DEF verify, pause, resume, finish, Commit, Rests
  <2>3. QED
    BY <1>3, <2>1, <2>2 DEF GoalStep
<1>4. CASE \/ \E i \in Uuids : TakeLock(i)
           \/ \E released \in SUBSET locks : ReleaseLocks(released)
  BY <1>4 DEF TakeLock, ReleaseLocks, goal, Rests
<1>5. CASE UNCHANGED vars
  BY <1>5 DEF vars, Rests
<1>6. QED
  BY <1>1, <1>2, <1>3, <1>4, <1>5 DEF Next

\* Work never begins before its dependencies are completed, and what is
\* completed stays so: no command of goal.py takes an accepted node back.
THEOREM DependenciesCorrect == Spec => []DependenciesComplete
<1>1. Init => DependenciesComplete
  BY DEF Init, DependenciesComplete, WithStatus, Active, Fresh
<1>2. TypeOK /\ TypeOK' /\ DependenciesComplete /\ [Next]_vars => DependenciesComplete'
  <2> SUFFICES ASSUME TypeOK, TypeOK', DependenciesComplete, [Next]_vars,
                      NEW n \in Ids, nodes'[n].status \in Active \cup {"completed"},
                      NEW d \in nodes'[n].deps
               PROVE  nodes'[d].status = "completed"
    BY DEF DependenciesComplete, WithStatus
  <2>d. d \in Ids
    BY DEF TypeOK, Nodes
  <2>1. CASE Rests
    <3>1. nodes'[n] = nodes[n]
      BY <2>1 DEF Rests, Active
    <3>2. nodes[d].status = "completed"
      BY <3>1 DEF DependenciesComplete, WithStatus
    <3>3. QED
      BY <2>1, <2>d, <3>2 DEF Rests
  <2>2. ASSUME NEW m \in Ids, Begins(m) PROVE nodes'[d].status = "completed"
    <3>1. d \in nodes[n].deps /\ nodes[d].status = "completed"
      BY <2>2 DEF Begins, MayStart, node_is_ready, DependenciesComplete, WithStatus
    <3>2. d # m
      BY <2>2, <3>1 DEF Begins, MayStart, node_is_ready
    <3>3. QED
      BY <2>2, <2>d, <3>1, <3>2 DEF Begins
  <2>3. ASSUME NEW m \in Ids, GoesOn(m) PROVE nodes'[d].status = "completed"
    <3>1. /\ nodes[n].status \in Active \cup {"completed"}
          /\ d \in nodes[n].deps
      BY <2>3 DEF GoesOn, Active
    <3>2. nodes[d].status = "completed"
      BY <3>1 DEF DependenciesComplete, WithStatus
    <3>3. d # m
      BY <2>3, <3>2 DEF GoesOn, Active
    <3>4. QED
      BY <2>3, <2>d, <3>2, <3>3 DEF GoesOn
  <2>4. QED
    BY <2>1, <2>2, <2>3, StepKinds
<1>3. QED
  BY <1>1, <1>2, GoalTypeCorrect, PTL DEF Spec

\* Whether two nodes conflict does not depend on which is named first.
LEMMA ConflictIsSymmetric ==
  \A m, n \in Ids : nodes_conflict(m, n) = nodes_conflict(n, m)
<1>1. \A p, q : paths_overlap(p, q) <=> paths_overlap(q, p)
  BY DEF paths_overlap
<1>2. QED
  BY <1>1 DEF nodes_conflict

\* No two nodes that are worked on write overlapping paths: a node begins only
\* beside nodes it does not conflict with, and a dispatch only on its own.
THEOREM WritersCorrect == Spec => []NoConflictingWriters
<1>1. Init => NoConflictingWriters
  BY DEF Init, NoConflictingWriters, WithStatus, Active, Fresh
<1>2. TypeOK /\ NoConflictingWriters /\ [Next]_vars => NoConflictingWriters'
  <2> SUFFICES ASSUME TypeOK, NoConflictingWriters, [Next]_vars,
                      NEW m \in Ids, nodes'[m].status \in Active,
                      NEW n \in Ids, nodes'[n].status \in Active, m # n
               PROVE  ~nodes_conflict(m, n)
    BY DEF NoConflictingWriters, WithStatus, nodes_conflict
  <2>1. CASE nodes[m].status \in Active /\ nodes[n].status \in Active
    BY <2>1 DEF NoConflictingWriters, WithStatus
  <2>2. \A k \in Ids : nodes'[k].status \in Active /\ nodes[k].status \notin Active
                       => Begins(k)
    BY StepKinds DEF Rests, Begins, GoesOn, Active
  <2>3. \A k, l \in Ids : /\ Begins(k) /\ k # l
                          /\ nodes'[l].status \in Active
                          => ~nodes_conflict(k, l)
    BY DEF Begins, MayStart, ConflictingWith, WithStatus, Active
  <2>4. QED
    BY <2>1, <2>2, <2>3, ConflictIsSymmetric
<1>3. QED
  BY <1>1, <1>2, GoalTypeCorrect, PTL DEF Spec

-----------------------------------------------------------------------------
(* Validation.                                                             *)

\* A step either leaves the goal alone or writes what validates.
LEMMA StepCommits ==
  ASSUME [Next]_vars
  PROVE  UNCHANGED goal \/ GoalValid'
<1>1. \A ns, st, ver : Commit(ns, st, ver) => GoalValid'
  <2> SUFFICES ASSUME NEW ns, NEW st, NEW ver, Commit(ns, st, ver) PROVE GoalValid'
    OBVIOUS
  <2>1. Valid(ns, st, ver) /\ nodes' = ns /\ status' = st /\ verified' = ver
    BY DEF Commit
  <2>2. QED
    BY <2>1 DEF GoalValid
<1>2. CASE \E n \in Ids : NodeStep(n)
  BY <1>1, <1>2 DEF NodeStep, edit_node, add_node, prepare_agent, start_node,
     prepare_external_wait, complete_node, fail_node, retry_node, Update, Reopen
<1>3. CASE \E n \in Ids, i \in 1 .. ids : IdStep(n, i)
  BY <1>1, <1>3 DEF IdStep, start_agent, abort_agent, activate_external_wait,
     abort_external_wait, wake_node, Update
<1>4. CASE GoalStep
  BY <1>1, <1>4 DEF GoalStep, verify, pause, resume, cancel, finish
<1>5. CASE \/ \E i \in Uuids : TakeLock(i)
           \/ \E released \in SUBSET locks : ReleaseLocks(released)
  BY <1>5 DEF TakeLock, ReleaseLocks
<1>6. CASE UNCHANGED vars
  BY <1>6 DEF vars, goal
<1>7. QED
  BY <1>2, <1>3, <1>4, <1>5, <1>6 DEF Next

\* Every state the goal's file goes through is one that validate accepts, so a
\* load of it is never refused.
THEOREM GoalStaysValid == Spec => []GoalValid
<1>1. Init => GoalValid
  <2> SUFFICES ASSUME Init PROVE GoalValid
    OBVIOUS
  <2>1. \A n \in Ids : nodes[n].status = "absent" /\ nodes[n].deps = {}
    BY DEF Init, Fresh
  <2>2. Present(nodes) = {}
    BY <2>1 DEF Present
  <2>3. Acyclic(nodes)
    BY <2>1 DEF Acyclic
  <2>4. verified = FALSE /\ status = "open"
    BY DEF Init
  <2>5. QED
    BY <2>2, <2>3, <2>4 DEF GoalValid, Valid
<1>2. GoalValid /\ [Next]_vars => GoalValid'
  <2> SUFFICES ASSUME GoalValid, [Next]_vars PROVE GoalValid'
    OBVIOUS
  <2>1. CASE UNCHANGED goal
    <3>1. nodes' = nodes /\ status' = status /\ verified' = verified
      BY <2>1 DEF goal
    <3>2. QED
      BY <3>1 DEF GoalValid
  <2>2. QED
    BY <2>1, StepCommits
<1>3. QED
  BY <1>1, <1>2, PTL DEF Spec

\* Whether a graph has a circle is a matter of its dependencies alone.
LEMMA AcyclicByDeps ==
  ASSUME NEW ns, NEW other, Acyclic(ns), \A n \in Ids : other[n].deps = ns[n].deps
  PROVE  Acyclic(other)
BY DEF Acyclic

\* In a valid completed or verified goal no node is left but completed ones.
LEMMA CompletedIsAll ==
  ASSUME GoalValid, verified \/ status = "completed"
  PROVE  \A n \in Ids : nodes[n].status \in {"absent", "completed"}
BY DEF GoalValid, Valid, AllCompleted, Present

\* Replacing one node by one with its dependencies, valid where it stands,
\* keeps a goal that is not completed valid once its verification is withdrawn.
LEMMA ReplaceIsValid ==
  ASSUME TypeOK, GoalValid, NEW n \in Present(nodes), NEW node \in Nodes,
         node.deps = nodes[n].deps, node.status # "absent",
         ValidWait(n, node), ValidLifecycle(n, node),
         node.assignment.phase =
           IF Plan[n].kind = "agent" THEN ExpectedAssignment(node) ELSE "none",
         status # "completed"
  PROVE  Valid([nodes EXCEPT ![n] = node], status, FALSE)
<1> DEFINE ns == [nodes EXCEPT ![n] = node]
<1>1. /\ n \in Ids /\ ns[n] = node
      /\ \A m \in Ids \ {n} : ns[m] = nodes[m]
  BY DEF TypeOK, Present
<1>2. \A m \in Ids : ns[m].deps = nodes[m].deps
  BY <1>1
<1>3. Present(ns) = Present(nodes)
  BY <1>1 DEF Present
<1>4. ASSUME NEW m \in Present(ns) PROVE ValidNode(ns, m)
  <2> HIDE DEF ns
  <2>1. ValidNode(nodes, m) /\ m \in Ids
    BY <1>3 DEF GoalValid, Valid, Present
  <2>2. CASE m = n
    BY <2>1, <2>2, <1>1, <1>2, <1>3 DEF ValidNode
  <2>3. CASE m # n
    <3>1. ns[m] = nodes[m]
      BY <2>1, <2>3, <1>1
    <3>2. QED
      BY <2>1, <3>1, <1>3 DEF ValidNode
  <2>4. QED
    BY <2>2, <2>3
<1>5. Acyclic(ns)
  <2>1. Acyclic(nodes)
    BY DEF GoalValid, Valid
  <2>2. QED
    BY <1>2, <2>1, AcyclicByDeps
<1>6. QED
  BY <1>4, <1>5 DEF Valid

\* Cancelling is never refused by validation, failing a node that can fail and
\* retrying a failed one neither: the ways out of every state are open.
THEOREM EscapesCorrect == Spec => []EscapesAreValid
<1>1. TypeOK /\ GoalValid => EscapesAreValid
  <2> SUFFICES ASSUME TypeOK, GoalValid PROVE EscapesAreValid
    OBVIOUS
  <2>t. \A n \in Ids : nodes[n] \in Nodes
    BY DEF TypeOK
  <2>v. \A n \in Present(nodes) : n \in Ids /\ ValidNode(nodes, n)
    BY DEF GoalValid, Valid, Present
  <2>1. Valid(CancelledNodes, "cancelled", verified)
    <3> DEFINE ns == CancelledNodes
    <3>1. \A n \in Ids : ns[n].deps = nodes[n].deps
      BY <2>t DEF CancelledNodes, Nodes
    <3>2. \A n \in Ids : ns[n].status = "absent" <=> nodes[n].status = "absent"
      BY <2>t DEF CancelledNodes, Nodes
    <3>3. Present(ns) = Present(nodes)
      BY <3>2 DEF Present
    <3>4. ASSUME NEW n \in Present(ns) PROVE ValidNode(ns, n)
      <4>1. n \in Ids /\ ValidNode(nodes, n)
        BY <2>v, <3>3
      <4>2. CASE ns[n] = nodes[n]
        <5> HIDE DEF ns
        <5> QED
          BY <4>1, <4>2, <3>3 DEF ValidNode
      <4>3. CASE ns[n] = [nodes[n] EXCEPT !.status = "cancelled", !.wait = NoWait]
        <5>1. /\ ns[n].status = "cancelled" /\ ns[n].wait = NoWait
              /\ ns[n].deps = nodes[n].deps /\ ns[n].started = nodes[n].started
              /\ ns[n].assignment = nodes[n].assignment
          BY <4>1, <4>3, <2>t DEF Nodes
        <5> HIDE DEF ns
        <5>2. ValidWait(n, ns[n]) /\ ValidLifecycle(n, ns[n])
          BY <5>1 DEF ValidWait, ValidLifecycle, NoWait
        <5>3. ns[n].assignment.phase =
                IF Plan[n].kind = "agent" THEN ExpectedAssignment(ns[n]) ELSE "none"
          <6>1. nodes[n].status = "dispatching" => ~nodes[n].started
            BY <4>1 DEF ValidNode, ValidLifecycle
          <6>2. nodes[n].assignment.phase =
                  IF Plan[n].kind = "agent" THEN ExpectedAssignment(nodes[n]) ELSE "none"
            BY <4>1 DEF ValidNode
          <6>3. QED
            BY <5>1, <6>1, <6>2 DEF ExpectedAssignment
        <5>4. QED
          BY <4>1, <5>1, <5>2, <5>3, <3>3 DEF ValidNode
      <4>4. QED
        BY <4>1, <4>2, <4>3 DEF CancelledNodes
    <3>5. verified => AllCompleted(ns)
      <4> SUFFICES ASSUME verified PROVE AllCompleted(ns)
        OBVIOUS
      <4>1. \A n \in Ids : ns[n] = nodes[n]
        BY CompletedIsAll DEF CancelledNodes
      <4>2. AllCompleted(nodes)
        BY DEF GoalValid, Valid
      <4> HIDE DEF ns
      <4>3. QED
        BY <4>1, <4>2, <3>3 DEF AllCompleted, Present
    <3>6. Acyclic(ns)
      <4>1. Acyclic(nodes)
        BY DEF GoalValid, Valid
      <4> HIDE DEF ns
      <4>2. QED
        BY <3>1, <4>1, AcyclicByDeps
    <3>7. QED
      BY <3>4, <3>5, <3>6 DEF Valid
  <2>2. ASSUME NEW n \in Ids, MayFail(n)
        PROVE  Valid([nodes EXCEPT ![n] = Failed(n)], status, FALSE)
    <3>1. n \in Present(nodes) /\ ValidNode(nodes, n)
      BY <2>2, <2>v DEF MayFail, Present
    <3>2. /\ Failed(n).status = "failed" /\ Failed(n).wait = NoWait
          /\ Failed(n).deps = nodes[n].deps /\ Failed(n).started = nodes[n].started
          /\ Failed(n).assignment = nodes[n].assignment
          /\ Failed(n) \in Nodes
      <4>1. nodes[n] \in Nodes
        BY <2>t DEF WithStatus
      <4>2. Failed(n) \in Nodes
        BY <4>1 DEF Failed, Nodes, NodeStatuses, Waits
      <4>3. QED
        BY <4>1, <4>2 DEF Failed, Nodes
    <3>3. ValidWait(n, Failed(n)) /\ ValidLifecycle(n, Failed(n))
      BY <3>2 DEF ValidWait, ValidLifecycle, NoWait
    <3>4. Failed(n).assignment.phase =
            IF Plan[n].kind = "agent" THEN ExpectedAssignment(Failed(n)) ELSE "none"
      BY <2>2, <3>1, <3>2 DEF MayFail, ValidNode, ExpectedAssignment
    <3>5. status # "completed"
      BY <2>2, CompletedIsAll DEF MayFail
    <3>6. QED
      BY <3>1, <3>2, <3>3, <3>4, <3>5, ReplaceIsValid
  <2>3. ASSUME NEW n \in WithStatus(nodes, {"failed"}), status = "open"
        PROVE  Valid([nodes EXCEPT ![n] = Retried(n)], status, FALSE)
    <3>1. n \in Present(nodes) /\ ValidNode(nodes, n)
      BY <2>v DEF WithStatus, Present
    <3>2. /\ Retried(n).status = "pending" /\ Retried(n).wait = NoWait
          /\ Retried(n).deps = nodes[n].deps /\ Retried(n).started = FALSE
          /\ Retried(n).assignment = NoAssignment
          /\ Retried(n) \in Nodes
      <4>1. nodes[n] \in Nodes
        BY <2>t DEF WithStatus
      <4>2. Retried(n) \in Nodes
        BY <4>1 DEF Retried, Nodes, NodeStatuses, Waits, Assignments
      <4>3. QED
        BY <4>1, <4>2 DEF Retried, Nodes
    <3>3. ValidWait(n, Retried(n)) /\ ValidLifecycle(n, Retried(n))
      BY <3>2 DEF ValidWait, ValidLifecycle, NoWait
    <3>4. Retried(n).assignment.phase =
            IF Plan[n].kind = "agent" THEN ExpectedAssignment(Retried(n)) ELSE "none"
      BY <3>2 DEF ExpectedAssignment, NoAssignment
    <3>5. QED
      BY <2>3, <3>1, <3>2, <3>3, <3>4, ReplaceIsValid
  <2>4. QED
    BY <2>1, <2>2, <2>3 DEF EscapesAreValid
<1>2. QED
  BY <1>1, GoalTypeCorrect, GoalStaysValid, PTL

-----------------------------------------------------------------------------
(* What a step may never do.                                               *)

\* Replacing another node, or all nodes by themselves, leaves node d alone.
LEMMA OthersStay ==
  ASSUME TypeOK, NEW n \in Ids, NEW node, nodes' = [nodes EXCEPT ![n] = node],
         NEW d \in Ids, d # n
  PROVE  nodes'[d] = nodes[d]
BY DEF TypeOK

\* A step leaves the record of a node being dispatched alone, or is the start,
\* the abort or the cancellation that ends the dispatch.
LEMMA DispatchedStays ==
  ASSUME TypeOK, [Next]_vars, NEW d \in WithStatus(nodes, {"dispatching"})
  PROVE  nodes'[d] = nodes[d] \/ DispatchEnds(d)
<1> USE GoalAssumption
<1>d. d \in Ids /\ nodes[d].status = "dispatching" /\ nodes[d] \in Nodes
  BY DEF TypeOK, WithStatus
<1>1. ASSUME NEW n \in Ids, NodeStep(n) PROVE nodes'[d] = nodes[d]
  <2>1. ASSUME NEW deps \in SUBSET Ids, edit_node(n, deps) PROVE nodes'[d] = nodes[d]
    BY <2>1, <1>d, OthersStay DEF edit_node, Update, Commit
  <2>2. ASSUME NEW deps \in SUBSET Ids,
               NEW before \in {{}} \cup {{t} : t \in Present(nodes)},
               add_node(n, deps, before)
        PROVE  nodes'[d] = nodes[d]
    BY <2>2, <1>d DEF add_node, Commit
  <2>3. CASE prepare_agent(n) \/ start_node(n)
    BY <2>3, <1>d DEF prepare_agent, start_node, MayStart
  <2>4. CASE prepare_external_wait(n) \/ complete_node(n)
    BY <2>4, <1>d, OthersStay
       DEF prepare_external_wait, complete_node, Update, Reopen, Commit
  <2>5. CASE fail_node(n) \/ retry_node(n)
    BY <2>5, <1>d, OthersStay DEF fail_node, MayFail, retry_node, Reopen, Commit
  <2>6. QED
    BY <1>1, <2>1, <2>2, <2>3, <2>4, <2>5 DEF NodeStep
<1>2. ASSUME NEW n \in Ids, NEW i \in 1 .. ids, IdStep(n, i)
      PROVE  nodes'[d] = nodes[d] \/ DispatchEnds(d)
  <2>1. i \in Uuids /\ settled \in [Uuids -> Nat]
    BY DEF TypeOK, Uuids
  <2>2. CASE n = d
    <3>1. CASE start_agent(n, i)
      <4>1. nodes'[d] = [nodes[d] EXCEPT !.status = "running", !.started = TRUE,
                                         !.assignment.phase = "active"]
        BY <2>2, <3>1 DEF start_agent, Update, Commit, TypeOK
      <4>2. nodes[d].assignment.token = i /\ settled'[i] > settled[i]
        BY <2>1, <2>2, <3>1 DEF start_agent, Settle
      <4>3. /\ nodes'[d].deps = nodes[d].deps /\ nodes'[d].status = "running"
            /\ nodes'[d].assignment.token = nodes[d].assignment.token
        BY <4>1, <1>d DEF Nodes, Assignments, NoAssignment
      <4>4. QED
        BY <4>2, <4>3 DEF DispatchEnds
    <3>2. CASE abort_agent(n, i)
      <4>1. nodes'[d] = [nodes[d] EXCEPT !.status = "pending",
                                         !.assignment = NoAssignment]
        BY <2>2, <3>2 DEF abort_agent, Update, Commit, TypeOK
      <4>2. nodes[d].assignment.token = i /\ settled'[i] > settled[i]
        BY <2>1, <2>2, <3>2 DEF abort_agent, Settle
      <4>3. nodes'[d].deps = nodes[d].deps /\ nodes'[d].status = "pending"
        BY <4>1, <1>d DEF Nodes
      <4>4. QED
        BY <4>2, <4>3 DEF DispatchEnds
    <3>3. CASE \/ activate_external_wait(n, i) \/ abort_external_wait(n, i)
               \/ wake_node(n, i)
      BY <2>2, <3>3, <1>d
         DEF activate_external_wait, abort_external_wait, wake_node
    <3>4. QED
      BY <1>2, <3>1, <3>2, <3>3 DEF IdStep
  <2>3. CASE n # d
    BY <1>2, <2>3, <1>d, OthersStay DEF IdStep, start_agent, abort_agent,
       activate_external_wait, abort_external_wait, wake_node, Update, Commit
  <2>4. QED
    BY <2>2, <2>3
<1>3. CASE cancel
  <2>1. nodes'[d] = [nodes[d] EXCEPT !.status = "cancelled", !.wait = NoWait]
    BY <1>3, <1>d DEF cancel, Commit, CancelledNodes
  <2>2. nodes'[d].deps = nodes[d].deps /\ nodes'[d].status = "cancelled"
    BY <2>1, <1>d DEF Nodes
  <2>3. QED
    BY <1>3, <2>2 DEF cancel, Commit, DispatchEnds
<1>4. CASE verify \/ pause \/ resume \/ finish
  BY <1>4 DEF verify, pause, resume, finish, Commit
<1>5. CASE \/ \E i \in Uuids : TakeLock(i)
           \/ \E released \in SUBSET locks : ReleaseLocks(released)
  BY <1>5 DEF TakeLock, ReleaseLocks, goal
<1>6. CASE UNCHANGED vars
  BY <1>6 DEF vars
<1>7. QED
  BY <1>1, <1>2, <1>3, <1>4, <1>5, <1>6 DEF Next, GoalStep

\* What a child agent was sent off with stays as it was sent until its own
\* answer or the goal's cancellation ends the dispatch, and no pending node
\* begins work meanwhile, whatever other command of the root, of the dashboard
\* or of a rollback comes in between.
THEOREM FreezeCorrect == Spec => DispatchFreezes
<1>1. TypeOK /\ DependenciesComplete /\ [Next]_vars =>
        \A d \in WithStatus(nodes, {"dispatching"}) :
          /\ nodes'[d] = nodes[d] \/ DispatchEnds(d)
          /\ \A e \in nodes[d].deps :
               nodes[e].status = "completed" /\ nodes'[e] = nodes[e]
          /\ \A n \in Ids \ {d} :
               nodes[n].status = "pending" => nodes'[n].status \notin Active
  <2> SUFFICES ASSUME TypeOK, DependenciesComplete, [Next]_vars,
                      NEW d \in WithStatus(nodes, {"dispatching"})
               PROVE  /\ nodes'[d] = nodes[d] \/ DispatchEnds(d)
                      /\ \A e \in nodes[d].deps :
                           nodes[e].status = "completed" /\ nodes'[e] = nodes[e]
                      /\ \A n \in Ids \ {d} :
                           nodes[n].status = "pending" => nodes'[n].status \notin Active
    OBVIOUS
  <2>1. ASSUME NEW e \in nodes[d].deps
        PROVE  nodes[e].status = "completed" /\ nodes'[e] = nodes[e]
    <3>1. e \in Ids /\ nodes[e].status = "completed"
      BY DEF DependenciesComplete, WithStatus, Active, TypeOK, Nodes
    <3>2. QED
      BY <3>1, StepKinds DEF Rests, Begins, MayStart, node_is_ready, GoesOn, Active
  <2>2. ASSUME NEW n \in Ids, nodes[n].status = "pending", nodes'[n].status \in Active
        PROVE  FALSE
    <3>1. Begins(n)
      BY <2>2, StepKinds DEF Rests, Begins, GoesOn, Active
    <3>2. QED
      BY <3>1 DEF Begins, MayStart
  <2>3. QED
    BY <2>1, <2>2, DispatchedStays
<1>2. QED
  BY <1>1, GoalTypeCorrect, DependenciesCorrect, PTL DEF Spec, DispatchFreezes

\* In a valid goal only a running or waiting node has a wait.
LEMMA OnlyRunningWaits ==
  ASSUME TypeOK, GoalValid, NEW n \in Present(nodes),
         nodes[n].status \notin {"running", "waiting"}
  PROVE  nodes[n].wait = NoWait
<1>1. n \in Ids /\ ValidNode(nodes, n)
  BY DEF GoalValid, Valid, Present
<1>2. nodes[n].wait \in Waits
  BY <1>1 DEF TypeOK, Nodes
<1>3. nodes[n].wait.phase \notin {"prepared", "active"}
  BY <1>1 DEF ValidNode, ValidWait
<1>4. QED
  BY <1>2, <1>3 DEF Waits

\* A step changes nothing of a goal that ended: every command is refused, and
\* cancelling again writes what is there already.
LEMMA EndedIsStill ==
  ASSUME TypeOK, GoalValid, CancelledRests, [Next]_vars,
         status \in {"completed", "cancelled"}
  PROVE  UNCHANGED goal
<1>1. \A n \in Ids : nodes[n].status \in {"absent", "completed", "failed", "cancelled"}
  BY CompletedIsAll DEF CancelledRests
<1>2. \A n \in Ids : nodes[n].status = "failed" => status # "completed"
  BY CompletedIsAll
<1>3. ASSUME NEW n \in Ids, NodeStep(n) PROVE FALSE
  BY <1>1, <1>3 DEF NodeStep, edit_node, add_node, prepare_agent, start_node,
     MayStart, prepare_external_wait, complete_node, fail_node, MayFail, retry_node
<1>4. ASSUME NEW n \in Ids, NEW i \in 1 .. ids, IdStep(n, i) PROVE FALSE
  BY <1>1, <1>4 DEF IdStep, start_agent, abort_agent, activate_external_wait,
     abort_external_wait, wake_node
<1>5. CASE cancel
  <2>1. status = "cancelled"
    BY <1>5 DEF cancel
  <2>2. ASSUME NEW n \in Ids, nodes[n].status = "cancelled"
        PROVE  [nodes[n] EXCEPT !.status = "cancelled", !.wait = NoWait] = nodes[n]
    <3>1. nodes[n].wait = NoWait
      BY <2>2, OnlyRunningWaits DEF Present
    <3>2. nodes[n] \in Nodes
      BY DEF TypeOK
    <3>3. QED
      BY <2>2, <3>1, <3>2 DEF Nodes
  <2>3. \A n \in Ids : CancelledNodes[n] = nodes[n]
    BY <1>1, <2>2 DEF CancelledNodes
  <2>4. CancelledNodes = nodes
    BY <2>3 DEF CancelledNodes, TypeOK
  <2>5. QED
    BY <1>5, <2>1, <2>4 DEF cancel, Commit, goal
<1>6. CASE verify \/ pause \/ resume \/ finish
  BY <1>6 DEF verify, pause, resume, finish
<1>7. CASE \/ \E i \in Uuids : TakeLock(i)
           \/ \E released \in SUBSET locks : ReleaseLocks(released)
  BY <1>7 DEF TakeLock, ReleaseLocks
<1>8. CASE UNCHANGED vars
  BY <1>8 DEF vars, goal
<1>9. QED
  BY <1>3, <1>4, <1>5, <1>6, <1>7, <1>8 DEF Next, GoalStep

\* Only cancelling the goal cancels a node, and nothing else cancels the goal.
LEMMA CancelsAll ==
  ASSUME TypeOK, [Next]_vars
  PROVE  /\ status # "cancelled" /\ status' = "cancelled" => cancel
         /\ \A n \in Ids : nodes[n].status # "cancelled" /\ nodes'[n].status = "cancelled"
              => cancel
<1>1. status # "cancelled" /\ status' = "cancelled" => cancel
  BY DEF Next, vars, goal, NodeStep, IdStep, GoalStep, TakeLock, ReleaseLocks,
     edit_node, add_node, prepare_agent, start_node, prepare_external_wait,
     complete_node, fail_node, retry_node, start_agent, abort_agent,
     activate_external_wait, abort_external_wait, wake_node, verify, pause,
     resume, finish, Update, Reopen, Commit
<1>2. ASSUME ~cancel, NEW n \in Ids, nodes[n].status # "cancelled"
      PROVE  nodes'[n].status # "cancelled"
  BY <1>2, StepKinds DEF Rests, Begins, GoesOn, Active
<1>3. QED
  BY <1>1, <1>2

\* In every state of a cancelled goal each node has come to its end.
LEMMA CancelledStaysAtRest == Spec => []CancelledRests
<1>1. Init => CancelledRests
  BY DEF Init, CancelledRests
<1>2. TypeOK /\ GoalValid /\ CancelledRests /\ [Next]_vars => CancelledRests'
  <2> SUFFICES ASSUME TypeOK, GoalValid, CancelledRests, [Next]_vars,
                      status' = "cancelled"
               PROVE  \A n \in Ids : nodes'[n].status
                        \in {"absent", "completed", "failed", "cancelled"}
    BY DEF CancelledRests
  <2>1. CASE status = "cancelled"
    BY <2>1, EndedIsStill DEF CancelledRests, goal
  <2>2. CASE status # "cancelled"
    <3>1. cancel
      BY <2>2, CancelsAll
    <3>2. \A n \in Ids : nodes[n] \in Nodes
      BY DEF TypeOK
    <3>3. QED
      BY <3>1, <3>2 DEF cancel, Commit, CancelledNodes, Nodes
  <2>3. QED
    BY <2>1, <2>2
<1>3. QED
  BY <1>1, <1>2, GoalTypeCorrect, GoalStaysValid, PTL DEF Spec

\* A completed or cancelled goal stays exactly as it ended, also under late
\* wakes, failures and rollbacks that still name its nodes.
THEOREM FinalCorrect == Spec => GoalIsFinal
<1>1. TypeOK /\ GoalValid /\ CancelledRests /\ [Next]_vars =>
        (status \in {"completed", "cancelled"} => UNCHANGED goal)
  BY EndedIsStill
<1>2. QED
  BY <1>1, GoalTypeCorrect, GoalStaysValid, CancelledStaysAtRest, PTL
     DEF Spec, GoalIsFinal

-----------------------------------------------------------------------------
(* Ids.  What every step does to them is one of three things.  First: it   *)
(* hands out a new one, to node n.                                         *)

HandsOut(n) ==
  /\ ids < MaxIds /\ ids' = ids + 1
  /\ settled' = settled
  /\ \A m \in Ids, j \in Uuids : Live(m, j)' => Live(m, j) \/ (m = n /\ j = ids + 1)

\* It settles what node n had open under id i.
Settles(n, i) ==
  /\ Live(n, i) /\ ~Live(n, i)'
  /\ ids' = ids
  /\ Settle(i)
  /\ \A m \in Ids, j \in Uuids : Live(m, j)' => Live(m, j)

\* It settles nothing and opens nothing.
KeepsIds ==
  /\ ids' = ids
  /\ settled' = settled
  /\ \A m \in Ids, j \in Uuids : Live(m, j)' => Live(m, j)

\* Replacing node n changes what is open of node n alone.
LEMMA UpdateLive ==
  ASSUME TypeOK, NEW n \in Ids, NEW node, nodes' = [nodes EXCEPT ![n] = node]
  PROVE  /\ \A m \in Ids \ {n}, j \in Uuids : Live(m, j)' <=> Live(m, j)
         /\ \A j : Live(n, j)' <=> \/ node.status = "dispatching" /\ node.assignment.token = j
                                   \/ node.wait.watch_id = j
<1>1. nodes'[n] = node /\ \A m \in Ids \ {n} : nodes'[m] = nodes[m]
  BY DEF TypeOK
<1>2. QED
  BY <1>1 DEF Live

\* Every step of a node without an id hands out an id or keeps the ids.
LEMMA NodeStepIds ==
  ASSUME TypeOK, NEW n \in Ids, NodeStep(n)
  PROVE  KeepsIds \/ HandsOut(n)
<1>t. \A m \in Ids : nodes[m] \in Nodes
  BY DEF TypeOK
<1>n. nodes[n] \in Nodes
  BY <1>t
<1>z. \A j \in Uuids : j # 0
  BY DEF Uuids
<1>1. ASSUME NEW deps \in SUBSET Ids, edit_node(n, deps) PROVE KeepsIds
  <2> DEFINE node == [nodes[n] EXCEPT !.deps = deps]
  <2>1. node.status = nodes[n].status /\ node.wait = nodes[n].wait
    BY <1>n DEF Nodes
  <2>2. nodes[n].status = "pending" /\ nodes' = [nodes EXCEPT ![n] = node]
        /\ ids' = ids /\ settled' = settled
    BY <1>1 DEF edit_node, Update, Commit
  <2> HIDE DEF node
  <2>3. QED
    BY <2>1, <2>2, UpdateLive DEF KeepsIds, Live
<1>2. ASSUME NEW deps \in SUBSET Ids,
             NEW before \in {{}} \cup {{t} : t \in Present(nodes)},
             add_node(n, deps, before)
      PROVE  KeepsIds
  <2>1. ids' = ids /\ settled' = settled
    BY <1>2 DEF add_node
  <2>2. ASSUME NEW m \in Ids, NEW j \in Uuids, Live(m, j)' PROVE Live(m, j)
    <3>1. CASE m = n
      <4>1. nodes'[m] = Fresh("pending", deps)
        BY <1>2, <3>1 DEF add_node, Commit
      <4>2. nodes'[m].status = "pending" /\ nodes'[m].wait.watch_id = 0
        BY <4>1 DEF Fresh, NoWait
      <4>3. QED
        BY <2>2, <4>2, <1>z DEF Live
    <3>2. CASE m # n
      <4>1. nodes'[m] = nodes[m] \/ nodes'[m] = [nodes[m] EXCEPT !.deps = @ \cup {n}]
        BY <1>2, <3>2 DEF add_node, Commit
      <4>2. /\ nodes'[m].status = nodes[m].status /\ nodes'[m].wait = nodes[m].wait
            /\ nodes'[m].assignment = nodes[m].assignment
        BY <4>1, <1>t DEF Nodes
      <4>3. QED
        BY <2>2, <4>2 DEF Live
    <3>3. QED
      BY <3>1, <3>2
  <2>3. QED
    BY <2>1, <2>2 DEF KeepsIds
<1>3. CASE prepare_agent(n)
  <2> DEFINE node == [nodes[n] EXCEPT !.status = "dispatching",
                        !.assignment = [phase |-> "prepared", token |-> ids + 1]]
  <2>1. node.assignment.token = ids + 1 /\ node.wait = nodes[n].wait
    BY <1>n DEF Nodes
  <2>2. nodes' = [nodes EXCEPT ![n] = node] /\ settled' = settled
        /\ ids < MaxIds /\ ids' = ids + 1
    BY <1>3 DEF prepare_agent, Update, Commit
  <2> HIDE DEF node
  <2>3. QED
    BY <2>1, <2>2, UpdateLive DEF HandsOut, Live
<1>4. CASE prepare_external_wait(n)
  <2> DEFINE node == [nodes[n] EXCEPT !.wait = [phase |-> "prepared", watch_id |-> ids + 1]]
  <2>1. node.wait.watch_id = ids + 1 /\ node.status = nodes[n].status
    BY <1>n DEF Nodes
  <2>2. nodes' = [nodes EXCEPT ![n] = node] /\ settled' = settled
        /\ ids < MaxIds /\ ids' = ids + 1 /\ nodes[n].status = "running"
    BY <1>4 DEF prepare_external_wait, Update, Commit
  <2> HIDE DEF node
  <2>3. QED
    BY <2>1, <2>2, UpdateLive DEF HandsOut, Live
<1>5. ASSUME NEW node, nodes' = [nodes EXCEPT ![n] = node], node.status # "dispatching",
             node.wait = nodes[n].wait \/ node.wait = NoWait,
             ids' = ids, settled' = settled
      PROVE  KeepsIds
  BY <1>5, <1>z, UpdateLive DEF KeepsIds, Live, NoWait
<1>6. CASE start_node(n)
  <2>1. /\ [nodes[n] EXCEPT !.status = "running", !.started = TRUE].status = "running"
        /\ [nodes[n] EXCEPT !.status = "running", !.started = TRUE].wait = nodes[n].wait
    BY <1>n DEF Nodes
  <2>2. QED
    BY <1>6, <2>1, <1>5 DEF start_node, Update, Commit
<1>7. CASE complete_node(n)
  <2>1. /\ [nodes[n] EXCEPT !.status = "completed"].status = "completed"
        /\ [nodes[n] EXCEPT !.status = "completed"].wait = nodes[n].wait
    BY <1>n DEF Nodes
  <2>2. QED
    BY <1>7, <2>1, <1>5 DEF complete_node, Reopen, Commit
<1>8. CASE fail_node(n)
  <2>1. Failed(n).status = "failed" /\ Failed(n).wait = NoWait
    BY <1>n DEF Failed, Nodes
  <2>2. QED
    BY <1>8, <2>1, <1>5 DEF fail_node, Reopen, Commit
<1>9. CASE retry_node(n)
  <2>1. Retried(n).status = "pending" /\ Retried(n).wait = NoWait
    BY <1>n DEF Retried, Nodes
  <2>2. QED
    BY <1>9, <2>1, <1>5 DEF retry_node, Reopen, Commit
<1>10. QED
  BY <1>1, <1>2, <1>3, <1>4, <1>6, <1>7, <1>8, <1>9 DEF NodeStep

\* Every command that carries an id settles it, where it is open, or keeps the
\* ids: one that is over is refused.
LEMMA IdStepIds ==
  ASSUME TypeOK, GoalValid, NEW n \in Ids, NEW i \in 1 .. ids, IdStep(n, i)
  PROVE  KeepsIds \/ (i \in Uuids /\ Settles(n, i))
<1>n. nodes[n] \in Nodes
  BY DEF TypeOK
<1>i. i \in Uuids /\ i # 0
  BY GoalAssumption DEF TypeOK, Uuids
<1>0. \A j \in Uuids : j # 0
  BY DEF Uuids
<1>1. ASSUME NEW node, nodes' = [nodes EXCEPT ![n] = node], node.status # "dispatching",
             node.wait = NoWait, Live(n, i), Settle(i), ids' = ids
      PROVE  Settles(n, i)
  <2>1. node.wait.watch_id = 0
    BY <1>1 DEF NoWait
  <2>2. \A j \in Uuids : ~Live(n, j)'
    BY <1>1, <1>0, <2>1, UpdateLive
  <2>3. \A m \in Ids, j \in Uuids : Live(m, j)' => Live(m, j)
    BY <1>1, <2>2, UpdateLive
  <2>4. QED
    BY <1>1, <1>i, <2>2, <2>3 DEF Settles
<1>2. nodes[n].status = "dispatching" => nodes[n].wait = NoWait
  BY OnlyRunningWaits DEF Present
<1>3. CASE start_agent(n, i)
  <2> DEFINE node == [nodes[n] EXCEPT !.status = "running", !.started = TRUE,
                        !.assignment.phase = "active"]
  <2>1. node.status = "running" /\ node.wait = nodes[n].wait
    BY <1>n DEF Nodes
  <2>2. /\ nodes' = [nodes EXCEPT ![n] = node] /\ Settle(i) /\ ids' = ids
        /\ nodes[n].status = "dispatching" /\ nodes[n].assignment.token = i
    BY <1>3 DEF start_agent, Update, Commit
  <2> HIDE DEF node
  <2>3. QED
    BY <2>1, <2>2, <1>1, <1>2, <1>i DEF Live
<1>4. CASE abort_agent(n, i)
  <2> DEFINE node == [nodes[n] EXCEPT !.status = "pending", !.assignment = NoAssignment]
  <2>1. node.status = "pending" /\ node.wait = nodes[n].wait
    BY <1>n DEF Nodes
  <2>2. /\ nodes' = [nodes EXCEPT ![n] = node] /\ Settle(i) /\ ids' = ids
        /\ nodes[n].status = "dispatching" /\ nodes[n].assignment.token = i
    BY <1>4 DEF abort_agent, Update, Commit
  <2> HIDE DEF node
  <2>3. QED
    BY <2>1, <2>2, <1>1, <1>2, <1>i DEF Live
<1>5. CASE activate_external_wait(n, i)
  <2> DEFINE node == [nodes[n] EXCEPT !.status = "waiting", !.wait.phase = "active"]
  <2>1. node.status = "waiting" /\ node.wait.watch_id = nodes[n].wait.watch_id
    <3>1. node.wait = [nodes[n].wait EXCEPT !.phase = "active"] /\ node.status = "waiting"
      BY <1>n DEF Nodes
    <3>2. nodes[n].wait = [phase |-> "prepared", watch_id |-> i]
      BY <1>5 DEF activate_external_wait
    <3> HIDE DEF node
    <3>3. QED
      BY <3>1, <3>2
  <2>2. nodes' = [nodes EXCEPT ![n] = node] /\ ids' = ids /\ settled' = settled
    BY <1>5 DEF activate_external_wait, Update, Commit
  <2> HIDE DEF node
  <2>3. QED
    BY <2>1, <2>2, UpdateLive DEF KeepsIds, Live
<1>6. CASE abort_external_wait(n, i) \/ wake_node(n, i)
  <2> DEFINE node == [nodes[n] EXCEPT !.status = "running", !.wait = NoWait]
  <2>1. node.status = "running" /\ node.wait = NoWait
    BY <1>n DEF Nodes
  <2>2. /\ nodes' = [nodes EXCEPT ![n] = node] /\ Settle(i) /\ ids' = ids
        /\ nodes[n].wait.watch_id = i
    BY <1>6 DEF abort_external_wait, wake_node, Update, Commit
  <2> HIDE DEF node
  <2>3. QED
    BY <2>1, <2>2, <1>1, <1>i DEF Live
<1>7. QED
  BY <1>3, <1>4, <1>5, <1>6 DEF IdStep

\* Every other step keeps the ids.
LEMMA OtherStepIds ==
  ASSUME TypeOK,
         \/ GoalStep
         \/ \E i \in Uuids : TakeLock(i)
         \/ \E released \in SUBSET locks : ReleaseLocks(released)
         \/ UNCHANGED vars
  PROVE  KeepsIds
<1>1. CASE cancel
  <2>1. ids' = ids /\ settled' = settled
    BY <1>1 DEF cancel
  <2>2. ASSUME NEW m \in Ids, NEW j \in Uuids, Live(m, j)' PROVE Live(m, j)
    <3>1. \/ nodes'[m] = nodes[m]
          \/ nodes'[m] = [nodes[m] EXCEPT !.status = "cancelled", !.wait = NoWait]
      BY <1>1 DEF cancel, Commit, CancelledNodes
    <3>2. nodes[m] \in Nodes
      BY DEF TypeOK
    <3>3. \/ nodes'[m] = nodes[m]
          \/ nodes'[m].status = "cancelled" /\ nodes'[m].wait = NoWait
      BY <3>1, <3>2 DEF Nodes
    <3>4. j # 0
      BY DEF Uuids
    <3>5. QED
      BY <2>2, <3>3, <3>4 DEF Live, NoWait
  <2>3. QED
    BY <2>1, <2>2 DEF KeepsIds
<1>2. CASE nodes' = nodes /\ ids' = ids /\ settled' = settled
  BY <1>2 DEF KeepsIds, Live
<1>3. QED
  BY <1>1, <1>2 DEF GoalStep, verify, pause, resume, finish, Commit, TakeLock,
     ReleaseLocks, goal, vars

\* An id settles its matter once at most: a wake, an abort or a start that
\* comes late, again or for another node finds nothing open under its id.
THEOREM IdsCorrect == Spec => []IdSettledOnce
<1>1. Init => IdInv
  <2> SUFFICES ASSUME Init PROVE IdInv
    OBVIOUS
  <2>1. \A i \in Uuids : settled[i] = 0
    BY DEF Init
  <2>2. \A n \in Ids, i \in Uuids : ~Live(n, i)
    <3>1. \A n \in Ids : nodes[n].status = "absent" /\ nodes[n].wait.watch_id = 0
      BY DEF Init, Fresh, NoWait
    <3>2. QED
      BY <3>1 DEF Live, Uuids
  <2>3. QED
    BY <2>1, <2>2 DEF IdInv, IdSettledOnce
<1>2. TypeOK /\ GoalValid /\ IdInv /\ [Next]_vars => IdInv'
  <2> SUFFICES ASSUME TypeOK, GoalValid, IdInv, [Next]_vars PROVE IdInv'
    OBVIOUS
  <2>t. ids \in Nat /\ (\A i \in Uuids : i \in Nat) /\ settled \in [Uuids -> Nat]
    BY DEF TypeOK, Uuids
  <2>1. CASE KeepsIds
    BY <2>1 DEF KeepsIds, IdInv, IdSettledOnce
  <2>2. ASSUME NEW n \in Ids, HandsOut(n) PROVE IdInv'
    <3>1. \A i \in Uuids : i > ids' => settled'[i] = 0
      BY <2>2, <2>t DEF HandsOut, IdInv
    <3>2. \A m \in Ids, i \in Uuids : Live(m, i)' => i <= ids' /\ settled'[i] = 0
      BY <2>2, <2>t DEF HandsOut, IdInv
    <3>3. \A k, m \in Ids, i \in Uuids : Live(k, i)' /\ Live(m, i)' => k = m
      <4>1. \A m \in Ids : ~Live(m, ids + 1) \/ ids + 1 \notin Uuids
        BY <2>t DEF IdInv
      <4>2. QED
        BY <2>2, <4>1 DEF HandsOut, IdInv
    <3>4. IdSettledOnce'
      BY <2>2 DEF HandsOut, IdInv, IdSettledOnce
    <3>5. QED
      BY <3>1, <3>2, <3>3, <3>4 DEF IdInv
  <2>3. ASSUME NEW n \in Ids, NEW i \in Uuids, Settles(n, i) PROVE IdInv'
    <3>1. settled[i] = 0 /\ i <= ids
      BY <2>3 DEF Settles, IdInv
    <3>2. settled'[i] = 1 /\ \A j \in Uuids \ {i} : settled'[j] = settled[j]
      BY <2>3, <2>t, <3>1 DEF Settles, Settle
    <3>3. \A m \in Ids : ~Live(m, i)'
      BY <2>3 DEF Settles, IdInv
    <3>4. \A j \in Uuids : j > ids' => settled'[j] = 0
      BY <2>3, <2>t, <3>1, <3>2 DEF Settles, IdInv
    <3>5. \A m \in Ids, j \in Uuids : Live(m, j)' => j <= ids' /\ settled'[j] = 0
      BY <2>3, <3>2, <3>3 DEF Settles, IdInv
    <3>6. \A k, m \in Ids, j \in Uuids : Live(k, j)' /\ Live(m, j)' => k = m
      BY <2>3 DEF Settles, IdInv
    <3>7. IdSettledOnce'
      BY <3>2 DEF IdInv, IdSettledOnce
    <3>8. QED
      BY <3>4, <3>5, <3>6, <3>7 DEF IdInv
  <2>4. QED
    BY <2>1, <2>2, <2>3, NodeStepIds, IdStepIds, OtherStepIds DEF Next
<1>3. IdInv => IdSettledOnce
  BY DEF IdInv
<1>4. QED
  BY <1>1, <1>2, <1>3, GoalTypeCorrect, GoalStaysValid, PTL DEF Spec

-----------------------------------------------------------------------------
(* Induction over the naturals, as facts about sets of them.               *)

\* Every set of naturals that is not empty has a least member.
LEMMA LeastNatural ==
  ASSUME NEW T \in SUBSET Nat, T # {}
  PROVE  \E n \in T : \A m \in T : n <= m
<1> DEFINE R == OpToRel(<, Nat)
<1>1. IsWellFoundedOn(R, Nat)
  BY NatLessThanWellFounded, Zenon
<1> HIDE DEF R
<1>2. PICK n \in T : \A m \in T : <<m, n>> \notin R
  BY <1>1, WFMin, Zenon
<1>3. \A m \in Nat : m < n => <<m, n>> \in R
  BY DEF R, OpToRel
<1>4. ASSUME NEW m \in T PROVE n <= m
  <2>1. m \in Nat /\ n \in Nat /\ ~(m < n)
    BY <1>2, <1>3
  <2>2. QED
    BY <2>1
<1>5. QED
  BY <1>4

\* A set that has 0, and the successor of each natural it has, has them all.
LEMMA SetInduction ==
  ASSUME NEW H, 0 \in H, \A n \in Nat : n \in H => n + 1 \in H
  PROVE  \A n \in Nat : n \in H
<1> SUFFICES ASSUME Nat \ H # {} PROVE FALSE
  OBVIOUS
<1>1. PICK n \in Nat \ H : \A m \in Nat \ H : n <= m
  BY LeastNatural
<1>2. n # 0 /\ n - 1 \in Nat /\ n - 1 + 1 = n /\ ~(n <= n - 1)
  BY <1>1
<1>3. QED
  BY <1>1, <1>2

-----------------------------------------------------------------------------
(* The frontier.                                                           *)

\* What the pass of ready_nodes has selected once it is past node n.
Selects(ns, active, f, n) ==
  IF n = 0 THEN {}
  ELSE IF node_is_ready(ns, n) /\ ~ConflictingWith(n, active \cup f[n - 1])
       THEN f[n - 1] \cup {n} ELSE f[n - 1]

IsSelection(ns, active, f, k) == f = [n \in 0 .. k |-> Selects(ns, active, f, n)]

\* The recursion of ready_nodes is well defined, over any number of nodes.
LEMMA SelectionExists ==
  ASSUME NEW ns, NEW active, NEW k \in Nat
  PROVE  \E f : IsSelection(ns, active, f, k)
<1> DEFINE H == {j \in Nat : \E f : IsSelection(ns, active, f, j)}
<1>1. 0 \in H
  <2> DEFINE f == [n \in 0 .. 0 |-> {}]
  <2>1. \A n \in 0 .. 0 : Selects(ns, active, f, n) = {}
    BY DEF Selects
  <2>2. f = [n \in 0 .. 0 |-> Selects(ns, active, f, n)]
    BY <2>1
  <2>3. QED
    BY <2>2 DEF IsSelection
<1>2. ASSUME NEW j \in Nat, j \in H PROVE j + 1 \in H
  <2>1. PICK f : IsSelection(ns, active, f, j)
    BY <1>2
  <2> DEFINE g == [n \in 0 .. j + 1 |-> Selects(ns, active, f, n)]
  <2>2. \A n \in 0 .. j : g[n] = f[n]
    BY <2>1 DEF IsSelection
  <2>3. ASSUME NEW n \in 0 .. j + 1 PROVE g[n] = Selects(ns, active, g, n)
    <3>1. CASE n = 0
      BY <3>1 DEF Selects
    <3>2. CASE n # 0
      <4>1. n - 1 \in 0 .. j
        BY <3>2
      <4>2. g[n - 1] = f[n - 1]
        BY <2>2, <4>1
      <4>3. g[n] = Selects(ns, active, f, n)
        OBVIOUS
      <4> HIDE DEF g
      <4>4. QED
        BY <4>2, <4>3 DEF Selects
    <3>3. QED
      BY <3>1, <3>2
  <2>4. g = [n \in 0 .. j + 1 |-> Selects(ns, active, g, n)]
    BY <2>3
  <2> HIDE DEF g
  <2>5. QED
    BY <2>4 DEF IsSelection
<1> HIDE DEF H
<1>3. k \in H
  BY <1>1, <1>2, SetInduction
<1>4. QED
  BY <1>3 DEF H

\* What ready_nodes returns for an open goal is such a selection's last.
LEMMA ReadyIsSelected ==
  ASSUME NEW ns, NEW st, st = "open", WithStatus(ns, {"dispatching"}) = {}
  PROVE  \E f : /\ IsSelection(ns, WithStatus(ns, {"running", "waiting"}), f, Size)
                /\ ready_nodes(ns, st) = f[Size]
<1> DEFINE active == WithStatus(ns, {"running", "waiting"})
           sel == CHOOSE f : IsSelection(ns, active, f, Size)
<1>1. \E f : IsSelection(ns, active, f, Size)
  BY SelectionExists, GoalAssumption
<1>2. IsSelection(ns, active, sel, Size)
  BY <1>1, Zenon
<1>3. ready_nodes(ns, st) = sel[Size]
  BY Zenon DEF ready_nodes, IsSelection, Selects
<1> HIDE DEF sel
<1>4. QED
  BY <1>2, <1>3

\* Past node k the selection can be begun as a whole beside what is active,
\* and every node up to k that could be begun beside it is in it.
SelectionIsSound(ns, active, f, k) ==
  /\ f[k] \subseteq 1 .. k
  /\ \A n \in f[k] : node_is_ready(ns, n) /\ ~ConflictingWith(n, active \cup (f[k] \ {n}))
  /\ \A n \in 1 .. k : node_is_ready(ns, n) /\ ~ConflictingWith(n, active \cup f[k])
       => n \in f[k]

LEMMA SelectionSound ==
  ASSUME NEW ns, NEW active, NEW f, IsSelection(ns, active, f, Size)
  PROVE  SelectionIsSound(ns, active, f, Size)
<1> DEFINE H == {k \in Nat : k <= Size => SelectionIsSound(ns, active, f, k)}
<1>f. \A k \in 0 .. Size : f[k] = Selects(ns, active, f, k)
  BY DEF IsSelection
<1>1. 0 \in H
  <2>1. f[0] = Selects(ns, active, f, 0)
    BY <1>f, GoalAssumption
  <2>2. QED
    BY <2>1 DEF Selects, SelectionIsSound
<1>2. ASSUME NEW k \in Nat, k \in H PROVE k + 1 \in H
  <2> SUFFICES ASSUME k + 1 <= Size PROVE SelectionIsSound(ns, active, f, k + 1)
    OBVIOUS
  <2>1. SelectionIsSound(ns, active, f, k)
    BY <1>2, GoalAssumption
  <2>2. k + 1 \in Ids /\ 1 .. k \subseteq Ids /\ 1 .. k + 1 = 1 .. k \cup {k + 1}
    BY GoalAssumption DEF Ids
  <2>3. f[k + 1] = IF node_is_ready(ns, k + 1)
                        /\ ~ConflictingWith(k + 1, active \cup f[k])
                     THEN f[k] \cup {k + 1} ELSE f[k]
    <3>1. k + 1 \in 0 .. Size /\ k + 1 # 0 /\ k + 1 - 1 = k
      BY GoalAssumption
    <3>2. f[k + 1] = Selects(ns, active, f, k + 1)
      BY <1>f, <3>1
    <3>3. QED
      BY <3>1, <3>2 DEF Selects
  <2>4. CASE /\ node_is_ready(ns, k + 1)
             /\ ~ConflictingWith(k + 1, active \cup f[k])
    <3>1. f[k + 1] = f[k] \cup {k + 1}
      BY <2>3, <2>4
    <3>2. ASSUME NEW n \in f[k + 1]
          PROVE  /\ node_is_ready(ns, n)
                 /\ ~ConflictingWith(n, active \cup (f[k + 1] \ {n}))
      <4>1. CASE n = k + 1
        BY <2>4, <3>1, <4>1 DEF ConflictingWith
      <4>2. CASE n # k + 1
        <5>1. n \in f[k] /\ n \in Ids
          BY <2>1, <2>2, <3>1, <3>2, <4>2 DEF SelectionIsSound
        <5>2. ~nodes_conflict(n, k + 1)
          BY <2>2, <2>4, <5>1, ConflictIsSymmetric DEF ConflictingWith
        <5>3. QED
          BY <2>1, <3>1, <5>1, <5>2 DEF SelectionIsSound, ConflictingWith
      <4>3. QED
        BY <4>1, <4>2
    <3>3. ASSUME NEW n \in 1 .. k + 1, node_is_ready(ns, n),
                 ~ConflictingWith(n, active \cup f[k + 1])
          PROVE  n \in f[k + 1]
      <4>1. ~ConflictingWith(n, active \cup f[k])
        BY <3>1, <3>3 DEF ConflictingWith
      <4>2. QED
        BY <2>1, <2>2, <3>1, <3>3, <4>1 DEF SelectionIsSound
    <3>4. f[k + 1] \subseteq 1 .. k + 1
      BY <2>1, <2>2, <3>1 DEF SelectionIsSound
    <3>5. QED
      BY <3>2, <3>3, <3>4 DEF SelectionIsSound
  <2>5. CASE ~(/\ node_is_ready(ns, k + 1)
               /\ ~ConflictingWith(k + 1, active \cup f[k]))
    <3>1. f[k + 1] = f[k]
      BY <2>3, <2>5
    <3>2. QED
      BY <2>1, <2>2, <2>5, <3>1 DEF SelectionIsSound
  <2>6. QED
    BY <2>4, <2>5
<1> HIDE DEF H
<1>3. Size \in H
  BY <1>1, <1>2, SetInduction, GoalAssumption
<1>4. QED
  BY <1>3, GoalAssumption DEF H

\* What ready_nodes returns, without its recursion.
LEMMA ReadyNodes ==
  ASSUME NEW ready, ready = ready_nodes(nodes, status)
  PROVE  /\ \A n \in ready : n \in Ids /\ MayStart(n) /\ ~ConflictingWith(n, ready \ {n})
         /\ \A n \in Ids : MayStart(n) /\ ~ConflictingWith(n, ready) => n \in ready
<1> DEFINE active == WithStatus(nodes, {"running", "waiting"})
<1>1. CASE status = "open" /\ WithStatus(nodes, {"dispatching"}) = {}
  <2>1. PICK f : IsSelection(nodes, active, f, Size) /\ ready = f[Size]
    BY <1>1, ReadyIsSelected
  <2>2. SelectionIsSound(nodes, active, f, Size)
    BY <2>1, SelectionSound
  <2>3. ASSUME NEW n \in ready
        PROVE  n \in Ids /\ MayStart(n) /\ ~ConflictingWith(n, ready \ {n})
    <3>1. n \in Ids /\ node_is_ready(nodes, n)
          /\ ~ConflictingWith(n, active \cup (ready \ {n}))
      BY <2>1, <2>2, <2>3 DEF SelectionIsSound, Ids
    <3>2. QED
      BY <1>1, <3>1 DEF MayStart, ConflictingWith
  <2>4. ASSUME NEW n \in Ids, MayStart(n), ~ConflictingWith(n, ready)
        PROVE  n \in ready
    <3>1. node_is_ready(nodes, n) /\ ~ConflictingWith(n, active \cup ready)
      BY <2>4 DEF MayStart, ConflictingWith
    <3>2. QED
      BY <2>1, <2>2, <3>1 DEF SelectionIsSound, Ids
  <2>5. QED
    BY <2>3, <2>4
<1>2. CASE ~(status = "open" /\ WithStatus(nodes, {"dispatching"}) = {})
  <2>1. ready = {}
    BY <1>2 DEF ready_nodes
  <2>2. QED
    BY <1>2, <2>1 DEF MayStart
<1>3. QED
  BY <1>1, <1>2

\* Only a cancelled goal has cancelled nodes.
LEMMA CancelledGoalOnly == Spec => []OnlyCancelledHasCancelled
<1>1. Init => OnlyCancelledHasCancelled
  BY DEF Init, OnlyCancelledHasCancelled, Fresh
<1>2. TypeOK /\ GoalValid /\ CancelledRests /\ OnlyCancelledHasCancelled /\ [Next]_vars
        => OnlyCancelledHasCancelled'
  <2> SUFFICES ASSUME TypeOK, GoalValid, CancelledRests, OnlyCancelledHasCancelled,
                      [Next]_vars, NEW n \in Ids, nodes'[n].status = "cancelled"
               PROVE  status' = "cancelled"
    BY DEF OnlyCancelledHasCancelled
  <2>1. CASE nodes[n].status = "cancelled"
    <3>1. status = "cancelled"
      BY <2>1 DEF OnlyCancelledHasCancelled
    <3>2. QED
      BY <3>1, EndedIsStill DEF goal
  <2>2. CASE nodes[n].status # "cancelled"
    BY <2>2, CancelsAll DEF cancel, Commit
  <2>3. QED
    BY <2>1, <2>2
<1>3. QED
  BY <1>1, <1>2, GoalTypeCorrect, GoalStaysValid, CancelledStaysAtRest, PTL DEF Spec

\* Validity leaves a goal with pending nodes, none of them in a circle, at
\* least one whose dependencies are not pending.
LEMMA SomeNodeIsFirst ==
  ASSUME TypeOK, GoalValid, NEW p \in WithStatus(nodes, {"pending"})
  PROVE  \E n \in WithStatus(nodes, {"pending"}) :
           \A d \in nodes[n].deps : d \in Present(nodes) /\ nodes[d].status # "pending"
<1> DEFINE circle == WithStatus(nodes, {"pending"})
<1>1. circle \in SUBSET Ids /\ circle # {}
  BY DEF WithStatus
<1>2. PICK n \in circle : nodes[n].deps \cap circle = {}
  BY <1>1 DEF GoalValid, Valid, Acyclic
<1>3. n \in Present(nodes)
  BY DEF WithStatus, Present
<1>4. nodes[n].deps \subseteq Present(nodes)
  BY <1>3 DEF GoalValid, Valid, ValidNode
<1>5. QED
  BY <1>2, <1>4 DEF WithStatus, Present

\* The frontier is sound, maximal, and empty for good only behind a failure:
\* ready_nodes offers what start_node and prepare_agent accept, all of it.
THEOREM FrontierCorrect == Spec => []SoundFrontier
<1>1. TypeOK /\ GoalValid /\ OnlyCancelledHasCancelled => SoundFrontier
  <2> SUFFICES ASSUME TypeOK, GoalValid, OnlyCancelledHasCancelled PROVE SoundFrontier
    OBVIOUS
  <2> DEFINE ready == ready_nodes(nodes, status)
  <2>1. /\ \A n \in ready : MayStart(n) /\ ~ConflictingWith(n, ready \ {n})
        /\ \A n \in Ids : MayStart(n) /\ ~ConflictingWith(n, ready) => n \in ready
    BY ReadyNodes
  <2>2. ASSUME activity = "blocked", WithStatus(nodes, {"failed"}) = {} PROVE FALSE
    <3> DEFINE statuses == {nodes[n].status : n \in Present(nodes)}
    <3>1. /\ status = "open" /\ ready = {}
          /\ "dispatching" \notin statuses /\ "running" \notin statuses
          /\ "waiting" \notin statuses /\ statuses # {"completed"} /\ statuses # {}
      <4> HIDE DEF ready
      <4>1. ready = ready_nodes(nodes, status)
        BY DEF ready
      <4>2. status \notin {"blocked"}
        BY DEF TypeOK, GoalStatuses
      <4>3. QED
        BY <2>2, <4>1, <4>2 DEF activity
    <3>2. \A n \in Ids : nodes[n].status \in {"absent", "pending", "completed"}
      <4> SUFFICES ASSUME NEW n \in Ids, nodes[n].status # "absent"
                   PROVE  nodes[n].status \in {"pending", "completed"}
        OBVIOUS
      <4>1. nodes[n].status \in statuses
        BY DEF Present
      <4>2. nodes[n].status \in NodeStatuses
        BY DEF TypeOK, Nodes
      <4>3. nodes[n].status # "cancelled" /\ nodes[n].status # "failed"
        BY <2>2, <3>1 DEF OnlyCancelledHasCancelled, WithStatus
      <4>4. QED
        BY <3>1, <4>1, <4>2, <4>3 DEF NodeStatuses
    <3>3. PICK p \in Ids : nodes[p].status = "pending"
      BY <3>1, <3>2 DEF Present
    <3>4. PICK n \in WithStatus(nodes, {"pending"}) :
            \A d \in nodes[n].deps : d \in Present(nodes) /\ nodes[d].status # "pending"
      BY <3>3, SomeNodeIsFirst DEF WithStatus
    <3>5. n \in Ids /\ node_is_ready(nodes, n)
      BY <3>2, <3>4 DEF WithStatus, Present, node_is_ready
    <3>6. MayStart(n) /\ ~ConflictingWith(n, {})
      BY <3>1, <3>2, <3>5 DEF MayStart, ConflictingWith, WithStatus
    <3>7. QED
      BY <2>1, <3>1, <3>5, <3>6
  <2>3. QED
    BY <2>1, <2>2 DEF SoundFrontier
<1>2. QED
  BY <1>1, GoalTypeCorrect, GoalStaysValid, CancelledGoalOnly, PTL
=============================================================================
