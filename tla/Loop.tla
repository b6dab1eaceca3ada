-------------------------------- MODULE Loop --------------------------------
(***************************************************************************)
(* One loop (src/src/loop.py) and the service that keeps its timers        *)
(* (dispatch, reconcile_loops, submit, save and restore of src/src/        *)
(* waitd.py).  A loop command is one LoopStore.edit of the loop's file,    *)
(* run in a process of its own; the service then reconciles: it cancels a  *)
(* loop whose goal node is over and registers the timer of a loop that     *)
(* waits.  The service may crash anywhere, a command's process outlives    *)
(* it, saves fail, a loop's file is unreadable for a moment, other watches *)
(* finish and push old records out of the registry.                        *)
(*                                                                         *)
(* Time is only what the commands compare it with: late, deadline_at was   *)
(* reached.  Of a timer's watch there is what it does to the registry: it  *)
(* saves its record while it runs, and ends, whenever that may be; when it *)
(* is due, its wakes and their notes are module Watch.  Of the goal the    *)
(* loop may be linked to, there is what goal_is_open reads.                *)
(*                                                                         *)
(* A definition followed by one of nearly the same name and parameters is  *)
(* its deliberately wrong variant, used by no action.                      *)
(***************************************************************************)
EXTENDS Naturals, FiniteSets

CONSTANTS Clients,      \* connections that send commands
          Daemon,       \* the service itself, as the one who restores
          Limit,        \* max_iterations
          Linked,       \* the loop was made for a goal node
          Others,       \* watches that are not timers of this loop; one whose
                        \* record was dropped stands for the next one
          MaxFinished,  \* MAX_FINISHED_WATCHES
          Faults,       \* bound: failed saves, unreadable files, killed commands
          Crashes       \* bound: crashes of the service

Timers  == 1 .. Limit
Watches == Timers \cup Others
Actors  == Clients \cup {Daemon}

ASSUME LoopAssumption ==
  /\ Limit \in Nat \ {0} /\ MaxFinished \in Nat /\ Faults \in Nat /\ Crashes \in Nat
  /\ Linked \in BOOLEAN
  /\ IsFiniteSet(Others) /\ Others \cap Nat = {}
  /\ Daemon \notin Clients

VARIABLES
  loop,      \* the loop's file
  ids,       \* watch ids handed out by complete
  late,      \* deadline_at was reached
  goal,      \* the linked goal and its node: open to the loop, closed (paused,
             \* or the node is being dispatched or has failed), or over
  up,        \* the service is running
  registry,  \* the service's memory: is the loop known, which timers are
             \* active, which watches have ended, and in which order
  disk,      \* the registry file
  tasks,     \* timers whose watch is running
  requests,  \* the commands being served, and the restore
  faults, crashes,
  begun,     \* history: iterations begun, by timer
  ended,     \* history: timers the registry file has shown as ended
  unread     \* history: a save could not read the loop's file

records  == <<registry, disk, ended, unread>>
service  == <<up, records, tasks>>
vars == <<loop, ids, late, goal, service, requests, faults, crashes, begun>>

-----------------------------------------------------------------------------
(* Data.                                                                   *)

NoFile == [status |-> "absent", phase |-> "none", iteration |-> 0,
           watch_id |-> 0, last_event |-> 0]
Over(lp, status) == [lp EXCEPT !.status = status, !.phase = "none", !.watch_id = 0]
Waits(i) == loop.status = "active" /\ loop.phase = "waiting" /\ loop.watch_id = i

goal_is_open == Linked => goal = "open"

\* A command being served; open is what it read of the goal, served is FALSE
\* when only its process is left of a service that has crashed.
Idle == [pc |-> "idle", op |-> "goal", id |-> 0, open |-> TRUE, served |-> TRUE]
Ops  == {"init", "complete", "begin", "expire", "cancel", "goal"}
GoalReaders == {"init", "complete", "begin", "expire"}
Busy(pcs) == {a \in Actors : requests[a].pc \in pcs}
At(a, pc) == requests' = [requests EXCEPT ![a] = [Idle EXCEPT !.pc = pc]]
Done(a)   == requests' = [requests EXCEPT ![a] = Idle]

\* The updates of the ended records are in this order; w is updated now.
Ranked(r) == [w \in Watches |-> IF w \in r.done
                                 THEN Cardinality({v \in r.done : r.at[v] <= r.at[w]}) ELSE 0]
Touched(r, w) == [r EXCEPT !.at[w] = Cardinality(Watches) + 1]

\* save: the record of the timer the loop's file shows, if it can be read, is
\* not dropped; of the other ended ones the latest MaxFinished stay.
EvictedUnprotected(r, readable) ==
  {w \in r.done : Cardinality({v \in r.done : r.at[v] > r.at[w]}) >= MaxFinished}
Evicted(r, readable) ==
  LET free == r.done \ (IF r.loops /\ readable THEN {loop.watch_id} ELSE {})
  IN {w \in free : Cardinality({v \in free : r.at[v] > r.at[w]}) >= MaxFinished}

Fault == faults < Faults /\ faults' = faults + 1
InMemory(r, readable) ==
  /\ LET kept == [r EXCEPT !.done = @ \ Evicted(r, readable)]
     IN registry' = [kept EXCEPT !.at = Ranked(kept)]
  /\ unread' = (unread \/ ~readable)
OnDisk == ended' = ended \cup (disk'.done \cap Timers)
Save(r) ==
  /\ \/ InMemory(r, TRUE) /\ UNCHANGED faults
     \/ InMemory(r, FALSE) /\ Fault
  /\ disk' = registry' /\ OnDisk
\* The memory has changed when the write fails, and the file may have too.
SaveFails(r) ==
  /\ \E readable \in BOOLEAN : InMemory(r, readable)
  /\ Fault
  /\ disk' \in {disk, registry'} /\ OnDisk
SaveOrFail(r) == Save(r) \/ SaveFails(r)

-----------------------------------------------------------------------------
(* The operations of LoopState.                                            *)

MayInitAgain(open) == loop.status # "active" /\ open
MayInit(open) == loop.status = "absent" /\ open
init(open) ==
  /\ MayInit(open)
  /\ loop' = [NoFile EXCEPT !.status = "active", !.phase = "running", !.iteration = 1]
  /\ UNCHANGED <<ids, late, begun>>

MayComplete == loop.status = "active" /\ loop.phase = "running"
NextWait ==
  /\ ids' = ids + 1
  /\ loop' = [loop EXCEPT !.phase = "waiting", !.watch_id = ids + 1]
  /\ UNCHANGED <<late, begun>>
complete(open) ==
  /\ MayComplete
  /\ IF ~open THEN loop' = Over(loop, "cancelled") /\ UNCHANGED <<ids, late, begun>>
     ELSE IF late \/ loop.iteration >= Limit
       THEN loop' = Over(loop, "completed") /\ UNCHANGED <<ids, late, begun>>
     ELSE NextWait

\* _require_active_wait; a repeated event is answered as a duplicate.
MayConsumeAny(event_id, open) == open /\ loop.status = "active"
MayConsume(event_id, open) ==
  loop.last_event # event_id /\ open /\ Waits(event_id)

expired(event_id) == [Over(loop, "completed") EXCEPT !.last_event = event_id]
begin(event_id, open) ==
  /\ MayConsume(event_id, open)
  /\ IF late THEN loop' = expired(event_id) /\ UNCHANGED begun
     ELSE /\ loop' = [loop EXCEPT !.iteration = @ + 1, !.phase = "running",
                        !.watch_id = 0, !.last_event = event_id]
          /\ begun' = [begun EXCEPT ![event_id] = @ + 1]
  /\ UNCHANGED <<ids, late>>

MayExpire(event_id, open) == MayConsume(event_id, open) /\ late
expire(event_id, open) ==
  /\ MayExpire(event_id, open)
  /\ loop' = expired(event_id)
  /\ UNCHANGED <<ids, late, begun>>

MayCancel == loop.status \in {"active", "cancelled"}
cancel ==
  /\ MayCancel
  /\ loop' = Over(loop, "cancelled")
  /\ UNCHANGED <<ids, late, begun>>

Operation(op, id, open) ==
  \/ op = "init" /\ init(open)
  \/ op = "complete" /\ complete(open)
  \/ op = "begin" /\ begin(id, open)
  \/ op = "expire" /\ expire(id, open)
  \/ op = "cancel" /\ cancel

\* Refused or answered as a duplicate; show is such a command.
Refused(op, id, open) ==
  \/ op = "init" /\ ~MayInit(open)
  \/ op = "complete" /\ ~MayComplete
  \/ op = "begin" /\ ~MayConsume(id, open)
  \/ op = "expire" /\ ~MayExpire(id, open)
  \/ op = "cancel" /\ ~MayCancel

-----------------------------------------------------------------------------
(* Commands on the goal the loop may be linked to.                         *)

\* pause, prepare_agent and fail_node close the goal to the loop; resume, and
\* start_node, abort_agent and retry_node of an open goal, open it again;
\* complete_node, cancel and finish are the end of it.  It is followed as long as
\* the loop has not ended: then nothing the loop or the service does reads it.
GoalCommand ==
  /\ Linked /\ loop.status \in {"absent", "active"}
  /\ \/ goal = "open" /\ goal' = "closed"
     \/ goal = "closed" /\ goal' = "open"
     \/ goal # "over" /\ goal' = "over"

-----------------------------------------------------------------------------
(* The service: dispatch of a command.                                     *)

\* A loop command's path is known, and saved, before the command commits.
Ask(c, op, id) ==
  /\ up /\ requests[Daemon].pc = "idle"
  /\ requests[c].pc = "idle"
  /\ op = "goal" => Linked
  /\ \/ op = "goal" /\ UNCHANGED <<records, faults>>
     \/ op # "goal" /\ Save([registry EXCEPT !.loops = TRUE])
  /\ requests' = [requests EXCEPT ![c] = [Idle EXCEPT !.pc = "queued", !.op = op, !.id = id]]
  /\ UNCHANGED <<loop, ids, late, goal, up, tasks, crashes, begun>>

\* The save failed: the command is not run.
AskFails(c) ==
  /\ up /\ requests[Daemon].pc = "idle"
  /\ requests[c].pc = "idle"
  /\ SaveFails([registry EXCEPT !.loops = TRUE])
  /\ UNCHANGED <<loop, ids, late, goal, up, tasks, requests, crashes, begun>>

\* The goal's file is read under the lock of the loop's file, not of its own.
LockFree == Busy({"looked"}) = {}
Look(c) ==
  /\ requests[c].pc = "queued" /\ requests[c].op \in GoalReaders
  /\ LockFree
  /\ requests' = [requests EXCEPT ![c].pc = "looked", ![c].open = goal_is_open]
  /\ UNCHANGED <<loop, ids, late, goal, service, faults, crashes, begun>>

Commits(op, id, open) ==
  /\ UNCHANGED goal
  /\ \/ Operation(op, id, open)
     \/ Refused(op, id, open) /\ UNCHANGED <<loop, ids, late, begun>>

Locked(c) == IF requests[c].op \in GoalReaders THEN requests[c].pc = "looked"
             ELSE requests[c].pc = "queued" /\ LockFree

\* The command's process commits or is refused; a service that crashed since
\* reads no answer.
Run(c) ==
  /\ requests[c].op # "goal" /\ Locked(c)
  /\ Commits(requests[c].op, requests[c].id, requests[c].open)
  /\ IF requests[c].served THEN At(c, "ran") ELSE Done(c)
  /\ UNCHANGED <<service, faults, crashes>>

\* A goal command may move another node only, or nothing.
RunGoal(c) ==
  /\ requests[c].op = "goal" /\ requests[c].pc = "queued"
  /\ GoalCommand \/ UNCHANGED goal
  /\ IF requests[c].served THEN At(c, "register") ELSE Done(c)
  /\ UNCHANGED <<loop, ids, late, begun, service, faults, crashes>>

\* Its process is killed after 30 seconds, waiting for the lock included.
Killed(c) ==
  /\ requests[c].pc \in {"queued", "looked"} /\ requests[c].served
  /\ Fault
  /\ At(c, "ran")
  /\ UNCHANGED <<loop, ids, late, goal, service, crashes, begun>>

\* register_goal's save; without it the answer is an error, and no more.
RegisterGoal(c) ==
  /\ requests[c].pc = "register"
  /\ \/ Save(registry) /\ At(c, "ran")
     \/ SaveFails(registry) /\ Done(c)
  /\ UNCHANGED <<loop, ids, late, goal, up, tasks, crashes, begun>>

-----------------------------------------------------------------------------
(* reconcile_loops, by a command that has run or by restore.               *)

NeedsCancelOfWait == registry.loops /\ loop.phase = "waiting" /\ ~goal_is_open
NeedsCancel == registry.loops /\ loop.status = "active" /\ ~goal_is_open
NeedsTimer  == /\ registry.loops /\ ~NeedsCancel
               /\ loop.status = "active" /\ loop.phase = "waiting"
               /\ loop.watch_id \notin registry.active \cup registry.done

\* The loop's own cancel command, which the other commands may overtake.
StartCancel(a) ==
  /\ requests[a].pc = "ran"
  /\ NeedsCancel
  /\ requests' = [requests EXCEPT ![a] = [Idle EXCEPT !.pc = "cancelling", !.op = "cancel"]]
  /\ UNCHANGED <<loop, ids, late, goal, service, faults, crashes, begun>>

RunCancel(a) ==
  /\ requests[a].pc = "cancelling"
  /\ \/ LockFree /\ Commits("cancel", 0, TRUE) /\ UNCHANGED faults
     \/ Fault /\ UNCHANGED <<loop, ids, late, goal, begun>>
  /\ Done(a)
  /\ UNCHANGED <<service, crashes>>

\* submit of the timer: into the memory, to disk, then a task.
RegisterTimer(a) ==
  /\ requests[a].pc = "ran"
  /\ NeedsTimer
  /\ LET r == [registry EXCEPT !.active = @ \cup {loop.watch_id}]
     IN \/ Save(r) /\ tasks' = tasks \cup {loop.watch_id}
        \/ SaveFails(r) /\ UNCHANGED tasks
  /\ Done(a)
  /\ UNCHANGED <<loop, ids, late, goal, up, crashes, begun>>

\* The loop's file cannot be read, or no notification channel is found: that
\* is reported with the answer.
RepairFails(a) ==
  /\ requests[a].pc = "ran" /\ registry.loops
  /\ Fault
  /\ Done(a)
  /\ UNCHANGED <<loop, ids, late, goal, service, crashes, begun>>

NothingToRepair(a) ==
  /\ requests[a].pc = "ran"
  /\ ~NeedsCancel /\ ~NeedsTimer
  /\ Done(a)
  /\ UNCHANGED <<loop, ids, late, goal, service, faults, crashes, begun>>

-----------------------------------------------------------------------------
(* The timers' watches, other watches, time.                               *)

\* A watch that runs saves its record as it goes on, and all others with it;
\* that of a timer a user has cancelled too.
SaveAgain(w) ==
  /\ up
  /\ w \in tasks \cup (Others \ registry.done)
  /\ SaveOrFail(IF w \in registry.done THEN Touched(registry, w) ELSE registry)
  /\ UNCHANGED <<loop, ids, late, goal, up, tasks, requests, crashes, begun>>

Ended(w) == Touched([registry EXCEPT !.active = @ \ {w}, !.done = @ \cup {w}], w)

\* Its program is over, its wake was made, or it was cancelled: the last save.
\* A failed watcher's last wake, after a save that failed, is not saved.
EndTimer(i) ==
  /\ up /\ i \in tasks
  /\ tasks' = tasks \ {i}
  /\ LET r == IF i \in registry.active \cup registry.done THEN Ended(i) ELSE registry
     IN \/ SaveOrFail(r)
        \/ /\ faults > 0 /\ registry' = [r EXCEPT !.at = Ranked(r)]
           /\ UNCHANGED <<disk, ended, unread, faults>>
  /\ UNCHANGED <<loop, ids, late, goal, up, requests, crashes, begun>>

\* A user cancels a timer, also one without a task; the task goes on to its end.
CancelTimer(i) ==
  /\ up /\ i \in registry.active
  /\ SaveOrFail(Ended(i))
  /\ UNCHANGED <<loop, ids, late, goal, up, tasks, requests, crashes, begun>>

OtherEnds(w) ==
  /\ up /\ w \notin registry.done
  /\ SaveOrFail(Ended(w))
  /\ UNCHANGED <<loop, ids, late, goal, up, tasks, requests, crashes, begun>>

DeadlinePasses ==
  /\ loop.status = "active" /\ ~late
  /\ late' = TRUE
  /\ UNCHANGED <<loop, ids, goal, service, requests, faults, crashes, begun>>

-----------------------------------------------------------------------------
(* Crash and restart.                                                      *)

\* Commands that were being run go on in their own processes.  (So does the
\* cancel a restore was at: here it is lost, the next restore repeats it.)
Crash ==
  /\ up /\ crashes < Crashes
  /\ crashes' = crashes + 1
  /\ up' = FALSE /\ tasks' = {} /\ registry' = disk
  /\ requests' = [a \in Actors |->
       CASE requests[a].pc \in {"queued", "looked"} ->
              [requests[a] EXCEPT !.served = FALSE]
         [] requests[a].pc = "cancelling" /\ a # Daemon ->
              [requests[a] EXCEPT !.pc = "queued", !.served = FALSE]
         [] OTHER -> Idle]
  /\ UNCHANGED <<loop, ids, late, goal, disk, ended, unread, faults, begun>>

RestartBlind ==
  /\ ~up
  /\ up' = TRUE /\ tasks' = registry.active
  /\ IF registry.active = {} THEN UNCHANGED <<records, faults>> ELSE Save(registry)
  /\ UNCHANGED <<loop, ids, late, goal, requests, crashes, begun>>

\* restore: every active record is scheduled again, then the loops are repaired.
\* (If its save fails the service ends again: that is a Crash.)
Restart ==
  /\ ~up
  /\ up' = TRUE /\ tasks' = registry.active
  /\ IF registry.active = {} THEN UNCHANGED <<records, faults>> ELSE Save(registry)
  /\ At(Daemon, "ran")
  /\ UNCHANGED <<loop, ids, late, goal, crashes, begun>>

-----------------------------------------------------------------------------
Init ==
  /\ loop = NoFile /\ ids = 0
  /\ late = FALSE
  /\ goal = "open"
  /\ up = TRUE
  /\ registry = [loops |-> FALSE, active |-> {}, done |-> {}, at |-> [w \in Watches |-> 0]]
  /\ disk = registry
  /\ tasks = {}
  /\ requests = [a \in Actors |-> Idle]
  /\ faults = 0 /\ crashes = 0
  /\ begun = [i \in Timers |-> 0] /\ ended = {} /\ unread = FALSE

Events == {"begin", "expire"}
ClientStep(c) ==
  \/ \E op \in Ops \ Events : Ask(c, op, 0)
  \/ \E op \in Events, i \in 1 .. ids : Ask(c, op, i)
  \/ AskFails(c)
  \/ Look(c)
  \/ Run(c)
  \/ RunGoal(c)
  \/ Killed(c)
  \/ RegisterGoal(c)

Reconcile(a) == \/ StartCancel(a) \/ RunCancel(a) \/ RegisterTimer(a)
                \/ RepairFails(a) \/ NothingToRepair(a)

Next ==
  \/ \E c \in Clients : ClientStep(c)
  \/ \E a \in Actors : Reconcile(a)
  \/ \E i \in Timers : EndTimer(i) \/ CancelTimer(i)
  \/ \E w \in Watches : SaveAgain(w)
  \/ \E w \in Others : OtherEnds(w)
  \/ DeadlinePasses
  \/ Crash
  \/ Restart

Spec == Init /\ [][Next]_vars

\* The service's event loop and the kernel run what is ready; the service is
\* started again by the next command.  Nobody has to send a command.
Fairness ==
  /\ \A c \in Clients : WF_vars(Look(c) \/ Run(c) \/ RunGoal(c) \/ RegisterGoal(c))
  /\ \A a \in Actors : WF_vars(Reconcile(a))
  /\ WF_vars(Restart)

FairSpec == Spec /\ Fairness
=============================================================================
