------------------------------- MODULE Watch -------------------------------
(***************************************************************************)
(* One watcher of the service (src/src/waitd.py): the task _run_watch that *)
(* owns it, its record in daemon memory and in the registry file, its      *)
(* result log, its lock, the program it waits for and the wake commands it *)
(* sends.  The asyncio task runs without interruption between two awaits,  *)
(* so requests, other watches' registry writes and shutdown interleave     *)
(* only at await points (Awaiting); a crash of the daemon, and changes     *)
(* other processes make to the owning goal or loop file, come between any  *)
(* two steps.  Each write of a file is a step of its own.                  *)
(*                                                                         *)
(* Time is a choice: wherever the code compares a clock with a deadline,   *)
(* both answers are possible.  Writes fail at most MaxFaults times, reads  *)
(* of the log MaxReadFaults times, the daemon stops MaxCrashes times, and  *)
(* all together MaxTogether times.                                         *)
(*                                                                         *)
(* A definition followed by one of nearly the same name and parameters is  *)
(* its deliberately wrong variant: no action uses it, and it serves to see *)
(* that a property notices the difference.                                 *)
(***************************************************************************)
EXTENDS Naturals

CONSTANTS MaxAttempts,    \* runtime.notification_limits: wake attempts
          MaxFaults,      \* bound: failed file writes
          MaxReadFaults,  \* bound: failed reads of the result log
          MaxCrashes,     \* bound: daemon crashes and shutdowns
          MaxTogether     \* bound: all of these together

ASSUME WatchAssumption == /\ MaxAttempts \in Nat \ {0}
                          /\ MaxFaults \in Nat
                          /\ MaxReadFaults \in Nat
                          /\ MaxCrashes \in Nat
                          /\ MaxTogether \in Nat

VARIABLES
  args,       \* the submitted options: client, mode, notify
  owner,      \* the wait's state in the goal or loop file that owns it
  receipt,    \* the startup file exists
  mem,        \* daemon.watchers[watch_id]
  disk,       \* the same record in the registry file
  log,        \* the result in the log file
  lock,       \* the task holds the flock of the lock file
  pc,         \* where the task is
  io,         \* the record being persisted and where the task goes next
  res,        \* _watch's result
  code,       \* _watch's code
  linked,     \* record["result"] is the same object as res
  failing,    \* inside _notify_watcher_failure
  cancelSet,  \* cancel_events[watch_id] is set
  prog,       \* the program
  runs,       \* how often the program was started
  woken,      \* whether a wake of the session was accepted
  faults      \* the failures that happened, by kind

mind    == <<mem, linked, res>>
files   == <<disk, log>>
program == <<prog, runs>>
outside == <<args, owner, receipt>>
quiet   == <<outside, files, failing, cancelSet, woken, faults>>
vars == <<args, owner, receipt, mem, disk, log, lock, pc, io, res, code,
          linked, failing, cancelSet, prog, runs, woken, faults>>

-----------------------------------------------------------------------------
(* Data.  Codes are 0, EXIT_ACTIVATION_CANCELLED and any other exit code.   *)

Modes   == {"plain", "goal", "loop"}
Clients == {"codex", "claude", "other"}
Args    == [client : Clients, mode : Modes, notify : BOOLEAN]

Outcomes == {"exited", "timeout", "start_failed", "interrupted", "cancelled"}
Events   == Outcomes \cup {"none", "activation_over", "already_watching",
                           "watcher_failed"}
\* "delivered" is started/completed/queued, "failed" every definite refusal.
Notes    == {"none", "pending", "attempting", "retrying", "delivered",
             "native_pending", "unconfirmed", "failed", "cancelled"}
DeliveredNotes == {"delivered", "native_pending"}
Results  == [event : Events, note : Notes, attempts : 0 .. MaxAttempts,
             durable : BOOLEAN]

Fresh(event) ==
  [event |-> event, note |-> "none", attempts |-> 0, durable |-> FALSE]
NoResult == Fresh("none")

Started  == {"running", "querying"}
Phases   == {"activating", "queued"} \cup Started
              \cup {"notifying", "awaiting_ack", "finalizing"}
Terminal == {"completed", "failed", "cancelled"}
Codes    == {"ok", "error", "cancelled"}
States   == {"absent", "active"} \cup Terminal
Records  == [state : States, phase : Phases, result : Results, code : Codes]

FirstPhase(mode) == IF mode = "goal" THEN "activating" ELSE "queued"
Absent(mode) == [state |-> "absent", phase |-> FirstPhase(mode),
                 result |-> NoResult, code |-> "ok"]

\* What the goal file says of this very wait.
goal_wait_phase_any == IF owner \in {"withdrawn", "gone"} THEN "invalid" ELSE "active"
goal_wait_phase     == IF owner \in {"withdrawn", "gone"} THEN "invalid" ELSE owner

\* runtime.watch_is_current
Current == \/ args.mode = "plain"
           \/ args.mode = "goal" /\ goal_wait_phase = "active"
           \/ args.mode = "loop" /\ owner = "active"

\* cancel_event.is_set() or not runtime.watch_is_current(args)
StoppedByOwner == ~Current
Stopped == cancelSet \/ ~Current

\* A request, another watch's save and a shutdown are handled only here.
Awaiting == \/ pc \in {"start", "activating", "executing", "sending", "backoff",
                      "acking", "idle"}
            \/ pc = "fallback" /\ args.client # "claude"

-----------------------------------------------------------------------------
(* Moving on and writing files.                                            *)

Goto(label) == pc' = label /\ UNCHANGED io

\* result.update(...): the record shares the object once it was persisted.
SetResult(r) ==
  /\ res' = r
  /\ mem' = IF linked THEN [mem EXCEPT !.result = r] ELSE mem

\* _write_result_log returns early for a failure that kept a durable result.
LogSettled(r) == r.event = "watcher_failed" /\ r.durable

\* _update_record(record, ...): memory first, then the registry file.
UpdateRecord(rec, then) ==
  /\ io' = [rec |-> rec, then |-> then, links |-> FALSE]
  /\ pc' = "save"

\* _persist_result(args, record, r, phase=phase, code=c)
PersistUnlogged(r, phase, c, then) ==
  /\ SetResult(r)
  /\ UpdateRecord([mem EXCEPT !.result = r, !.phase = phase, !.code = c], then)
Persist(r, phase, c, then) ==
  /\ SetResult(r)
  /\ io' = [rec |-> [mem EXCEPT !.result = r, !.phase = phase, !.code = c],
            then |-> then, links |-> TRUE]
  /\ pc' = IF LogSettled(r) THEN "save" ELSE "log"

\* _persist_result(args, record, r) inside _deliver
PersistDeliveryUnlogged(r, then) ==
  SetResult(r) /\ UpdateRecord([mem EXCEPT !.result = r], then)
PersistDelivery(r, then) == Persist(r, mem.phase, mem.code, then)

NoIO == [rec |-> Absent("plain"), then |-> "idle", links |-> FALSE]

\* A write that raises may have replaced the file already (the directory's
\* fsync and the chmod come after os.replace).
MayFail(n) == faults.write + faults.read + faults.crash + n <= MaxTogether
WriteFault == /\ MayFail(1) /\ faults.write < MaxFaults
              /\ faults' = [faults EXCEPT !.write = @ + 1]

\* _recover_result: the log, or nothing when it cannot be read.
ReadLog(seen) == \/ seen = log /\ UNCHANGED faults
                 \/ /\ seen = NoResult /\ log # NoResult
                    /\ MayFail(1) /\ faults.read < MaxReadFaults
                    /\ faults' = [faults EXCEPT !.read = @ + 1]

\* The same before a write that fails.
ReadLogWriteFault(seen) ==
  \/ seen = log /\ WriteFault
  \/ /\ seen = NoResult /\ log # NoResult
     /\ MayFail(2)
     /\ faults.read < MaxReadFaults /\ faults.write < MaxFaults
     /\ faults' = [faults EXCEPT !.read = @ + 1, !.write = @ + 1]

\* An OSError at a write whose success would lead to label then.  _watch's
\* except clause takes it ("caught") unless it is the write before its try,
\* which also gives the lock up; run_program's callback leaves the program
\* behind; in _notify_watcher_failure it is sorted by what was sent already.
BeforeDelivery(then) == \/ then = "attempt"
                        \/ then = "send" /\ res.attempts = 1
                        \/ then = "delivered" /\ args.client = "claude"
Handler(then) == CASE then \in {"idle", "executing"}    -> then
                   [] failing /\ BeforeDelivery(then)   -> "fallback"
                   [] failing /\ then = "finalize"      -> "finalize"
                   [] failing /\ ~BeforeDelivery(then)
                        /\ then \notin {"idle", "executing", "finalize"} -> "broken"
                   [] OTHER                             -> "caught"
Raise(then) ==
  /\ pc' = Handler(then)
  /\ io' = NoIO
  /\ lock' = (lock /\ then # "phase")
  /\ prog' = IF then = "executing" THEN "lost" ELSE prog

\* runtime.persist_result: an atomic, fsynced replacement of the log file.
WriteLog ==
  /\ pc = "log"
  /\ \/ /\ log' = io.rec.result
        /\ pc' = "save"
        /\ UNCHANGED <<io, lock, prog, faults>>
     \/ /\ WriteFault
        /\ Raise(io.then)
        /\ log' \in {log, io.rec.result}
  /\ UNCHANGED <<outside, mind, disk, code, failing, cancelSet, runs, woken>>

\* The registry half of _update_record: memory keeps the change either way.
SaveRecord ==
  /\ pc = "save"
  /\ mem' = io.rec
  /\ linked' = (linked \/ io.links)
  /\ \/ /\ disk' = io.rec
        /\ pc' = io.then
        /\ io' = NoIO
        /\ UNCHANGED <<lock, prog, faults>>
     \/ /\ WriteFault
        /\ Raise(io.then)
        /\ disk' \in {disk, io.rec}
  /\ UNCHANGED <<outside, log, res, code, failing, cancelSet, runs, woken>>

-----------------------------------------------------------------------------
(* The task: _watch.                                                       *)

TakeNoLock == lock' = FALSE
TakeLock   == lock' = TRUE

\* Take the lock file's flock.  Another holder ends the watch at once.
AcquireLock ==
  /\ pc = "start"
  /\ \/ /\ TakeLock
        /\ UpdateRecord(mem, "phase")
        /\ UNCHANGED <<mind, code, faults>>
     \/ /\ SetResult(Fresh("already_watching"))
        /\ code' = "error"
        /\ Goto("tail")
        /\ UNCHANGED <<lock, linked, faults>>
     \/ /\ WriteFault
        /\ Goto("caught")
        /\ UNCHANGED <<mind, lock, code>>
  /\ UNCHANGED <<outside, files, failing, cancelSet, program, woken>>

\* Resume at the phase the record carries.  A started program is never
\* started again: its log says how it ended, or it was interrupted.
RecoverPhase ==
  /\ pc = "phase"
  /\ \/ /\ mem.phase = "activating"
        /\ \/ receipt' = TRUE /\ Goto("activating") /\ UNCHANGED faults
           \/ WriteFault /\ Goto("caught") /\ receipt' \in {receipt, TRUE}
        /\ UNCHANGED <<mind, code>>
     \/ /\ mem.phase = "queued"
        /\ Goto("queued")
        /\ UNCHANGED <<mind, code, receipt, faults>>
     \/ /\ mem.phase \in Started
        /\ \E seen \in {log, NoResult} :
             /\ ReadLog(seen)
             /\ SetResult(IF seen = NoResult THEN Fresh("interrupted") ELSE seen)
        /\ Goto("evaluate")
        /\ UNCHANGED <<linked, code, receipt>>
     \/ /\ mem.phase \in {"notifying", "awaiting_ack", "finalizing"}
        /\ IF mem.result = NoResult
             THEN Goto("caught") /\ UNCHANGED <<mind, code>>
             ELSE /\ res' = mem.result
                  /\ code' = mem.code
                  /\ linked' = TRUE
                  /\ Goto("resume")
                  /\ UNCHANGED mem
        /\ UNCHANGED <<receipt, faults>>
  /\ UNCHANGED <<args, owner, files, lock, failing, cancelSet, program, woken>>

\* _activate_goal_wait: hold the lock, start nothing, until the goal file
\* says this wait is active; give up when it is gone, cancelled or too late.
PollActivation ==
  /\ pc = "activating"
  /\ \/ /\ ~cancelSet /\ goal_wait_phase = "active"
        /\ UpdateRecord([mem EXCEPT !.phase = "queued"], "queued")
        /\ UNCHANGED <<mind, code>>
     \/ /\ cancelSet \/ goal_wait_phase # "active"
        /\ Persist(Fresh("activation_over"), "finalizing", "cancelled", "finally")
        /\ code' = "cancelled"
        /\ UNCHANGED linked
  /\ UNCHANGED <<quiet, lock, program>>

StartRunningUnsaved ==
  /\ pc = "queued"
  /\ Goto("execute")
  /\ UNCHANGED <<quiet, mind, lock, code, program>>

\* phase = running reaches the registry before anything is started.
StartRunning ==
  /\ pc = "queued"
  /\ UpdateRecord([mem EXCEPT !.phase = "running"], "execute")
  /\ UNCHANGED <<quiet, mind, lock, code, program>>

\* _execute_program: past its deadline, cancelled, or start the program.
ExecuteProgram ==
  /\ pc = "execute"
  /\ \/ SetResult(Fresh("timeout")) /\ Goto("evaluate") /\ UNCHANGED prog
     \/ /\ Stopped
        /\ SetResult(Fresh("cancelled"))
        /\ Goto("evaluate")
        /\ UNCHANGED prog
     \/ /\ ~Stopped
        /\ prog' = "spawning"
        /\ Goto("executing")
        /\ UNCHANGED <<mem, res>>
  /\ UNCHANGED <<quiet, linked, lock, code, runs>>

\* create_subprocess_exec, then the started(pid) callback saves querying.
SpawnProgram ==
  /\ pc = "executing" /\ prog = "spawning"
  /\ \/ /\ prog' = "none"
        /\ SetResult(Fresh("start_failed"))
        /\ Goto("evaluate")
        /\ UNCHANGED runs
     \/ /\ prog' = "running"
        /\ runs' = runs + 1
        /\ UpdateRecord([mem EXCEPT !.phase = "querying"], "executing")
        /\ UNCHANGED <<mem, res>>
  /\ UNCHANGED <<quiet, linked, lock, code>>

\* The program ends, or its deadline passes and its process group is killed.
FinishProgram ==
  /\ pc = "executing" /\ prog = "running"
  /\ prog' = "gone"
  /\ \E event \in {"exited", "timeout"} : SetResult(Fresh(event))
  /\ Goto("evaluate")
  /\ UNCHANGED <<quiet, linked, lock, code, runs>>

\* The poll of _execute_program sees a cancellation or a lost owner and
\* kills a program it still supervises, also one that is just starting.
StopProgram ==
  /\ pc = "executing"
  /\ Stopped
  /\ \/ prog = "spawning" /\ prog' = "none" /\ UNCHANGED runs
     \/ prog = "spawning" /\ prog' = "gone" /\ runs' = runs + 1
     \/ prog = "running" /\ prog' = "gone" /\ UNCHANGED runs
  /\ SetResult(Fresh("cancelled"))
  /\ Goto("evaluate")
  /\ UNCHANGED <<quiet, linked, lock, code>>

\* The failed save of the started callback surfaces as task.result().
CollectStartError ==
  /\ pc = "executing" /\ prog = "lost"
  /\ Goto("caught")
  /\ UNCHANGED <<quiet, mind, lock, code, program>>

\* Name the outcome, then persist it: the log before the registry.
EvaluateResult ==
  /\ pc = "evaluate"
  /\ LET c == IF Stopped THEN "cancelled"
              ELSE IF res.event = "exited" THEN "ok" ELSE "error"
         notifies == args.notify /\ ~Stopped
         named == IF Stopped THEN [res EXCEPT !.event = "cancelled"] ELSE res
         r == IF notifies THEN [named EXCEPT !.note = "pending", !.attempts = 0]
                          ELSE named
     IN /\ code' = c
        /\ Persist(r, IF notifies THEN "notifying" ELSE "finalizing", c, "resume")
  /\ UNCHANGED <<quiet, linked, lock, program>>

\* An attempt that was under way at a restart may have been accepted.
ResumeResult ==
  /\ pc = "resume"
  /\ CASE mem.phase = "notifying" /\ res.note = "attempting" ->
            /\ Persist([res EXCEPT !.note = "unconfirmed"], "finalizing",
                       "error", "return")
            /\ code' = "error"
       [] mem.phase = "notifying" /\ res.note # "attempting" ->
            /\ Goto(IF res.note \in DeliveredNotes THEN "delivered" ELSE "attempt")
            /\ UNCHANGED <<mem, res, code>>
       [] mem.phase = "awaiting_ack" -> Goto("acking") /\ UNCHANGED <<mem, res, code>>
       [] OTHER -> Goto("return") /\ UNCHANGED <<mem, res, code>>
  /\ UNCHANGED <<quiet, linked, lock, program>>

-----------------------------------------------------------------------------
(* Delivery: _deliver, shared by _watch and _notify_watcher_failure.       *)

\* return from _deliver: _notify_watcher_failure ignores the code it gives.
ReturnUndelivered(c) ==
  /\ Goto(IF failing THEN "finalize" ELSE "undelivered")
  /\ code' = IF failing THEN code ELSE c

\* No attempt is left: range(previous_attempts + 1, max_attempts + 1).
Exhausted == res.attempts >= MaxAttempts

\* Claude waits for no adapter: the event is offered to a native follow.
OfferNative ==
  /\ pc = "attempt" /\ args.client = "claude"
  /\ PersistDelivery([res EXCEPT !.note = "native_pending", !.attempts = 0],
                     "delivered")
  /\ UNCHANGED <<quiet, linked, lock, code, program>>

\* Recheck the attempts left, cancellation and ownership, then persist the
\* attempt before it is made.
BeginAttempt ==
  /\ pc = "attempt" /\ args.client # "claude"
  /\ \/ /\ Exhausted
        /\ ReturnUndelivered("error")
        /\ UNCHANGED <<mem, res>>
     \/ /\ ~Exhausted /\ Stopped
        /\ SetResult([res EXCEPT !.note = "cancelled"])
        /\ ReturnUndelivered("cancelled")
     \/ /\ ~Exhausted /\ ~Stopped
        /\ PersistDelivery([res EXCEPT !.note = "attempting", !.attempts = @ + 1],
                           "send")
        /\ UNCHANGED code
  /\ UNCHANGED <<quiet, linked, lock, program>>

\* Start the notification command, unless the endpoint no longer resolves.
SendWake ==
  /\ pc = "send"
  /\ \/ Goto("sending") /\ UNCHANGED <<mem, res>>
     \/ /\ args.client = "codex"
        /\ PersistDelivery([res EXCEPT !.note = "failed"], "undelivered")
  /\ UNCHANGED <<quiet, linked, lock, code, program>>

AtLeastMaybe == IF woken = "yes" THEN "yes" ELSE "maybe"

\* The command's outcome: it could not start; it confirmed the wake; nobody
\* knows (a timeout, or Codex's EXIT_UNCONFIRMED), which is final for Codex
\* only; or it refused.  The outcome is persisted before anything follows.
EndAttempt ==
  /\ pc = "sending"
  /\ \/ /\ PersistDelivery([res EXCEPT !.note = "failed"], "undelivered")
        /\ UNCHANGED woken
     \/ /\ PersistDelivery([res EXCEPT !.note = "delivered"], "delivered")
        /\ woken' = "yes"
     \/ /\ args.client = "codex"
        /\ PersistDelivery([res EXCEPT !.note = "unconfirmed"], "undelivered")
        /\ woken' = AtLeastMaybe
     \/ /\ args.client # "codex"
        /\ PersistDelivery([res EXCEPT !.note = IF Exhausted THEN "unconfirmed"
                                                ELSE "retrying"],
                           IF Exhausted THEN "undelivered" ELSE "backoff")
        /\ woken' = AtLeastMaybe
     \/ /\ PersistDelivery([res EXCEPT !.note = IF Exhausted THEN "failed"
                                                ELSE "retrying"],
                           IF Exhausted THEN "undelivered" ELSE "backoff")
        /\ UNCHANGED woken
  /\ UNCHANGED <<outside, files, linked, lock, code, failing, cancelSet, program,
                 faults>>

EndBackoff ==
  /\ pc = "backoff"
  /\ Goto("attempt")
  /\ UNCHANGED <<quiet, mind, lock, code, program>>

UndeliveredCodeKept == code
UndeliveredCode == IF res.note = "cancelled" THEN "cancelled" ELSE "error"

\* _deliver returned EXIT_NOTIFY_FAILED or EXIT_ACTIVATION_CANCELLED.
GiveUpDelivery ==
  /\ pc = "undelivered"
  /\ IF failing
       THEN Goto("finalize") /\ UNCHANGED code
       ELSE /\ UpdateRecord([mem EXCEPT !.phase = "finalizing",
                               !.code = UndeliveredCode], "return")
            /\ code' = UndeliveredCode
  /\ UNCHANGED <<quiet, mind, lock, program>>

\* _deliver returned None: a goal keeps its watcher until the root answers.
CloseDelivery ==
  /\ pc = "delivered"
  /\ IF failing
       THEN Goto("finalize")
       ELSE LET goal == args.mode = "goal"
            IN UpdateRecord([mem EXCEPT !.code = code, !.phase =
                               IF goal THEN "awaiting_ack" ELSE "finalizing"],
                            IF goal THEN "acking" ELSE "return")
  /\ UNCHANGED <<quiet, mind, lock, code, program>>

\* _wake_goal ends: the goal moved on, a cancellation, or the deadline.
EndAck ==
  /\ pc = "acking"
  /\ LET open == res.note = "native_pending" /\ Current
         r == IF ~open THEN res
              ELSE [res EXCEPT !.note = IF cancelSet THEN "cancelled"
                                                     ELSE "unconfirmed"]
         c == IF ~open THEN code
              ELSE IF cancelSet THEN "cancelled" ELSE "error"
     IN Persist(r, "finalizing", c, "return") /\ code' = c
  /\ UNCHANGED <<quiet, linked, lock, program>>

\* The last write of the log inside _watch's try.
WriteFinalLog ==
  /\ pc = "return"
  /\ \/ LogSettled(res) /\ Goto("finally") /\ UNCHANGED <<log, faults>>
     \/ /\ ~LogSettled(res)
        /\ log' = res
        /\ Goto("finally")
        /\ UNCHANGED faults
     \/ /\ ~LogSettled(res)
        /\ WriteFault
        /\ Goto("caught")
        /\ log' \in {log, res}
  /\ UNCHANGED <<outside, disk, mind, lock, code, failing, cancelSet, program, woken>>

-----------------------------------------------------------------------------
(* Failure and the end of the task: _run_watch.                            *)

KeepsNothing(seen) == FALSE
KeepsOutcome(seen) == seen.event \notin {"none", "watcher_failed"}

AfterCatch == IF lock THEN "finally" ELSE "tail"

\* _record_watcher_failure: keep the log of a program's result; write one
\* of the failure otherwise, and let that write fail.
RecordWatcherFailure ==
  /\ pc = "caught"
  /\ \E seen \in {log, NoResult} :
       LET keeps == KeepsOutcome(seen)
           r == [Fresh("watcher_failed") EXCEPT !.durable = keeps]
       IN /\ res' = r
          /\ \/ keeps /\ ReadLog(seen) /\ UNCHANGED log
             \/ ~keeps /\ ReadLog(seen) /\ log' = r
             \/ ~keeps /\ ReadLogWriteFault(seen) /\ log' \in {log, r}
  /\ code' = "error"
  /\ linked' = FALSE
  /\ Goto(AfterCatch)
  /\ UNCHANGED <<outside, disk, mem, lock, failing, cancelSet, program, woken>>

\* _watch's finally: close the lock file, then record lock_status=released.
ReleaseLock ==
  /\ pc = "finally"
  /\ lock' = FALSE
  /\ UpdateRecord(mem, "tail")
  /\ UNCHANGED <<quiet, mind, code, program>>

SecondAttemptOnRecord == res.durable /\ log.attempts > 1
AttemptOnRecord == res.durable /\ log.attempts > 0

\* A cancelled watch is finished.  A failed watcher still owes its session
\* a wake, unless the log shows that one was attempted.
DecideEnd ==
  /\ pc = "tail"
  /\ LET failed == res.event = "watcher_failed" /\ args.notify
                     /\ res.note \in {"none", "pending"}
     IN \/ /\ mem.state # "active"
           /\ Goto("idle")
           /\ UNCHANGED <<mem, res, failing>>
        \/ /\ mem.state = "active" /\ ~failed
           /\ Goto("finalize")
           /\ UNCHANGED <<mem, res, failing>>
        \/ /\ mem.state = "active" /\ failed /\ AttemptOnRecord
           /\ SetResult([res EXCEPT
                !.note = IF log.note \in {"attempting", "retrying"}
                           THEN "unconfirmed" ELSE log.note,
                !.attempts = log.attempts])
           /\ Goto("finalize")
           /\ UNCHANGED failing
        \/ /\ mem.state = "active" /\ failed /\ ~AttemptOnRecord
           /\ res' = [res EXCEPT !.note = "pending", !.attempts = 0]
           /\ UpdateRecord([mem EXCEPT !.phase = "notifying", !.code = "error"],
                           "attempt")
           /\ failing' = TRUE
           /\ UNCHANGED mem
  /\ UNCHANGED <<outside, files, linked, lock, code, cancelSet, program, woken, faults>>

\* _notify_watcher_failure's except clause, after the first attempt.
SettleFailedNotice ==
  /\ pc = "broken"
  /\ Persist(IF res.note \in DeliveredNotes THEN res
             ELSE [res EXCEPT !.note = "failed"], mem.phase, "error", "finalize")
  /\ UNCHANGED <<quiet, linked, lock, code, program>>

\* The last _update_record.  If it fails the task ends all the same.
FinishWatch ==
  /\ pc = "finalize"
  /\ io' = [rec |-> [mem EXCEPT
              !.phase = IF res.event = "watcher_failed" THEN "finalizing" ELSE @,
              !.state = IF code = "ok" THEN "completed" ELSE "failed",
              !.code = code, !.result = res],
            then |-> "idle", links |-> TRUE]
  /\ pc' = "save"
  /\ UNCHANGED <<quiet, mind, lock, code, program>>

\* _notify_without_persistence: one wake, and an end kept in memory only.
WakeWithoutPersistence ==
  /\ pc = "fallback"
  /\ \E note \in {"delivered", "unconfirmed", "failed"} :
       /\ args.client = "claude" => note = "unconfirmed"
       /\ woken' = CASE args.client = "claude" \/ note = "failed" -> woken
                     [] note = "delivered" -> "yes"
                     [] OTHER -> AtLeastMaybe
       /\ res' = [res EXCEPT !.note = note,
                    !.attempts = IF args.client = "claude" THEN @ ELSE 1]
       /\ mem' = [mem EXCEPT !.state = "failed", !.phase = "finalizing",
                    !.code = "error", !.result = res']
  /\ linked' = TRUE
  /\ Goto("idle")
  /\ UNCHANGED <<outside, files, lock, code, failing, cancelSet, program, faults>>

TaskStep ==
  \/ WriteLog \/ SaveRecord \/ AcquireLock \/ RecoverPhase \/ PollActivation
  \/ StartRunning \/ ExecuteProgram \/ SpawnProgram \/ FinishProgram
  \/ StopProgram \/ CollectStartError \/ EvaluateResult \/ ResumeResult
  \/ OfferNative \/ BeginAttempt \/ SendWake \/ EndAttempt \/ EndBackoff
  \/ GiveUpDelivery \/ CloseDelivery \/ EndAck \/ WriteFinalLog
  \/ RecordWatcherFailure \/ ReleaseLock \/ DecideEnd \/ SettleFailedNotice
  \/ FinishWatch \/ WakeWithoutPersistence

-----------------------------------------------------------------------------
(* The rest of the daemon, other processes, and the daemon's own end.      *)

Known == mem.state # "absent"

\* submit: the record enters memory, then the registry, then gets its task.
\* A failed save answers an error and leaves a record without a task.
Submit ==
  /\ pc = "idle" /\ ~Known
  /\ mem' = [mem EXCEPT !.state = "active"]
  /\ \/ disk' = mem' /\ pc' = "start" /\ UNCHANGED faults
     \/ WriteFault /\ disk' \in {disk, mem'} /\ UNCHANGED pc
  /\ UNCHANGED <<outside, log, io, res, linked, lock, code, failing, cancelSet,
                 program, woken>>

\* The cancel request: memory, the registry, and only then the event.
Cancel ==
  /\ Awaiting /\ mem.state = "active"
  /\ mem' = [mem EXCEPT !.state = "cancelled"]
  /\ \/ disk' = mem' /\ cancelSet' = (pc # "idle") /\ UNCHANGED faults
     \/ WriteFault /\ disk' \in {disk, mem'} /\ UNCHANGED cancelSet
  /\ UNCHANGED <<outside, log, res, linked, lock, pc, io, code, failing, program,
                 woken>>

\* Another watch's save writes this record as memory has it.
SaveOther ==
  /\ Awaiting /\ disk # mem
  /\ disk' = mem
  /\ UNCHANGED <<outside, log, mind, lock, pc, io, code, failing, cancelSet,
                 program, woken, faults>>

\* goal activate-wait: only with a receipt and while the lock is held.
OwnerActivates ==
  /\ args.mode = "goal" /\ owner = "prepared"
  /\ receipt /\ lock
  /\ owner' = "active"
  /\ UNCHANGED <<args, receipt, files, mind, lock, pc, io, code, failing,
                 cancelSet, program, woken, faults>>

\* wake, begin, abort, cancel, ...: the file no longer shows this wait as its
\* own: withdrawn before it was ever active, or gone.  A goal gives a wait up for
\* good (Goal's settled ids); a loop has it again when its goal is resumed.
OwnerChanges ==
  /\ \/ owner = "prepared" /\ owner' = "withdrawn"
     \/ owner = "active"   /\ owner' = "gone"
     \/ owner = "gone"     /\ args.mode = "loop" /\ owner' = "active"
  /\ UNCHANGED <<args, receipt, files, mind, lock, pc, io, code, failing,
                 cancelSet, program, woken, faults>>

\* A program nobody supervises any more ends by itself.
OrphanExits ==
  /\ prog = "lost"
  /\ pc # "executing"
  /\ prog' = "gone"
  /\ UNCHANGED <<quiet, mind, lock, pc, io, code, runs>>

\* A wake command killed together with the daemon may have been accepted.
WokenAtStop == IF pc = "sending" \/ (pc = "fallback" /\ args.client # "claude")
                 THEN AtLeastMaybe ELSE woken
CountCrash == /\ MayFail(1) /\ faults.crash < MaxCrashes
              /\ faults' = [faults EXCEPT !.crash = @ + 1]

\* SIGKILL or a power cut: memory is gone, the kernel frees the lock, and
\* the program, in a session of its own, runs on.
Crash ==
  /\ pc # "down" /\ CountCrash
  /\ pc' = "down" /\ io' = NoIO
  /\ mem' = Absent(args.mode) /\ res' = NoResult
  /\ linked' = FALSE /\ code' = "ok" /\ failing' = FALSE
  /\ lock' = FALSE /\ cancelSet' = FALSE
  /\ \/ prog = "spawning" /\ prog' = "none" /\ UNCHANGED runs
     \/ prog = "spawning" /\ prog' = "lost" /\ runs' = runs + 1
     \/ prog = "running" /\ prog' = "lost" /\ UNCHANGED runs
     \/ prog \notin {"spawning", "running"} /\ UNCHANGED program
  /\ woken' = WokenAtStop
  /\ UNCHANGED <<outside, files>>

\* serve's finally cancels the task at its await: run_program kills the
\* program, _watch's finally releases the lock and saves; if that save
\* fails its OSError takes the place of the CancelledError.
Shutdown ==
  /\ Awaiting /\ lock /\ CountCrash
  /\ lock' = FALSE
  /\ pc' = "stopping"
  /\ io' = NoIO
  /\ \/ prog = "spawning" /\ prog' = "none" /\ UNCHANGED runs
     \/ prog = "spawning" /\ prog' = "gone" /\ runs' = runs + 1
     \/ prog = "running" /\ prog' = "gone" /\ UNCHANGED runs
     \/ prog \notin {"spawning", "running"} /\ UNCHANGED program
  /\ woken' = WokenAtStop
  /\ UNCHANGED <<outside, files, mind, code, failing, cancelSet>>

SaveOnShutdown ==
  /\ pc = "stopping"
  /\ \/ /\ disk' = mem
        /\ pc' = "down"
        /\ mem' = Absent(args.mode) /\ res' = NoResult
        /\ linked' = FALSE /\ code' = "ok" /\ failing' = FALSE
        /\ cancelSet' = FALSE
        /\ UNCHANGED faults
     \/ WriteFault /\ pc' = "caught" /\ disk' \in {disk, mem}
        /\ UNCHANGED <<mind, code, failing, cancelSet>>
  /\ UNCHANGED <<outside, log, io, lock, program, woken>>

RestoresStarted(rec) == rec.state = "active" /\ rec.phase \in Started
Restores(rec) == rec.state = "active"

\* _load_registry and restore: every active record gets a task again.
Restart ==
  /\ pc = "down"
  /\ mem' = disk
  /\ Goto(IF Restores(disk) THEN "start" ELSE "idle")
  /\ UNCHANGED <<quiet, res, linked, lock, code, program>>

EnvironmentStep ==
  \/ Submit \/ Cancel \/ SaveOther \/ OwnerActivates \/ OwnerChanges
  \/ OrphanExits \/ Crash \/ Shutdown

ServiceStep == SaveOnShutdown \/ Restart

Init ==
  /\ args \in Args
  /\ owner = CASE args.mode = "plain" -> "none"
               [] args.mode = "goal"  -> "prepared"
               [] args.mode = "loop"  -> "active"
  /\ receipt = FALSE
  /\ mem = Absent(args.mode) /\ disk = Absent(args.mode) /\ log = NoResult
  /\ lock = FALSE /\ pc = "idle" /\ io = NoIO
  /\ res = NoResult /\ code = "ok" /\ linked = FALSE /\ failing = FALSE
  /\ cancelSet = FALSE
  /\ prog = "none" /\ runs = 0 /\ woken = "no"
  /\ faults = [write |-> 0, read |-> 0, crash |-> 0]

Next == TaskStep \/ EnvironmentStep \/ ServiceStep

Spec == Init /\ [][Next]_vars

\* The event loop keeps running the task, every wait in it is bounded by a
\* deadline, and the service is started again by the next command.
FairSpec == Spec /\ WF_vars(TaskStep) /\ WF_vars(ServiceStep)
=============================================================================
