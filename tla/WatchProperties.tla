-------------------------- MODULE WatchProperties --------------------------
(***************************************************************************)
(* What a watcher promises: the program runs once at most, a session is    *)
(* woken once at most, evidence survives, every watch ends.                *)
(***************************************************************************)
EXTENDS Watch

Labels == {"down", "stopping", "idle", "start", "phase", "activating", "queued",
           "execute", "executing", "evaluate", "resume", "attempt", "send",
           "sending", "backoff", "delivered", "undelivered", "acking", "return",
           "finally", "tail", "finalize", "caught", "broken", "fallback",
           "log", "save"}
\* Where the task may continue after a write of its record.
Continuations == {"idle", "phase", "queued", "execute", "executing", "resume",
                  "attempt", "send", "backoff", "delivered", "undelivered",
                  "acking", "return", "finally", "tail", "finalize"}
IOs == [rec : Records, then : Continuations, links : BOOLEAN]
Faults == [write : 0 .. MaxFaults, read : 0 .. MaxReadFaults,
           crash : 0 .. MaxCrashes]
Programs == {"none", "spawning", "running", "lost", "gone"}

\* Every variable has its type.
TypeOK ==
  /\ args \in Args
  /\ owner \in {"none", "prepared", "withdrawn", "active", "gone"}
  /\ receipt \in BOOLEAN
  /\ mem \in Records /\ disk \in Records
  /\ log \in Results /\ res \in Results
  /\ lock \in BOOLEAN
  /\ pc \in Labels
  /\ io \in IOs
  /\ code \in Codes
  /\ linked \in BOOLEAN /\ failing \in BOOLEAN /\ cancelSet \in BOOLEAN
  /\ prog \in Programs
  /\ runs \in Nat
  /\ woken \in {"no", "maybe", "yes"}
  /\ faults \in Faults

-----------------------------------------------------------------------------
(* The program.                                                            *)

\* However writes fail, requests interleave and the daemon dies and comes
\* back, the waiting program is started once at most (_watch's phases).
ProgramRunsAtMostOnce == runs <= 1

\* The goal file has not yet taken this wait as active, whether it still shows
\* it as prepared or the wait was rolled back (from active it only gets to gone).
NeverActive == owner \in {"prepared", "withdrawn"}

\* A goal's program starts only after the goal file took this wait as active:
\* not while it is prepared, nor after a roll-back of a wait that never got
\* further (_activate_goal_wait against prepare_external_wait).
GoalProgramNeedsActivation ==
  args.mode = "goal" /\ runs > 0 => ~NeverActive

\* A program the service supervises runs under the watch's lock, and both are
\* gone when the task ends; it escapes supervision only when a write failed or
\* the daemon died.
ProgramUnderLock ==
  /\ prog \in {"spawning", "running"} => lock /\ pc \notin {"idle", "down"}
  /\ pc \in {"idle", "down"} => ~lock
  /\ prog = "lost" => faults.write > 0 \/ faults.crash > 0

\* Before a wake command is started, the registry and, unless it keeps a
\* durable program result, the log say that this very attempt is under way.
AttemptIsDurableFirst ==
  pc \in {"send", "sending"} =>
    /\ disk.phase = "notifying"
    /\ disk.result = res /\ res.note = "attempting"
    /\ log = res \/ res.durable

-----------------------------------------------------------------------------
(* Delivery.                                                               *)

\* A step that starts a wake command.
StartsWake == /\ pc' # pc
              /\ \/ pc' = "sending"
                 \/ pc' = "fallback" /\ args.client # "claude"

\* Across any crashes and restarts, a wake that was confirmed is never sent
\* again, as long as no write fails.  Within one life of the daemon, whatever
\* writes fail, a Codex wake that was or may have been accepted is not either
\* (the comment at waitd.py:987), unless the log of the attempt was unreadable.
WakeIsNotRepeated ==
  [][(\/ woken = "yes" /\ faults.write = 0
      \/ args.client = "codex" /\ woken # "no" /\ faults.crash = 0 /\ faults.read = 0)
     => ~StartsWake]_vars

\* Once cancel has answered, no new wake is sent.
NoWakeAfterCancel == [][cancelSet => ~StartsWake]_vars

\* A watch recorded as completed has its program's exit, and its session was
\* woken or has the event on offer, whatever crashes happened, while no write
\* failed.
CompletedMeansDelivered ==
  disk.state = "completed" /\ faults.write = 0 =>
    /\ disk.result.event = "exited" /\ runs = 1 /\ prog = "gone"
    /\ args.notify => disk.result.note \in DeliveredNotes
    /\ args.notify /\ args.client # "claude" => woken = "yes"

-----------------------------------------------------------------------------
(* Evidence and endings.                                                   *)

\* The log of a program's outcome is never replaced by a later failure of
\* the watcher, unless the log could not be read when it failed; and a watch
\* the registry shows as ended is never active again.
RecordStands ==
  [][/\ log.event \in Outcomes /\ faults'.read = 0 => log'.event \in Outcomes
     /\ disk.state \in Terminal => disk'.state \in Terminal]_vars

\* Every scheduled watch comes to an end, through all failures and restarts.
EveryWatchEnds == pc = "start" ~> pc = "idle" /\ mem.state \in Terminal
-----------------------------------------------------------------------------
(* What the documentation promises and a run shows the code not to keep.   *)

\* "A lost turn/start acknowledgement ... is unconfirmed and is never
\* automatically replayed" (docs/clients.md:46): even once the registry has
\* the unconfirmed note, a restart before phase = finalizing is saved begins
\* the next attempt.
UnconfirmedIsNeverReplayed ==
  [][args.client = "codex" /\ disk.result.note = "unconfirmed"
       => disk'.result.note # "attempting"]_vars

\* "Cancellation does not send a business-completion event" (docs/wait.md:82):
\* a cancel whose save failed has ended the watch, but the task goes on.
CancelledSendsNoCompletion ==
  [][mem.state = "cancelled" => ~StartsWake]_vars

-----------------------------------------------------------------------------
(* Inductive strengthenings, proved in WatchProofs.                        *)

Writing == pc \in {"log", "save"}
Early == {"activating", "queued"}   \* phases from which the program may start
Begun == {"queued"} \cup Started   \* phases that follow an activation

\* Once the program was started, no copy of the record, in memory, on disk
\* or on its way there, shows a phase from which it would be started; and
\* the registry says so before the start (StartRunning).
RunOnceInv ==
  /\ runs \in {0, 1}
  /\ runs = 1 =>
       /\ disk.phase \notin Early
       /\ pc # "down" => mem.phase \notin Early
       /\ Writing => io.rec.phase \notin Early /\ io.then \notin {"queued", "execute"}
       /\ pc \notin {"activating", "queued", "execute"}
       /\ prog # "spawning"
  /\ pc = "execute" \/ prog = "spawning" =>
       disk.phase \notin Early /\ mem.phase \notin Early
  /\ Writing /\ io.then = "execute" => pc = "save" /\ io.rec.phase \notin Early
  /\ prog = "spawning" => pc = "executing"

\* While the goal has not taken the wait as active, no copy of the record
\* has left the activation phase towards the program (PollActivation).
ActivationInv ==
  args.mode = "goal" /\ NeverActive =>
    /\ runs = 0 /\ prog = "none"
    /\ mem.phase \notin Begun /\ disk.phase \notin Begun
    /\ Writing => /\ io.rec.phase \notin Begun
                  /\ io.then \notin {"queued", "execute", "executing"}
    /\ pc \notin {"queued", "execute", "executing"}

\* On the way to a wake command, memory and registry carry the attempt.
AttemptInv ==
  /\ pc \in {"attempt", "send", "sending", "backoff"} => mem.phase = "notifying"
  /\ pc \in {"send", "sending"} => mem.result = res
  /\ Writing /\ io.then \in {"attempt", "send", "backoff"} =>
       io.rec.phase = "notifying"
  /\ Writing /\ io.then = "send" => io.rec.result = res /\ res.note = "attempting"
  /\ pc = "save" /\ io.then = "send" => log = res \/ res.durable
  /\ Writing => io.then # "sending"
  /\ AttemptIsDurableFirst

\* A cancelled watch has ended in every copy of the record memory holds, and
\* is not between the check of the event and the wake command.
CancelInv ==
  /\ cancelSet =>
       /\ mem.state \in Terminal /\ pc \notin {"send", "down"}
       /\ Writing => io.rec.state \in Terminal /\ io.then \notin {"attempt", "send"}
  /\ Writing => io.then \notin {"sending", "fallback"}

\* Where the task is, or will be once its record is written; and its record.
At  == IF Writing THEN io.then ELSE pc
Rec == IF Writing THEN io.rec ELSE mem

Waiting    == {"activating", "queued", "execute", "executing"}
Holding    == Waiting \cup {"phase", "evaluate", "resume", "acking", "return", "finally"}
Delivering == {"attempt", "send", "sending", "backoff", "delivered", "undelivered"}
Late       == {"notifying", "awaiting_ack", "finalizing"}

\* _watch holds the lock from its acquisition to its finally clause, and only
\* its deliveries run under it: a failed watcher's wake does not.
LockInv ==
  /\ failing => /\ ~lock /\ mem.state # "absent"
                /\ At \in Delivering \cup {"finalize", "broken", "fallback", "idle"}
  /\ At \in {"broken", "fallback"} => failing
  /\ At \in Holding => lock
  /\ At \in {"down", "stopping", "idle", "start", "tail", "finalize", "broken",
             "fallback"} => ~lock
  /\ At \in Delivering /\ ~failing => lock
  /\ prog \in {"spawning", "running"} => At = "executing"
  /\ pc = "executing" => prog \in {"spawning", "running", "lost"}
  /\ Writing /\ io.then = "executing" => pc = "save" /\ prog = "running"
  /\ prog = "lost" => faults.write > 0 \/ faults.crash > 0
  /\ prog = "lost" /\ pc = "executing" => faults.write > 0

\* Memory shows an ended watch as ended as soon as the registry does.
EndedInv ==
  /\ disk.state \in Terminal /\ pc # "down" => mem.state \in Terminal
  /\ mem.state \in Terminal /\ Writing => io.rec.state \in Terminal

\* Once linked, the record's result is the task's; a task starts unlinked.
LinkInv ==
  /\ linked => mem.result = res
  /\ Writing /\ (linked \/ io.links) => io.rec.result = res
  /\ pc = "start" => ~linked
  /\ mem.state = "absent" => pc \in {"idle", "down"} /\ ~linked
  /\ pc = "down" => mem.state = "absent"
  /\ Writing => io.rec.state # "absent"
  /\ pc = "log" => io.links
  /\ At \in Delivering \cup {"resume", "acking"} /\ ~failing
       => linked \/ (Writing /\ io.links)

\* A failed watcher that was resumed has tried to wake before it is done.
Tried(r) == args.notify /\ r.event = "watcher_failed" => r.note \notin {"none", "pending"}
TriedRecord(rec) ==
  rec.phase \in {"awaiting_ack", "finalizing"} /\ rec.state = "active" => Tried(rec.result)
TriedInv ==
  /\ TriedRecord(disk) /\ TriedRecord(mem) /\ TriedRecord(Rec)
  /\ At \in {"delivered", "undelivered", "acking", "return", "finally", "tail"}
       /\ mem.state = "active" /\ (linked \/ (Writing /\ io.links)) => Tried(res)

\* What a result tells is so: the program's exit, the wake, the client; and a
\* note of a durable result is only in a failure of the watcher.
Told(r) ==
  /\ r.event = "exited" => runs = 1 /\ prog = "gone"
  /\ r.note = "delivered" => woken = "yes"
  /\ r.note = "native_pending" => args.client = "claude"
  /\ r.durable => r.event = "watcher_failed"
  /\ r.note \in {"none", "pending"} => r.attempts = 0
  /\ r.event = "none" => r = NoResult

ResultInv ==
  /\ Told(res) /\ Told(log) /\ Told(mem.result) /\ Told(disk.result)
  /\ Writing => Told(io.rec.result)
  /\ prog \in {"running", "lost"} => runs = 1
  /\ ~log.durable
  /\ At = "evaluate" => ~res.durable
  /\ res.event = "none" =>
       At \in Waiting \cup {"start", "phase", "caught", "idle", "stopping", "down"}
  /\ pc = "log" => ~io.rec.result.durable

\* While no write fails: no watcher fails, and a record and a code that say
\* success carry a program's exit and, after delivery, its delivered note.
Good(r) == r.event = "exited" /\ (args.notify => r.note \in DeliveredNotes)
Sound(rec) ==
  /\ rec.result.event # "watcher_failed"
  /\ rec.phase \in Late => rec.result.event # "none"
  /\ rec.state = "completed" => Good(rec.result)
  /\ rec.code = "ok" /\ rec.phase = "notifying" => rec.result.event = "exited"
  /\ rec.code = "ok" /\ rec.phase \in {"awaiting_ack", "finalizing"} => Good(rec.result)

DeliveredInv ==
  faults.write = 0 =>
    /\ ~failing /\ pc \notin {"caught", "broken", "fallback"}
    /\ res.event # "watcher_failed" /\ log.event # "watcher_failed"
    /\ Sound(disk) /\ Sound(Rec)
    /\ At = "resume" => Rec.code = code
    /\ At \in Delivering /\ code = "ok" => res.event = "exited"
    /\ At \in {"delivered", "acking", "return", "finally", "tail", "finalize"}
         /\ code = "ok" => Good(res)

\* While no write fails, what was woken is past every attempt on record.
PastAttempts(rec) ==
  \/ rec.state \in {"failed", "completed"}
  \/ rec.phase \in {"awaiting_ack", "finalizing"}
  \/ rec.phase = "notifying" /\ rec.result.note \in {"attempting"} \cup DeliveredNotes

WokenInv ==
  woken = "yes" /\ faults.write = 0 =>
    /\ At \notin Waiting \cup {"evaluate", "attempt", "send", "sending", "backoff"}
    /\ PastAttempts(disk)
    /\ pc # "down" => PastAttempts(Rec)

\* In the daemon's first life a Codex wake that may have been accepted leaves
\* an attempt in the log, unless it was the wake of a failed watcher.
CodexInv ==
  args.client = "codex" /\ faults.crash = 0 /\ faults.read = 0 =>
    /\ pc \notin {"down", "stopping"}
    /\ At \in {"start", "phase"} => Rec.phase \in Early
    /\ At \in Delivering \cup {"evaluate", "resume", "acking"} /\ ~failing
         => res.event \in Outcomes
    /\ At \in {"send", "sending"} => res.attempts > 0
    /\ woken # "no" =>
         /\ mem.state # "absent"
         /\ At \in {"delivered", "undelivered", "acking", "return", "finally", "tail",
                    "finalize", "caught", "broken", "fallback", "idle"}
         /\ ~failing => log.event \in Outcomes /\ log.attempts > 0
         /\ ~failing /\ (\/ pc = "log"
                        \/ At \in {"delivered", "undelivered", "acking", "return"}) =>
              res.event \in Outcomes /\ res.attempts > 0
         /\ At \in {"finally", "tail"} /\ res.event = "watcher_failed" => res.durable

\* Before its late phases a record has no result, but that of a watch that
\* found its lock taken.
Unreported(rec) ==
  rec.phase \notin Late =>
    \/ rec.result.event = "none"
    \/ rec.result.event = "already_watching" /\ rec.state = "failed"

\* The order of the phases: the registry is never ahead of memory, nor the
\* task behind either; and an ended watch has no task left.
PhaseInv ==
  /\ At \in {"start", "phase"} =>
       /\ disk.phase = mem.phase /\ disk.result = mem.result
       /\ Rec.phase = mem.phase /\ Rec.result = mem.result
  /\ disk.state \in {"failed", "completed"} => pc \in {"idle", "down"}
  /\ mem.state \in {"failed", "completed"} => pc = "idle"
  /\ Rec.state \in {"failed", "completed"} => At = "idle"
  /\ disk.state = "absent" => disk.phase \in Early
  /\ mem.state = "absent" => mem.phase \in Early
  /\ disk.phase \in Late /\ pc # "down" => mem.phase \in Late
  /\ mem.phase \in Late => Rec.phase \in Late
  /\ Rec.phase \in Late => At \notin Waiting \cup {"evaluate"}

\* Whoever reports is in a late phase, and a late record's result is linked.
ReportInv ==
  /\ At \in Delivering \cup {"resume", "acking", "broken"} => Rec.phase \in Late
  /\ At \in {"return", "finally", "tail", "finalize"} =>
       \/ Rec.phase \in Late
       \/ res.event = "watcher_failed"
       \/ res.event = "already_watching" /\ code = "error"
  /\ Writing /\ io.then \in (Delivering \ {"attempt"}) \cup {"finalize"} =>
       mem.phase \in Late
  /\ linked /\ pc # "idle" => mem.phase \in Late
  /\ Writing /\ io.links /\ io.then # "idle" => io.rec.phase \in Late
  /\ Unreported(disk) /\ Unreported(mem) /\ Unreported(Rec)

\* A program's outcome the task carries, or the log has, is past the phases
\* from which it would be replaced; every copy that may be logged keeps it.
Replaces == {"watcher_failed", "activation_over", "already_watching"}
Unreplaced(rec) == rec.phase \notin Early /\ rec.result.event \notin Replaces
OutcomeInv ==
  res.event \in Outcomes \/ At = "evaluate" =>
    /\ pc # "down"
    /\ Unreplaced(disk) /\ Unreplaced(mem) /\ Unreplaced(Rec)
    /\ At \notin Waiting \ {"executing"}

Keeps(r) == r.event = "watcher_failed" => r.durable
KeepsEvidence(rec) ==
  /\ rec.phase \notin Early /\ Keeps(rec.result)
  /\ rec.phase \in Late /\ rec.state \notin {"failed", "completed"} =>
       rec.result.event \notin {"activation_over", "already_watching"}
EvidenceInv ==
  log.event \in Outcomes /\ faults.read = 0 =>
    /\ KeepsEvidence(disk)
    /\ pc # "down" => KeepsEvidence(mem) /\ KeepsEvidence(Rec)
    /\ At \notin Waiting
    /\ pc = "log" => io.rec.result.event \in Outcomes
    /\ Keeps(res)
    /\ At \in Delivering \cup {"evaluate", "resume", "acking", "return", "broken"} =>
         res.event \notin {"none", "activation_over", "already_watching"}

\* What a record can be relied on for; the parts are proved together.
RecordInv ==
  /\ RunOnceInv /\ AttemptInv
  /\ LockInv /\ EndedInv /\ LinkInv /\ TriedInv /\ ResultInv /\ PhaseInv /\ ReportInv
  /\ DeliveredInv /\ WokenInv /\ CodexInv /\ OutcomeInv /\ EvidenceInv
=============================================================================
