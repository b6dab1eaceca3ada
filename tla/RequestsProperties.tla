------------------------- MODULE RequestsProperties -------------------------
(***************************************************************************)
(* What the clients of a watch may rely on, beside what module Watch       *)
(* promises of the watch itself.                                           *)
(***************************************************************************)
EXTENDS Requests, WatchProperties

Waiters == {f \in Followers : follow[f] = "waiting"}

Answers == [state : States \cup {"none"}, event : Events]

\* Every variable of the clients has its type.
ClientsTypeOK ==
  /\ \A i \in {info, saved} : i \in [query_status : {"pending", "verified"},
                                     lock_status : {"none", "held", "released"}]
  /\ follow \in [Followers -> {"away", "looking", "waiting", "answered", "unknown",
                               "left", "lost"}]
  /\ answer \in [Followers -> Answers]
  /\ \A f \in Followers : follow[f] = "answered" => answer[f] # NoAnswer
  /\ start \in {"none", "refused", "checking", "late", "verified", "failed",
                "cancelled", "unanswered"}

\* No event is missed: as long as no write failed, a request that waits waits
\* for a record that still has neither result nor end, although the event it
\* waits for is replaced at each change and other changes wake it for nothing.
NoEndMissed ==
  faults.write = 0 /\ Waiters # {} => ~Over(mem)

\* "If persistence fails before delivery, the daemon ... wakes a connected
\* Claude follow" (docs/waitd.md:59): whatever writes failed on the way, a
\* failed watcher that ends leaves no follow request of its session waiting.
FailureWakesFollowers ==
  args.client = "claude" /\ args.notify /\ pc = "idle"
    /\ mem.state = "failed" /\ mem.result.event = "watcher_failed"
      => Waiters = {}

\* Both, with the types of the clients: a request that waits has a reason to.
FollowersHear == ClientsTypeOK /\ NoEndMissed /\ FailureWakesFollowers

\* The outcome of a program that follow answers is durable at that moment: the
\* log has it (docs/waitd.md:42), even if the registry could not be saved,
\* unless the log could not be read when the watcher failed.
OutcomeIsDurable ==
  [][\A f \in Followers :
       answer'[f] # answer[f] /\ answer'[f].event \in Outcomes /\ faults.read = 0
         => log.event = answer'[f].event]_allVars

\* A start that was verified has run its program, and while the watch is
\* active holds the lock, in spite of failed writes, cancellations and a fast
\* end between two looks.  (A restarted service shows the lock it had.)
VerifiedMeansStarted ==
  [][start' = "verified" /\ start # "verified"
       => /\ runs = 1
          /\ mem.state = "active" /\ faults.crash = 0 => lock]_allVars

\* Every follow request of a watch that has a task is answered in the end.
FollowIsAnswered ==
  \A f \in Followers :
    follow[f] = "waiting" /\ faults.write = 0
      ~> follow[f] # "waiting" \/ faults.write > 0

-----------------------------------------------------------------------------
(* Inductive strengthenings, proved in RequestsProofs: first of the watch. *)

\* A task whose result is the record's has one.
LinkedInv ==
  /\ linked => mem.result.event # "none"
  /\ Writing /\ (linked \/ io.links) => io.rec.result.event # "none"
  /\ At = "return" => linked \/ (Writing /\ io.links)
  /\ Writing /\ io.then = "idle" => io.links
  /\ failing => res.event = "watcher_failed"

\* No adapter wakes Claude, so no attempt is ever counted, and the wake of a
\* failed watcher takes few of the ways it could take.
ClaudeInv ==
  args.client = "claude" =>
    /\ mem.result.attempts = 0 /\ disk.result.attempts = 0
    /\ log.attempts = 0 /\ res.attempts = 0
    /\ Writing => io.rec.result.attempts = 0 /\ io.then # "finalize"
    /\ At \notin {"send", "sending", "backoff", "undelivered", "broken"}
    /\ At \in {"finally", "tail"} /\ res.event = "watcher_failed"
         => linked \/ (Writing /\ io.links) \/ res.note = "none"

\* In the daemon's first life a program that was started is never recovered.
FirstLifeInv ==
  faults.crash = 0 =>
    /\ pc \notin {"down", "stopping"}
    /\ At \in {"start", "phase"} => Rec.phase \in Early

\* A program's outcome in a copy of the record is the one the log has.
Logged(r) == r.event \in Outcomes => log.event = r.event
LoggedInv ==
  faults.read = 0 =>
    /\ Logged(mem.result) /\ Logged(disk.result)
    /\ pc = "save" => Logged(io.rec.result)
    /\ pc = "log" /\ (mem.result.event \in Outcomes \/ disk.result.event \in Outcomes)
         => io.rec.result.event = log.event
    /\ At \in Delivering \cup {"resume", "acking", "return", "finally", "tail",
                               "finalize"} /\ pc # "log" => Logged(res)

(* Then of the clients. *)

\* Where no request may be left waiting, since something it will not be told
\* of ended the watch, or the wake it would get is already past.
FailedFor == args.client = "claude" /\ args.notify
Settled ==
  \/ faults.write = 0 /\ Over(mem)
  \/ ~Known \/ pc = "down"
  \/ At \in {"start", "phase"} /\ mem.result.event # "none"
  \/ /\ FailedFor
     /\ \/ /\ mem.result.event = "watcher_failed"
           /\ \/ linked /\ ~failing /\ pc \notin {"caught", "idle"}
              \/ pc = "idle" /\ mem.state = "failed"
        \/ failing /\ pc = "delivered"
        \/ pc = "finalize" /\ res.event = "watcher_failed"
        \/ Writing /\ io.then = "idle" /\ io.rec.result.event = "watcher_failed"
SettledInv == Settled => Waiters = {}

\* What the record tells of the start is so.
StartInv ==
  /\ info.query_status = "verified" \/ saved.query_status = "verified" => runs = 1
  /\ faults.crash = 0 /\ info.query_status = "verified" /\ info.lock_status = "held"
       => lock \/ (pc = "save" /\ io.then = "tail")
=============================================================================
