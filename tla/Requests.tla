------------------------------ MODULE Requests ------------------------------
(***************************************************************************)
(* One watch (module Watch) and the clients that look at its record while  *)
(* it runs: follow, which blocks until the record shows an event or an end *)
(* (waitd.py follow and handle_client; Claude sessions are woken that      *)
(* way), and the client that submitted the watch, which verifies its start *)
(* or cancels it (waitctl.py verify_start).                                *)
(*                                                                         *)
(* The service has one thread: a request is handled only where the watch's *)
(* task awaits (Awaiting), and between two awaits nobody else looks.       *)
(*                                                                         *)
(* A definition followed by one of nearly the same name and parameters is  *)
(* its deliberately wrong variant, used by no action.                      *)
(***************************************************************************)
EXTENDS Watch

CONSTANTS Followers,  \* connections that follow the watch
          Submitted   \* what is submitted

ASSUME RequestsAssumption == Submitted \subseteq Args

VARIABLES
  info, saved, \* query_status and lock_status of the record and of its file
  follow,      \* where each follow request is
  answer,      \* what it was last answered
  start        \* where the submitting client is

fields  == <<info, saved>>
clients == <<follow, answer, start>>
allVars == <<vars, fields, clients>>

Over(rec) == rec.state \notin {"absent", "active"} \/ rec.result # NoResult
NoAnswer  == [state |-> "none", event |-> "none"]

-----------------------------------------------------------------------------
(* publish_change sets the event the waiting requests hold, and replaces it *)
(* by a new one: they will look again.                                     *)

publish_change_new_event == UNCHANGED <<follow, answer>>
publish_change ==
  /\ follow' = [f \in Followers |-> IF follow[f] = "waiting" THEN "looking" ELSE follow[f]]
  /\ UNCHANGED answer

Quiet == UNCHANGED <<follow, answer>>

\* A write that fails raises before anything is published.
PublishesSaved == IF faults' = faults THEN publish_change ELSE Quiet

\* _notify_without_persistence publishes what it leaves in memory only.
PublishesUnsaved == publish_change

Disconnected == [f \in Followers |-> IF follow[f] \in {"looking", "waiting"}
                                       THEN "lost" ELSE follow[f]]
Stops == follow' = Disconnected /\ UNCHANGED answer

\* What an update adds to the record: the lock was taken or is given up, the
\* program runs.
Updated ==
  CASE io.then = "phase"     -> [info EXCEPT !.lock_status = "held"]
    [] io.then = "tail"      -> [info EXCEPT !.lock_status = "released"]
    [] io.then = "executing" -> [info EXCEPT !.query_status = "verified"]
    [] OTHER                 -> info
\* They are saved with the record; a write that fails may be one that was made.
SavesInfo(new) ==
  /\ info' = new
  /\ \/ saved' = new   /\ (faults' = faults \/ disk' = mem')
     \/ saved' = saved /\ faults' # faults /\ disk' = disk

TaskMoves ==
  /\ \/ SaveRecord /\ SavesInfo(Updated) /\ PublishesSaved
     \/ WakeWithoutPersistence /\ PublishesUnsaved /\ UNCHANGED fields
     \/ /\ \/ WriteLog \/ AcquireLock \/ RecoverPhase \/ PollActivation
           \/ StartRunning \/ ExecuteProgram \/ SpawnProgram \/ FinishProgram
           \/ StopProgram \/ CollectStartError \/ EvaluateResult \/ ResumeResult
           \/ OfferNative \/ BeginAttempt \/ SendWake \/ EndAttempt \/ EndBackoff
           \/ GiveUpDelivery \/ CloseDelivery \/ EndAck \/ WriteFinalLog
           \/ RecordWatcherFailure \/ ReleaseLock \/ DecideEnd
           \/ SettleFailedNotice \/ FinishWatch
        /\ Quiet /\ UNCHANGED fields
  /\ UNCHANGED start

\* Another watch's update is published too, its submission is not.
OthersMove ==
  /\ \/ /\ SaveOther \/ (Awaiting /\ disk = mem /\ UNCHANGED vars)
        /\ publish_change \/ Quiet
        /\ saved' = info /\ UNCHANGED info
     \/ (OwnerChanges \/ OwnerActivates \/ OrphanExits) /\ Quiet /\ UNCHANGED fields
     \/ Cancel /\ SavesInfo(info) /\ PublishesSaved
  /\ UNCHANGED start

ServiceStops ==
  /\ (Crash /\ Stops) \/ (Shutdown /\ Quiet)
  /\ UNCHANGED <<fields, start>>

ServiceReturns ==
  /\ \/ /\ SaveOnShutdown
        /\ SavesInfo([info EXCEPT !.lock_status = "released"])
        /\ IF faults' = faults THEN Stops ELSE Quiet
     \/ Restart /\ Quiet /\ info' = saved /\ UNCHANGED saved
  /\ UNCHANGED start

-----------------------------------------------------------------------------
(* follow.                                                                 *)

\* A new request, of a session that was never answered or asks again.
Follow(f) ==
  /\ pc # "down" /\ follow[f] \notin {"looking", "waiting"}
  /\ follow' = [follow EXCEPT ![f] = "looking"]
  /\ answer' = [answer EXCEPT ![f] = NoAnswer]
  /\ UNCHANGED <<vars, fields, start>>

\* The request reads the event to wait for, looks at the record and waits, in
\* one piece.
Look(f) ==
  /\ follow[f] = "looking" /\ Awaiting /\ Known
  /\ IF Over(mem)
       THEN /\ follow' = [follow EXCEPT ![f] = "answered"]
            /\ answer' = [answer EXCEPT ![f] = [state |-> mem.state, event |-> mem.result.event]]
       ELSE follow' = [follow EXCEPT ![f] = "waiting"] /\ UNCHANGED answer
  /\ UNCHANGED <<vars, fields, start>>

LookInVain(f) ==
  /\ follow[f] = "looking" /\ Awaiting /\ ~Known
  /\ follow' = [follow EXCEPT ![f] = "unknown"]
  /\ UNCHANGED <<vars, fields, answer, start>>

\* Its timeout, or the client hangs up: handle_client cancels the request.
Leave(f) ==
  /\ follow[f] \in {"looking", "waiting"} /\ Awaiting
  /\ follow' = [follow EXCEPT ![f] = "left"]
  /\ UNCHANGED <<vars, fields, answer, start>>

-----------------------------------------------------------------------------
(* waitctl start: submit, then verify_start.                               *)

Starts(pcNext) == start' = pcNext /\ UNCHANGED <<follow, answer>>

NoInfo == [query_status |-> "pending", lock_status |-> "none"]

SubmitAnswered ==
  /\ Submit
  /\ SavesInfo(NoInfo)
  /\ Starts(IF faults' = faults THEN "checking" ELSE "refused")

FailedEvents == {"start_failed", "watcher_failed", "already_watching"}

VerifiesLocked == mem.state = "active" => info.lock_status = "held"
VerifiesStart  == /\ info.query_status = "verified"
                  /\ mem.state = "active" => info.lock_status = "held"

\* show, and what the client makes of it.  At its deadline it goes on to cancel.
ShowAnswered ==
  /\ start = "checking" /\ Awaiting
  /\ \/ mem.result.event \in FailedEvents /\ Starts("failed")
     \/ mem.result.event \notin FailedEvents /\ VerifiesStart /\ Starts("verified")
     \/ mem.result.event \notin FailedEvents /\ ~VerifiesStart /\ Starts("late")
  /\ UNCHANGED <<vars, fields>>

\* The client says "cancelled" whatever the service answers.
CancelAnswered ==
  /\ start = "late"
  /\ \/ Cancel /\ SavesInfo(info) /\ PublishesSaved
     \/ Awaiting /\ mem.state # "active" /\ UNCHANGED <<vars, fields>> /\ Quiet
  /\ start' = "cancelled"

\* The service is gone, or does not answer in five seconds.
RequestFails ==
  /\ start \in {"checking", "late"}
  /\ Starts("unanswered")
  /\ UNCHANGED <<vars, fields>>

-----------------------------------------------------------------------------
RInit ==
  /\ Init /\ args \in Submitted
  /\ info = NoInfo /\ saved = NoInfo
  /\ follow = [f \in Followers |-> "away"]
  /\ answer = [f \in Followers |-> NoAnswer]
  /\ start = "none"

ClientStep ==
  \/ \E f \in Followers : Follow(f) \/ Look(f) \/ LookInVain(f) \/ Leave(f)
  \/ SubmitAnswered \/ ShowAnswered \/ CancelAnswered \/ RequestFails

RNext == TaskMoves \/ OthersMove \/ ServiceStops \/ ServiceReturns \/ ClientStep

RSpec == RInit /\ [][RNext]_allVars

\* As in Watch; a request that is there is handled while the service is up.
\* Nothing is assumed of the timeouts.
RFairSpec ==
  /\ RSpec
  /\ WF_allVars(TaskMoves) /\ WF_allVars(ServiceReturns)
  /\ \A f \in Followers : WF_allVars(Look(f))
=============================================================================
