------------------------------ MODULE Delivery -------------------------------
(***************************************************************************)
(* One wake of a Codex thread, attempt by attempt: the service's retry     *)
(* loop (waitd.py _deliver, run_program), the helper process it starts     *)
(* (codex.py wake, AppServer.call, main), the connection between helper    *)
(* and app-server, and the app-server's thread, which others use too.      *)
(* Module Watch takes the outcome of an attempt as given; here it is       *)
(* computed from what was sent, handled, answered and lost.  Persistence,  *)
(* crashes and the owner's file are Watch's.                               *)
(*                                                                         *)
(* A definition followed by one of nearly the same name and parameters is  *)
(* its deliberately wrong variant, used by no action.                      *)
(***************************************************************************)
EXTENDS Naturals

CONSTANTS MaxAttempts,  \* --max-notification-attempts
          Kills         \* bound: helpers that a signal of somebody else ends

ASSUME DeliveryAssumption == MaxAttempts \in Nat \ {0} /\ Kills \in Nat

VARIABLES
  pc,       \* where _deliver is
  attempt,  \* the attempt under way, or the last one
  note,     \* result["notification"], without the suffix _retrying
  cancelled,\* the cancel event
  helper,   \* what the helper process is about: a method it has called
  exit,     \* how the helper ended
  asked,    \* its request waits at the app-server
  answer,   \* what the app-server answered to it, not yet read
  thread,   \* the thread's runtime status
  turns,    \* turns this wake has started
  late,     \* a turn/start of a helper that is gone waits at the app-server
  kills

daemon == <<pc, attempt, note>>
wire   == <<asked, answer>>
server == <<thread, turns, late>>
vars   == <<daemon, cancelled, helper, exit, wire, server, kills>>

Statuses == {"idle", "active", "notLoaded", "systemError"}
Methods  == {"initialize", "thread/read", "thread/resume", "turn/start"}
Exits    == {"started", "invalid", "unavailable", "unconfirmed", "busy",
             "signal", "timeout"}
\* An answer is a rejection, something the helper cannot use, or a result, of
\* which only the status it reports matters.
Answers  == {"none", "error", "invalid"} \cup Statuses
Notes    == {"none", "attempting", "started", "unconfirmed", "busy",
             "notification_unavailable", "failed", "cancelled"}

Running == helper \in Methods \cup {"connecting"}

-----------------------------------------------------------------------------
(* The service.                                                            *)

Exhausted     == attempt = MaxAttempts

\* The watch was cancelled, or its owner's file no longer has it.
GiveUp ==
  /\ pc = "check" /\ cancelled
  /\ pc' = "over" /\ note' = "cancelled"
  /\ UNCHANGED <<attempt, cancelled, helper, exit, wire, server, kills>>

\* The attempt is recorded before it is made.
BeginAttempt ==
  /\ pc = "check" /\ ~cancelled
  /\ pc' = "begun" /\ note' = "attempting"
  /\ attempt' = attempt + 1
  /\ UNCHANGED <<cancelled, helper, exit, wire, server, kills>>

StartHelper ==
  /\ pc = "begun"
  /\ pc' = "attempting" /\ helper' = "connecting"
  /\ UNCHANGED <<attempt, note, cancelled, exit, wire, server, kills>>

\* No endpoint, or the helper cannot be started.
CannotStart ==
  /\ pc = "begun"
  /\ pc' = "over" /\ note' \in {"notification_unavailable", "failed"}
  /\ UNCHANGED <<attempt, cancelled, helper, exit, wire, server, kills>>

\* What an exit says: started and unconfirmed are final, all else is retried.
Verdict == [started     |-> "started",
            unconfirmed |-> "unconfirmed",
            timeout     |-> "unconfirmed",
            unavailable |-> "notification_unavailable",
            busy        |-> "busy",
            invalid     |-> "failed",
            signal      |-> "failed"]

FinalVerdicts == {"started", "unconfirmed"}

EndAttempt ==
  /\ pc = "attempting" /\ helper = "ended"
  /\ note' = Verdict[exit]
  /\ pc' = IF note' \in FinalVerdicts \/ Exhausted THEN "over" ELSE "backoff"
  /\ helper' = "none"
  /\ UNCHANGED <<attempt, cancelled, exit, wire, server, kills>>

\* The delay has passed, or the cancel event cut it short.
EndBackoff ==
  /\ pc = "backoff"
  /\ pc' = "check"
  /\ UNCHANGED <<attempt, note, cancelled, helper, exit, wire, server, kills>>

-----------------------------------------------------------------------------
(* The helper.  When it ends, its connection ends: a request the           *)
(* app-server has not read yet may still be read.                          *)

Ends(how) ==
  /\ helper' = "ended" /\ exit' = how
  /\ asked' = FALSE /\ answer' = "none"
  /\ late' \in {late, late \/ (asked /\ helper = "turn/start")}
  /\ UNCHANGED <<daemon, cancelled, thread, turns>>

Ask(method) ==
  /\ helper' = method
  /\ asked' = TRUE /\ answer' = "none"
  /\ UNCHANGED <<daemon, cancelled, exit, server, kills>>

\* The endpoint, the token, the connection and the WebSocket upgrade.
Connect ==
  /\ helper = "connecting"
  /\ \/ Ask("initialize")
     \/ Ends("invalid") /\ UNCHANGED kills

Initialized ==
  /\ helper = "initialize" /\ answer \in Statuses
  /\ Ask("thread/read")

\* An unloaded thread is resumed, once; only an idle one is woken.
StatusRead ==
  /\ helper \in {"thread/read", "thread/resume"} /\ answer \in Statuses
  /\ \/ answer = "notLoaded" /\ helper = "thread/read" /\ Ask("thread/resume")
     \/ answer = "idle" /\ Ask("turn/start")
     \/ answer = "active" /\ Ends("busy") /\ UNCHANGED kills
     \/ /\ answer = "systemError" \/ (answer = "notLoaded" /\ helper = "thread/resume")
        /\ Ends("invalid") /\ UNCHANGED kills

TurnStarted ==
  /\ helper = "turn/start" /\ answer \in Statuses
  /\ Ends("started") /\ UNCHANGED kills

\* RpcError: an explicit rejection, of turn/start too.
Rejected ==
  /\ helper \in Methods /\ answer = "error"
  /\ Ends("invalid") /\ UNCHANGED kills

\* Another thread, no turn id, a turn that is not running: of turn/start it is
\* ambiguous.
NotUnderstoodAsksAgain ==
  /\ helper \in Methods /\ answer = "invalid"
  /\ Ask(helper)
NotUnderstood ==
  /\ helper \in Methods /\ answer = "invalid"
  /\ Ends(IF helper = "turn/start" THEN "unconfirmed" ELSE "invalid")
  /\ UNCHANGED kills

\* OSError: no connection, a disconnect, a broken frame, a request for client
\* interaction, or the helper's own deadline.
BreakUnavailable ==
  /\ Running
  /\ Ends("unavailable") /\ UNCHANGED kills
Break ==
  /\ Running
  /\ Ends(IF helper = "turn/start" THEN "unconfirmed" ELSE "unavailable")
  /\ UNCHANGED kills

\* run_program's timeout kills the helper's process group.
TimeOut ==
  /\ Running
  /\ Ends("timeout") /\ UNCHANGED kills

\* Somebody else kills it.
KillHelper ==
  /\ Running /\ kills < Kills
  /\ kills' = kills + 1
  /\ Ends("signal")

-----------------------------------------------------------------------------
(* The app-server, known by the protocol codex.py follows.                 *)

Answered(s) ==
  /\ asked' = FALSE
  /\ answer' \in {s, "error", "invalid"}
  /\ UNCHANGED <<daemon, cancelled, helper, exit, turns, late, kills>>

HandleInitialize ==
  /\ helper = "initialize" /\ asked
  /\ Answered("idle") /\ UNCHANGED thread

HandleRead ==
  /\ helper = "thread/read" /\ asked
  /\ Answered(thread) /\ UNCHANGED thread

HandleResume ==
  /\ helper = "thread/resume" /\ asked
  /\ thread' \in IF thread = "notLoaded" THEN Statuses ELSE {thread}
  /\ Answered(thread')

\* A turn is started, even beside one that began since the status was read,
\* or the request is rejected.
HandleStart ==
  /\ helper = "turn/start" /\ asked
  /\ asked' = FALSE
  /\ \/ answer' \in {"active", "invalid"} /\ turns' = turns + 1 /\ thread' = "active"
     \/ answer' = "error" /\ UNCHANGED <<turns, thread>>
  /\ UNCHANGED <<daemon, cancelled, helper, exit, late, kills>>

HandleLate ==
  /\ late /\ late' = FALSE
  /\ \/ turns' = turns + 1 /\ thread' = "active"
     \/ UNCHANGED <<turns, thread>>
  /\ UNCHANGED <<daemon, cancelled, helper, exit, wire, kills>>

\* Turns of others begin and end; the thread is unloaded, or fails.
ThreadMoves ==
  /\ thread' \in Statuses \ {thread}
  /\ UNCHANGED <<daemon, cancelled, helper, exit, wire, turns, late, kills>>

Cancel ==
  /\ ~cancelled /\ cancelled' = TRUE
  /\ UNCHANGED <<daemon, helper, exit, wire, server, kills>>

-----------------------------------------------------------------------------
Init ==
  /\ pc = "check" /\ attempt = 0 /\ note = "none" /\ cancelled = FALSE
  /\ helper = "none" /\ exit = "none"
  /\ asked = FALSE /\ answer = "none"
  /\ thread \in Statuses /\ turns = 0 /\ late = FALSE /\ kills = 0

DaemonStep ==
  \/ GiveUp \/ BeginAttempt \/ StartHelper \/ CannotStart
  \/ EndAttempt \/ EndBackoff
HelperStep ==
  \/ Connect \/ Initialized \/ StatusRead \/ TurnStarted \/ Rejected
  \/ NotUnderstood \/ Break \/ TimeOut
ServerStep ==
  \/ HandleInitialize \/ HandleRead \/ HandleResume \/ HandleStart
  \/ HandleLate \/ ThreadMoves

Next == DaemonStep \/ HelperStep \/ KillHelper \/ ServerStep \/ Cancel

Spec == Init /\ [][Next]_vars
=============================================================================
