-------------------------------- MODULE Poll ---------------------------------
(***************************************************************************)
(* polling.py: poll's loop over query and evaluate, _time_limit's alarm    *)
(* around each, and run_command, the query docs/wait.md recommends, with   *)
(* the process it starts.  Time passes in ticks, only inside a callback    *)
(* and the sleep.  An alarm that is due strikes between any two steps of   *)
(* that instant, as a Python signal handler does: also just outside the    *)
(* code that is meant to meet it.                                          *)
(*                                                                         *)
(* A definition followed by one of nearly the same name and parameters is  *)
(* its deliberately wrong variant, used by no action.                      *)
(***************************************************************************)
EXTENDS Integers, Sequences

CONSTANTS MaxTime,    \* bound: timeout, interval and the two query timeouts
          MaxLimit    \* bound: max_consecutive_failures

ASSUME PollAssumption == MaxTime \in Nat \ {0} /\ MaxLimit \in Nat \ {0}

VARIABLES
  args,     \* the arguments of poll and run_command, constant
  now,      \* time.monotonic(), in ticks since the call
  pc,       \* where poll or its callback is
  doing,    \* the callback under the time limit: query or evaluate
  alarm,    \* when ITIMER_REAL is due, or Off
  handler,  \* SIGALRM's handler: the caller's or a time limit's
  previous, \* the handler that the time limit restores
  got,      \* how the callback is ending
  began,    \* when run_command or the sleep began
  child,    \* the process run_command is to end
  slips,    \* what alarms left behind, each with the place where one struck
  failures, \* consecutive query failures
  queries,  \* history: how the queries so far ended
  outcome   \* how poll ended

limits  == <<alarm, handler, previous>>
process == <<began, child, slips>>
vars == <<args, now, pc, doing, limits, got, process, failures, queries, outcome>>

Off == -1
Arguments == [timeout : 1 .. MaxTime, interval : 1 .. MaxTime,
              query_timeout : 1 .. MaxTime, command_timeout : 1 .. MaxTime,
              max_failures : 1 .. MaxLimit]

Lesser(a, b) == IF a < b THEN a ELSE b
Remaining == args.timeout - now
Due == alarm # Off /\ now >= alarm

Goto(next) == pc' = next
Returns(how) == pc' = "over" /\ outcome' = how

-----------------------------------------------------------------------------
(* poll.                                                                   *)

QueryLimit == Lesser(args.query_timeout, Remaining)

SetAlarm(callback, seconds) ==
  /\ doing' = callback
  /\ alarm' = now + seconds
  /\ previous' = handler /\ handler' = "limit"

BeginQuery ==
  /\ pc = "top"
  /\ IF Remaining <= 0
       THEN Returns("timed_out") /\ UNCHANGED <<doing, limits>>
       ELSE Goto("popen") /\ SetAlarm("query", QueryLimit) /\ UNCHANGED outcome
  /\ UNCHANGED <<args, now, got, process, failures, queries>>

Sleeps == Goto("sleep") /\ began' = now

\* The deadline is looked at before the failures are.
CountFailure(count) ==
  IF Remaining <= 0 THEN Returns("timed_out") /\ UNCHANGED <<failures, began>>
  ELSE /\ failures' = count
       /\ IF failures' >= args.max_failures
            THEN Returns("query_failed") /\ UNCHANGED began
            ELSE Sleeps /\ UNCHANGED outcome

\* An OSError, a SubprocessError or the alarm; any other error propagates.
QueryFails ==
  /\ pc = "limited" /\ doing = "query" /\ got \in {"error", "expired"}
  /\ queries' = Append(queries, "failed")
  /\ CountFailure(failures + 1)
  /\ UNCHANGED <<args, now, doing, limits, got, child, slips>>

FailuresKept == failures
NoFailures   == 0

QuerySucceeds ==
  /\ pc = "limited" /\ doing = "query" /\ got = "data"
  /\ queries' = Append(queries, "succeeded")
  /\ failures' = NoFailures
  /\ IF Remaining <= 0
       THEN Returns("timed_out") /\ UNCHANGED <<doing, limits>>
       ELSE Goto("evaluate") /\ SetAlarm("evaluate", Remaining) /\ UNCHANGED outcome
  /\ UNCHANGED <<args, now, got, process>>

Propagates ==
  /\ pc = "limited" /\ got = "fatal"
  /\ Returns("raised")
  /\ UNCHANGED <<args, now, doing, limits, got, process, failures, queries>>

\* None goes on, anything else is poll's result.
Evaluated ==
  /\ pc = "limited" /\ doing = "evaluate" /\ got \in {"none", "value", "expired"}
  /\ IF got = "expired" \/ Remaining <= 0 THEN Returns("timed_out") /\ UNCHANGED began
     ELSE IF got = "value" THEN Returns("result") /\ UNCHANGED began
     ELSE Sleeps /\ UNCHANGED outcome
  /\ UNCHANGED <<args, now, doing, limits, got, child, slips, failures, queries>>

SleepTimeUncapped == args.interval
SleepTime == Lesser(args.interval, args.timeout - began)

Wake ==
  /\ pc = "sleep" /\ now >= began + SleepTime
  /\ Goto("top")
  /\ UNCHANGED <<args, now, doing, limits, got, process, failures, queries, outcome>>

-----------------------------------------------------------------------------
(* The callbacks: a query by run_command, and evaluate.                    *)

Popen ==
  /\ pc = "popen"
  /\ \/ Goto("opened") /\ child' = "running" /\ UNCHANGED got
     \/ Goto("disarm") /\ got' = "error" /\ UNCHANGED child
  /\ UNCHANGED <<args, now, doing, limits, began, slips, failures, queries, outcome>>

Communicate ==
  /\ pc = "opened"
  /\ Goto("communicate") /\ began' = now
  /\ UNCHANGED <<args, now, doing, limits, got, child, slips, failures, queries, outcome>>

\* The process has ended: output that decodes or does not, or a failure's exit
\* code.  Or its timeout has passed.
Communicated ==
  /\ pc = "communicate"
  /\ \/ child' = "none" /\ got' \in {"data", "error", "fatal"}
     \/ now >= began + args.command_timeout /\ got' = "error" /\ UNCHANGED child
  /\ Goto("kill")
  /\ UNCHANGED <<args, now, doing, limits, began, slips, failures, queries, outcome>>

KillOnError ==
  /\ pc = "kill"
  /\ Goto("reap")
  /\ child' = IF got = "error" /\ child = "running" THEN "killed" ELSE child
  /\ UNCHANGED <<args, now, doing, limits, got, began, slips, failures, queries, outcome>>
Kill ==
  /\ pc = "kill"
  /\ Goto("reap")
  /\ child' = IF child = "running" THEN "killed" ELSE child
  /\ UNCHANGED <<args, now, doing, limits, got, began, slips, failures, queries, outcome>>

\* wait returns once the process has ended.
ReapNothing ==
  /\ pc = "reap" /\ child # "running"
  /\ Goto("disarm")
  /\ UNCHANGED <<args, now, doing, limits, got, process, failures, queries, outcome>>
Reap ==
  /\ pc = "reap" /\ child # "running"
  /\ Goto("disarm") /\ child' = "none"
  /\ UNCHANGED <<args, now, doing, limits, got, began, slips, failures, queries, outcome>>

Evaluate ==
  /\ pc = "evaluate"
  /\ Goto("disarm") /\ got' \in {"none", "value", "fatal"}
  /\ UNCHANGED <<args, now, doing, limits, process, failures, queries, outcome>>

\* _time_limit's finally: first the timer, then the handler.
Disarm ==
  /\ pc = "disarm"
  /\ Goto("restore") /\ alarm' = Off
  /\ UNCHANGED <<args, now, doing, handler, previous, got, process, failures, queries, outcome>>

Restore ==
  /\ pc = "restore"
  /\ Goto("limited") /\ handler' = previous
  /\ UNCHANGED <<args, now, doing, alarm, previous, got, process, failures, queries, outcome>>

-----------------------------------------------------------------------------
(* The alarm.                                                              *)

\* It leads communicate and evaluate to their finally.  It leaves run_command
\* in Popen, which may have forked, on the line before the try, and in its own
\* finally, each with the process as it is; and it leaves _time_limit's finally
\* without the handler restored.
Slips(left) == slips' = slips \cup {<<pc, it>> : it \in left}
Expire ==
  /\ Due
  /\ alarm' = Off /\ got' = "expired"
  /\ \/ pc = "evaluate" /\ Goto("disarm") /\ UNCHANGED <<child, slips>>
     \/ pc = "communicate" /\ Goto("kill") /\ UNCHANGED <<child, slips>>
     \/ /\ pc = "popen" /\ Goto("disarm") /\ UNCHANGED child
        /\ \E left \in SUBSET {"running"} : Slips(left)
     \/ /\ pc \in {"opened", "kill", "reap"} /\ Goto("disarm")
        /\ Slips({child} \ {"none"}) /\ child' = "none"
     \/ pc = "disarm" /\ Goto("limited") /\ UNCHANGED child /\ Slips({"handler"})
  /\ UNCHANGED <<args, now, doing, handler, previous, began, failures, queries, outcome>>

\* Time goes on in a callback or the sleep, not past what ends either.
Tick ==
  /\ ~Due
  /\ \/ pc \in {"popen", "evaluate"}
     \/ pc = "communicate" /\ now < began + args.command_timeout
     \/ pc = "sleep" /\ now < began + SleepTime
  /\ now' = now + 1
  /\ UNCHANGED <<args, pc, doing, limits, got, process, failures, queries, outcome>>

-----------------------------------------------------------------------------
Init ==
  /\ args \in Arguments
  /\ now = 0 /\ pc = "top" /\ doing = "query"
  /\ alarm = Off /\ handler = "caller" /\ previous = "caller" /\ got = "none"
  /\ began = 0 /\ child = "none" /\ slips = {}
  /\ failures = 0 /\ queries = <<>> /\ outcome = "none"

Next ==
  \/ BeginQuery \/ QueryFails \/ QuerySucceeds \/ Propagates \/ Evaluated \/ Wake
  \/ Popen \/ Communicate \/ Communicated \/ Kill \/ Reap \/ Evaluate
  \/ Disarm \/ Restore \/ Expire \/ Tick

Spec == Init /\ [][Next]_vars

\* The process runs on and time passes.
FairSpec == Spec /\ WF_vars(Next)
=============================================================================
