--------------------------- MODULE PollProperties ----------------------------
(***************************************************************************)
(* What docs/wait.md and polling.py promise of poll: its deadline, its     *)
(* count of failures, its alarm and the processes of its queries.          *)
(***************************************************************************)
EXTENDS Poll

\* Where an alarm strikes just outside the code that is meant to meet it.
Places == {"popen", "opened", "kill", "reap", "disarm"}

\* Every variable has its type; no alarm is set beyond poll's deadline and no
\* failures are counted beyond the limit.
TypeOK ==
  /\ args \in Arguments
  /\ now \in Nat
  /\ pc \in {"top", "popen", "opened", "communicate", "kill", "reap", "evaluate",
             "disarm", "restore", "limited", "sleep", "over"}
  /\ doing \in {"query", "evaluate"}
  /\ alarm \in 0 .. args.timeout \cup {Off}
  /\ handler \in {"caller", "limit"} /\ previous \in {"caller", "limit"}
  /\ got \in {"none", "value", "data", "error", "fatal", "expired"}
  /\ began \in Nat /\ child \in {"none", "running", "killed"}
  /\ slips \in SUBSET (Places \X {"running", "killed", "handler"})
  /\ failures \in 0 .. args.max_failures
  /\ queries \in Seq({"failed", "succeeded"})
  /\ outcome \in {"none", "result", "timed_out", "query_failed", "raised"}

\* poll never runs beyond its timeout, whatever the query, its own timeouts,
\* the evaluation and the interval take ("Overall bound").
EndsByDeadline == now <= args.timeout

\* The number of failures in a row, by the history of the queries.
RowOfFailures ==
  /\ Len(queries) >= args.max_failures
  /\ \A i \in 0 .. args.max_failures - 1 : queries[Len(queries) - i] = "failed"

\* QueryFailed is raised exactly when the limit of consecutive failures is
\* met before the deadline: at the same instant the deadline wins, a success
\* between failures starts a new row, and no query follows a full row.
FailureIsEarned ==
  /\ outcome = "query_failed" <=> RowOfFailures /\ now < args.timeout
  /\ RowOfFailures => pc = "over"

\* run_command leaves no process of its query behind, running or unreaped, on
\* whatever exit ("reap the query process on every exit"), but by an alarm
\* outside communicate: before its try or between its end and the kill that
\* leaves the process running, in the wait after the kill it is only unreaped.
ProcessReaped ==
  /\ pc \notin {"opened", "communicate", "kill", "reap"} => child = "none"
  /\ \A s \in slips :
       /\ s[2] = "running" => s[1] \in {"popen", "opened", "kill"}
       /\ s[2] = "killed" => s[1] = "reap"

HandlerSlipped == <<"disarm", "handler">> \in slips

\* poll leaves SIGALRM to its caller, except when an alarm struck while its
\* time limit was being lifted; and never an alarm set.
SignalsReturned ==
  pc = "over" => alarm = Off /\ (handler = "caller" \/ HandlerSlipped)

\* poll leaves nothing of its own behind.
NothingLeftBehind == ProcessReaped /\ SignalsReturned

\* poll ends: no callback, sleep or process holds it for ever.
PollEnds == <>(pc = "over")
=============================================================================
