----------------------------- MODULE PollProofs ------------------------------
(***************************************************************************)
(* The safety properties of poll, for every choice of its arguments.       *)
(***************************************************************************)
EXTENDS PollProperties, TLAPS

Command  == {"opened", "communicate", "kill", "reap"}
Limited  == Command \cup {"popen", "evaluate", "disarm"}

\* Where time passes, something stops it in time: an alarm or the sleep's end.
Timed ==
  /\ now <= args.timeout /\ began <= args.timeout
  /\ pc \in {"popen", "opened", "communicate", "evaluate"} => alarm # Off
  /\ pc \notin Limited => alarm = Off

\* Who has SIGALRM, and who will have it back.
Signals ==
  /\ pc \in Limited \cup {"restore"} => previous = "caller" \/ HandlerSlipped
  /\ pc \notin Limited \cup {"restore"} => handler = "caller" \/ HandlerSlipped

\* The kill comes just before the wait.
KilledFirst ==
  /\ pc = "reap" => child # "running"
  /\ pc # "reap" => child # "killed"

PInv == TypeOK /\ Timed /\ Signals /\ ProcessReaped /\ KilledFirst
        /\ (pc # "over" => failures < args.max_failures)

LEMMA InitPInv == Init => PInv
<1> SUFFICES ASSUME Init PROVE PInv
  OBVIOUS
<1> USE PollAssumption DEF Init, Arguments
<1>1. args.timeout \in Nat /\ args.max_failures \in Nat /\ args.max_failures > 0
  OBVIOUS
<1>2. TypeOK
  BY <1>1 DEF TypeOK, Off
<1> QED BY <1>1, <1>2 DEF PInv, Timed, Signals, Limited, Command, ProcessReaped, KilledFirst

\* The arguments and what follows for numbers from them.
LEMMA Numbers ==
  ASSUME TypeOK
  PROVE  /\ args.timeout \in Nat /\ args.timeout > 0
         /\ args.interval \in Nat /\ args.interval > 0
         /\ args.query_timeout \in Nat /\ args.query_timeout > 0
         /\ args.max_failures \in Nat /\ args.max_failures > 0
         /\ now \in Nat /\ began \in Nat /\ failures \in Nat
BY PollAssumption DEF TypeOK, Arguments

LEMMA StepKeeps == PInv /\ [Next]_vars => PInv'
<1> SUFFICES ASSUME PInv, [Next]_vars PROVE PInv'
  OBVIOUS
<1> USE Numbers DEF PInv, limits, process, Goto, Returns, HandlerSlipped, KilledFirst
<1>1. CASE BeginQuery
  <2> USE <1>1 DEF BeginQuery
  <2>1. CASE Remaining <= 0
    BY <2>1 DEF TypeOK, Timed, Signals, Limited, Command, ProcessReaped
  <2>2. CASE ~(Remaining <= 0)
    <3> USE <2>2
    <3>1. alarm' \in 0 .. args.timeout /\ alarm' # Off
      BY DEF SetAlarm, QueryLimit, Lesser, Remaining, Timed, Off
    <3>2. /\ doing' = "query" /\ previous' = handler /\ handler' = "limit"
          /\ pc' = "popen"
      BY DEF SetAlarm
    <3>3. TypeOK'
      BY <3>1, <3>2 DEF TypeOK
    <3>4. Timed' /\ Signals' /\ ProcessReaped'
      BY <3>1, <3>2 DEF Timed, Signals, Limited, Command, ProcessReaped
    <3> QED BY <3>2, <3>3, <3>4
  <2> QED BY <2>1, <2>2
<1>2. CASE QueryFails
  <2> USE <1>2 DEF QueryFails, CountFailure, Sleeps
  <2>1. queries' \in Seq({"failed", "succeeded"})
    BY DEF TypeOK
  <2>2. failures' \in 0 .. args.max_failures
        /\ (pc' # "over" => failures' < args.max_failures)
    BY DEF TypeOK
  <2>3. pc' \in {"over", "sleep"} /\ began' \in {began, now}
        /\ outcome' \in {"timed_out", "query_failed", outcome}
    OBVIOUS
  <2>4. TypeOK'
    BY <2>1, <2>2, <2>3 DEF TypeOK
  <2> QED BY <2>2, <2>3, <2>4 DEF Timed, Signals, Limited, Command, ProcessReaped
<1>3. CASE QuerySucceeds
  <2> USE <1>3 DEF QuerySucceeds, NoFailures
  <2>0. queries' \in Seq({"failed", "succeeded"})
    BY DEF TypeOK
  <2>1. CASE Remaining <= 0
    BY <2>0, <2>1 DEF TypeOK, Timed, Signals, Limited, Command, ProcessReaped
  <2>2. CASE ~(Remaining <= 0)
    <3> USE <2>2
    <3>1. alarm' \in 0 .. args.timeout /\ alarm' # Off
      BY DEF SetAlarm, Remaining, Timed, Off
    <3>2. /\ doing' = "evaluate" /\ previous' = handler /\ handler' = "limit"
          /\ pc' = "evaluate"
      BY DEF SetAlarm
    <3>3. TypeOK'
      BY <2>0, <3>1, <3>2 DEF TypeOK
    <3>4. Timed' /\ Signals' /\ ProcessReaped'
      BY <3>1, <3>2 DEF Timed, Signals, Limited, Command, ProcessReaped
    <3> QED BY <3>2, <3>3, <3>4
  <2> QED BY <2>1, <2>2
<1>4. CASE Propagates \/ Wake
  BY <1>4 DEF Propagates, Wake, TypeOK, Timed, Signals, Limited, Command, ProcessReaped
<1>5. CASE Evaluated
  <2> USE <1>5 DEF Evaluated, Sleeps
  <2>1. pc' \in {"over", "sleep"} /\ began' \in {began, now}
        /\ outcome' \in {"timed_out", "result", outcome}
    OBVIOUS
  <2> QED BY <2>1 DEF TypeOK, Timed, Signals, Limited, Command, ProcessReaped
<1>6. CASE Popen
  <2> USE <1>6 DEF Popen
  <2>1. /\ UNCHANGED <<args, now, doing, limits, began, slips, failures, queries, outcome>>
        /\ pc' \in {"opened", "disarm"} /\ child' \in {"running", child}
        /\ got' \in {"error", got}
    OBVIOUS
  <2>2. TypeOK'
    BY <2>1 DEF TypeOK, limits
  <2>3. Timed'
    BY DEF Timed, Limited, Command
  <2>4. Signals'
    BY DEF Signals, Limited, Command
  <2>5. ProcessReaped' /\ (pc' # "over" => failures' < args'.max_failures)
    BY DEF ProcessReaped
  <2> QED BY <2>2, <2>3, <2>4, <2>5
<1>7. CASE Communicate
  <2> USE <1>7 DEF Communicate
  <2>1. TypeOK'
    BY DEF TypeOK
  <2>2. Timed'
    BY DEF Timed, Limited, Command
  <2>3. Signals'
    BY DEF Signals, Limited, Command
  <2>4. ProcessReaped' /\ (pc' # "over" => failures' < args'.max_failures)
    BY DEF ProcessReaped
  <2> QED BY <2>1, <2>2, <2>3, <2>4
<1>8. CASE Communicated
  <2> USE <1>8 DEF Communicated
  <2>1. TypeOK'
    BY DEF TypeOK
  <2>2. Timed'
    BY DEF Timed, Limited, Command
  <2>3. Signals'
    BY DEF Signals, Limited, Command
  <2>4. ProcessReaped' /\ (pc' # "over" => failures' < args'.max_failures)
    BY DEF ProcessReaped
  <2> QED BY <2>1, <2>2, <2>3, <2>4
<1>9. CASE Kill \/ Reap
  <2> USE <1>9 DEF Kill, Reap
  <2>1. TypeOK'
    BY DEF TypeOK
  <2>2. Timed'
    BY DEF Timed, Limited, Command
  <2>3. Signals'
    BY DEF Signals, Limited, Command
  <2>4. ProcessReaped' /\ (pc' # "over" => failures' < args'.max_failures)
    BY DEF ProcessReaped
  <2> QED BY <2>1, <2>2, <2>3, <2>4
<1>10. CASE Evaluate
  <2> USE <1>10 DEF Evaluate
  <2>1. TypeOK'
    BY DEF TypeOK
  <2>2. Timed'
    BY DEF Timed, Limited, Command
  <2>3. Signals'
    BY DEF Signals, Limited, Command
  <2>4. ProcessReaped' /\ (pc' # "over" => failures' < args'.max_failures)
    BY DEF ProcessReaped
  <2> QED BY <2>1, <2>2, <2>3, <2>4
<1>11. CASE Disarm \/ Restore
  <2> USE <1>11 DEF Disarm, Restore
  <2>1. TypeOK'
    BY DEF TypeOK
  <2>2. Timed'
    BY DEF Timed, Limited, Command
  <2>3. Signals'
    BY DEF Signals, Limited, Command
  <2>4. ProcessReaped' /\ (pc' # "over" => failures' < args'.max_failures)
    BY DEF ProcessReaped
  <2> QED BY <2>1, <2>2, <2>3, <2>4
<1>12. CASE Expire
  <2> USE <1>12 DEF Expire
  <2>1. PICK left \in SUBSET {"running", "killed", "handler"} :
          /\ slips' = slips \cup {<<pc, it>> : it \in left}
          /\ pc \notin Places => left = {}
          /\ "running" \in left => pc \in {"popen", "opened", "kill"}
          /\ "killed" \in left => pc = "reap"
          /\ pc = "disarm" => "handler" \in left
    <3>1. CASE pc \in {"evaluate", "communicate"}
      <4>1. slips' = slips \cup {<<pc, it>> : it \in {}}
        BY <3>1
      <4> QED BY <3>1, <4>1
    <3>2. CASE pc = "popen"
      BY <3>2 DEF Places, Slips
    <3>3. CASE pc \in {"opened", "kill", "reap"}
      <4>1. {child} \ {"none"} \in SUBSET {"running", "killed", "handler"}
        BY DEF TypeOK
      <4>2. "killed" \in {child} \ {"none"} => pc = "reap"
        OBVIOUS
      <4> QED BY <3>3, <4>1, <4>2 DEF Places, Slips
    <3>4. CASE pc = "disarm"
      BY <3>4 DEF Places, Slips
    <3> QED BY <3>1, <3>2, <3>3, <3>4
  <2>2. child' \in {child, "none"} /\ alarm' = Off /\ got' = "expired"
    OBVIOUS
  <2>3. slips \subseteq slips' /\ slips' \in SUBSET (Places \X {"running", "killed", "handler"})
    BY <2>1 DEF TypeOK
  <2>4. TypeOK'
    BY <2>2, <2>3 DEF TypeOK
  <2>5. Timed'
    BY DEF Timed, Limited, Command
  <2>6. Signals'
    BY <2>1, <2>3 DEF Signals, Limited, Command, HandlerSlipped
  <2>7. ProcessReaped'
    BY <2>1 DEF ProcessReaped
  <2> QED BY <2>4, <2>5, <2>6, <2>7
<1>13. CASE Tick
  <2> USE <1>13 DEF Tick
  <2>1. now' = now + 1 /\ now' <= args.timeout
    <3>1. CASE pc \in {"popen", "evaluate", "communicate"}
      BY <3>1 DEF Due, Timed, TypeOK, Off
    <3>2. CASE pc = "sleep"
      BY <3>2 DEF SleepTime, Lesser, Timed
    <3> QED BY <3>1, <3>2
  <2> QED BY <2>1 DEF TypeOK, Timed, Signals, ProcessReaped
<1>14. CASE UNCHANGED vars
  BY <1>14 DEF vars, TypeOK, Timed, Signals, ProcessReaped
<1> QED BY <1>1, <1>2, <1>3, <1>4, <1>5, <1>6, <1>7, <1>8, <1>9, <1>10, <1>11, <1>12,
       <1>13, <1>14 DEF Next

THEOREM PollInvariant == Spec => []PInv
BY InitPInv, StepKeeps, PTL DEF Spec

\* The types of poll, and the bounds of its alarm and its count of failures.
THEOREM PollTypeCorrect == Spec => []TypeOK
<1>1. PInv => TypeOK
  BY DEF PInv
<1> QED BY <1>1, PollInvariant, PTL

\* poll is over at its deadline, for all timeouts and intervals.
THEOREM DeadlineCorrect == Spec => []EndsByDeadline
<1>1. PInv => EndsByDeadline
  BY DEF PInv, Timed, EndsByDeadline
<1> QED BY <1>1, PollInvariant, PTL

\* No process is left behind but by an alarm outside communicate, and none
\* running that has been killed.
THEOREM ReapedCorrect == Spec => []ProcessReaped
<1>1. PInv => ProcessReaped
  BY DEF PInv
<1> QED BY <1>1, PollInvariant, PTL

\* The caller has SIGALRM and the timer back.
THEOREM SignalsCorrect == Spec => []SignalsReturned
<1>1. PInv => SignalsReturned
  BY DEF PInv, SignalsReturned, Timed, Signals, Limited, Command
<1> QED BY <1>1, PollInvariant, PTL

-----------------------------------------------------------------------------
(* The failures counted are those at the end of the history.               *)

Row ==
  /\ failures <= Len(queries)
  /\ \A i \in 0 .. failures - 1 : queries[Len(queries) - i] = "failed"
  /\ failures < Len(queries) => queries[Len(queries) - failures] = "succeeded"

Told ==
  /\ pc # "over" => outcome = "none"
  /\ pc = "over" => (outcome = "query_failed" <=> RowOfFailures /\ now < args.timeout)

FInv == (pc # "over" => Row) /\ Told

\* While poll goes on, no row of failures is full.
LEMMA RowNotFull ==
  ASSUME PInv, Row, failures < args.max_failures
  PROVE  ~RowOfFailures
<1> SUFFICES ASSUME RowOfFailures PROVE FALSE
  OBVIOUS
<1> USE Numbers DEF PInv
<1>1. failures \in 0 .. args.max_failures - 1 /\ Len(queries) >= args.max_failures
  BY DEF RowOfFailures
<1>2. queries[Len(queries) - failures] = "failed"
  BY <1>1 DEF RowOfFailures
<1>3. Len(queries) \in Nat
  BY DEF TypeOK
<1> QED BY <1>1, <1>2, <1>3 DEF Row

\* One more failure at the end of a row makes it one longer.
LEMMA OneMore ==
  ASSUME NEW q \in Seq({"failed", "succeeded"}), NEW n \in Nat, n <= Len(q),
         \A i \in 0 .. n - 1 : q[Len(q) - i] = "failed"
  PROVE  \A i \in 0 .. n : LET r == Append(q, "failed")
                           IN  r[Len(r) - i] = "failed"
<1> DEFINE r == Append(q, "failed")
<1> SUFFICES ASSUME NEW i \in 0 .. n PROVE r[Len(r) - i] = "failed"
  OBVIOUS
<1>1. Len(q) \in Nat /\ Len(r) = Len(q) + 1 /\ r[Len(q) + 1] = "failed"
  OBVIOUS
<1>2. ASSUME NEW k \in 1 .. Len(q) PROVE r[k] = q[k]
  OBVIOUS
<1>3. CASE i = 0
  BY <1>1, <1>3
<1>4. CASE i # 0
  <2>1. i - 1 \in 0 .. n - 1 /\ Len(q) - (i - 1) \in 1 .. Len(q)
    BY <1>1, <1>4
  <2>2. r[Len(q) - (i - 1)] = q[Len(q) - (i - 1)]
    BY <2>1, <1>2
  <2>3. q[Len(q) - (i - 1)] = "failed"
    BY <2>1
  <2>4. Len(r) - i = Len(q) - (i - 1)
    BY <1>1, <2>1
  <2> HIDE DEF r
  <2> QED BY <2>2, <2>3, <2>4
<1> QED BY <1>3, <1>4

LEMMA StepKeepsRow == PInv /\ FInv /\ [Next]_vars => FInv'
<1> SUFFICES ASSUME PInv, FInv, [Next]_vars PROVE FInv'
  OBVIOUS
<1> USE Numbers DEF limits, process, Goto, Returns
<1>p. TypeOK /\ (pc # "over" => failures < args.max_failures)
  BY DEF PInv
<1>q. queries \in Seq({"failed", "succeeded"}) /\ Len(queries) \in Nat
  BY <1>p DEF TypeOK
\* Most steps leave the history and the end of poll alone.
<1>1. ASSUME pc # "over", pc' # "over", UNCHANGED <<failures, queries, outcome>>
      PROVE  FInv'
  BY <1>1 DEF FInv, Row, Told
\* Others end it without a further query.
<1>2. ASSUME pc # "over", pc' = "over", outcome' # "query_failed",
             UNCHANGED <<args, now, failures, queries>>
      PROVE  FInv'
  <2>1. ~RowOfFailures
    BY <1>2, <1>p, RowNotFull DEF FInv
  <2>2. ~RowOfFailures'
    BY <2>1, <1>2 DEF RowOfFailures
  <2> QED BY <1>2, <2>2 DEF FInv, Told
<1>3. CASE BeginQuery
  <2>1. CASE Remaining <= 0
    BY <1>3, <1>2, <2>1 DEF BeginQuery
  <2>2. CASE ~(Remaining <= 0)
    BY <1>3, <1>1, <2>2 DEF BeginQuery
  <2> QED BY <2>1, <2>2
<1>4. CASE QueryFails
  <2> USE <1>4, <1>p, <1>q DEF QueryFails, CountFailure, Sleeps
  <2>0. pc = "limited" /\ queries' = Append(queries, "failed") /\ Row /\ UNCHANGED <<args, now>>
    BY DEF FInv
  <2>1. Len(queries') = Len(queries) + 1 /\ queries'[Len(queries')] = "failed"
        /\ \A i \in 1 .. Len(queries) : queries'[i] = queries[i]
    BY <2>0
  <2>2. CASE Remaining <= 0
    BY <2>0, <2>2 DEF FInv, Told, Remaining
  <2>3. CASE ~(Remaining <= 0)
    <3>1. failures' = failures + 1 /\ now' < args'.timeout
      BY <2>3, <2>0 DEF Remaining
    <3>2. Row'
      <4>1. failures' <= Len(queries')
        BY <3>1, <2>0, <2>1 DEF Row
      <4>2. ASSUME NEW i \in 0 .. failures' - 1
            PROVE  queries'[Len(queries') - i] = "failed"
        <5>1. i \in 0 .. failures
          BY <3>1
        <5> QED BY <5>1, <2>0, <1>q, OneMore DEF Row
      <4>3. ASSUME failures' < Len(queries')
            PROVE  queries'[Len(queries') - failures'] = "succeeded"
        <5>1. failures < Len(queries) /\ Len(queries') - failures' = Len(queries) - failures
          BY <4>3, <3>1, <2>1
        <5>2. queries[Len(queries) - failures] = "succeeded"
          BY <5>1, <2>0 DEF Row
        <5> QED BY <5>1, <5>2, <2>1
      <4> QED BY <4>1, <4>2, <4>3 DEF Row
    <3>3. CASE failures' >= args.max_failures
      <4>1. pc' = "over" /\ outcome' = "query_failed" /\ failures' = args'.max_failures
        BY <2>3, <3>1, <3>3, <2>0
      <4>2. RowOfFailures'
        BY <3>2, <4>1, <2>0, <2>1 DEF Row, RowOfFailures
      <4> QED BY <4>1, <4>2, <3>1 DEF FInv, Told
    <3>4. CASE ~(failures' >= args.max_failures)
      <4>1. pc' = "sleep" /\ outcome' = outcome
        BY <2>3, <3>4
      <4> QED BY <4>1, <3>2, <2>0 DEF FInv, Told
    <3> QED BY <3>3, <3>4
  <2> QED BY <2>2, <2>3
<1>5. CASE QuerySucceeds
  <2> USE <1>5, <1>p, <1>q DEF QuerySucceeds, NoFailures
  <2>1. Row'
    <3>1. Len(queries') = Len(queries) + 1 /\ queries'[Len(queries')] = "succeeded"
          /\ failures' = 0
      OBVIOUS
    <3> QED BY <3>1 DEF Row
  <2>2. pc # "over" /\ outcome = "none" /\ UNCHANGED <<args, now>>
    BY DEF FInv, Told
  <2>3. CASE Remaining <= 0
    <3>1. pc' = "over" /\ outcome' = "timed_out" /\ ~(now' < args'.timeout)
      BY <2>2, <2>3 DEF Remaining
    <3> QED BY <3>1 DEF FInv, Told
  <2>4. CASE ~(Remaining <= 0)
    <3>1. pc' = "evaluate" /\ outcome' = "none"
      BY <2>2, <2>4
    <3> QED BY <2>1, <3>1 DEF FInv, Told
  <2> QED BY <2>3, <2>4
<1>6. CASE Evaluated
  <2>1. CASE pc' = "over"
    BY <1>6, <1>2, <2>1 DEF Evaluated, Sleeps
  <2>2. CASE pc' # "over"
    BY <1>6, <1>1, <2>2 DEF Evaluated, Sleeps
  <2> QED BY <2>1, <2>2
<1>7. CASE Propagates
  BY <1>7, <1>2 DEF Propagates
<1>8. CASE Wake \/ Popen \/ Communicate \/ Communicated \/ Kill \/ Reap
           \/ Evaluate \/ Disarm \/ Restore
  BY <1>8, <1>1 DEF Wake, Popen, Communicate, Communicated, Kill, Reap, Evaluate,
                    Disarm, Restore
<1>9. CASE Expire
  BY <1>9, <1>1 DEF Expire
<1>10. CASE Tick
  BY <1>10, <1>1 DEF Tick
<1>11. CASE UNCHANGED vars
  BY <1>11 DEF vars, FInv, Row, Told, RowOfFailures
<1> QED BY <1>3, <1>4, <1>5, <1>6, <1>7, <1>8, <1>9, <1>10, <1>11 DEF Next

\* QueryFailed means as many failed queries in a row as the limit says.
THEOREM FailuresCorrect == Spec => []FailureIsEarned
<1>1. Init => FInv
  BY InitPInv, Numbers DEF Init, FInv, Row, Told, PInv
<1>2. PInv /\ FInv => FailureIsEarned
  BY RowNotFull, Numbers DEF PInv, FInv, Told, FailureIsEarned
<1> QED BY <1>1, <1>2, InitPInv, StepKeeps, StepKeepsRow, PollInvariant, PTL DEF Spec

\* poll leaves neither process nor alarm nor handler behind.
THEOREM NothingLeftCorrect == Spec => []NothingLeftBehind
<1>1. ProcessReaped /\ SignalsReturned => NothingLeftBehind
  BY DEF NothingLeftBehind
<1> QED BY <1>1, ReapedCorrect, SignalsCorrect, PTL
=============================================================================
