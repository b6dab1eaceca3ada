--------------------------- MODULE DeliveryProofs ----------------------------
(***************************************************************************)
(* The safety properties of a delivery, for every number of attempts and   *)
(* of helpers that are killed.  The exit code is what the proof turns on:  *)
(* it ties what the service decides by to what the app-server was asked.   *)
(***************************************************************************)
EXTENDS DeliveryProperties, TLAPS

\* An attempt is left before each check; only a live helper has a connection.
Course ==
  /\ pc \in {"check", "backoff"} => attempt < MaxAttempts
  /\ pc = "attempting" <=> helper # "none"
  /\ helper \in {"none", "connecting", "ended"} => ~asked /\ answer = "none"
  /\ asked => answer = "none"
  /\ helper = "ended" => exit \in Exits

\* A confirmation read, exited with or recorded is of a turn that was started.
Confirmed ==
  /\ helper = "turn/start" /\ answer \in Statuses => turns > 0
  /\ helper = "ended" /\ exit = "started" => turns > 0
  /\ note = "started" => turns > 0

NoTurn == turns = 0 /\ ~late

\* Where a retry follows or may follow, no turn has been or can be started.
Unkilled ==
  /\ pc \in {"check", "begun", "backoff"} => NoTurn
  /\ pc = "over" /\ note \notin {"started", "unconfirmed"} => NoTurn
  /\ helper \in {"connecting", "initialize", "thread/read", "thread/resume"} => NoTurn
  /\ helper = "turn/start" /\ (asked \/ answer = "error") => NoTurn
  /\ helper = "turn/start" => ~late
  /\ helper = "ended" /\ exit \in {"invalid", "unavailable", "busy"} => NoTurn
  /\ helper = "ended" => exit # "signal"
  /\ turns <= 1 /\ ~(turns = 1 /\ late)

IInv == TypeOK /\ Course /\ Confirmed /\ (kills = 0 => Unkilled)

\* The ends of a helper keep the invariant if the exit tells no more than the
\* request and the answer did.
LEMMA EndsKeeps ==
  ASSUME IInv, Running, NEW how \in Exits, Ends(how), kills' \in 0 .. Kills,
         how = "started" => turns > 0,
         kills' = 0 => kills = 0 /\ how # "signal"
                       /\ (how \in {"invalid", "unavailable", "busy"}
                             => NoTurn /\ ~(asked /\ helper = "turn/start"))
  PROVE  IInv'
<1> USE DEF IInv, Running, Ends, daemon, Methods
<1>1. TypeOK'
  BY DEF TypeOK, Exits, Answers
<1>2. Course'
  BY DEF Course, TypeOK
<1>3. Confirmed'
  BY DEF Confirmed, TypeOK
<1>4. ASSUME kills' = 0 PROVE Unkilled'
  <2>1. kills = 0 /\ Unkilled /\ how # "signal"
    BY <1>4
  <2>2. turns <= 1 /\ ~late /\ (asked /\ helper = "turn/start" => turns = 0)
    BY <2>1 DEF Unkilled, NoTurn, TypeOK
  <2>3. pc = "attempting" /\ pc' = "attempting" /\ helper' = "ended"
    BY DEF Course
  <2>4. turns' <= 1 /\ ~(turns' = 1 /\ late')
    BY <2>2 DEF TypeOK
  <2>5. how \in {"invalid", "unavailable", "busy"} => NoTurn'
    BY <1>4 DEF NoTurn, TypeOK
  <2> QED BY <2>1, <2>3, <2>4, <2>5 DEF Unkilled
<1> QED BY <1>1, <1>2, <1>3, <1>4

\* A further request starts no turn by itself.
LEMMA AskKeeps ==
  ASSUME IInv, NEW method \in Methods, Ask(method), Running, helper # "turn/start"
  PROVE  IInv'
<1> USE DEF IInv, Running, Ask, daemon, server, Methods
<1>1. TypeOK'
  BY DEF TypeOK, Exits, Answers
<1>2. Course'
  BY DEF Course, TypeOK
<1>3. Confirmed'
  BY DEF Confirmed, TypeOK, Statuses
<1>4. ASSUME kills' = 0 PROVE Unkilled'
  <2>1. Unkilled /\ NoTurn
    BY <1>4 DEF Unkilled
  <2> QED BY <2>1 DEF Unkilled, NoTurn, Course
<1> QED BY <1>1, <1>2, <1>3, <1>4

LEMMA InitInv == Init => IInv
<1> SUFFICES ASSUME Init PROVE IInv
  OBVIOUS
<1> USE DeliveryAssumption DEF Init
<1>0. /\ ~asked /\ asked \in BOOLEAN /\ ~late /\ late \in BOOLEAN
      /\ cancelled \in BOOLEAN
  BY Zenon
<1>1. TypeOK
  BY <1>0 DEF TypeOK, Notes, Methods, Answers
<1>2. Course
  BY <1>0 DEF Course
<1>3. Confirmed /\ Unkilled
  BY <1>0 DEF Confirmed, Unkilled, NoTurn
<1> QED BY <1>1, <1>2, <1>3 DEF IInv

LEMMA DaemonKeeps == IInv /\ DaemonStep => IInv'
<1> SUFFICES ASSUME IInv, DaemonStep PROVE IInv'
  OBVIOUS
<1> USE DeliveryAssumption DEF IInv, wire, server
<1>1. CASE GiveUp
  BY <1>1 DEF GiveUp, TypeOK, Course, Confirmed, Unkilled, NoTurn, Notes
<1>2. CASE BeginAttempt
  BY <1>2 DEF BeginAttempt, TypeOK, Course, Confirmed, Unkilled, NoTurn, Notes
<1>3. CASE StartHelper
  BY <1>3 DEF StartHelper, TypeOK, Course, Confirmed, Unkilled, NoTurn
<1>4. CASE CannotStart
  BY <1>4 DEF CannotStart, TypeOK, Course, Confirmed, Unkilled, NoTurn, Notes
<1>5. CASE EndAttempt
  <2> USE <1>5 DEF EndAttempt
  <2>1. exit \in Exits /\ pc = "attempting" /\ ~asked /\ answer = "none"
    BY DEF Course
  <2>2. /\ note' = "started" <=> exit = "started"
        /\ note' = "unconfirmed" <=> exit \in {"unconfirmed", "timeout"}
        /\ note' \in Notes
    BY <2>1 DEF Verdict, Exits, Notes
  <2>3. TypeOK'
    BY <2>2 DEF TypeOK, FinalVerdicts
  <2>4. Course'
    BY <2>1 DEF Course, TypeOK, Exhausted
  <2>5. Confirmed'
    BY <2>2 DEF Confirmed
  <2>6. ASSUME kills' = 0 PROVE Unkilled'
    <3>1. Unkilled
      BY <2>6
    <3>2. exit \notin {"started", "unconfirmed", "timeout"} => NoTurn'
      BY <2>1, <3>1 DEF Unkilled, NoTurn, Exits
    <3>3. pc' \in {"over", "backoff"}
          /\ (pc' = "backoff" => note' \notin {"started", "unconfirmed"})
      BY DEF FinalVerdicts
    <3> QED BY <2>2, <3>1, <3>2, <3>3 DEF Unkilled
  <2> QED BY <2>3, <2>4, <2>5, <2>6
<1>6. CASE EndBackoff
  BY <1>6 DEF EndBackoff, TypeOK, Course, Confirmed, Unkilled, NoTurn
<1> QED BY <1>1, <1>2, <1>3, <1>4, <1>5, <1>6 DEF DaemonStep

LEMMA HelperKeeps == IInv /\ (HelperStep \/ KillHelper) => IInv'
<1> SUFFICES ASSUME IInv, HelperStep \/ KillHelper PROVE IInv'
  OBVIOUS
<1> USE DEF IInv
<1> kills \in 0 .. Kills /\ kills \in Nat
  BY DeliveryAssumption DEF TypeOK
<1>a. kills = 0 => Unkilled
  OBVIOUS
<1>1. CASE Connect
  <2>1. CASE Ask("initialize")
    BY <1>1, <2>1, AskKeeps DEF Connect, Running, Methods
  <2>2. CASE Ends("invalid") /\ UNCHANGED kills
    BY <1>1, <2>2, EndsKeeps, <1>a DEF Connect, Running, Exits, Unkilled
  <2> QED BY <1>1, <2>1, <2>2 DEF Connect
<1>2. CASE Initialized
  BY <1>2, AskKeeps DEF Initialized, Running, Methods
<1>3. CASE StatusRead
  <2>1. CASE Ask("thread/resume") \/ Ask("turn/start")
    BY <1>3, <2>1, AskKeeps DEF StatusRead, Running, Methods
  <2>2. CASE Ends("busy") /\ UNCHANGED kills
    BY <1>3, <2>2, EndsKeeps, <1>a DEF StatusRead, Running, Methods, Exits, Unkilled
  <2>3. CASE Ends("invalid") /\ UNCHANGED kills
    BY <1>3, <2>3, EndsKeeps, <1>a DEF StatusRead, Running, Methods, Exits, Unkilled
  <2> QED BY <1>3, <2>1, <2>2, <2>3 DEF StatusRead
<1>4. CASE TurnStarted
  BY <1>4, EndsKeeps, <1>a DEF TurnStarted, Running, Methods, Exits, Confirmed
<1>5. CASE Rejected
  <2>1. ~asked /\ (kills = 0 => NoTurn)
    BY <1>5, <1>a DEF Rejected, Course, Unkilled, Methods
  <2> QED BY <1>5, <2>1, EndsKeeps DEF Rejected, Running, Exits
<1>6. CASE NotUnderstood
  <2>1. helper # "turn/start" /\ kills = 0 => NoTurn
    BY <1>6, <1>a DEF NotUnderstood, Unkilled, Methods
  <2>2. helper = "turn/start" => Ends("unconfirmed")
    BY <1>6 DEF NotUnderstood
  <2>3. helper # "turn/start" => Ends("invalid")
    BY <1>6 DEF NotUnderstood
  <2> QED BY <1>6, <2>1, <2>2, <2>3, EndsKeeps DEF NotUnderstood, Running, Exits
<1>7. CASE Break
  <2>1. helper # "turn/start" /\ kills = 0 => NoTurn
    BY <1>7, <1>a DEF Break, Running, Unkilled, Methods
  <2>2. helper = "turn/start" => Ends("unconfirmed")
    BY <1>7 DEF Break
  <2>3. helper # "turn/start" => Ends("unavailable")
    BY <1>7 DEF Break
  <2> QED BY <1>7, <2>1, <2>2, <2>3, EndsKeeps DEF Break, Exits
<1>8. CASE TimeOut
  BY <1>8, EndsKeeps DEF TimeOut, Exits
<1>9. CASE KillHelper
  <2>1. kills' \in 0 .. Kills /\ kills' # 0
    BY <1>9, DeliveryAssumption DEF KillHelper
  <2> QED BY <1>9, <2>1, EndsKeeps DEF KillHelper, Exits
<1> QED BY <1>1, <1>2, <1>3, <1>4, <1>5, <1>6, <1>7, <1>8, <1>9 DEF HelperStep

LEMMA ServerKeeps == IInv /\ (ServerStep \/ Cancel) => IInv'
<1> SUFFICES ASSUME IInv, ServerStep \/ Cancel PROVE IInv'
  OBVIOUS
<1> USE DEF IInv, daemon
<1>1. ASSUME NEW s \in Statuses, Answered(s), helper # "turn/start", helper \in Methods,
             thread' \in Statuses
      PROVE  IInv'
  <2> USE <1>1 DEF Answered
  <2>0. ~asked' /\ asked' \in BOOLEAN
    BY Zenon
  <2>1. TypeOK'
    BY <2>0 DEF TypeOK, Answers
  <2>2. Course'
    BY <2>0 DEF Course, Methods
  <2>3. Confirmed'
    BY DEF Confirmed
  <2>4. ASSUME kills' = 0 PROVE Unkilled'
    <3>1. Unkilled
      BY <2>4
    <3>2. helper' = helper /\ helper # "turn/start"
      OBVIOUS
    <3> QED BY <2>0, <3>1, <3>2 DEF Unkilled, NoTurn
  <2> QED BY <2>1, <2>2, <2>3, <2>4
<1>2. CASE HandleInitialize
  BY <1>2, <1>1 DEF HandleInitialize, Methods, Statuses, TypeOK
<1>3. CASE HandleRead
  BY <1>3, <1>1 DEF HandleRead, Methods, TypeOK
<1>4. CASE HandleResume
  <2>1. thread' \in Statuses
    BY <1>4 DEF HandleResume, TypeOK
  <2> QED BY <1>4, <1>1, <2>1 DEF HandleResume, Methods
<1>5. CASE HandleStart
  <2> USE <1>5 DEF HandleStart
  <2>0. ~asked' /\ asked' \in BOOLEAN
    BY Zenon
  <2>1. TypeOK'
    BY <2>0 DEF TypeOK, Answers, Statuses
  <2>2. Course'
    BY <2>0 DEF Course, Methods
  <2>3. Confirmed'
    BY DEF Confirmed, TypeOK, Statuses
  <2>4. ASSUME kills' = 0 PROVE Unkilled'
    <3>1. Unkilled /\ turns = 0 /\ ~late /\ ~late' /\ ~asked'
      BY <2>0, <2>4 DEF Unkilled, NoTurn
    <3>2. pc' = "attempting" /\ helper' = "turn/start"
      BY DEF Course
    <3>3. turns' <= 1 /\ (answer' = "error" => turns' = 0)
      BY <3>1
    <3> QED BY <3>1, <3>2, <3>3 DEF Unkilled, NoTurn
  <2> QED BY <2>1, <2>2, <2>3, <2>4
<1>6. CASE HandleLate
  <2> USE <1>6 DEF HandleLate, wire
  <2>0. late /\ ~late' /\ late' \in BOOLEAN
    BY Zenon
  <2>1. TypeOK'
    BY <2>0 DEF TypeOK, Statuses
  <2>2. Course' /\ Confirmed'
    BY DEF Course, Confirmed, TypeOK
  <2>3. ASSUME kills' = 0 PROVE Unkilled'
    <3>1. Unkilled
      BY <2>3
    <3>2. turns = 0
      BY <2>0, <3>1 DEF Unkilled, TypeOK
    <3>3. helper # "turn/start" \/ ~late
      BY <3>1 DEF Unkilled
    <3>4. ~(helper' = "turn/start") /\ ~late' /\ turns' <= 1
      BY <2>0, <3>2, <3>3
    <3>5. /\ pc' \notin {"check", "begun", "backoff"}
          /\ ~(pc' = "over" /\ note' \notin {"started", "unconfirmed"})
          /\ helper' \notin {"connecting", "initialize", "thread/read", "thread/resume"}
          /\ ~(helper' = "ended" /\ exit' \in {"invalid", "unavailable", "busy"})
          /\ ~(helper' = "ended" /\ exit' = "signal")
      BY <2>0, <3>1 DEF Unkilled, NoTurn
    <3> QED BY <3>4, <3>5 DEF Unkilled
  <2> QED BY <2>1, <2>2, <2>3
<1>7. CASE ThreadMoves
  BY <1>7 DEF ThreadMoves, wire, TypeOK, Course, Confirmed, Unkilled, NoTurn
<1>8. CASE Cancel
  BY <1>8 DEF Cancel, wire, server, TypeOK, Course, Confirmed, Unkilled, NoTurn
<1> QED BY <1>2, <1>3, <1>4, <1>5, <1>6, <1>7, <1>8 DEF ServerStep

LEMMA StutterKeeps == IInv /\ UNCHANGED vars => IInv'
BY DEF IInv, vars, daemon, wire, server, TypeOK, Course, Confirmed, Unkilled, NoTurn

THEOREM DeliveryInvariant == Spec => []IInv
<1>1. IInv /\ [Next]_vars => IInv'
  BY DaemonKeeps, HelperKeeps, ServerKeeps, StutterKeeps DEF Next
<1> QED BY <1>1, InitInv, PTL DEF Spec

\* The types of a delivery, and the limit of its attempts (_deliver).
THEOREM DeliveryTypeCorrect == Spec => []TypeOK
<1>1. IInv => TypeOK
  BY DEF IInv
<1> QED BY <1>1, DeliveryInvariant, PTL

\* One turn at most, whatever is lost, rejected, delayed or timed out.
THEOREM OneTurnCorrect == Spec => []OneTurnAtMost
<1>1. IInv => OneTurnAtMost
  BY DEF IInv, OneTurnAtMost, Unkilled, NoTurn, Pending, TypeOK
<1> QED BY <1>1, DeliveryInvariant, PTL

\* A retry, and a definite failure, follow only on attempts without a turn.
THEOREM RetryCorrect == Spec => []RetriedMeansNoTurn
<1>1. IInv => RetriedMeansNoTurn
  BY DEF IInv, RetriedMeansNoTurn, Unkilled, NoTurn, Pending, Course
<1> QED BY <1>1, DeliveryInvariant, PTL

\* What is recorded as started was started, kills or not.
THEOREM StartedCorrect == Spec => []StartedMeansTurn
<1>1. IInv => StartedMeansTurn
  BY DEF IInv, StartedMeansTurn, Confirmed
<1> QED BY <1>1, DeliveryInvariant, PTL

\* The recorded notification is true of the thread, whether it says that a
\* turn was started or that one can be asked for again.
THEOREM VerdictsCorrect == Spec => []TruthfulVerdicts
<1>1. RetriedMeansNoTurn /\ StartedMeansTurn => TruthfulVerdicts
  BY DEF TruthfulVerdicts
<1> QED BY <1>1, RetryCorrect, StartedCorrect, PTL
=============================================================================
