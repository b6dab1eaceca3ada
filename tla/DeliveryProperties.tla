------------------------- MODULE DeliveryProperties --------------------------
(***************************************************************************)
(* What the exit codes of the helper and the service's retries promise:    *)
(* docs/clients.md, "Delivery and recovery".  OneTurnAtMost and            *)
(* RetriedMeansNoTurn are about helpers that no foreign signal ended: the  *)
(* service takes the end of one by a signal for a failure and retries.     *)
(***************************************************************************)
EXTENDS Delivery

\* Every variable has its type, and the attempts their limit.
TypeOK ==
  /\ pc \in {"check", "begun", "attempting", "backoff", "over"}
  /\ attempt \in 0 .. MaxAttempts
  /\ note \in Notes /\ cancelled \in BOOLEAN
  /\ helper \in Methods \cup {"none", "connecting", "ended"}
  /\ exit \in Exits \cup {"none"} /\ asked \in BOOLEAN /\ answer \in Answers
  /\ thread \in Statuses /\ turns \in Nat /\ late \in BOOLEAN
  /\ kills \in 0 .. Kills

\* A request that can still start a turn.
Pending == late \/ (asked /\ helper = "turn/start")

\* All attempts together start one turn at most, those included that are still
\* under way or that a lost connection left behind ("unconfirmed ... is never
\* automatically replayed").
OneTurnAtMost == kills = 0 => turns <= 1 /\ ~(turns = 1 /\ Pending)

\* Before every retry, and after a definite failure, no turn was started and
\* none can still be: a retry never wakes twice (_deliver's classification of
\* EXIT_UNAVAILABLE, 75 and every other code).
RetriedMeansNoTurn ==
  kills = 0 /\ (pc \in {"check", "begun", "backoff"}
                \/ (pc = "over" /\ note \notin {"started", "unconfirmed"}))
    => turns = 0 /\ ~Pending

\* notification: started means that a turn was started.
StartedMeansTurn == note = "started" => turns > 0

\* What the recorded notification says of the thread is true, either way.
TruthfulVerdicts == RetriedMeansNoTurn /\ StartedMeansTurn
=============================================================================
