--------------------------- MODULE LoopProperties ---------------------------
(***************************************************************************)
(* What a loop promises (docs/loop.md, docs/waitd.md) while several        *)
(* clients, the service's own repairs, its crashes and its registry's      *)
(* limit are at work at once.                                              *)
(***************************************************************************)
EXTENDS Loop

Registries == [loops : BOOLEAN, active : SUBSET Timers, done : SUBSET Watches,
               at : [Watches -> Nat]]

\* Every variable has its type; phase and wait of the file go together.
TypeOK ==
  /\ loop \in [status : {"absent", "active", "completed", "cancelled"},
               phase : {"none", "running", "waiting"}, iteration : Nat,
               watch_id : 0 .. Limit, last_event : 0 .. Limit]
  /\ loop.phase = "none" <=> loop.status # "active"
  /\ loop.watch_id # 0 <=> loop.phase = "waiting"
  /\ ids \in Nat
  /\ late \in BOOLEAN /\ up \in BOOLEAN
  /\ goal \in {"open", "closed", "over"}
  /\ registry \in Registries /\ disk \in Registries
  /\ tasks \subseteq Timers
  /\ requests \in
       [Actors ->
          [pc : {"idle", "queued", "looked", "register", "ran", "cancelling"},
           op : Ops, id : 0 .. Limit, open : BOOLEAN, served : BOOLEAN]]
  /\ faults \in Nat /\ crashes \in Nat
  /\ begun \in [Timers -> Nat] /\ ended \subseteq Timers /\ unread \in BOOLEAN

\* A timer whose end the registry has once recorded is never registered or
\* restored again, so that its wake is not repeated: though its loop may wait
\* for it long after, other watches push ended records out of the registry,
\* saves fail, the service crashes, and repairs register the timer of any loop
\* that waits and has no record (waitd.py:254).  Only a save that could not read
\* the loop's file gives the promise up (waitd.py:259).
EndedTimerRests ==
  ~unread => \A i \in ended : i \notin registry.active \cup disk.active

\* Late and duplicate begins, of any client, count no iteration twice: the
\* iterations are the first one and one for each timer that was consumed.
IterationsCounted ==
  /\ \A i \in Timers : begun[i] <= 1
  /\ loop.status # "absent" =>
       loop.iteration = 1 + Cardinality({i \in Timers : begun[i] = 1})

\* The loop never exceeds max_iterations, whichever way its commands come.
WithinLimit == loop.iteration <= Limit

\* What every state of a loop keeps: the types, the count and the limit.
LoopInvariant == TypeOK /\ IterationsCounted /\ WithinLimit

\* A loop that ended never runs or waits again: a late begin, complete or
\* expire, a restore or a repair does not revive it (docs/loop.md:89).
EndIsFinal ==
  [][loop.status \in {"completed", "cancelled"} =>
       loop'.status \in {"completed", "cancelled"} /\ loop'.iteration = loop.iteration]_vars

\* The state-commit/timer-registration window (waitd.py:357): a wait that was
\* committed is given its timer when the command that committed it is still
\* being served, and when the service was down and comes back, unless a save
\* fails or a command is killed.
Repairing == ~up \/ Busy({"ran"}) # {}
Untimed == /\ loop.status = "active" /\ loop.phase = "waiting"
           /\ loop.watch_id \notin tasks \cup registry.done
TimerRegistered ==
  (Untimed /\ Repairing /\ faults = 0) ~> (~Untimed \/ faults > 0)

\* A loop whose goal node is over is cancelled once the service reconciles,
\* also when the service crashes between the goal's command and the repair
\* (again unless something fails).
MonitorEnds ==
  (loop.status = "active" /\ ~goal_is_open /\ Repairing /\ faults = 0)
    ~> (loop.status # "active" \/ goal_is_open \/ faults > 0)

\* docs/loop.md:91: run show to reconcile, "a missing registry entry is
\* recreated": a reconciliation that reports nothing leaves the timer of a
\* waiting loop running, or ended.
ReconciledMeansTimed ==
  [][\A a \in Actors :
       /\ requests[a].pc = "ran" /\ requests'[a].pc = "idle" /\ up'
       /\ faults' = faults
       /\ loop'.phase = "waiting"
       => loop'.watch_id \in tasks' \cup registry'.done]_vars
=============================================================================
