---------------------------- MODULE WatchProofs ----------------------------
(***************************************************************************)
(* What a watcher guarantees for every bound on attempts, failures and     *)
(* crashes.  Each property follows from an inductive strengthening stated  *)
(* in WatchProperties; the lemmas that a step keeps it have one case per   *)
(* action.                                                                 *)
(***************************************************************************)
EXTENDS WatchProperties, TLAPS

-----------------------------------------------------------------------------
(* The type invariant: one lemma per shared step, then one case per action. *)

\* No attempt and one attempt are within the limit.
LEMMA AttemptNumbers == 0 \in 0 .. MaxAttempts /\ 1 \in 0 .. MaxAttempts
BY WatchAssumption

\* A result without a delivery is a result.
LEMMA FreshIsResult == ASSUME NEW e \in Events PROVE Fresh(e) \in Results
BY WatchAssumption DEF Fresh, Results, Notes

\* So is the record of a watch nobody submitted.
LEMMA AbsentIsRecord ==
  ASSUME NEW mode \in Modes PROVE Absent(mode) \in Records
BY FreshIsResult DEF Absent, Records, NoResult, Events, FirstPhase, Phases, Codes, States

\* The idle write has its type.
LEMMA NoIOTyped == NoIO \in IOs
BY AbsentIsRecord DEF NoIO, IOs, Modes, Continuations

\* The initial states are typed.
LEMMA Init1 == Init => TypeOK
<1> SUFFICES ASSUME Init PROVE TypeOK
  OBVIOUS
<1>1. args.mode \in Modes
  BY DEF Init, Args
<1>2. owner \in {"none", "prepared", "active", "gone"}
  BY <1>1 DEF Init, Modes
<1>3. mem \in Records /\ disk \in Records
  BY <1>1, AbsentIsRecord DEF Init
<1>4. log \in Results /\ res \in Results
  BY FreshIsResult DEF Init, NoResult, Events
<1>5. io \in IOs
  BY NoIOTyped DEF Init
<1>6. faults \in Faults
  BY WatchAssumption DEF Init, Faults
<1>7. QED
  BY <1>2, <1>3, <1>4, <1>5, <1>6 DEF Init, TypeOK, IOs, Labels, Codes, Programs

\* result.update(...) keeps types, shared object or not.
LEMMA SetTyped ==
  ASSUME TypeOK, NEW r \in Results, SetResult(r)
  PROVE  res' \in Results /\ mem' \in Records
BY DEF TypeOK, SetResult, Records

\* _update_record starts a typed write.
LEMMA UpdateTyped ==
  ASSUME NEW rec \in Records, NEW then \in Continuations, UpdateRecord(rec, then)
  PROVE  io' \in IOs /\ pc' \in Labels
BY DEF UpdateRecord, IOs, Labels, Continuations

\* So does _persist_result.
LEMMA PersistTyped ==
  ASSUME TypeOK, NEW r \in Results, NEW p \in Phases, NEW c \in Codes,
         NEW then \in Continuations, Persist(r, p, c, then)
  PROVE  res' \in Results /\ mem' \in Records /\ io' \in IOs /\ pc' \in Labels
<1>1. res' \in Results /\ mem' \in Records
  BY SetTyped DEF Persist
<1>2. [mem EXCEPT !.result = r, !.phase = p, !.code = c] \in Records
  BY DEF TypeOK, Records
<1>3. QED
  BY <1>1, <1>2 DEF Persist, IOs, Labels, Continuations

\* So does its form inside _deliver.
LEMMA DeliveryTyped ==
  ASSUME TypeOK, NEW r \in Results, NEW then \in Continuations,
         PersistDelivery(r, then)
  PROVE  res' \in Results /\ mem' \in Records /\ io' \in IOs /\ pc' \in Labels
BY PersistTyped DEF PersistDelivery, TypeOK, Records

\* An error goes to one of the handlers.
LEMMA RaiseTyped ==
  ASSUME TypeOK, NEW then \in Continuations, Raise(then)
  PROVE  pc' \in Labels /\ io' \in IOs /\ lock' \in BOOLEAN /\ prog' \in Programs
BY NoIOTyped DEF TypeOK, Raise, Handler, Labels, Continuations, Programs

\* The count of failed writes stays in its bound.
LEMMA FaultTyped == ASSUME TypeOK, WriteFault PROVE faults' \in Faults
BY WatchAssumption DEF TypeOK, WriteFault, Faults

\* So does that of failed reads; what is read is a result.
LEMMA ReadTyped ==
  ASSUME TypeOK, NEW seen, ReadLog(seen) PROVE faults' \in Faults /\ seen \in
         Results
BY WatchAssumption, FreshIsResult DEF TypeOK, ReadLog, Faults, NoResult, Events

\* The same when the write that follows fails.
LEMMA ReadFaultTyped ==
  ASSUME TypeOK, NEW seen, ReadLogWriteFault(seen) PROVE faults' \in Faults
<1>1. CASE seen = log /\ WriteFault
  BY <1>1, FaultTyped
<1>2. CASE /\ faults.read < MaxReadFaults /\ faults.write < MaxFaults
           /\ faults' = [faults EXCEPT !.read = @ + 1, !.write = @ + 1]
  <2>1. /\ faults.read + 1 \in 0 .. MaxReadFaults /\ faults.write + 1 \in 0 .. MaxFaults
        /\ faults.crash \in 0 .. MaxCrashes
    BY <1>2, WatchAssumption DEF TypeOK, Faults
  <2>2. faults' = [write |-> faults.write + 1, read |-> faults.read + 1,
                   crash |-> faults.crash]
    BY <1>2 DEF TypeOK, Faults
  <2>3. QED
    BY <2>1, <2>2 DEF Faults
<1>3. QED
  BY <1>1, <1>2 DEF ReadLogWriteFault

\* Every variable of a watcher keeps its type (TypeOK).
THEOREM TypeCorrect == Spec => []TypeOK
<1> USE DEF outside, files, mind, program, quiet
<1>1. Init => TypeOK
  BY Init1
<1>2. TypeOK /\ [Next]_vars => TypeOK'
  <2> SUFFICES ASSUME TypeOK, [Next]_vars PROVE TypeOK'
    OBVIOUS
  <2>0. CASE UNCHANGED vars
    BY <2>0 DEF TypeOK, vars
  <2>a. io.rec \in Records /\ io.then \in Continuations /\ io.rec.result \in Results
    BY DEF TypeOK, IOs, Records
  <2>b. mem.result \in Results /\ mem.phase \in Phases /\ mem.code \in Codes
    BY DEF TypeOK, Records
  <2>d. Absent(args.mode) \in Records /\ NoResult \in Results
    BY AbsentIsRecord, FreshIsResult DEF TypeOK, Args, NoResult, Events
  <2>1. CASE WriteLog
    <3>1. log' \in Results
      BY <2>a, <2>1 DEF WriteLog, TypeOK
    <3>2. /\ pc' \in Labels /\ io' \in IOs /\ faults' \in Faults
          /\ lock' \in BOOLEAN /\ prog' \in Programs
      BY <2>a, <2>1, RaiseTyped, FaultTyped DEF WriteLog, TypeOK, Labels,
         Continuations
    <3>3. QED
      BY <2>1, <3>1, <3>2 DEF WriteLog, TypeOK
  <2>2. CASE SaveRecord
    <3>1. mem' \in Records /\ disk' \in Records /\ linked' \in BOOLEAN
      BY <2>a, <2>2 DEF SaveRecord, TypeOK, IOs
    <3>2. /\ pc' \in Labels /\ io' \in IOs /\ faults' \in Faults
          /\ lock' \in BOOLEAN /\ prog' \in Programs
      BY <2>a, <2>2, RaiseTyped, FaultTyped, NoIOTyped
      DEF SaveRecord, TypeOK, Labels, Continuations
    <3>3. QED
      BY <2>2, <3>1, <3>2 DEF SaveRecord, TypeOK
  <2>3. CASE AcquireLock
    <3>1. Fresh("already_watching") \in Results
      BY FreshIsResult DEF Events
    <3>2. mem' \in Records /\ res' \in Results
      BY <2>3, <3>1, SetTyped DEF AcquireLock, TypeOK
    <3>3. pc' \in Labels /\ io' \in IOs
      BY <2>3, UpdateTyped DEF AcquireLock, TypeOK, Goto, Labels, Continuations
    <3>4. faults' \in Faults
      BY <2>3, FaultTyped DEF AcquireLock, TypeOK
    <3>5. QED
      BY <2>3, <3>2, <3>3, <3>4 DEF AcquireLock, TypeOK, TakeLock, Codes
  <2>4. CASE RecoverPhase
    <3>1. Fresh("interrupted") \in Results
      BY FreshIsResult DEF Events, Outcomes
    <3>2. CASE mem.phase \in Started
      <4>1. PICK seen \in {log, NoResult} :
              /\ ReadLog(seen)
              /\ SetResult(IF seen = NoResult THEN Fresh("interrupted") ELSE seen)
        BY <2>4, <3>2 DEF RecoverPhase, Started
      <4>2. faults' \in Faults /\ seen \in Results
        BY <4>1, ReadTyped
      <4>3. res' \in Results /\ mem' \in Records
        BY <4>1, <4>2, <3>1, SetTyped
      <4>4. QED
        BY <2>4, <3>2, <4>2, <4>3 DEF RecoverPhase, Started, TypeOK, Goto,
           Labels, Continuations
    <3>3. CASE mem.phase \notin Started
      <4>1. /\ mem' = mem /\ res' \in Results /\ code' \in Codes
            /\ linked' \in BOOLEAN /\ receipt' \in BOOLEAN
        BY <2>4, <2>b, <3>3 DEF RecoverPhase, TypeOK
      <4>2. faults' \in Faults
        BY <2>4, <3>3, FaultTyped DEF RecoverPhase, TypeOK
      <4>3. pc' \in Labels /\ io' = io
        BY <2>4, <3>3 DEF RecoverPhase, Goto, Labels, Continuations
      <4>4. QED
        BY <2>4, <4>1, <4>2, <4>3 DEF RecoverPhase, TypeOK
    <3>4. QED
      BY <3>2, <3>3
  <2>5. CASE PollActivation
    <3>1. Fresh("activation_over") \in Results
      BY FreshIsResult DEF Events
    <3>2. [mem EXCEPT !.phase = "queued"] \in Records
      BY DEF TypeOK, Records, Phases
    <3>3. mem' \in Records /\ res' \in Results /\ io' \in IOs /\ pc' \in Labels
      BY <2>5, <3>1, <3>2, UpdateTyped, PersistTyped
      DEF PollActivation, TypeOK, Labels, Continuations, Phases, Codes
    <3>4. QED
      BY <2>5, <3>3 DEF PollActivation, TypeOK, Codes
  <2>6. CASE StartRunning
    <3>1. [mem EXCEPT !.phase = "running"] \in Records
      BY DEF TypeOK, Records, Phases, Started
    <3>2. io' \in IOs /\ pc' \in Labels
      BY <2>6, <3>1, UpdateTyped DEF StartRunning, Labels, Continuations
    <3>3. QED
      BY <2>6, <3>2 DEF StartRunning, TypeOK
  <2>7. CASE ExecuteProgram
    BY <2>7, SetTyped, FreshIsResult, AbsentIsRecord, NoIOTyped
    DEF TypeOK, ExecuteProgram, Goto, Stopped, Current, Labels,
      Continuations, Programs, Events, Outcomes
  <2>8. CASE SpawnProgram
    <3>1. Fresh("start_failed") \in Results
      BY FreshIsResult DEF Events, Outcomes
    <3>2. [mem EXCEPT !.phase = "querying"] \in Records
      BY DEF TypeOK, Records, Phases, Started
    <3>3. mem' \in Records /\ res' \in Results /\ io' \in IOs /\ pc' \in Labels
      BY <2>8, <3>1, <3>2, UpdateTyped, SetTyped
      DEF SpawnProgram, TypeOK, Labels, Continuations, Goto
    <3>4. QED
      BY <2>8, <3>3 DEF SpawnProgram, TypeOK, Programs
  <2>9. CASE FinishProgram
    BY <2>9, SetTyped, FreshIsResult, AbsentIsRecord, NoIOTyped
    DEF TypeOK, FinishProgram, Goto, Labels, Continuations, Programs, Events,
      Outcomes
  <2>10. CASE StopProgram
    BY <2>10, SetTyped, FreshIsResult, AbsentIsRecord, NoIOTyped
    DEF TypeOK, StopProgram, Stopped, Current, Goto, Labels, Continuations,
      Programs, Events, Outcomes
  <2>11. CASE CollectStartError
    BY <2>11
    DEF TypeOK, CollectStartError, Stopped, Current, Goto, Labels,
      Continuations, Programs
  <2>12. CASE EvaluateResult
    <3>1. PICK r \in Results, p \in Phases, c \in Codes :
            Persist(r, p, c, "resume") /\ code' = c
      <4> DEFINE c == IF Stopped THEN "cancelled"
                      ELSE IF res.event = "exited" THEN "ok" ELSE "error"
                 notifies == args.notify /\ ~Stopped
                 named == IF Stopped THEN [res EXCEPT !.event = "cancelled"] ELSE res
                 r == IF notifies
                        THEN [named EXCEPT !.note = "pending", !.attempts = 0]
                        ELSE named
      <4>1. named \in Results
        BY DEF TypeOK, Results, Events, Outcomes
      <4>2. r \in Results
        BY <4>1, AttemptNumbers DEF Results, Notes
      <4>3. c \in Codes
        BY DEF Codes
      <4>4. QED
        BY <2>12, <4>2, <4>3 DEF EvaluateResult, Phases
    <3>2. mem' \in Records /\ res' \in Results /\ io' \in IOs /\ pc' \in Labels
      BY <3>1, PersistTyped DEF Labels, Continuations
    <3>3. QED
      BY <2>12, <3>1, <3>2 DEF EvaluateResult, TypeOK
  <2>13. CASE ResumeResult
    BY <2>13, PersistTyped, WatchAssumption
    DEF TypeOK, ResumeResult, Goto, DeliveredNotes, Labels, Continuations,
      Programs, Records, Results, Phases, States, Codes, Terminal, Notes,
      IOs, Faults
  <2>14. CASE OfferNative
    <3>1. [res EXCEPT !.note = "native_pending", !.attempts = 0] \in Results
      BY AttemptNumbers DEF TypeOK, Results, Notes
    <3>2. mem' \in Records /\ res' \in Results /\ io' \in IOs /\ pc' \in Labels
      BY <2>14, <3>1, DeliveryTyped DEF OfferNative, Labels, Continuations
    <3>3. QED
      BY <2>14, <3>2 DEF OfferNative, TypeOK
  <2>15. CASE BeginAttempt
    <3>1. [res EXCEPT !.note = "cancelled"] \in Results
      BY DEF TypeOK, Results, Notes
    <3>2. ASSUME ~Exhausted
          PROVE  [res EXCEPT !.note = "attempting", !.attempts = @ + 1] \in Results
      <4>1. res.attempts \in 0 .. MaxAttempts /\ ~(res.attempts >= MaxAttempts)
        BY <3>2 DEF Exhausted, TypeOK, Results
      <4>2. res.attempts + 1 \in 0 .. MaxAttempts
        BY <4>1, WatchAssumption
      <4>3. QED
        BY <4>2 DEF TypeOK, Results, Notes
    <3>3. mem' \in Records /\ res' \in Results /\ io' \in IOs /\ pc' \in Labels
      BY <2>15, <3>1, <3>2, DeliveryTyped, SetTyped
      DEF BeginAttempt, ReturnUndelivered, Goto, Labels, Continuations, TypeOK
    <3>4. code' \in Codes
      BY <2>15 DEF BeginAttempt, ReturnUndelivered, TypeOK, Codes
    <3>5. QED
      BY <2>15, <3>3, <3>4 DEF BeginAttempt, TypeOK
  <2>16. CASE SendWake
    BY <2>16, DeliveryTyped, WatchAssumption
    DEF TypeOK, SendWake, Goto, Labels, Continuations, Programs, Records,
      Results, Phases, States, Codes, Terminal, Notes, IOs, Faults
  <2>17. CASE EndAttempt
    BY <2>17, DeliveryTyped, WatchAssumption
    DEF TypeOK, EndAttempt, AtLeastMaybe, Exhausted, Labels, Continuations,
      Programs, Records, Results, Phases, States, Codes, Terminal, Notes,
      IOs, Faults
  <2>18. CASE EndBackoff
    BY <2>18
    DEF TypeOK, EndBackoff, Goto, Labels, Continuations, Programs
  <2>19. CASE GiveUpDelivery
    <3>1. [mem EXCEPT !.phase = "finalizing", !.code = UndeliveredCode] \in Records
      BY DEF TypeOK, Records, Phases, Codes, UndeliveredCode
    <3>2. io' \in IOs /\ pc' \in Labels /\ code' \in Codes
      BY <2>19, <3>1, UpdateTyped
      DEF GiveUpDelivery, TypeOK, Goto, Labels, Continuations, Codes,
          UndeliveredCode
    <3>3. QED
      BY <2>19, <3>2 DEF GiveUpDelivery, TypeOK
  <2>20. CASE CloseDelivery
    <3>1. \A p \in Phases : [mem EXCEPT !.code = code, !.phase = p] \in Records
      BY DEF TypeOK, Records
    <3>2. io' \in IOs /\ pc' \in Labels
      <4>1. CASE failing
        BY <2>20, <4>1 DEF CloseDelivery, TypeOK, Goto, Labels, Continuations
      <4>2. CASE ~failing
        <5>1. PICK p \in Phases, then \in Continuations :
                UpdateRecord([mem EXCEPT !.code = code, !.phase = p], then)
          BY <2>20, <4>2 DEF CloseDelivery, Phases, Labels, Continuations
        <5>2. QED
          BY <5>1, <3>1, UpdateTyped
      <4>3. QED
        BY <4>1, <4>2
    <3>3. QED
      BY <2>20, <3>2 DEF CloseDelivery, TypeOK
  <2>21. CASE EndAck
    <3>1. PICK r \in Results, c \in Codes :
            Persist(r, "finalizing", c, "return") /\ code' = c
      <4> DEFINE open == res.note = "native_pending" /\ Current
                 r == IF ~open THEN res
                      ELSE [res EXCEPT !.note = IF cancelSet THEN "cancelled"
                                                             ELSE "unconfirmed"]
                 c == IF ~open THEN code
                      ELSE IF cancelSet THEN "cancelled" ELSE "error"
      <4>1. r \in Results
        BY DEF TypeOK, Results, Notes
      <4>2. c \in Codes
        BY DEF TypeOK, Codes
      <4>3. QED
        BY <2>21, <4>1, <4>2 DEF EndAck
    <3>2. mem' \in Records /\ res' \in Results /\ io' \in IOs /\ pc' \in Labels
      BY <3>1, PersistTyped DEF Labels, Continuations, Phases
    <3>3. QED
      BY <2>21, <3>1, <3>2 DEF EndAck, TypeOK
  <2>22. CASE WriteFinalLog
    BY <2>22, FaultTyped
    DEF TypeOK, WriteFinalLog, LogSettled, Goto, Labels, Continuations,
      Programs
  <2>23. CASE RecordWatcherFailure
    <3>1. PICK seen \in {log, NoResult} :
            /\ res' = [Fresh("watcher_failed") EXCEPT !.durable = KeepsOutcome(seen)]
            /\ \/ ReadLog(seen) \/ ReadLogWriteFault(seen)
            /\ log' \in {log, res'}
      BY <2>23 DEF RecordWatcherFailure
    <3>2. res' \in Results
      <4>1. Fresh("watcher_failed") \in Results
        BY FreshIsResult DEF Events
      <4>2. KeepsOutcome(seen) \in BOOLEAN
        BY DEF KeepsOutcome
      <4>3. QED
        BY <3>1, <4>1, <4>2 DEF Results
    <3>3. faults' \in Faults /\ log' \in Results
      BY <3>1, <3>2, ReadTyped, ReadFaultTyped DEF TypeOK
    <3>4. QED
      BY <2>23, <3>2, <3>3
      DEF RecordWatcherFailure, TypeOK, Goto, AfterCatch, Labels, Continuations,
          Codes
  <2>24. CASE ReleaseLock
    <3>1. io' \in IOs /\ pc' \in Labels
      BY <2>24, UpdateTyped DEF ReleaseLock, TypeOK, Labels, Continuations
    <3>2. QED
      BY <2>24, <3>1 DEF ReleaseLock, TypeOK
  <2>25. CASE DecideEnd
    <3>1. /\ [mem EXCEPT !.phase = "notifying", !.code = "error"] \in Records
          /\ [res EXCEPT !.note = "pending", !.attempts = 0] \in Results
      BY AttemptNumbers DEF TypeOK, Records, Results, Phases, Codes, Notes
    <3>2. [res EXCEPT !.note = IF log.note \in {"attempting", "retrying"}
                                 THEN "unconfirmed" ELSE log.note,
                      !.attempts = log.attempts] \in Results
      BY DEF TypeOK, Results, Notes
    <3>3. /\ mem' \in Records /\ res' \in Results /\ io' \in IOs /\ pc' \in Labels
          /\ failing' \in BOOLEAN
      BY <2>25, <3>1, <3>2, SetTyped, UpdateTyped
      DEF DecideEnd, TypeOK, Goto, Labels, Continuations
    <3>4. QED
      BY <2>25, <3>3 DEF DecideEnd, TypeOK
  <2>26. CASE SettleFailedNotice
    BY <2>26, PersistTyped, WatchAssumption
    DEF TypeOK, SettleFailedNotice, DeliveredNotes, Labels, Continuations,
      Programs, Records, Results, Phases, States, Codes, Terminal, Notes,
      IOs, Faults
  <2>27. CASE FinishWatch
    <3>1. \A p \in Phases, s \in States :
            [mem EXCEPT !.phase = p, !.state = s, !.code = code, !.result = res]
              \in Records
      BY DEF TypeOK, Records
    <3>2. io'.rec \in Records /\ io' = [rec |-> io'.rec, then |-> "idle", links |-> TRUE]
      <4> DEFINE p == IF res.event = "watcher_failed" THEN "finalizing" ELSE mem.phase
                 s == IF code = "ok" THEN "completed" ELSE "failed"
      <4>1. p \in Phases /\ s \in States
        BY <2>b DEF Phases, States, Terminal
      <4>2. io' = [rec |-> [mem EXCEPT !.phase = p, !.state = s, !.code = code,
                                       !.result = res],
                   then |-> "idle", links |-> TRUE]
        BY <2>27 DEF FinishWatch
      <4>3. QED
        BY <3>1, <4>1, <4>2
    <3>3. io' \in IOs /\ pc' \in Labels
      BY <2>27, <3>2 DEF FinishWatch, IOs, Labels, Continuations
    <3>4. QED
      BY <2>27, <3>3 DEF FinishWatch, TypeOK
  <2>28. CASE WakeWithoutPersistence
    <3>1. res' \in Results
      BY <2>28, AttemptNumbers DEF WakeWithoutPersistence, TypeOK, Results, Notes
    <3>2. mem' \in Records
      BY <2>28, <3>1
      DEF WakeWithoutPersistence, TypeOK, Records, States, Terminal, Phases, Codes
    <3>3. woken' \in {"no", "maybe", "yes"}
      BY <2>28 DEF WakeWithoutPersistence, AtLeastMaybe, TypeOK
    <3>4. QED
      BY <2>28, <3>1, <3>2, <3>3 DEF WakeWithoutPersistence, TypeOK, Goto,
         Labels, Continuations
  <2>29. CASE Submit
    BY <2>29, FaultTyped, WatchAssumption
    DEF TypeOK, Submit, Known, Labels, Continuations, Programs, Records,
      Results, Phases, States, Codes, Terminal, Notes, IOs, Faults
  <2>30. CASE Cancel
    <3>1. mem' \in Records /\ disk' \in Records
      BY <2>30 DEF Cancel, TypeOK, Records, States, Terminal
    <3>2. faults' \in Faults
      BY <2>30, FaultTyped DEF Cancel, TypeOK
    <3>3. QED
      BY <2>30, <3>1, <3>2 DEF Cancel, TypeOK
  <2>31. CASE SaveOther
    BY <2>31
    DEF TypeOK, SaveOther, Awaiting, Labels, Continuations, Programs
  <2>32. CASE OwnerActivates
    BY <2>32
    DEF TypeOK, OwnerActivates, Labels, Continuations, Programs
  <2>33. CASE OwnerChanges
    BY <2>33
    DEF TypeOK, OwnerChanges, Labels, Continuations, Programs
  <2>34. CASE OrphanExits
    BY <2>34
    DEF TypeOK, OrphanExits, Labels, Continuations, Programs
  <2>35. CASE Crash
    <3>1. mem' \in Records /\ res' \in Results /\ io' \in IOs
      BY <2>35, <2>d, NoIOTyped DEF Crash
    <3>2. prog' \in Programs /\ runs' \in Nat
      BY <2>35 DEF Crash, TypeOK, Programs
    <3>3. faults' \in Faults /\ woken' \in {"no", "maybe", "yes"}
      BY <2>35, WatchAssumption
      DEF Crash, CountCrash, WokenAtStop, AtLeastMaybe, TypeOK, Faults
    <3>4. QED
      BY <2>35, <3>1, <3>2, <3>3 DEF Crash, TypeOK, Labels, Continuations, Codes
  <2>36. CASE Shutdown
    <3>1. prog' \in Programs /\ runs' \in Nat
      BY <2>36 DEF Shutdown, TypeOK, Programs
    <3>2. faults' \in Faults /\ woken' \in {"no", "maybe", "yes"}
      BY <2>36, WatchAssumption
      DEF Shutdown, CountCrash, WokenAtStop, AtLeastMaybe, TypeOK, Faults
    <3>3. QED
      BY <2>36, <3>1, <3>2, NoIOTyped DEF Shutdown, TypeOK, Labels, Continuations
  <2>37. CASE SaveOnShutdown
    <3>1. mem' \in Records /\ disk' \in Records /\ res' \in Results
      BY <2>37, <2>d DEF SaveOnShutdown, TypeOK
    <3>2. faults' \in Faults
      BY <2>37, FaultTyped DEF SaveOnShutdown, TypeOK
    <3>3. /\ pc' \in Labels /\ code' \in Codes /\ linked' \in BOOLEAN
          /\ failing' \in BOOLEAN /\ cancelSet' \in BOOLEAN
      BY <2>37 DEF SaveOnShutdown, TypeOK, Labels, Continuations, Codes
    <3>4. QED
      BY <2>37, <3>1, <3>2, <3>3 DEF SaveOnShutdown, TypeOK
  <2>38. CASE Restart
    BY <2>38
    DEF TypeOK, Restart, Goto, Restores, Labels, Continuations, Programs
  <2>39. QED
    BY <2>0, <2>1, <2>2, <2>3, <2>4, <2>5, <2>6, <2>7, <2>8, <2>9, <2>10,
      <2>11, <2>12, <2>13, <2>14, <2>15, <2>16, <2>17, <2>18, <2>19, <2>20,
      <2>21, <2>22, <2>23, <2>24, <2>25, <2>26, <2>27, <2>28, <2>29, <2>30,
      <2>31, <2>32, <2>33, <2>34, <2>35, <2>36, <2>37, <2>38
    DEF Next, TaskStep, EnvironmentStep, ServiceStep
<1>3. QED
  BY <1>1, <1>2, PTL DEF Spec

-----------------------------------------------------------------------------
(* What the shared steps leave in memory and on the way to the registry.   *)

\* Changing the result leaves phase and state of the record alone.
LEMMA SetEffect ==
  ASSUME TypeOK, NEW r, SetResult(r)
  PROVE  /\ res' = r
         /\ mem'.phase = mem.phase /\ mem'.state = mem.state
         /\ mem'.result = IF linked THEN r ELSE mem.result
BY DEF TypeOK, SetResult, Records

\* The record handed to _update_record is the one written.
LEMMA UpdateEffect ==
  ASSUME NEW rec, NEW then, UpdateRecord(rec, then)
  PROVE  pc' = "save" /\ io'.rec = rec /\ io'.then = then
BY DEF UpdateRecord

\* _persist_result writes the given result and phase and the state of memory.
LEMMA PersistEffect ==
  ASSUME TypeOK, NEW r, NEW p, NEW c, NEW then, Persist(r, p, c, then)
  PROVE  /\ res' = r
         /\ mem'.phase = mem.phase /\ mem'.state = mem.state
         /\ io'.rec.phase = p /\ io'.rec.state = mem.state /\ io'.rec.result = r
         /\ io'.then = then
         /\ pc' = IF LogSettled(r) THEN "save" ELSE "log"
BY SetEffect DEF Persist, TypeOK, Records

\* Inside _deliver the phase stays as well.
LEMMA DeliveryEffect ==
  ASSUME TypeOK, NEW r, NEW then, PersistDelivery(r, then)
  PROVE  /\ res' = r
         /\ mem'.phase = mem.phase /\ mem'.state = mem.state
         /\ io'.rec.phase = mem.phase /\ io'.rec.state = mem.state
         /\ io'.rec.result = r
         /\ io'.then = then
         /\ pc' = IF LogSettled(r) THEN "save" ELSE "log"
BY PersistEffect DEF PersistDelivery

\* An error leads to a handler, or ends the task, or leaves a program behind.
LEMMA RaiseEffect ==
  ASSUME NEW then, Raise(then)
  PROVE  /\ \/ pc' = then /\ then \in {"idle", "executing"}
            \/ pc' \in {"fallback", "finalize", "broken", "caught"}
         /\ prog' = IF then = "executing" THEN "lost" ELSE prog
BY DEF Raise, Handler

-----------------------------------------------------------------------------
(* The program is started once at most.                                    *)

\* Every step keeps the records behind the program.
LEMMA RunOnceStep == TypeOK /\ RunOnceInv /\ [Next]_vars => RunOnceInv'
<1> USE DEF outside, files, mind, program, quiet
<1> SUFFICES ASSUME TypeOK, RunOnceInv, [Next]_vars PROVE RunOnceInv'
  OBVIOUS
<1>0. CASE UNCHANGED vars
  BY <1>0 DEF RunOnceInv, Writing, Early, vars
<1>1. CASE WriteLog
  BY <1>1, RaiseEffect
  DEF RunOnceInv, Writing, Early, WriteLog
<1>2. CASE SaveRecord
  <2>1. CASE disk' = io.rec /\ pc' = io.then /\ UNCHANGED prog
    BY <1>2, <2>1 DEF RunOnceInv, Writing, Early, SaveRecord, TypeOK, IOs,
       Continuations
  <2>2. CASE Raise(io.then) /\ disk' \in {disk, io.rec}
    BY <1>2, <2>2, RaiseEffect DEF RunOnceInv, Writing, Early, SaveRecord
  <2>3. QED
    BY <1>2, <2>1, <2>2 DEF SaveRecord
<1>3. CASE AcquireLock
  BY <1>3, UpdateEffect, SetEffect
  DEF RunOnceInv, Writing, Early, AcquireLock, TakeLock, Goto
<1>4. CASE RecoverPhase
  BY <1>4, SetEffect
  DEF RunOnceInv, Writing, Early, RecoverPhase, Goto, Started
<1>5. CASE PollActivation
  BY <1>5, UpdateEffect, PersistEffect
  DEF RunOnceInv, Writing, Early, PollActivation, TypeOK, Records
<1>6. CASE StartRunning
  BY <1>6, UpdateEffect
  DEF RunOnceInv, Writing, Early, StartRunning, TypeOK, Records
<1>7. CASE ExecuteProgram
  BY <1>7, SetEffect
  DEF RunOnceInv, Writing, Early, ExecuteProgram, Goto
<1>8. CASE SpawnProgram
  BY <1>8, SetEffect, UpdateEffect
  DEF RunOnceInv, Writing, Early, SpawnProgram, Goto, TypeOK, Records
<1>9. CASE FinishProgram
  BY <1>9, SetEffect
  DEF RunOnceInv, Writing, Early, FinishProgram, Goto
<1>10. CASE StopProgram
  BY <1>10, SetEffect
  DEF RunOnceInv, Writing, Early, StopProgram, Goto
<1>11. CASE CollectStartError
  BY <1>11
  DEF RunOnceInv, Writing, Early, CollectStartError, Goto
<1>12. CASE EvaluateResult
  BY <1>12, PersistEffect
  DEF RunOnceInv, Writing, Early, EvaluateResult, TypeOK, Records
<1>13. CASE ResumeResult
  BY <1>13, PersistEffect
  DEF RunOnceInv, Writing, Early, ResumeResult, Goto, TypeOK, Records
<1>14. CASE OfferNative
  BY <1>14, DeliveryEffect
  DEF RunOnceInv, Writing, Early, OfferNative, TypeOK, Records
<1>15. CASE BeginAttempt
  BY <1>15, SetEffect, DeliveryEffect
  DEF RunOnceInv, Writing, Early, BeginAttempt, ReturnUndelivered, Goto,
    TypeOK, Records
<1>16. CASE SendWake
  BY <1>16, DeliveryEffect
  DEF RunOnceInv, Writing, Early, SendWake, Goto, TypeOK, Records
<1>17. CASE EndAttempt
  BY <1>17, DeliveryEffect
  DEF RunOnceInv, Writing, Early, EndAttempt, TypeOK, Records
<1>18. CASE EndBackoff
  BY <1>18
  DEF RunOnceInv, Writing, Early, EndBackoff, Goto
<1>19. CASE GiveUpDelivery
  <2>1. CASE failing
    BY <1>19, <2>1 DEF RunOnceInv, Writing, Early, GiveUpDelivery, Goto
  <2>2. CASE ~failing
    <3>1. io'.rec = [mem EXCEPT !.phase = "finalizing", !.code = UndeliveredCode]
          /\ io'.then = "return" /\ pc' = "save"
      BY <1>19, <2>2, UpdateEffect DEF GiveUpDelivery
    <3>2. io'.rec.phase = "finalizing" /\ io'.rec.state = mem.state
      BY <3>1 DEF TypeOK, Records
    <3>3. QED
      BY <1>19, <3>1, <3>2 DEF RunOnceInv, Writing, Early, GiveUpDelivery
  <2>3. QED
    BY <2>1, <2>2
<1>20. CASE CloseDelivery
  <2>1. CASE failing
    BY <1>20, <2>1 DEF RunOnceInv, Writing, Early, CloseDelivery, Goto
  <2>2. CASE ~failing
    <3>1. PICK p \in {"awaiting_ack", "finalizing"} :
            /\ io'.rec = [mem EXCEPT !.code = code, !.phase = p]
            /\ io'.then \in {"acking", "return"} /\ pc' = "save"
      BY <1>20, <2>2, UpdateEffect DEF CloseDelivery
    <3>2. io'.rec.phase = p /\ io'.rec.state = mem.state
      BY <3>1 DEF TypeOK, Records
    <3>3. QED
      BY <1>20, <3>1, <3>2 DEF RunOnceInv, Writing, Early, CloseDelivery
  <2>3. QED
    BY <2>1, <2>2
<1>21. CASE EndAck
  BY <1>21, PersistEffect
  DEF RunOnceInv, Writing, Early, EndAck, Current, TypeOK, Records
<1>22. CASE WriteFinalLog
  BY <1>22
  DEF RunOnceInv, Writing, Early, WriteFinalLog, Goto
<1>23. CASE RecordWatcherFailure
  BY <1>23
  DEF RunOnceInv, Writing, Early, RecordWatcherFailure, Goto, AfterCatch,
    TypeOK, Records
<1>24. CASE ReleaseLock
  BY <1>24, UpdateEffect
  DEF RunOnceInv, Writing, Early, ReleaseLock
<1>25. CASE DecideEnd
  <2>1. CASE pc' = "save"
    <3>1. io'.rec = [mem EXCEPT !.phase = "notifying", !.code = "error"]
          /\ io'.then = "attempt" /\ mem' = mem /\ mem.state = "active"
      BY <1>25, <2>1, UpdateEffect DEF DecideEnd, Goto
    <3>2. io'.rec.phase = "notifying" /\ io'.rec.state = "active"
      BY <3>1 DEF TypeOK, Records
    <3>3. QED
      BY <1>25, <2>1, <3>1, <3>2 DEF RunOnceInv, Writing, Early, DecideEnd
  <2>2. CASE pc' # "save"
    <3>1. pc' \in {"idle", "finalize"} /\ io' = io /\ mem'.phase = mem.phase
          /\ mem'.state = mem.state
      BY <1>25, <2>2, UpdateEffect, SetEffect DEF DecideEnd, Goto
    <3>2. QED
      BY <1>25, <3>1 DEF RunOnceInv, Writing, Early, DecideEnd
  <2>3. QED
    BY <2>1, <2>2
<1>26. CASE SettleFailedNotice
  BY <1>26, PersistEffect
  DEF RunOnceInv, Writing, Early, SettleFailedNotice, TypeOK, Records
<1>27. CASE FinishWatch
  BY <1>27
  DEF RunOnceInv, Writing, Early, FinishWatch, TypeOK, Records
<1>28. CASE WakeWithoutPersistence
  BY <1>28
  DEF RunOnceInv, Writing, Early, WakeWithoutPersistence, Goto, TypeOK,
    Records
<1>29. CASE Submit
  BY <1>29
  DEF RunOnceInv, Writing, Early, Submit, Known, TypeOK, Records
<1>30. CASE Cancel
  BY <1>30 DEF RunOnceInv, Writing, Early, Cancel, Awaiting, TypeOK, Records,
     States, Terminal
<1>31. CASE SaveOther
  BY <1>31 DEF RunOnceInv, Writing, Early, SaveOther, Awaiting
<1>32. CASE OwnerActivates
  BY <1>32
  DEF RunOnceInv, Writing, Early, OwnerActivates
<1>33. CASE OwnerChanges
  BY <1>33
  DEF RunOnceInv, Writing, Early, OwnerChanges
<1>34. CASE OrphanExits
  BY <1>34
  DEF RunOnceInv, Writing, Early, OrphanExits
<1>35. CASE Crash
  BY <1>35
  DEF RunOnceInv, Writing, Early, Crash, NoIO, Absent, FirstPhase
<1>36. CASE Shutdown
  BY <1>36 DEF RunOnceInv, Writing, Early, Shutdown, Awaiting
<1>37. CASE SaveOnShutdown
  BY <1>37
  DEF RunOnceInv, Writing, Early, SaveOnShutdown, Absent, FirstPhase
<1>38. CASE Restart
  BY <1>38
  DEF RunOnceInv, Writing, Early, Restart, Goto, Restores
<1>39. QED
  BY <1>0, <1>1, <1>2, <1>3, <1>4, <1>5, <1>6, <1>7, <1>8, <1>9, <1>10,
    <1>11, <1>12, <1>13, <1>14, <1>15, <1>16, <1>17, <1>18, <1>19, <1>20,
    <1>21, <1>22, <1>23, <1>24, <1>25, <1>26, <1>27, <1>28, <1>29, <1>30,
    <1>31, <1>32, <1>33, <1>34, <1>35, <1>36, <1>37, <1>38
  DEF Next, TaskStep, EnvironmentStep, ServiceStep

\* Whatever writes fail and however often the daemon dies, _watch never starts
\* the waiting program a second time.
THEOREM RunOnceCorrect == Spec => []ProgramRunsAtMostOnce
<1>1. Init => RunOnceInv
  BY DEF Init, RunOnceInv, Writing, Absent
<1>2. RunOnceInv => ProgramRunsAtMostOnce
  BY DEF RunOnceInv, ProgramRunsAtMostOnce
<1>3. QED
  BY <1>1, <1>2, TypeCorrect, RunOnceStep, PTL DEF Spec

-----------------------------------------------------------------------------
(* A goal takes the wait before its program starts.                        *)

\* Every step keeps a prepared goal wait away from the program.
LEMMA ActivationStep == TypeOK /\ ActivationInv /\ [Next]_vars => ActivationInv'
<1> USE DEF outside, files, mind, program, quiet, NeverActive
<1> SUFFICES ASSUME TypeOK, ActivationInv, [Next]_vars PROVE ActivationInv'
  OBVIOUS
<1>0. CASE UNCHANGED vars
  BY <1>0 DEF ActivationInv, Writing, Begun, Started, vars
<1>1. CASE WriteLog
  BY <1>1, RaiseEffect
  DEF ActivationInv, Writing, Begun, Started, WriteLog
<1>2. CASE SaveRecord
  <2>1. CASE disk' = io.rec /\ pc' = io.then /\ UNCHANGED prog
    BY <1>2, <2>1 DEF ActivationInv, Writing, Begun, Started, SaveRecord,
       TypeOK, IOs, Continuations
  <2>2. CASE Raise(io.then) /\ disk' \in {disk, io.rec}
    BY <1>2, <2>2, RaiseEffect DEF ActivationInv, Writing, Begun, Started,
       SaveRecord
  <2>3. QED
    BY <1>2, <2>1, <2>2 DEF SaveRecord
<1>3. CASE AcquireLock
  BY <1>3, UpdateEffect, SetEffect
  DEF ActivationInv, Writing, Begun, Started, AcquireLock, TakeLock, Goto
<1>4. CASE RecoverPhase
  BY <1>4, SetEffect
  DEF ActivationInv, Writing, Begun, Started, RecoverPhase, Goto
<1>5. CASE PollActivation
  BY <1>5, UpdateEffect, PersistEffect
  DEF ActivationInv, Writing, Begun, Started, PollActivation, goal_wait_phase,
      TypeOK, Records
<1>6. CASE StartRunning
  BY <1>6, UpdateEffect
  DEF ActivationInv, Writing, Begun, Started, StartRunning, TypeOK, Records
<1>7. CASE ExecuteProgram
  BY <1>7, SetEffect
  DEF ActivationInv, Writing, Begun, Started, ExecuteProgram, Goto
<1>8. CASE SpawnProgram
  BY <1>8, SetEffect, UpdateEffect
  DEF ActivationInv, Writing, Begun, Started, SpawnProgram, Goto, TypeOK,
    Records
<1>9. CASE FinishProgram
  BY <1>9, SetEffect
  DEF ActivationInv, Writing, Begun, Started, FinishProgram, Goto
<1>10. CASE StopProgram
  BY <1>10, SetEffect
  DEF ActivationInv, Writing, Begun, Started, StopProgram, Goto
<1>11. CASE CollectStartError
  BY <1>11
  DEF ActivationInv, Writing, Begun, Started, CollectStartError, Goto
<1>12. CASE EvaluateResult
  BY <1>12, PersistEffect
  DEF ActivationInv, Writing, Begun, Started, EvaluateResult, TypeOK, Records
<1>13. CASE ResumeResult
  BY <1>13, PersistEffect
  DEF ActivationInv, Writing, Begun, Started, ResumeResult, Goto, TypeOK,
    Records
<1>14. CASE OfferNative
  BY <1>14, DeliveryEffect
  DEF ActivationInv, Writing, Begun, Started, OfferNative, TypeOK, Records
<1>15. CASE BeginAttempt
  BY <1>15, SetEffect, DeliveryEffect
  DEF ActivationInv, Writing, Begun, Started, BeginAttempt,
    ReturnUndelivered, Goto, TypeOK, Records
<1>16. CASE SendWake
  BY <1>16, DeliveryEffect
  DEF ActivationInv, Writing, Begun, Started, SendWake, Goto, TypeOK, Records
<1>17. CASE EndAttempt
  BY <1>17, DeliveryEffect
  DEF ActivationInv, Writing, Begun, Started, EndAttempt, TypeOK, Records
<1>18. CASE EndBackoff
  BY <1>18
  DEF ActivationInv, Writing, Begun, Started, EndBackoff, Goto
<1>19. CASE GiveUpDelivery
  <2>1. CASE failing
    BY <1>19, <2>1 DEF ActivationInv, Writing, Begun, Started, GiveUpDelivery,
       Goto
  <2>2. CASE ~failing
    <3>1. io'.rec = [mem EXCEPT !.phase = "finalizing", !.code = UndeliveredCode]
          /\ io'.then = "return" /\ pc' = "save"
      BY <1>19, <2>2, UpdateEffect DEF GiveUpDelivery
    <3>2. io'.rec.phase = "finalizing" /\ io'.rec.state = mem.state
      BY <3>1 DEF TypeOK, Records
    <3>3. QED
      BY <1>19, <3>1, <3>2 DEF ActivationInv, Writing, Begun, Started,
         GiveUpDelivery
  <2>3. QED
    BY <2>1, <2>2
<1>20. CASE CloseDelivery
  <2>1. CASE failing
    BY <1>20, <2>1 DEF ActivationInv, Writing, Begun, Started, CloseDelivery, Goto
  <2>2. CASE ~failing
    <3>1. PICK p \in {"awaiting_ack", "finalizing"} :
            /\ io'.rec = [mem EXCEPT !.code = code, !.phase = p]
            /\ io'.then \in {"acking", "return"} /\ pc' = "save"
      BY <1>20, <2>2, UpdateEffect DEF CloseDelivery
    <3>2. io'.rec.phase = p /\ io'.rec.state = mem.state
      BY <3>1 DEF TypeOK, Records
    <3>3. QED
      BY <1>20, <3>1, <3>2 DEF ActivationInv, Writing, Begun, Started,
         CloseDelivery
  <2>3. QED
    BY <2>1, <2>2
<1>21. CASE EndAck
  BY <1>21, PersistEffect
  DEF ActivationInv, Writing, Begun, Started, EndAck, Current, TypeOK, Records
<1>22. CASE WriteFinalLog
  BY <1>22
  DEF ActivationInv, Writing, Begun, Started, WriteFinalLog, Goto
<1>23. CASE RecordWatcherFailure
  BY <1>23
  DEF ActivationInv, Writing, Begun, Started, RecordWatcherFailure, Goto,
    AfterCatch, TypeOK, Records
<1>24. CASE ReleaseLock
  BY <1>24, UpdateEffect
  DEF ActivationInv, Writing, Begun, Started, ReleaseLock
<1>25. CASE DecideEnd
  <2>1. CASE pc' = "save"
    <3>1. io'.rec = [mem EXCEPT !.phase = "notifying", !.code = "error"]
          /\ io'.then = "attempt" /\ mem' = mem /\ mem.state = "active"
      BY <1>25, <2>1, UpdateEffect DEF DecideEnd, Goto
    <3>2. io'.rec.phase = "notifying" /\ io'.rec.state = "active"
      BY <3>1 DEF TypeOK, Records
    <3>3. QED
      BY <1>25, <2>1, <3>1, <3>2 DEF ActivationInv, Writing, Begun, Started,
         DecideEnd
  <2>2. CASE pc' # "save"
    <3>1. pc' \in {"idle", "finalize"} /\ io' = io /\ mem'.phase = mem.phase
          /\ mem'.state = mem.state
      BY <1>25, <2>2, UpdateEffect, SetEffect DEF DecideEnd, Goto
    <3>2. QED
      BY <1>25, <3>1 DEF ActivationInv, Writing, Begun, Started, DecideEnd
  <2>3. QED
    BY <2>1, <2>2
<1>26. CASE SettleFailedNotice
  BY <1>26, PersistEffect
  DEF ActivationInv, Writing, Begun, Started, SettleFailedNotice, TypeOK,
    Records
<1>27. CASE FinishWatch
  BY <1>27
  DEF ActivationInv, Writing, Begun, Started, FinishWatch, TypeOK, Records
<1>28. CASE WakeWithoutPersistence
  BY <1>28
  DEF ActivationInv, Writing, Begun, Started, WakeWithoutPersistence, Goto,
    TypeOK, Records
<1>29. CASE Submit
  BY <1>29
  DEF ActivationInv, Writing, Begun, Started, Submit, Known, TypeOK, Records
<1>30. CASE Cancel
  BY <1>30 DEF ActivationInv, Writing, Begun, Started, Cancel, Awaiting, TypeOK,
     Records, States, Terminal
<1>31. CASE SaveOther
  BY <1>31 DEF ActivationInv, Writing, Begun, Started, SaveOther, Awaiting
<1>32. CASE OwnerActivates
  BY <1>32
  DEF ActivationInv, Writing, Begun, Started, OwnerActivates
<1>33. CASE OwnerChanges
  BY <1>33
  DEF ActivationInv, Writing, Begun, Started, OwnerChanges
<1>34. CASE OrphanExits
  BY <1>34
  DEF ActivationInv, Writing, Begun, Started, OrphanExits
<1>35. CASE Crash
  BY <1>35
  DEF ActivationInv, Writing, Begun, Started, Crash, NoIO, Absent, FirstPhase
<1>36. CASE Shutdown
  BY <1>36 DEF ActivationInv, Writing, Begun, Started, Shutdown, Awaiting
<1>37. CASE SaveOnShutdown
  BY <1>37
  DEF ActivationInv, Writing, Begun, Started, SaveOnShutdown, Absent,
    FirstPhase
<1>38. CASE Restart
  BY <1>38
  DEF ActivationInv, Writing, Begun, Started, Restart, Goto, Restores
<1>39. QED
  BY <1>0, <1>1, <1>2, <1>3, <1>4, <1>5, <1>6, <1>7, <1>8, <1>9, <1>10,
    <1>11, <1>12, <1>13, <1>14, <1>15, <1>16, <1>17, <1>18, <1>19, <1>20,
    <1>21, <1>22, <1>23, <1>24, <1>25, <1>26, <1>27, <1>28, <1>29, <1>30,
    <1>31, <1>32, <1>33, <1>34, <1>35, <1>36, <1>37, <1>38
  DEF Next, TaskStep, EnvironmentStep, ServiceStep

\* _activate_goal_wait keeps the program of a goal's wait from starting until
\* the goal file names the wait as active.
THEOREM ActivationCorrect == Spec => []GoalProgramNeedsActivation
<1>1. Init => ActivationInv
  BY DEF Init, ActivationInv, Writing, Absent, FirstPhase, Begun, Started
<1>2. ActivationInv => GoalProgramNeedsActivation
  BY DEF ActivationInv, GoalProgramNeedsActivation
<1>3. QED
  BY <1>1, <1>2, TypeCorrect, ActivationStep, PTL DEF Spec

-----------------------------------------------------------------------------
(* An attempt is on record before its wake command starts.                 *)

\* Every step keeps the record of an attempt ahead of its command.
LEMMA AttemptStep == TypeOK /\ AttemptInv /\ [Next]_vars => AttemptInv'
<1> USE DEF outside, files, mind, program, quiet
<1> SUFFICES ASSUME TypeOK, AttemptInv, [Next]_vars PROVE AttemptInv'
  OBVIOUS
<1>0. CASE UNCHANGED vars
  BY <1>0 DEF AttemptInv, AttemptIsDurableFirst, Writing, vars
<1>1. CASE WriteLog
  BY <1>1, RaiseEffect
  DEF AttemptInv, AttemptIsDurableFirst, Writing, WriteLog
<1>2. CASE SaveRecord
  <2>1. CASE disk' = io.rec /\ pc' = io.then /\ UNCHANGED prog
    BY <1>2, <2>1 DEF AttemptInv, AttemptIsDurableFirst, Writing, SaveRecord,
       TypeOK, IOs, Continuations
  <2>2. CASE Raise(io.then) /\ disk' \in {disk, io.rec}
    BY <1>2, <2>2, RaiseEffect DEF AttemptInv, AttemptIsDurableFirst, Writing,
       SaveRecord
  <2>3. QED
    BY <1>2, <2>1, <2>2 DEF SaveRecord
<1>3. CASE AcquireLock
  BY <1>3, UpdateEffect, SetEffect
  DEF AttemptInv, AttemptIsDurableFirst, Writing, AcquireLock, TakeLock, Goto
<1>4. CASE RecoverPhase
  BY <1>4, SetEffect
  DEF AttemptInv, AttemptIsDurableFirst, Writing, RecoverPhase, Goto, Started
<1>5. CASE PollActivation
  BY <1>5, UpdateEffect, PersistEffect
  DEF AttemptInv, AttemptIsDurableFirst, Writing, PollActivation, TypeOK,
    Records
<1>6. CASE StartRunning
  BY <1>6, UpdateEffect
  DEF AttemptInv, AttemptIsDurableFirst, Writing, StartRunning, TypeOK,
    Records
<1>7. CASE ExecuteProgram
  BY <1>7, SetEffect
  DEF AttemptInv, AttemptIsDurableFirst, Writing, ExecuteProgram, Goto
<1>8. CASE SpawnProgram
  BY <1>8, SetEffect, UpdateEffect
  DEF AttemptInv, AttemptIsDurableFirst, Writing, SpawnProgram, Goto, TypeOK,
    Records
<1>9. CASE FinishProgram
  BY <1>9, SetEffect
  DEF AttemptInv, AttemptIsDurableFirst, Writing, FinishProgram, Goto
<1>10. CASE StopProgram
  BY <1>10, SetEffect
  DEF AttemptInv, AttemptIsDurableFirst, Writing, StopProgram, Goto
<1>11. CASE CollectStartError
  BY <1>11
  DEF AttemptInv, AttemptIsDurableFirst, Writing, CollectStartError, Goto
<1>12. CASE EvaluateResult
  BY <1>12, PersistEffect
  DEF AttemptInv, AttemptIsDurableFirst, Writing, EvaluateResult, TypeOK,
    Records
<1>13. CASE ResumeResult
  BY <1>13, PersistEffect
  DEF AttemptInv, AttemptIsDurableFirst, Writing, ResumeResult, Goto, TypeOK,
    Records
<1>14. CASE OfferNative
  BY <1>14, DeliveryEffect
  DEF AttemptInv, AttemptIsDurableFirst, Writing, OfferNative, TypeOK, Records
<1>15. CASE BeginAttempt
  <2>1. CASE pc' \in {"log", "save"}
    <3>1. /\ io'.rec.phase = mem.phase /\ io'.rec.result = res' /\ io'.then = "send"
          /\ res'.note = "attempting"
          /\ pc' = "save" => res'.durable
      <4> DEFINE r == [res EXCEPT !.note = "attempting", !.attempts = @ + 1]
      <4>1. PersistDelivery(r, "send")
        BY <1>15, <2>1 DEF BeginAttempt, ReturnUndelivered, Goto
      <4>2. r.note = "attempting"
        BY DEF TypeOK, Results
      <4> HIDE DEF r
      <4>3. /\ io'.rec.phase = mem.phase /\ io'.rec.result = r /\ res' = r
            /\ io'.then = "send" /\ pc' = IF LogSettled(r) THEN "save" ELSE "log"
        BY <4>1, DeliveryEffect
      <4>4. QED
        BY <4>2, <4>3 DEF LogSettled
    <3>2. QED
      BY <1>15, <2>1, <3>1 DEF AttemptInv, AttemptIsDurableFirst, Writing,
         BeginAttempt
  <2>2. CASE pc' \notin {"log", "save"}
    <3>1. pc' \in {"finalize", "undelivered"}
      BY <1>15, <2>2, DeliveryEffect DEF BeginAttempt, ReturnUndelivered, Goto
    <3>2. QED
      BY <1>15, <3>1 DEF AttemptInv, AttemptIsDurableFirst, Writing
  <2>3. QED
    BY <2>1, <2>2
<1>16. CASE SendWake
  BY <1>16, DeliveryEffect
  DEF AttemptInv, AttemptIsDurableFirst, Writing, SendWake, Goto, TypeOK,
    Records
<1>17. CASE EndAttempt
  BY <1>17, DeliveryEffect
  DEF AttemptInv, AttemptIsDurableFirst, Writing, EndAttempt, TypeOK, Records
<1>18. CASE EndBackoff
  BY <1>18
  DEF AttemptInv, AttemptIsDurableFirst, Writing, EndBackoff, Goto
<1>19. CASE GiveUpDelivery
  <2>1. CASE failing
    BY <1>19, <2>1 DEF AttemptInv, AttemptIsDurableFirst, Writing,
       GiveUpDelivery, Goto
  <2>2. CASE ~failing
    <3>1. io'.rec = [mem EXCEPT !.phase = "finalizing", !.code = UndeliveredCode]
          /\ io'.then = "return" /\ pc' = "save"
      BY <1>19, <2>2, UpdateEffect DEF GiveUpDelivery
    <3>2. io'.rec.phase = "finalizing" /\ io'.rec.state = mem.state
      BY <3>1 DEF TypeOK, Records
    <3>3. QED
      BY <1>19, <3>1, <3>2 DEF AttemptInv, AttemptIsDurableFirst, Writing,
         GiveUpDelivery
  <2>3. QED
    BY <2>1, <2>2
<1>20. CASE CloseDelivery
  <2>1. CASE failing
    BY <1>20, <2>1 DEF AttemptInv, AttemptIsDurableFirst, Writing,
       CloseDelivery, Goto
  <2>2. CASE ~failing
    <3>1. PICK p \in {"awaiting_ack", "finalizing"} :
            /\ io'.rec = [mem EXCEPT !.code = code, !.phase = p]
            /\ io'.then \in {"acking", "return"} /\ pc' = "save"
      BY <1>20, <2>2, UpdateEffect DEF CloseDelivery
    <3>2. io'.rec.phase = p /\ io'.rec.state = mem.state
      BY <3>1 DEF TypeOK, Records
    <3>3. QED
      BY <1>20, <3>1, <3>2 DEF AttemptInv, AttemptIsDurableFirst, Writing,
         CloseDelivery
  <2>3. QED
    BY <2>1, <2>2
<1>21. CASE EndAck
  BY <1>21, PersistEffect
  DEF AttemptInv, AttemptIsDurableFirst, Writing, EndAck, Current, TypeOK,
    Records
<1>22. CASE WriteFinalLog
  BY <1>22
  DEF AttemptInv, AttemptIsDurableFirst, Writing, WriteFinalLog, LogSettled,
    Goto
<1>23. CASE RecordWatcherFailure
  BY <1>23
  DEF AttemptInv, AttemptIsDurableFirst, Writing, RecordWatcherFailure, Goto,
    AfterCatch, TypeOK, Records
<1>24. CASE ReleaseLock
  BY <1>24, UpdateEffect
  DEF AttemptInv, AttemptIsDurableFirst, Writing, ReleaseLock
<1>25. CASE DecideEnd
  <2>1. CASE pc' = "save"
    <3>1. io'.rec = [mem EXCEPT !.phase = "notifying", !.code = "error"]
          /\ io'.then = "attempt" /\ mem' = mem /\ mem.state = "active"
      BY <1>25, <2>1, UpdateEffect DEF DecideEnd, Goto
    <3>2. io'.rec.phase = "notifying" /\ io'.rec.state = "active"
      BY <3>1 DEF TypeOK, Records
    <3>3. QED
      BY <1>25, <2>1, <3>1, <3>2 DEF AttemptInv, AttemptIsDurableFirst, Writing,
         DecideEnd
  <2>2. CASE pc' # "save"
    <3>1. pc' \in {"idle", "finalize"} /\ io' = io /\ mem'.phase = mem.phase
          /\ mem'.state = mem.state
      BY <1>25, <2>2, UpdateEffect, SetEffect DEF DecideEnd, Goto
    <3>2. QED
      BY <1>25, <3>1 DEF AttemptInv, AttemptIsDurableFirst, Writing, DecideEnd
  <2>3. QED
    BY <2>1, <2>2
<1>26. CASE SettleFailedNotice
  BY <1>26, PersistEffect
  DEF AttemptInv, AttemptIsDurableFirst, Writing, SettleFailedNotice, TypeOK,
    Records
<1>27. CASE FinishWatch
  BY <1>27
  DEF AttemptInv, AttemptIsDurableFirst, Writing, FinishWatch, TypeOK, Records
<1>28. CASE WakeWithoutPersistence
  BY <1>28
  DEF AttemptInv, AttemptIsDurableFirst, Writing, WakeWithoutPersistence,
    Goto, TypeOK, Records
<1>29. CASE Submit
  BY <1>29
  DEF AttemptInv, AttemptIsDurableFirst, Writing, Submit, Known, TypeOK,
    Records
<1>30. CASE Cancel
  BY <1>30 DEF AttemptInv, AttemptIsDurableFirst, Writing, Cancel, Awaiting,
     TypeOK, Records, States, Terminal
<1>31. CASE SaveOther
  BY <1>31 DEF AttemptInv, AttemptIsDurableFirst, Writing, SaveOther, Awaiting
<1>32. CASE OwnerActivates
  BY <1>32
  DEF AttemptInv, AttemptIsDurableFirst, Writing, OwnerActivates
<1>33. CASE OwnerChanges
  BY <1>33
  DEF AttemptInv, AttemptIsDurableFirst, Writing, OwnerChanges
<1>34. CASE OrphanExits
  BY <1>34
  DEF AttemptInv, AttemptIsDurableFirst, Writing, OrphanExits
<1>35. CASE Crash
  BY <1>35
  DEF AttemptInv, AttemptIsDurableFirst, Writing, Crash, NoIO, Absent,
    FirstPhase
<1>36. CASE Shutdown
  BY <1>36 DEF AttemptInv, AttemptIsDurableFirst, Writing, Shutdown, Awaiting
<1>37. CASE SaveOnShutdown
  BY <1>37
  DEF AttemptInv, AttemptIsDurableFirst, Writing, SaveOnShutdown, Absent,
    FirstPhase
<1>38. CASE Restart
  BY <1>38
  DEF AttemptInv, AttemptIsDurableFirst, Writing, Restart, Goto, Restores
<1>39. QED
  BY <1>0, <1>1, <1>2, <1>3, <1>4, <1>5, <1>6, <1>7, <1>8, <1>9, <1>10,
    <1>11, <1>12, <1>13, <1>14, <1>15, <1>16, <1>17, <1>18, <1>19, <1>20,
    <1>21, <1>22, <1>23, <1>24, <1>25, <1>26, <1>27, <1>28, <1>29, <1>30,
    <1>31, <1>32, <1>33, <1>34, <1>35, <1>36, <1>37, <1>38
  DEF Next, TaskStep, EnvironmentStep, ServiceStep

\* _deliver saves "attempting" before each wake command, so that a restart
\* finds an attempt that may have been accepted.
THEOREM AttemptCorrect == Spec => []AttemptIsDurableFirst
<1>1. Init => AttemptInv
  BY DEF Init, AttemptInv, AttemptIsDurableFirst, Writing
<1>2. AttemptInv => AttemptIsDurableFirst
  BY DEF AttemptInv, AttemptIsDurableFirst
<1>3. QED
  BY <1>1, <1>2, TypeCorrect, AttemptStep, PTL DEF Spec

-----------------------------------------------------------------------------
(* A cancelled watch starts no wake.                                       *)

\* Every step keeps a cancelled watch out of the way to a wake command.
LEMMA CancelStep == TypeOK /\ CancelInv /\ [Next]_vars => CancelInv'
<1> USE DEF outside, files, mind, program, quiet
<1> SUFFICES ASSUME TypeOK, CancelInv, [Next]_vars PROVE CancelInv'
  OBVIOUS
<1>0. CASE UNCHANGED vars
  BY <1>0 DEF CancelInv, Writing, Terminal, vars
<1>1. CASE WriteLog
  BY <1>1, RaiseEffect
  DEF CancelInv, Writing, Terminal, WriteLog
<1>2. CASE SaveRecord
  <2>1. CASE disk' = io.rec /\ pc' = io.then /\ UNCHANGED prog
    BY <1>2, <2>1 DEF CancelInv, Writing, Terminal, SaveRecord, TypeOK, IOs,
       Continuations
  <2>2. CASE Raise(io.then) /\ disk' \in {disk, io.rec}
    BY <1>2, <2>2, RaiseEffect DEF CancelInv, Writing, Terminal, SaveRecord
  <2>3. QED
    BY <1>2, <2>1, <2>2 DEF SaveRecord
<1>3. CASE AcquireLock
  BY <1>3, UpdateEffect, SetEffect
  DEF CancelInv, Writing, Terminal, AcquireLock, TakeLock, Goto
<1>4. CASE RecoverPhase
  BY <1>4, SetEffect
  DEF CancelInv, Writing, Terminal, RecoverPhase, Goto, Started
<1>5. CASE PollActivation
  BY <1>5, UpdateEffect, PersistEffect
  DEF CancelInv, Writing, Terminal, PollActivation, TypeOK, Records
<1>6. CASE StartRunning
  BY <1>6, UpdateEffect
  DEF CancelInv, Writing, Terminal, StartRunning, TypeOK, Records
<1>7. CASE ExecuteProgram
  BY <1>7, SetEffect
  DEF CancelInv, Writing, Terminal, ExecuteProgram, Goto, Stopped, Current
<1>8. CASE SpawnProgram
  BY <1>8, SetEffect, UpdateEffect
  DEF CancelInv, Writing, Terminal, SpawnProgram, Goto, TypeOK, Records
<1>9. CASE FinishProgram
  BY <1>9, SetEffect
  DEF CancelInv, Writing, Terminal, FinishProgram, Goto
<1>10. CASE StopProgram
  BY <1>10, SetEffect
  DEF CancelInv, Writing, Terminal, StopProgram, Stopped, Current, Goto
<1>11. CASE CollectStartError
  BY <1>11
  DEF CancelInv, Writing, Terminal, CollectStartError, Stopped, Current, Goto
<1>12. CASE EvaluateResult
  BY <1>12, PersistEffect
  DEF CancelInv, Writing, Terminal, EvaluateResult, Stopped, Current, TypeOK,
    Records
<1>13. CASE ResumeResult
  BY <1>13, PersistEffect
  DEF CancelInv, Writing, Terminal, ResumeResult, Goto, TypeOK, Records
<1>14. CASE OfferNative
  BY <1>14, DeliveryEffect
  DEF CancelInv, Writing, Terminal, OfferNative, TypeOK, Records
<1>15. CASE BeginAttempt
  BY <1>15, SetEffect, DeliveryEffect
  DEF CancelInv, Writing, Terminal, BeginAttempt, ReturnUndelivered, Goto,
    Stopped, Current, TypeOK, Records
<1>16. CASE SendWake
  BY <1>16, DeliveryEffect
  DEF CancelInv, Writing, Terminal, SendWake, Goto, TypeOK, Records
<1>17. CASE EndAttempt
  BY <1>17, DeliveryEffect
  DEF CancelInv, Writing, Terminal, EndAttempt, TypeOK, Records
<1>18. CASE EndBackoff
  BY <1>18
  DEF CancelInv, Writing, Terminal, EndBackoff, Goto
<1>19. CASE GiveUpDelivery
  <2>1. CASE failing
    BY <1>19, <2>1 DEF CancelInv, Writing, Terminal, GiveUpDelivery, Goto
  <2>2. CASE ~failing
    <3>1. io'.rec = [mem EXCEPT !.phase = "finalizing", !.code = UndeliveredCode]
          /\ io'.then = "return" /\ pc' = "save"
      BY <1>19, <2>2, UpdateEffect DEF GiveUpDelivery
    <3>2. io'.rec.phase = "finalizing" /\ io'.rec.state = mem.state
      BY <3>1 DEF TypeOK, Records
    <3>3. QED
      BY <1>19, <3>1, <3>2 DEF CancelInv, Writing, Terminal, GiveUpDelivery
  <2>3. QED
    BY <2>1, <2>2
<1>20. CASE CloseDelivery
  <2>1. CASE failing
    BY <1>20, <2>1 DEF CancelInv, Writing, Terminal, CloseDelivery, Goto
  <2>2. CASE ~failing
    <3>1. PICK p \in {"awaiting_ack", "finalizing"} :
            /\ io'.rec = [mem EXCEPT !.code = code, !.phase = p]
            /\ io'.then \in {"acking", "return"} /\ pc' = "save"
      BY <1>20, <2>2, UpdateEffect DEF CloseDelivery
    <3>2. io'.rec.phase = p /\ io'.rec.state = mem.state
      BY <3>1 DEF TypeOK, Records
    <3>3. QED
      BY <1>20, <3>1, <3>2 DEF CancelInv, Writing, Terminal, CloseDelivery
  <2>3. QED
    BY <2>1, <2>2
<1>21. CASE EndAck
  BY <1>21, PersistEffect
  DEF CancelInv, Writing, Terminal, EndAck, Current, TypeOK, Records
<1>22. CASE WriteFinalLog
  BY <1>22
  DEF CancelInv, Writing, Terminal, WriteFinalLog, Goto
<1>23. CASE RecordWatcherFailure
  BY <1>23
  DEF CancelInv, Writing, Terminal, RecordWatcherFailure, Goto, AfterCatch,
    TypeOK, Records
<1>24. CASE ReleaseLock
  BY <1>24, UpdateEffect
  DEF CancelInv, Writing, Terminal, ReleaseLock
<1>25. CASE DecideEnd
  <2>1. CASE pc' = "save"
    <3>1. io'.rec = [mem EXCEPT !.phase = "notifying", !.code = "error"]
          /\ io'.then = "attempt" /\ mem' = mem /\ mem.state = "active"
      BY <1>25, <2>1, UpdateEffect DEF DecideEnd, Goto
    <3>2. io'.rec.phase = "notifying" /\ io'.rec.state = "active"
      BY <3>1 DEF TypeOK, Records
    <3>3. QED
      BY <1>25, <2>1, <3>1, <3>2 DEF CancelInv, Writing, Terminal, DecideEnd
  <2>2. CASE pc' # "save"
    <3>1. pc' \in {"idle", "finalize"} /\ io' = io /\ mem'.phase = mem.phase
          /\ mem'.state = mem.state
      BY <1>25, <2>2, UpdateEffect, SetEffect DEF DecideEnd, Goto
    <3>2. QED
      BY <1>25, <3>1 DEF CancelInv, Writing, Terminal, DecideEnd
  <2>3. QED
    BY <2>1, <2>2
<1>26. CASE SettleFailedNotice
  BY <1>26, PersistEffect
  DEF CancelInv, Writing, Terminal, SettleFailedNotice, TypeOK, Records
<1>27. CASE FinishWatch
  BY <1>27
  DEF CancelInv, Writing, Terminal, FinishWatch, TypeOK, Records
<1>28. CASE WakeWithoutPersistence
  BY <1>28
  DEF CancelInv, Writing, Terminal, WakeWithoutPersistence, Goto, TypeOK,
    Records
<1>29. CASE Submit
  BY <1>29
  DEF CancelInv, Writing, Terminal, Submit, Known, TypeOK, Records
<1>30. CASE Cancel
  BY <1>30 DEF CancelInv, Writing, Terminal, Cancel, Awaiting, TypeOK, Records,
     States, Terminal
<1>31. CASE SaveOther
  BY <1>31 DEF CancelInv, Writing, Terminal, SaveOther, Awaiting
<1>32. CASE OwnerActivates
  BY <1>32
  DEF CancelInv, Writing, Terminal, OwnerActivates
<1>33. CASE OwnerChanges
  BY <1>33
  DEF CancelInv, Writing, Terminal, OwnerChanges
<1>34. CASE OrphanExits
  BY <1>34
  DEF CancelInv, Writing, Terminal, OrphanExits
<1>35. CASE Crash
  BY <1>35
  DEF CancelInv, Writing, Terminal, Crash, NoIO, Absent, FirstPhase
<1>36. CASE Shutdown
  BY <1>36 DEF CancelInv, Writing, Terminal, Shutdown, Awaiting
<1>37. CASE SaveOnShutdown
  BY <1>37
  DEF CancelInv, Writing, Terminal, SaveOnShutdown, Absent, FirstPhase
<1>38. CASE Restart
  BY <1>38
  DEF CancelInv, Writing, Terminal, Restart, Goto, Restores
<1>39. QED
  BY <1>0, <1>1, <1>2, <1>3, <1>4, <1>5, <1>6, <1>7, <1>8, <1>9, <1>10,
    <1>11, <1>12, <1>13, <1>14, <1>15, <1>16, <1>17, <1>18, <1>19, <1>20,
    <1>21, <1>22, <1>23, <1>24, <1>25, <1>26, <1>27, <1>28, <1>29, <1>30,
    <1>31, <1>32, <1>33, <1>34, <1>35, <1>36, <1>37, <1>38
  DEF Next, TaskStep, EnvironmentStep, ServiceStep

\* Only the step after the check of the event, or a failed write before the
\* first attempt, starts a wake command; CancelInv excludes both.
LEMMA NoWakeStep ==
  TypeOK /\ CancelInv /\ [Next]_vars => (cancelSet => ~StartsWake)
<1> SUFFICES ASSUME TypeOK, CancelInv, [Next]_vars, cancelSet PROVE ~StartsWake
  OBVIOUS
<1>0. CASE UNCHANGED vars
  BY <1>0 DEF StartsWake, vars
<1>1. CASE WriteLog
  BY <1>1
  DEF StartsWake, WriteLog, CancelInv, Writing, Raise, Handler,
    BeforeDelivery, IOs, Continuations, TypeOK
<1>2. CASE SaveRecord
  BY <1>2
  DEF StartsWake, SaveRecord, CancelInv, Writing, Raise, Handler,
    BeforeDelivery, IOs, Continuations, TypeOK
<1>3. CASE AcquireLock
  BY <1>3, UpdateEffect, SetEffect
  DEF StartsWake, AcquireLock, Goto
<1>4. CASE RecoverPhase
  BY <1>4, SetEffect
  DEF StartsWake, RecoverPhase, Goto
<1>5. CASE PollActivation
  BY <1>5, UpdateEffect, PersistEffect
  DEF StartsWake, PollActivation
<1>6. CASE StartRunning
  BY <1>6, UpdateEffect
  DEF StartsWake, StartRunning
<1>7. CASE ExecuteProgram
  BY <1>7, SetEffect
  DEF StartsWake, ExecuteProgram, Goto
<1>8. CASE SpawnProgram
  BY <1>8, SetEffect, UpdateEffect
  DEF StartsWake, SpawnProgram, Goto
<1>9. CASE FinishProgram
  BY <1>9, SetEffect
  DEF StartsWake, FinishProgram, Goto
<1>10. CASE StopProgram
  BY <1>10, SetEffect
  DEF StartsWake, StopProgram, Goto
<1>11. CASE CollectStartError
  BY <1>11
  DEF StartsWake, CollectStartError, Goto
<1>12. CASE EvaluateResult
  BY <1>12, PersistEffect
  DEF StartsWake, EvaluateResult
<1>13. CASE ResumeResult
  BY <1>13, PersistEffect
  DEF StartsWake, ResumeResult, Goto
<1>14. CASE OfferNative
  BY <1>14, DeliveryEffect
  DEF StartsWake, OfferNative
<1>15. CASE BeginAttempt
  BY <1>15, SetEffect, DeliveryEffect
  DEF StartsWake, BeginAttempt, ReturnUndelivered, Goto
<1>16. CASE SendWake
  BY <1>16, DeliveryEffect
  DEF StartsWake, SendWake, Goto, CancelInv
<1>17. CASE EndAttempt
  BY <1>17, DeliveryEffect
  DEF StartsWake, EndAttempt
<1>18. CASE EndBackoff
  BY <1>18
  DEF StartsWake, EndBackoff, Goto
<1>19. CASE GiveUpDelivery
  BY <1>19, UpdateEffect
  DEF StartsWake, GiveUpDelivery, Goto
<1>20. CASE CloseDelivery
  BY <1>20, UpdateEffect
  DEF StartsWake, CloseDelivery, Goto
<1>21. CASE EndAck
  BY <1>21, PersistEffect
  DEF StartsWake, EndAck
<1>22. CASE WriteFinalLog
  BY <1>22
  DEF StartsWake, WriteFinalLog, Goto
<1>23. CASE RecordWatcherFailure
  BY <1>23
  DEF StartsWake, RecordWatcherFailure, Goto, AfterCatch
<1>24. CASE ReleaseLock
  BY <1>24, UpdateEffect
  DEF StartsWake, ReleaseLock
<1>25. CASE DecideEnd
  BY <1>25, SetEffect, UpdateEffect
  DEF StartsWake, DecideEnd, Goto
<1>26. CASE SettleFailedNotice
  BY <1>26, PersistEffect
  DEF StartsWake, SettleFailedNotice
<1>27. CASE FinishWatch
  BY <1>27
  DEF StartsWake, FinishWatch
<1>28. CASE WakeWithoutPersistence
  BY <1>28
  DEF StartsWake, WakeWithoutPersistence, Goto
<1>29. CASE Submit
  BY <1>29
  DEF StartsWake, Submit
<1>30. CASE Cancel
  BY <1>30
  DEF StartsWake, Cancel
<1>31. CASE SaveOther
  BY <1>31
  DEF StartsWake, SaveOther
<1>32. CASE OwnerActivates
  BY <1>32
  DEF StartsWake, OwnerActivates
<1>33. CASE OwnerChanges
  BY <1>33
  DEF StartsWake, OwnerChanges
<1>34. CASE OrphanExits
  BY <1>34
  DEF StartsWake, OrphanExits
<1>35. CASE Crash
  BY <1>35
  DEF StartsWake, Crash
<1>36. CASE Shutdown
  BY <1>36
  DEF StartsWake, Shutdown
<1>37. CASE SaveOnShutdown
  BY <1>37
  DEF StartsWake, SaveOnShutdown
<1>38. CASE Restart
  BY <1>38
  DEF StartsWake, Restart, Goto
<1>39. QED
  BY <1>0, <1>1, <1>2, <1>3, <1>4, <1>5, <1>6, <1>7, <1>8, <1>9, <1>10,
    <1>11, <1>12, <1>13, <1>14, <1>15, <1>16, <1>17, <1>18, <1>19, <1>20,
    <1>21, <1>22, <1>23, <1>24, <1>25, <1>26, <1>27, <1>28, <1>29, <1>30,
    <1>31, <1>32, <1>33, <1>34, <1>35, <1>36, <1>37, <1>38
  DEF Next, TaskStep, EnvironmentStep, ServiceStep

\* Once the cancel request has set the event, _deliver and
\* _notify_watcher_failure start no further wake command.
THEOREM CancelCorrect == Spec => NoWakeAfterCancel
<1>1. Init => CancelInv
  BY DEF Init, CancelInv, Writing
<1>2. QED
  BY <1>1, TypeCorrect, CancelStep, NoWakeStep, PTL DEF Spec, NoWakeAfterCancel

-----------------------------------------------------------------------------
(* What the records of a watch can be relied on for: the lock, delivery,   *)
(* the order of the phases, and the evidence in the log.  One lemma per    *)
(* action says what the step does to the fields of the records and the     *)
(* results; the parts of RecordInv follow from these, one case per action. *)

\* The record memory has after the result was set to r.
SetsTo(r) ==
  /\ res' = r
  /\ mem'.phase = mem.phase /\ mem'.state = mem.state /\ mem'.code = mem.code
  /\ mem'.result = IF linked THEN r ELSE mem.result

\* The task is about to write a record with these fields.
Writes(phase, state, c, r, then, links) ==
  /\ io'.rec.phase = phase /\ io'.rec.state = state /\ io'.rec.code = c
  /\ io'.rec.result = r
  /\ io'.then = then /\ (io'.links <=> links)

\* It persists result r, in a phase and with a code.
PersistsTo(r, phase, c, then) ==
  /\ SetsTo(r)
  /\ Writes(phase, mem.state, c, r, then, TRUE)
  /\ pc' = IF LogSettled(r) THEN "save" ELSE "log"

\* It updates phase and code of its record.
UpdatesTo(phase, c, then) ==
  /\ Writes(phase, mem.state, c, mem.result, then, FALSE)
  /\ pc' = "save"

\* A result that differs from the task's in note and attempts only.
Annotates(r) == r.event = res.event /\ r.durable = res.durable

\* One more write failed.
CountsFault ==
  /\ faults'.write = faults.write + 1 /\ faults.write \in Nat
  /\ faults'.read = faults.read /\ faults'.crash = faults.crash

\* Where a write fails that would have led to then.
FailsAt(then) ==
  /\ CountsFault
  /\ \/ pc' = then /\ then \in {"idle", "executing"}
     \/ pc' = "caught" /\ ~failing /\ then \notin {"idle", "executing"}
     \/ /\ pc' = "fallback" /\ failing /\ BeforeDelivery(then)
        /\ then \in {"attempt", "send", "delivered"}
        /\ then = "delivered" => args.client = "claude"
     \/ pc' = "finalize" /\ failing /\ then = "finalize"
     \/ /\ pc' = "broken" /\ failing /\ ~BeforeDelivery(then)
        /\ then \notin {"idle", "executing", "finalize", "attempt"}
  /\ (lock' <=> lock /\ then # "phase")
  /\ prog' = IF then = "executing" THEN "lost" ELSE prog

\* Setting the result touches the record's result at most.
LEMMA SetFields == ASSUME TypeOK, NEW r, SetResult(r) PROVE SetsTo(r)
BY DEF TypeOK, SetResult, Records, SetsTo

\* _persist_result writes what it is given, and the state of memory.
LEMMA PersistFields ==
  ASSUME TypeOK, NEW r, NEW phase, NEW c, NEW then, Persist(r, phase, c, then)
  PROVE  PersistsTo(r, phase, c, then)
BY SetFields DEF Persist, TypeOK, Records, PersistsTo, Writes

\* Inside _deliver phase and code stay.
LEMMA DeliveryFields ==
  ASSUME TypeOK, NEW r, NEW then, PersistDelivery(r, then)
  PROVE  PersistsTo(r, mem.phase, mem.code, then)
BY PersistFields DEF PersistDelivery

\* A failed write is one fault more.
LEMMA FaultFields == ASSUME TypeOK, WriteFault PROVE CountsFault
BY DEF TypeOK, WriteFault, Faults, CountsFault

\* Which handler takes the error of a write.
LEMMA RaiseFields ==
  ASSUME TypeOK, NEW then, then # "log", then # "save", WriteFault, Raise(then)
  PROVE  FailsAt(then)
<1>1. /\ BeforeDelivery(then) => then \in {"attempt", "send", "delivered"}
      /\ BeforeDelivery(then) /\ then = "delivered" => args.client = "claude"
      /\ then = "attempt" => BeforeDelivery(then)
  BY DEF BeforeDelivery
<1>2. pc' = Handler(then)
  BY DEF Raise
<1>3. CASE then \in {"idle", "executing"}
  BY <1>1, <1>2, <1>3, FaultFields DEF FailsAt, Raise, Handler
<1>4. CASE then \notin {"idle", "executing"} /\ ~failing
  BY <1>2, <1>4, FaultFields DEF FailsAt, Raise, Handler
<1>5. CASE then \notin {"idle", "executing"} /\ failing
  <2>1. CASE BeforeDelivery(then)
    BY <1>1, <1>2, <1>5, <2>1, FaultFields DEF FailsAt, Raise, Handler
  <2>2. CASE ~BeforeDelivery(then)
    BY <1>1, <1>2, <1>5, <2>2, FaultFields DEF FailsAt, Raise, Handler
  <2>3. QED
    BY <2>1, <2>2
<1>6. QED
  BY <1>3, <1>4, <1>5

\* Changing its note, or its note and attempts, changes nothing else of a result.
LEMMA NoteFields ==
  ASSUME TypeOK, NEW x
  PROVE  /\ Annotates([res EXCEPT !.note = x])
         /\ [res EXCEPT !.note = x].note = x
         /\ [res EXCEPT !.note = x].attempts = res.attempts
BY DEF TypeOK, Results, Annotates

\* The same with the attempts.
LEMMA NoteAttemptsFields ==
  ASSUME TypeOK, NEW x, NEW k
  PROVE  /\ Annotates([res EXCEPT !.note = x, !.attempts = k])
         /\ [res EXCEPT !.note = x, !.attempts = k].note = x
         /\ [res EXCEPT !.note = x, !.attempts = k].attempts = k
BY DEF TypeOK, Results, Annotates

\* The log takes the result on its way, or the write fails.
LEMMA WriteLogEffect ==
  ASSUME TypeOK, WriteLog
  PROVE
    /\ pc = "log" /\ io.then \in Continuations
    /\ UNCHANGED <<args, mem, disk, res, code, linked, failing, runs, woken>>
    /\ \/ /\ log' = io.rec.result /\ pc' = "save"
          /\ UNCHANGED <<io, lock, prog, faults>>
       \/ log' \in {log, io.rec.result} /\ FailsAt(io.then)
BY RaiseFields DEF WriteLog, TypeOK, IOs, Continuations, mind, outside

\* Memory takes the record on its way; the registry too, or the write fails.
LEMMA SaveRecordEffect ==
  ASSUME TypeOK, SaveRecord
  PROVE
    /\ pc = "save" /\ io.then \in Continuations
    /\ mem' = io.rec /\ (linked' <=> linked \/ io.links)
    /\ UNCHANGED <<args, log, res, code, failing, runs, woken>>
    /\ \/ disk' = io.rec /\ pc' = io.then /\ UNCHANGED <<lock, prog, faults>>
       \/ disk' \in {disk, io.rec} /\ FailsAt(io.then)
BY RaiseFields DEF SaveRecord, TypeOK, IOs, Continuations, outside

\* The task takes the lock, finds it taken, or cannot open its file.
LEMMA AcquireLockEffect ==
  ASSUME TypeOK, AcquireLock
  PROVE
    /\ pc = "start"
    /\ UNCHANGED <<args, disk, log, failing, prog, runs, woken, linked>>
    /\ \/ /\ lock' /\ UpdatesTo(mem.phase, mem.code, "phase")
          /\ UNCHANGED <<mem, res, code, faults>>
       \/ /\ SetsTo(Fresh("already_watching")) /\ pc' = "tail"
          /\ code' = "error" /\ UNCHANGED <<lock, faults>>
       \/ /\ CountsFault /\ pc' = "caught"
          /\ UNCHANGED <<mem, res, lock, code>>
BY SetFields, FaultFields
DEF AcquireLock, TakeLock, UpdateRecord, UpdatesTo, Writes, Goto, mind, files,
    outside, program

\* A started program is not started again; a late record is resumed.
LEMMA RecoverPhaseEffect ==
  ASSUME TypeOK, RecoverPhase
  PROVE
    /\ pc = "phase"
    /\ UNCHANGED <<args, disk, log, lock, failing, prog, runs, woken>>
    /\ \/ /\ mem.phase = "activating"
          /\ \/ pc' = "activating" /\ UNCHANGED faults
             \/ pc' = "caught" /\ CountsFault
          /\ UNCHANGED <<mem, res, linked, code>>
       \/ /\ mem.phase = "queued" /\ pc' = "queued"
          /\ UNCHANGED <<mem, res, linked, code, faults>>
       \/ /\ mem.phase \in Started /\ pc' = "evaluate" /\ UNCHANGED <<linked, code>>
          /\ \E seen \in {log, NoResult} :
               /\ SetsTo(IF seen = NoResult THEN Fresh("interrupted") ELSE seen)
               /\ \/ seen = log /\ UNCHANGED faults
                  \/ /\ seen = NoResult /\ faults'.read = faults.read + 1
                     /\ faults.read \in Nat
                     /\ faults'.write = faults.write /\ faults'.crash = faults.crash
       \/ /\ mem.phase \in Late /\ mem.result = NoResult /\ pc' = "caught"
          /\ UNCHANGED <<mem, res, linked, code, faults>>
       \/ /\ mem.phase \in Late /\ mem.result # NoResult /\ pc' = "resume"
          /\ res' = mem.result /\ code' = mem.code /\ linked'
          /\ UNCHANGED <<mem, faults>>
<1>1. CASE mem.phase \in Early
  BY <1>1, FaultFields
  DEF RecoverPhase, Early, Late, Started, Goto, mind, files, program
<1>2. CASE mem.phase \in Started
  <2>1. PICK seen \in {log, NoResult} :
          /\ ReadLog(seen)
          /\ SetResult(IF seen = NoResult THEN Fresh("interrupted") ELSE seen)
    BY <1>2 DEF RecoverPhase, Started
  <2>2. SetsTo(IF seen = NoResult THEN Fresh("interrupted") ELSE seen)
    BY <2>1, SetFields
  <2>3. \/ seen = log /\ UNCHANGED faults
        \/ /\ seen = NoResult /\ faults'.read = faults.read + 1
           /\ faults.read \in Nat
           /\ faults'.write = faults.write /\ faults'.crash = faults.crash
    BY <2>1 DEF ReadLog, TypeOK, Faults
  <2>4. QED
    BY <1>2, <2>2, <2>3 DEF RecoverPhase, Started, Late, Goto, files, program
<1>3. CASE mem.phase \in Late
  BY <1>3 DEF RecoverPhase, Late, Started, Goto, mind, files, program
<1>4. QED
  BY <1>1, <1>2, <1>3 DEF TypeOK, Records, Phases, Early, Late, Started

\* The wait is activated or over.
LEMMA PollActivationEffect ==
  ASSUME TypeOK, PollActivation
  PROVE
    /\ pc = "activating"
    /\ UNCHANGED <<args, disk, log, lock, failing, prog, runs, woken, linked,
                   faults>>
    /\ \/ /\ UpdatesTo("queued", mem.code, "queued") /\ UNCHANGED <<mem, res, code>>
       \/ /\ PersistsTo(Fresh("activation_over"), "finalizing", "cancelled", "finally")
          /\ code' = "cancelled"
BY PersistFields
DEF PollActivation, UpdateRecord, UpdatesTo, Writes, TypeOK, Records, quiet,
    files, mind, outside, program

\* The phase running is about to be written.
LEMMA StartRunningEffect ==
  ASSUME TypeOK, StartRunning
  PROVE
    /\ pc = "queued"
    /\ UpdatesTo("running", mem.code, "execute")
    /\ UNCHANGED <<args, mem, disk, log, lock, res, code, linked, failing, prog,
                   runs,
                   woken, faults>>
BY DEF StartRunning, UpdateRecord, UpdatesTo, Writes, TypeOK, Records, quiet,
  files, mind, outside, program

\* The program is past its deadline, cancelled, or being started.
LEMMA ExecuteProgramEffect ==
  ASSUME TypeOK, ExecuteProgram
  PROVE
    /\ pc = "execute"
    /\ UNCHANGED <<args, disk, log, lock, code, linked, failing, runs, woken,
                   faults>>
    /\ \/ /\ SetsTo(Fresh("timeout")) \/ SetsTo(Fresh("cancelled"))
          /\ pc' = "evaluate" /\ prog' = prog
       \/ prog' = "spawning" /\ pc' = "executing" /\ UNCHANGED <<mem, res>>
BY SetFields DEF ExecuteProgram, Goto, quiet, files, outside

\* The program did not start, or runs.
LEMMA SpawnProgramEffect ==
  ASSUME TypeOK, SpawnProgram
  PROVE
    /\ pc = "executing" /\ prog = "spawning"
    /\ UNCHANGED <<args, disk, log, lock, code, linked, failing, woken, faults>>
    /\ \/ /\ SetsTo(Fresh("start_failed")) /\ pc' = "evaluate"
          /\ prog' = "none" /\ runs' = runs
       \/ /\ UpdatesTo("querying", mem.code, "executing")
          /\ prog' = "running" /\ runs' = runs + 1
          /\ UNCHANGED <<mem, res>>
BY SetFields
DEF SpawnProgram, Goto, UpdateRecord, UpdatesTo, Writes, TypeOK, Records, quiet,
    files, outside

\* The program ended or was killed at its deadline.
LEMMA FinishProgramEffect ==
  ASSUME TypeOK, FinishProgram
  PROVE
    /\ pc = "executing" /\ prog = "running"
    /\ UNCHANGED <<args, disk, log, lock, code, linked, failing, runs, woken,
                   faults>>
    /\ pc' = "evaluate" /\ prog' = "gone"
    /\ SetsTo(Fresh("exited")) \/ SetsTo(Fresh("timeout"))
BY SetFields DEF FinishProgram, Goto, quiet, files, outside

\* The program was cancelled.
LEMMA StopProgramEffect ==
  ASSUME TypeOK, StopProgram
  PROVE
    /\ pc = "executing"
    /\ UNCHANGED <<args, disk, log, lock, code, linked, failing, woken, faults>>
    /\ pc' = "evaluate" /\ SetsTo(Fresh("cancelled"))
    /\ \/ prog = "spawning" /\ prog' = "none" /\ runs' = runs
       \/ prog = "spawning" /\ prog' = "gone" /\ runs' = runs + 1
       \/ prog = "running" /\ prog' = "gone" /\ runs' = runs
BY SetFields DEF StopProgram, Goto, program, quiet, files, outside

\* The outcome keeps its name unless it was cancelled; success was an exit.
LEMMA EvaluateResultEffect ==
  ASSUME TypeOK, EvaluateResult
  PROVE
    /\ pc = "evaluate"
    /\ UNCHANGED <<args, disk, log, lock, linked, failing, prog, runs, woken,
                   faults>>
    /\ \E r, phase, c :
         /\ PersistsTo(r, phase, c, "resume") /\ code' = c
         /\ r.durable = res.durable
         /\ r.event = res.event \/ r.event = "cancelled"
         /\ \/ /\ phase = "notifying" /\ r.event = res.event
               /\ r.note = "pending" /\ r.attempts = 0
            \/ /\ phase = "finalizing" /\ (~args.notify \/ r.event = "cancelled")
               /\ r.note = res.note /\ r.attempts = res.attempts
         /\ c = "ok" => r.event = "exited" /\ (args.notify => phase = "notifying")
<1> DEFINE c == IF Stopped THEN "cancelled"
                ELSE IF res.event = "exited" THEN "ok" ELSE "error"
           notifies == args.notify /\ ~Stopped
           named == IF Stopped THEN [res EXCEPT !.event = "cancelled"] ELSE res
           r == IF notifies THEN [named EXCEPT !.note = "pending", !.attempts = 0]
                            ELSE named
           phase == IF notifies THEN "notifying" ELSE "finalizing"
<1>1. Persist(r, phase, c, "resume") /\ code' = c
  BY DEF EvaluateResult
<1>2. PersistsTo(r, phase, c, "resume")
  BY <1>1, PersistFields
<1>3. /\ r.durable = res.durable
      /\ r.event = res.event \/ r.event = "cancelled"
      /\ \/ /\ phase = "notifying" /\ r.event = res.event
            /\ r.note = "pending" /\ r.attempts = 0
         \/ /\ phase = "finalizing" /\ (~args.notify \/ r.event = "cancelled")
            /\ r.note = res.note /\ r.attempts = res.attempts
  BY DEF TypeOK, Results
<1>4. c = "ok" => r.event = "exited" /\ (args.notify => phase = "notifying")
  BY DEF TypeOK, Results
<1> HIDE DEF c, r, phase
<1>5. QED
  BY <1>1, <1>2, <1>3, <1>4 DEF EvaluateResult, quiet, files, outside, program

\* An interrupted attempt is unconfirmed; the rest goes on where it was.
LEMMA ResumeResultEffect ==
  ASSUME TypeOK, ResumeResult
  PROVE
    /\ pc = "resume"
    /\ UNCHANGED <<args, disk, log, lock, linked, failing, prog, runs, woken,
                   faults>>
    /\ \/ /\ mem.phase = "notifying" /\ res.note = "attempting"
          /\ code' = "error"
          /\ \E r : /\ PersistsTo(r, "finalizing", "error", "return")
                    /\ Annotates(r) /\ r.note = "unconfirmed" /\ r.attempts = res.attempts
       \/ /\ UNCHANGED <<mem, res, code>>
          /\ \/ /\ mem.phase = "notifying" /\ res.note \in DeliveredNotes
                /\ pc' = "delivered"
             \/ /\ mem.phase = "notifying" /\ pc' = "attempt"
                /\ res.note \notin {"attempting"} \cup DeliveredNotes
             \/ mem.phase = "awaiting_ack" /\ pc' = "acking"
             \/ mem.phase \notin {"notifying", "awaiting_ack"} /\ pc' = "return"
<1>1. CASE mem.phase = "notifying" /\ res.note = "attempting"
  BY <1>1, PersistFields, NoteFields
  DEF ResumeResult, quiet, files, outside, program
<1>2. CASE ~(mem.phase = "notifying" /\ res.note = "attempting")
  BY <1>2 DEF ResumeResult, Goto, DeliveredNotes, quiet, files, outside, program
<1>3. QED
  BY <1>1, <1>2

\* Claude's event is on offer.
LEMMA OfferNativeEffect ==
  ASSUME TypeOK, OfferNative
  PROVE
    /\ pc = "attempt" /\ args.client = "claude"
    /\ UNCHANGED <<args, disk, log, lock, linked, failing, code, prog, runs, woken,
                   faults>>
    /\ \E r : /\ PersistsTo(r, mem.phase, mem.code, "delivered")
              /\ Annotates(r) /\ r.note = "native_pending" /\ r.attempts = 0
<1> DEFINE r == [res EXCEPT !.note = "native_pending", !.attempts = 0]
<1>1. PersistsTo(r, mem.phase, mem.code, "delivered")
  BY DeliveryFields DEF OfferNative
<1>2. Annotates(r) /\ r.note = "native_pending" /\ r.attempts = 0
  BY NoteAttemptsFields
<1> HIDE DEF r
<1>3. QED
  BY <1>1, <1>2 DEF OfferNative, quiet, files, outside, program

\* No attempt is left, none is wanted, or the next one is written first.
LEMMA BeginAttemptEffect ==
  ASSUME TypeOK, BeginAttempt
  PROVE
    /\ pc = "attempt" /\ args.client # "claude"
    /\ UNCHANGED <<args, disk, log, lock, linked, failing, prog, runs, woken,
                   faults>>
    /\ \/ /\ pc' = IF failing THEN "finalize" ELSE "undelivered"
          /\ code' = IF failing THEN code ELSE "error"
          /\ res.attempts # 0
          /\ UNCHANGED <<mem, res>>
       \/ /\ pc' = IF failing THEN "finalize" ELSE "undelivered"
          /\ code' = IF failing THEN code ELSE "cancelled"
          /\ \E r : SetsTo(r) /\ Annotates(r) /\ r.note = "cancelled"
       \/ /\ UNCHANGED code
          /\ \E r : /\ PersistsTo(r, mem.phase, mem.code, "send")
                    /\ Annotates(r) /\ r.note = "attempting"
                    /\ r.attempts = res.attempts + 1 /\ res.attempts \in Nat
<1>1. CASE Exhausted
  BY <1>1, WatchAssumption
  DEF BeginAttempt, ReturnUndelivered, Goto, Exhausted, TypeOK, Results, quiet,
      files, outside, program
<1>2. CASE ~Exhausted /\ Stopped
  <2>1. /\ SetResult([res EXCEPT !.note = "cancelled"])
        /\ ReturnUndelivered("cancelled")
    BY <1>2 DEF BeginAttempt
  <2>2. QED
    BY <2>1, SetFields, NoteFields
    DEF BeginAttempt, ReturnUndelivered, Goto, quiet, files, outside, program
<1>3. CASE ~Exhausted /\ ~Stopped
  <2> DEFINE r == [res EXCEPT !.note = "attempting", !.attempts = @ + 1]
  <2>1. PersistDelivery(r, "send") /\ code' = code
    BY <1>3 DEF BeginAttempt
  <2>2. /\ Annotates(r) /\ r.note = "attempting"
        /\ r.attempts = res.attempts + 1 /\ res.attempts \in Nat
    BY DEF TypeOK, Results, Annotates
  <2> HIDE DEF r
  <2>3. PersistsTo(r, mem.phase, mem.code, "send")
    BY <2>1, DeliveryFields
  <2>4. QED
    BY <2>1, <2>2, <2>3 DEF BeginAttempt, quiet, files, outside, program
<1>4. QED
  BY <1>1, <1>2, <1>3

\* The command starts, or has no endpoint.
LEMMA SendWakeEffect ==
  ASSUME TypeOK, SendWake
  PROVE
    /\ pc = "send"
    /\ UNCHANGED <<args, disk, log, lock, linked, failing, code, prog, runs, woken,
                   faults>>
    /\ \/ pc' = "sending" /\ UNCHANGED <<mem, res>>
       \/ \E r : /\ PersistsTo(r, mem.phase, mem.code, "undelivered")
                 /\ Annotates(r) /\ r.note = "failed" /\ r.attempts = res.attempts
BY DeliveryFields, NoteFields DEF SendWake, Goto, quiet, files, outside, program

\* Only a confirmed wake is delivered; a Codex wake in doubt is not retried.
LEMMA EndAttemptEffect ==
  ASSUME TypeOK, EndAttempt
  PROVE
    /\ pc = "sending"
    /\ UNCHANGED <<args, disk, log, lock, linked, failing, code, prog, runs,
                   faults>>
    /\ \E r, then :
         /\ PersistsTo(r, mem.phase, mem.code, then)
         /\ Annotates(r) /\ r.attempts = res.attempts
         /\ \/ woken' = "yes" /\ r.note = "delivered" /\ then = "delivered"
            \/ /\ r.note \in {"failed", "unconfirmed", "retrying"}
               /\ then \in {"undelivered", "backoff"}
               /\ \/ woken' = woken
                  \/ /\ woken' = AtLeastMaybe
                     /\ args.client = "codex" => then = "undelivered"
BY DeliveryFields, NoteFields DEF EndAttempt, files, outside, program

\* An undelivered result is finalized without success.
LEMMA GiveUpDeliveryEffect ==
  ASSUME TypeOK, GiveUpDelivery
  PROVE
    /\ pc = "undelivered"
    /\ UNCHANGED <<args, mem, disk, log, lock, res, linked, failing, prog, runs,
                   woken,
                   faults>>
    /\ \/ failing /\ pc' = "finalize" /\ code' = code
       \/ /\ ~failing /\ UpdatesTo("finalizing", UndeliveredCode, "return")
          /\ code' = UndeliveredCode
<1>1. CASE failing
  BY <1>1 DEF GiveUpDelivery, Goto, quiet, files, mind, outside, program
<1>2. CASE ~failing
  <2>1. /\ UpdateRecord([mem EXCEPT !.phase = "finalizing", !.code = UndeliveredCode],
                        "return")
        /\ code' = UndeliveredCode
    BY <1>2 DEF GiveUpDelivery
  <2>2. UpdatesTo("finalizing", UndeliveredCode, "return")
    BY <2>1 DEF UpdateRecord, UpdatesTo, Writes, TypeOK, Records
  <2>3. QED
    BY <1>2, <2>1, <2>2 DEF GiveUpDelivery, quiet, files, mind, outside, program
<1>3. QED
  BY <1>1, <1>2

\* A delivered result awaits the goal's answer or is finalized.
LEMMA CloseDeliveryEffect ==
  ASSUME TypeOK, CloseDelivery
  PROVE
    /\ pc = "delivered"
    /\ UNCHANGED <<args, mem, disk, log, lock, res, code, linked, failing, prog,
                   runs,
                   woken, faults>>
    /\ \/ failing /\ pc' = "finalize"
       \/ ~failing /\ UpdatesTo("awaiting_ack", code, "acking")
       \/ ~failing /\ UpdatesTo("finalizing", code, "return")
<1>1. CASE failing
  BY <1>1 DEF CloseDelivery, Goto, quiet, files, mind, outside, program
<1>2. CASE ~failing
  <2> DEFINE goal == args.mode = "goal"
             phase == IF goal THEN "awaiting_ack" ELSE "finalizing"
  <2>1. UpdateRecord([mem EXCEPT !.code = code, !.phase = phase],
                     IF goal THEN "acking" ELSE "return")
    BY <1>2 DEF CloseDelivery
  <2>2. UpdatesTo(phase, code, IF goal THEN "acking" ELSE "return")
    BY <2>1 DEF UpdateRecord, UpdatesTo, Writes, TypeOK, Records
  <2>3. QED
    BY <1>2, <2>2 DEF CloseDelivery, quiet, files, mind, outside, program
<1>3. QED
  BY <1>1, <1>2

\* The goal's answer, or its absence, finalizes the result.
LEMMA EndAckEffect ==
  ASSUME TypeOK, EndAck
  PROVE
    /\ pc = "acking"
    /\ UNCHANGED <<args, disk, log, lock, linked, failing, prog, runs, woken,
                   faults>>
    /\ \E r, c :
         /\ PersistsTo(r, "finalizing", c, "return") /\ code' = c
         /\ Annotates(r) /\ r.attempts = res.attempts
         /\ \/ r = res /\ c = code
            \/ r.note \in {"cancelled", "unconfirmed"} /\ c \in {"cancelled", "error"}
<1> DEFINE open == res.note = "native_pending" /\ Current
           r == IF ~open THEN res
                ELSE [res EXCEPT !.note = IF cancelSet THEN "cancelled"
                                                       ELSE "unconfirmed"]
           c == IF ~open THEN code ELSE IF cancelSet THEN "cancelled" ELSE "error"
<1>1. PersistsTo(r, "finalizing", c, "return") /\ code' = c
  BY PersistFields DEF EndAck
<1>2. /\ Annotates(r) /\ r.attempts = res.attempts
      /\ \/ r = res /\ c = code
         \/ r.note \in {"cancelled", "unconfirmed"} /\ c \in {"cancelled", "error"}
  BY NoteFields DEF Annotates
<1> HIDE DEF r, c
<1>3. QED
  BY <1>1, <1>2 DEF EndAck, quiet, files, outside, program

\* The log takes the task's result, unless it keeps a program's.
LEMMA WriteFinalLogEffect ==
  ASSUME TypeOK, WriteFinalLog
  PROVE
    /\ pc = "return"
    /\ UNCHANGED <<args, mem, disk, lock, res, code, linked, failing, prog, runs,
                   woken>>
    /\ \/ LogSettled(res) /\ pc' = "finally" /\ UNCHANGED <<log, faults>>
       \/ ~LogSettled(res) /\ log' = res /\ pc' = "finally" /\ UNCHANGED faults
       \/ ~LogSettled(res) /\ log' \in {log, res} /\ pc' = "caught" /\ CountsFault
BY FaultFields DEF WriteFinalLog, Goto, files, mind, outside, program

\* The failure keeps a program's outcome in the log if it could read it.
LEMMA RecordWatcherFailureEffect ==
  ASSUME TypeOK, RecordWatcherFailure
  PROVE
    /\ pc = "caught"
    /\ UNCHANGED <<args, mem, disk, lock, failing, prog, runs, woken>>
    /\ code' = "error" /\ ~linked'
    /\ pc' = IF lock THEN "finally" ELSE "tail"
    /\ res'.event = "watcher_failed" /\ res'.note = "none" /\ res'.attempts = 0
    /\ \E seen \in {log, NoResult} :
         /\ (res'.durable <=> KeepsOutcome(seen))
         /\ \/ seen = log /\ UNCHANGED faults
            \/ /\ seen = NoResult /\ faults'.read = faults.read + 1
               /\ faults.read \in Nat
               /\ faults'.write \in {faults.write, faults.write + 1} /\ faults.write \in Nat
               /\ faults'.crash = faults.crash
            \/ seen = log /\ CountsFault
         /\ \/ log' = log
            \/ ~KeepsOutcome(seen) /\ log' = res'
<1>1. PICK seen \in {log, NoResult} :
        LET keeps == KeepsOutcome(seen)
            r == [Fresh("watcher_failed") EXCEPT !.durable = keeps]
        IN /\ res' = r
           /\ \/ keeps /\ ReadLog(seen) /\ UNCHANGED log
              \/ ~keeps /\ ReadLog(seen) /\ log' = r
              \/ ~keeps /\ ReadLogWriteFault(seen) /\ log' \in {log, r}
  BY DEF RecordWatcherFailure
<1>2. /\ res'.event = "watcher_failed" /\ res'.note = "none" /\ res'.attempts = 0
      /\ (res'.durable <=> KeepsOutcome(seen))
  BY <1>1 DEF Fresh
<1>3. \/ seen = log /\ UNCHANGED faults
      \/ /\ seen = NoResult /\ faults'.read = faults.read + 1
         /\ faults.read \in Nat
         /\ faults'.write \in {faults.write, faults.write + 1} /\ faults.write \in Nat
         /\ faults'.crash = faults.crash
      \/ seen = log /\ CountsFault
  <2>1. CASE ReadLog(seen)
    BY <2>1 DEF ReadLog, TypeOK, Faults
  <2>2. CASE ReadLogWriteFault(seen)
    <3>1. CASE seen = log /\ WriteFault
      BY <3>1, FaultFields
    <3>2. CASE /\ seen = NoResult
               /\ faults' = [faults EXCEPT !.read = @ + 1, !.write = @ + 1]
      BY <3>2 DEF TypeOK, Faults
    <3>3. QED
      BY <2>2, <3>1, <3>2 DEF ReadLogWriteFault
  <2>3. QED
    BY <1>1, <2>1, <2>2
<1>4. \/ log' = log
      \/ ~KeepsOutcome(seen) /\ log' = res'
  BY <1>1
<1>5. QED
  BY <1>2, <1>3, <1>4 DEF RecordWatcherFailure, AfterCatch, Goto, outside, program

\* The lock is free before the record says so.
LEMMA ReleaseLockEffect ==
  ASSUME TypeOK, ReleaseLock
  PROVE
    /\ pc = "finally"
    /\ ~lock' /\ UpdatesTo(mem.phase, mem.code, "tail")
    /\ UNCHANGED <<args, mem, disk, log, res, code, linked, failing, prog, runs,
                   woken,
                   faults>>
BY DEF ReleaseLock, UpdateRecord, UpdatesTo, Writes, quiet, files, mind,
  outside, program

\* The task ends, or a failed watcher that never tried begins to wake.
LEMMA DecideEndEffect ==
  ASSUME TypeOK, DecideEnd
  PROVE
    /\ pc = "tail"
    /\ UNCHANGED <<args, disk, log, lock, code, linked, prog, runs, woken, faults>>
    /\ \/ mem.state # "active" /\ pc' = "idle" /\ UNCHANGED <<mem, res, failing>>
       \/ /\ mem.state = "active" /\ pc' = "finalize" /\ UNCHANGED <<mem, res,
                                                                     failing>>
          /\ ~(res.event = "watcher_failed" /\ args.notify /\ res.note \in {"none", "pending"})
       \/ /\ mem.state = "active" /\ pc' = "finalize" /\ UNCHANGED failing
          /\ AttemptOnRecord /\ res.event = "watcher_failed"
          /\ \E r : /\ SetsTo(r) /\ Annotates(r)
                    /\ \/ r.note = "unconfirmed"
                       \/ /\ r.note = log.note /\ r.attempts = log.attempts
                          /\ log.attempts # 0
       \/ /\ mem.state = "active" /\ failing' /\ ~AttemptOnRecord
          /\ res.event = "watcher_failed" /\ args.notify /\ res.note \in {"none", "pending"}
          /\ mem' = mem /\ UpdatesTo("notifying", "error", "attempt")
          /\ Annotates(res') /\ res'.note = "pending" /\ res'.attempts = 0
<1>1. CASE pc' = "save"
  <2>1. res' = [res EXCEPT !.note = "pending", !.attempts = 0] /\ mem' = mem
        /\ UpdateRecord([mem EXCEPT !.phase = "notifying", !.code = "error"], "attempt")
        /\ failing' = TRUE /\ ~AttemptOnRecord /\ res.event = "watcher_failed"
        /\ args.notify /\ res.note \in {"none", "pending"}
        /\ mem.state = "active" /\ pc = "tail"
        /\ UNCHANGED <<args, disk, log, lock, code, linked, prog, runs, woken, faults>>
    BY <1>1 DEF DecideEnd, Goto, files, outside, program
  <2>2. UpdatesTo("notifying", "error", "attempt")
    BY <2>1 DEF UpdateRecord, UpdatesTo, Writes, TypeOK, Records
  <2>3. Annotates(res') /\ res'.note = "pending" /\ res'.attempts = 0
    BY <2>1, NoteAttemptsFields
  <2>4. QED
    BY <2>1, <2>2, <2>3
<1>2. CASE pc' # "save"
  <2>1. CASE /\ mem.state = "active" /\ AttemptOnRecord /\ res.event = "watcher_failed"
             /\ args.notify /\ res.note \in {"none", "pending"}
    <3>1. SetResult([res EXCEPT
                !.note = IF log.note \in {"attempting", "retrying"}
                           THEN "unconfirmed" ELSE log.note,
                !.attempts = log.attempts])
          /\ pc' = "finalize" /\ UNCHANGED failing
      BY <1>2, <2>1 DEF DecideEnd, UpdateRecord, Goto
    <3> DEFINE r == [res EXCEPT
                !.note = IF log.note \in {"attempting", "retrying"}
                           THEN "unconfirmed" ELSE log.note,
                !.attempts = log.attempts]
    <3>a. log.attempts # 0
      BY <2>1 DEF TypeOK, Results, AttemptOnRecord
    <3>b. Annotates(r) /\ r.attempts = log.attempts
          /\ (r.note = "unconfirmed" \/ r.note = log.note)
      BY DEF TypeOK, Results, Annotates
    <3>2. /\ Annotates(r)
          /\ \/ r.note = "unconfirmed"
             \/ /\ r.note = log.note /\ r.attempts = log.attempts
                /\ log.attempts # 0
      BY <3>a, <3>b
    <3>3. SetResult(r)
      BY <3>1
    <3> HIDE DEF r
    <3>4. SetsTo(r)
      BY <3>3, SetFields
    <3>5. QED
      BY <2>1, <3>1, <3>2, <3>4 DEF DecideEnd, files, outside, program
  <2>2. CASE ~(/\ mem.state = "active" /\ AttemptOnRecord /\ res.event = "watcher_failed"
               /\ args.notify /\ res.note \in {"none", "pending"})
    BY <1>2, <2>2 DEF DecideEnd, UpdateRecord, Goto, files, outside, program
  <2>3. QED
    BY <2>1, <2>2
<1>3. QED
  BY <1>1, <1>2

\* The failed wake of a failed watcher is settled.
LEMMA SettleFailedNoticeEffect ==
  ASSUME TypeOK, SettleFailedNotice
  PROVE
    /\ pc = "broken"
    /\ UNCHANGED <<args, disk, log, lock, linked, failing, code, prog, runs, woken,
                   faults>>
    /\ \E r : /\ PersistsTo(r, mem.phase, "error", "finalize") /\ Annotates(r)
              /\ \/ r.note = "failed"
                 \/ r = res /\ res.note \in DeliveredNotes
<1> DEFINE r == IF res.note \in DeliveredNotes THEN res ELSE [res EXCEPT !.note = "failed"]
<1>1. PersistsTo(r, mem.phase, "error", "finalize")
  BY PersistFields DEF SettleFailedNotice
<1>2. Annotates(r) /\ (r.note = "failed" \/ (r = res /\ res.note \in DeliveredNotes))
  BY NoteFields DEF Annotates
<1> HIDE DEF r
<1>3. QED
  BY <1>1, <1>2 DEF SettleFailedNotice, quiet, files, outside, program

\* The end of the watch is about to be written.
LEMMA FinishWatchEffect ==
  ASSUME TypeOK, FinishWatch
  PROVE
    /\ pc = "finalize"
    /\ UNCHANGED <<args, mem, disk, log, lock, linked, res, failing, code, prog,
                   runs,
                   woken, faults>>
    /\ Writes(IF res.event = "watcher_failed" THEN "finalizing" ELSE mem.phase,
              IF code = "ok" THEN "completed" ELSE "failed", code, res, "idle", TRUE)
    /\ pc' = "save"
BY DEF FinishWatch, Writes, TypeOK, Records, quiet, files, mind, outside, program

\* The end is in memory only.
LEMMA WakeWithoutPersistenceEffect ==
  ASSUME TypeOK, WakeWithoutPersistence
  PROVE
    /\ pc = "fallback"
    /\ UNCHANGED <<args, disk, log, lock, failing, code, prog, runs, faults>>
    /\ linked' /\ pc' = "idle"
    /\ Annotates(res') /\ mem'.result = res'
    /\ args.client = "claude" => res'.attempts = res.attempts
    /\ mem'.state = "failed" /\ mem'.phase = "finalizing" /\ mem'.code = "error"
    /\ \/ res'.note = "delivered" /\ woken' = "yes"
       \/ res'.note \in {"unconfirmed", "failed"} /\ woken' \in {woken, AtLeastMaybe}
<1>1. PICK note \in {"delivered", "unconfirmed", "failed"} :
        /\ args.client = "claude" => note = "unconfirmed"
        /\ woken' = CASE args.client = "claude" \/ note = "failed" -> woken
                      [] note = "delivered" -> "yes"
                      [] OTHER -> AtLeastMaybe
        /\ res' = [res EXCEPT !.note = note,
                     !.attempts = IF args.client = "claude" THEN @ ELSE 1]
        /\ mem' = [mem EXCEPT !.state = "failed", !.phase = "finalizing",
                     !.code = "error", !.result = res']
  BY DEF WakeWithoutPersistence
<1>2. /\ Annotates(res') /\ res'.note = note
      /\ args.client = "claude" => res'.attempts = res.attempts
  BY <1>1 DEF TypeOK, Results, Annotates
<1>3. /\ mem'.result = res' /\ mem'.state = "failed" /\ mem'.phase = "finalizing"
      /\ mem'.code = "error"
  BY <1>1 DEF TypeOK, Records
<1>4. QED
  BY <1>1, <1>2, <1>3 DEF WakeWithoutPersistence, Goto, files, outside, program

\* A new watch is active, and has a task if the registry could be written.
LEMMA SubmitEffect ==
  ASSUME TypeOK, Submit
  PROVE
    /\ pc = "idle" /\ mem.state = "absent"
    /\ UNCHANGED <<args, log, lock, res, code, linked, failing, prog, runs, woken>>
    /\ mem'.state = "active" /\ mem'.phase = mem.phase /\ mem'.code = mem.code
    /\ mem'.result = mem.result
    /\ \/ disk' = mem' /\ pc' = "start" /\ UNCHANGED faults
       \/ disk' \in {disk, mem'} /\ pc' = pc /\ CountsFault
BY FaultFields DEF Submit, Known, TypeOK, Records, mind, program, outside

\* The watch is cancelled in memory, and in the registry if it could be written.
LEMMA CancelEffect ==
  ASSUME TypeOK, Cancel
  PROVE
    /\ Awaiting /\ mem.state = "active"
    /\ UNCHANGED <<args, log, lock, res, code, linked, failing, prog, runs, woken,
                   pc, io>>
    /\ mem'.state = "cancelled" /\ mem'.phase = mem.phase /\ mem'.code = mem.code
    /\ mem'.result = mem.result
    /\ \/ disk' = mem' /\ UNCHANGED faults
       \/ disk' \in {disk, mem'} /\ CountsFault
BY FaultFields DEF Cancel, TypeOK, Records, mind, program, outside

\* Files stay, memory is gone.
LEMMA CrashEffect ==
  ASSUME TypeOK, Crash
  PROVE
    /\ pc # "down" /\ pc' = "down"
    /\ UNCHANGED <<args, disk, log>>
    /\ mem'.state = "absent" /\ mem'.result = NoResult /\ mem'.phase \in Early
    /\ mem'.code = "ok"
    /\ res' = NoResult /\ code' = "ok"
    /\ ~linked' /\ ~failing' /\ ~lock'
    /\ faults'.crash = faults.crash + 1 /\ faults.crash \in Nat
    /\ faults'.write = faults.write /\ faults'.read = faults.read
    /\ woken' = woken \/ woken' = AtLeastMaybe
    /\ \/ prog = "spawning" /\ prog' = "none" /\ runs' = runs
       \/ prog = "spawning" /\ prog' = "lost" /\ runs' = runs + 1
       \/ prog = "running" /\ prog' = "lost" /\ runs' = runs
       \/ prog \notin {"spawning", "running"} /\ prog' = prog /\ runs' = runs
BY DEF Crash, CountCrash, WokenAtStop, Absent, FirstPhase, Early, TypeOK,
  Faults, files, outside, program

\* The lock is free, the program killed.
LEMMA ShutdownEffect ==
  ASSUME TypeOK, Shutdown
  PROVE
    /\ Awaiting /\ lock /\ pc' = "stopping" /\ ~lock'
    /\ UNCHANGED <<args, mem, disk, log, res, code, linked, failing>>
    /\ faults'.crash = faults.crash + 1 /\ faults.crash \in Nat
    /\ faults'.write = faults.write /\ faults'.read = faults.read
    /\ woken' = woken \/ woken' = AtLeastMaybe
    /\ \/ prog = "spawning" /\ prog' = "none" /\ runs' = runs
       \/ prog = "spawning" /\ prog' = "gone" /\ runs' = runs + 1
       \/ prog = "running" /\ prog' = "gone" /\ runs' = runs
       \/ prog \notin {"spawning", "running"} /\ prog' = prog /\ runs' = runs
BY DEF Shutdown, CountCrash, WokenAtStop, TypeOK, Faults, mind, files, outside,
  program

\* The registry takes the record and the daemon ends, or the write fails.
LEMMA SaveOnShutdownEffect ==
  ASSUME TypeOK, SaveOnShutdown
  PROVE
    /\ pc = "stopping"
    /\ UNCHANGED <<args, log, lock, prog, runs, woken>>
    /\ \/ /\ disk' = mem /\ pc' = "down"
          /\ mem'.state = "absent" /\ mem'.result = NoResult /\ mem'.phase \in Early
          /\ mem'.code = "ok"
          /\ res' = NoResult /\ code' = "ok"
          /\ ~linked' /\ ~failing' /\ UNCHANGED faults
       \/ /\ CountsFault /\ pc' = "caught" /\ disk' \in {disk, mem}
          /\ UNCHANGED <<mem, res, linked, code, failing>>
BY FaultFields DEF SaveOnShutdown, Absent, FirstPhase, Early, mind, outside, program

-----------------------------------------------------------------------------
(* The lock and the program.                                               *)

\* Every step keeps the lock with the part of the task that needs it.
LEMMA LockStep ==
  ASSUME TypeOK, LinkInv, LockInv, [Next]_vars
  PROVE  LockInv'
<1>0. CASE UNCHANGED vars
  BY <1>0 DEF LockInv, At, Writing, Holding, Waiting, Delivering, vars
<1>1. CASE WriteLog
  BY <1>1, WriteLogEffect
  DEF LockInv, At, Writing, Holding, Waiting, Delivering, FailsAt, CountsFault
<1>2. CASE SaveRecord
  <2>1. CASE disk' = io.rec /\ pc' = io.then /\ UNCHANGED <<lock, prog, faults>>
    BY <1>2, <2>1, SaveRecordEffect
    DEF LockInv, At, Writing, Holding, Waiting, Delivering, LinkInv, Continuations
  <2>2. CASE disk' \in {disk, io.rec} /\ FailsAt(io.then)
    BY <1>2, <2>2, SaveRecordEffect
    DEF LockInv, At, Writing, Holding, Waiting, Delivering, LinkInv,
        Continuations, FailsAt, CountsFault
  <2>3. QED
    BY <1>2, <2>1, <2>2, SaveRecordEffect
<1>3. CASE AcquireLock
  BY <1>3, AcquireLockEffect
  DEF LockInv, At, Writing, Holding, Waiting, Delivering, SetsTo, UpdatesTo,
      Writes, CountsFault
<1>4. CASE RecoverPhase
  BY <1>4, RecoverPhaseEffect
  DEF LockInv, At, Writing, Holding, Waiting, Delivering, SetsTo, CountsFault,
      Started, Late
<1>5. CASE PollActivation
  BY <1>5, PollActivationEffect
  DEF LockInv, At, Writing, Holding, Waiting, Delivering, PersistsTo, SetsTo,
      Writes, UpdatesTo
<1>6. CASE StartRunning
  BY <1>6, StartRunningEffect
  DEF LockInv, At, Writing, Holding, Waiting, Delivering, UpdatesTo, Writes
<1>7. CASE ExecuteProgram
  BY <1>7, ExecuteProgramEffect
  DEF LockInv, At, Writing, Holding, Waiting, Delivering, SetsTo
<1>8. CASE SpawnProgram
  BY <1>8, SpawnProgramEffect
  DEF LockInv, At, Writing, Holding, Waiting, Delivering, SetsTo, UpdatesTo,
      Writes
<1>9. CASE FinishProgram
  BY <1>9, FinishProgramEffect
  DEF LockInv, At, Writing, Holding, Waiting, Delivering, SetsTo
<1>10. CASE StopProgram
  BY <1>10, StopProgramEffect
  DEF LockInv, At, Writing, Holding, Waiting, Delivering, SetsTo
<1>11. CASE CollectStartError
  BY <1>11
  DEF LockInv, At, Writing, Holding, Waiting, Delivering, CollectStartError,
      Goto, quiet, outside, files, mind, program
<1>12. CASE EvaluateResult
  BY <1>12, EvaluateResultEffect
  DEF LockInv, At, Writing, Holding, Waiting, Delivering, PersistsTo, SetsTo,
      Writes
<1>13. CASE ResumeResult
  BY <1>13, ResumeResultEffect
  DEF LockInv, At, Writing, Holding, Waiting, Delivering, PersistsTo, SetsTo,
      Writes, Annotates, DeliveredNotes
<1>14. CASE OfferNative
  BY <1>14, OfferNativeEffect
  DEF LockInv, At, Writing, Holding, Waiting, Delivering, PersistsTo, SetsTo,
      Writes, Annotates
<1>15. CASE BeginAttempt
  BY <1>15, BeginAttemptEffect
  DEF LockInv, At, Writing, Holding, Waiting, Delivering, SetsTo, PersistsTo,
      Writes, Annotates
<1>16. CASE SendWake
  BY <1>16, SendWakeEffect
  DEF LockInv, At, Writing, Holding, Waiting, Delivering, PersistsTo, SetsTo,
      Writes, Annotates
<1>17. CASE EndAttempt
  BY <1>17, EndAttemptEffect
  DEF LockInv, At, Writing, Holding, Waiting, Delivering, PersistsTo, SetsTo,
      Writes, Annotates, AtLeastMaybe
<1>18. CASE EndBackoff
  BY <1>18
  DEF LockInv, At, Writing, Holding, Waiting, Delivering, EndBackoff, Goto,
      quiet, outside, files, mind, program
<1>19. CASE GiveUpDelivery
  BY <1>19, GiveUpDeliveryEffect
  DEF LockInv, At, Writing, Holding, Waiting, Delivering, UpdatesTo, Writes,
      UndeliveredCode
<1>20. CASE CloseDelivery
  BY <1>20, CloseDeliveryEffect
  DEF LockInv, At, Writing, Holding, Waiting, Delivering, UpdatesTo, Writes
<1>21. CASE EndAck
  BY <1>21, EndAckEffect
  DEF LockInv, At, Writing, Holding, Waiting, Delivering, PersistsTo, SetsTo,
      Writes, Annotates
<1>22. CASE WriteFinalLog
  BY <1>22, WriteFinalLogEffect
  DEF LockInv, At, Writing, Holding, Waiting, Delivering, CountsFault
<1>23. CASE RecordWatcherFailure
  BY <1>23, RecordWatcherFailureEffect
  DEF LockInv, At, Writing, Holding, Waiting, Delivering, CountsFault,
      KeepsOutcome
<1>24. CASE ReleaseLock
  BY <1>24, ReleaseLockEffect
  DEF LockInv, At, Writing, Holding, Waiting, Delivering, UpdatesTo, Writes
<1>25. CASE DecideEnd
  BY <1>25, DecideEndEffect
  DEF LockInv, At, Writing, Holding, Waiting, Delivering, SetsTo, UpdatesTo,
      Writes, Annotates, AttemptOnRecord
<1>26. CASE SettleFailedNotice
  BY <1>26, SettleFailedNoticeEffect
  DEF LockInv, At, Writing, Holding, Waiting, Delivering, PersistsTo, SetsTo,
      Writes, Annotates, DeliveredNotes
<1>27. CASE FinishWatch
  BY <1>27, FinishWatchEffect
  DEF LockInv, At, Writing, Holding, Waiting, Delivering, Writes
<1>28. CASE WakeWithoutPersistence
  BY <1>28, WakeWithoutPersistenceEffect
  DEF LockInv, At, Writing, Holding, Waiting, Delivering, Annotates,
      AtLeastMaybe
<1>29. CASE Submit
  BY <1>29, SubmitEffect
  DEF LockInv, At, Writing, Holding, Waiting, Delivering, CountsFault, LinkInv
<1>30. CASE Cancel
  BY <1>30, CancelEffect
  DEF LockInv, At, Writing, Holding, Waiting, Delivering, CountsFault,
      Awaiting
<1>31. CASE SaveOther
  BY <1>31
  DEF LockInv, At, Writing, Holding, Waiting, Delivering, SaveOther, Awaiting,
      mind, program, outside
<1>32. CASE OwnerActivates
  BY <1>32
  DEF LockInv, At, Writing, Holding, Waiting, Delivering, OwnerActivates,
      files, mind, program
<1>33. CASE OwnerChanges
  BY <1>33
  DEF LockInv, At, Writing, Holding, Waiting, Delivering, OwnerChanges,
      files, mind, program
<1>34. CASE OrphanExits
  BY <1>34
  DEF LockInv, At, Writing, Holding, Waiting, Delivering, OrphanExits, quiet,
      outside, files, mind
<1>35. CASE Crash
  BY <1>35, CrashEffect
  DEF LockInv, At, Writing, Holding, Waiting, Delivering, AtLeastMaybe, Early
<1>36. CASE Shutdown
  BY <1>36, ShutdownEffect
  DEF LockInv, At, Writing, Holding, Waiting, Delivering, AtLeastMaybe,
      Awaiting
<1>37. CASE SaveOnShutdown
  BY <1>37, SaveOnShutdownEffect
  DEF LockInv, At, Writing, Holding, Waiting, Delivering, CountsFault, Early
<1>38. CASE Restart
  BY <1>38
  DEF LockInv, At, Writing, Holding, Waiting, Delivering, Restart, Goto,
      Restores, quiet, outside, files, program
<1>39. QED
  BY <1>0, <1>1, <1>2, <1>3, <1>4, <1>5, <1>6, <1>7, <1>8, <1>9, <1>10, <1>11,
      <1>12, <1>13, <1>14, <1>15, <1>16, <1>17, <1>18, <1>19, <1>20, <1>21,
      <1>22, <1>23, <1>24, <1>25, <1>26, <1>27, <1>28, <1>29, <1>30, <1>31,
      <1>32, <1>33, <1>34, <1>35, <1>36, <1>37, <1>38
  DEF Next, TaskStep, EnvironmentStep, ServiceStep

-----------------------------------------------------------------------------
(* What a record says of the task's result.                                *)

\* Every step keeps memory as ended as the registry.
LEMMA EndedStep ==
  ASSUME TypeOK, LinkInv, EndedInv, [Next]_vars
  PROVE  EndedInv'
<1>0. CASE UNCHANGED vars
  BY <1>0 DEF EndedInv, Writing, Terminal, vars
<1>1. CASE WriteLog
  BY <1>1, WriteLogEffect
  DEF EndedInv, Writing, Terminal, FailsAt, CountsFault
<1>2. CASE SaveRecord
  <2>1. CASE disk' = io.rec /\ pc' = io.then /\ UNCHANGED <<lock, prog, faults>>
    BY <1>2, <2>1, SaveRecordEffect
    DEF EndedInv, Writing, Terminal, Continuations
  <2>2. CASE disk' \in {disk, io.rec} /\ FailsAt(io.then)
    BY <1>2, <2>2, SaveRecordEffect
    DEF EndedInv, Writing, Terminal, Continuations, FailsAt, CountsFault
  <2>3. QED
    BY <1>2, <2>1, <2>2, SaveRecordEffect
<1>3. CASE AcquireLock
  BY <1>3, AcquireLockEffect
  DEF EndedInv, Writing, Terminal, SetsTo, UpdatesTo, Writes, CountsFault
<1>4. CASE RecoverPhase
  BY <1>4, RecoverPhaseEffect
  DEF EndedInv, Writing, Terminal, SetsTo, CountsFault, Started, Late
<1>5. CASE PollActivation
  BY <1>5, PollActivationEffect
  DEF EndedInv, Writing, Terminal, PersistsTo, SetsTo, Writes, UpdatesTo
<1>6. CASE StartRunning
  BY <1>6, StartRunningEffect
  DEF EndedInv, Writing, Terminal, UpdatesTo, Writes
<1>7. CASE ExecuteProgram
  BY <1>7, ExecuteProgramEffect
  DEF EndedInv, Writing, Terminal, SetsTo
<1>8. CASE SpawnProgram
  BY <1>8, SpawnProgramEffect
  DEF EndedInv, Writing, Terminal, SetsTo, UpdatesTo, Writes
<1>9. CASE FinishProgram
  BY <1>9, FinishProgramEffect
  DEF EndedInv, Writing, Terminal, SetsTo
<1>10. CASE StopProgram
  BY <1>10, StopProgramEffect
  DEF EndedInv, Writing, Terminal, SetsTo
<1>11. CASE CollectStartError
  BY <1>11
  DEF EndedInv, Writing, Terminal, CollectStartError, Goto, quiet, outside,
      files, mind, program
<1>12. CASE EvaluateResult
  BY <1>12, EvaluateResultEffect
  DEF EndedInv, Writing, Terminal, PersistsTo, SetsTo, Writes
<1>13. CASE ResumeResult
  BY <1>13, ResumeResultEffect
  DEF EndedInv, Writing, Terminal, PersistsTo, SetsTo, Writes, Annotates,
      DeliveredNotes
<1>14. CASE OfferNative
  BY <1>14, OfferNativeEffect
  DEF EndedInv, Writing, Terminal, PersistsTo, SetsTo, Writes, Annotates
<1>15. CASE BeginAttempt
  BY <1>15, BeginAttemptEffect
  DEF EndedInv, Writing, Terminal, SetsTo, PersistsTo, Writes, Annotates
<1>16. CASE SendWake
  BY <1>16, SendWakeEffect
  DEF EndedInv, Writing, Terminal, PersistsTo, SetsTo, Writes, Annotates
<1>17. CASE EndAttempt
  BY <1>17, EndAttemptEffect
  DEF EndedInv, Writing, Terminal, PersistsTo, SetsTo, Writes, Annotates,
      AtLeastMaybe
<1>18. CASE EndBackoff
  BY <1>18
  DEF EndedInv, Writing, Terminal, EndBackoff, Goto, quiet, outside, files,
      mind, program
<1>19. CASE GiveUpDelivery
  BY <1>19, GiveUpDeliveryEffect
  DEF EndedInv, Writing, Terminal, UpdatesTo, Writes, UndeliveredCode
<1>20. CASE CloseDelivery
  BY <1>20, CloseDeliveryEffect
  DEF EndedInv, Writing, Terminal, UpdatesTo, Writes
<1>21. CASE EndAck
  BY <1>21, EndAckEffect
  DEF EndedInv, Writing, Terminal, PersistsTo, SetsTo, Writes, Annotates
<1>22. CASE WriteFinalLog
  BY <1>22, WriteFinalLogEffect
  DEF EndedInv, Writing, Terminal, CountsFault
<1>23. CASE RecordWatcherFailure
  BY <1>23, RecordWatcherFailureEffect
  DEF EndedInv, Writing, Terminal, CountsFault, KeepsOutcome
<1>24. CASE ReleaseLock
  BY <1>24, ReleaseLockEffect
  DEF EndedInv, Writing, Terminal, UpdatesTo, Writes
<1>25. CASE DecideEnd
  BY <1>25, DecideEndEffect
  DEF EndedInv, Writing, Terminal, SetsTo, UpdatesTo, Writes, Annotates,
      AttemptOnRecord
<1>26. CASE SettleFailedNotice
  BY <1>26, SettleFailedNoticeEffect
  DEF EndedInv, Writing, Terminal, PersistsTo, SetsTo, Writes, Annotates,
      DeliveredNotes
<1>27. CASE FinishWatch
  BY <1>27, FinishWatchEffect
  DEF EndedInv, Writing, Terminal, Writes
<1>28. CASE WakeWithoutPersistence
  BY <1>28, WakeWithoutPersistenceEffect
  DEF EndedInv, Writing, Terminal, Annotates, AtLeastMaybe
<1>29. CASE Submit
  BY <1>29, SubmitEffect
  DEF EndedInv, Writing, Terminal, CountsFault, LinkInv
<1>30. CASE Cancel
  BY <1>30, CancelEffect
  DEF EndedInv, Writing, Terminal, CountsFault, Awaiting
<1>31. CASE SaveOther
  BY <1>31
  DEF EndedInv, Writing, Terminal, SaveOther, Awaiting, mind, program,
      outside, LinkInv
<1>32. CASE OwnerActivates
  BY <1>32
  DEF EndedInv, Writing, Terminal, OwnerActivates, files, mind, program
<1>33. CASE OwnerChanges
  BY <1>33
  DEF EndedInv, Writing, Terminal, OwnerChanges, files, mind, program
<1>34. CASE OrphanExits
  BY <1>34
  DEF EndedInv, Writing, Terminal, OrphanExits, quiet, outside, files, mind
<1>35. CASE Crash
  BY <1>35, CrashEffect
  DEF EndedInv, Writing, Terminal, AtLeastMaybe, Early
<1>36. CASE Shutdown
  BY <1>36, ShutdownEffect
  DEF EndedInv, Writing, Terminal, AtLeastMaybe, Awaiting
<1>37. CASE SaveOnShutdown
  BY <1>37, SaveOnShutdownEffect
  DEF EndedInv, Writing, Terminal, CountsFault, Early
<1>38. CASE Restart
  BY <1>38
  DEF EndedInv, Writing, Terminal, Restart, Goto, Restores, quiet, outside,
      files, program
<1>39. QED
  BY <1>0, <1>1, <1>2, <1>3, <1>4, <1>5, <1>6, <1>7, <1>8, <1>9, <1>10, <1>11,
      <1>12, <1>13, <1>14, <1>15, <1>16, <1>17, <1>18, <1>19, <1>20, <1>21,
      <1>22, <1>23, <1>24, <1>25, <1>26, <1>27, <1>28, <1>29, <1>30, <1>31,
      <1>32, <1>33, <1>34, <1>35, <1>36, <1>37, <1>38
  DEF Next, TaskStep, EnvironmentStep, ServiceStep

\* Every step keeps a linked record's result the task's.
LEMMA LinkStep ==
  ASSUME TypeOK, AttemptInv, LockInv, TriedInv, LinkInv, [Next]_vars
  PROVE  LinkInv'
<1>0. CASE UNCHANGED vars
  BY <1>0 DEF LinkInv, At, Delivering, Writing, vars
<1>1. CASE WriteLog
  BY <1>1, WriteLogEffect
  DEF LinkInv, At, Delivering, Writing, FailsAt, CountsFault
<1>2. CASE SaveRecord
  <2>1. CASE disk' = io.rec /\ pc' = io.then /\ UNCHANGED <<lock, prog, faults>>
    BY <1>2, <2>1, SaveRecordEffect
    DEF LinkInv, At, Delivering, Writing, Continuations
  <2>2. CASE disk' \in {disk, io.rec} /\ FailsAt(io.then)
    BY <1>2, <2>2, SaveRecordEffect
    DEF LinkInv, At, Delivering, Writing, Continuations, FailsAt, CountsFault
  <2>3. QED
    BY <1>2, <2>1, <2>2, SaveRecordEffect
<1>3. CASE AcquireLock
  BY <1>3, AcquireLockEffect
  DEF LinkInv, At, Delivering, Writing, SetsTo, UpdatesTo, Writes, CountsFault
<1>4. CASE RecoverPhase
  BY <1>4, RecoverPhaseEffect
  DEF LinkInv, At, Delivering, Writing, SetsTo, CountsFault, Started, Late
<1>5. CASE PollActivation
  BY <1>5, PollActivationEffect
  DEF LinkInv, At, Delivering, Writing, PersistsTo, SetsTo, Writes, UpdatesTo
<1>6. CASE StartRunning
  BY <1>6, StartRunningEffect
  DEF LinkInv, At, Delivering, Writing, UpdatesTo, Writes
<1>7. CASE ExecuteProgram
  BY <1>7, ExecuteProgramEffect
  DEF LinkInv, At, Delivering, Writing, SetsTo
<1>8. CASE SpawnProgram
  BY <1>8, SpawnProgramEffect
  DEF LinkInv, At, Delivering, Writing, SetsTo, UpdatesTo, Writes
<1>9. CASE FinishProgram
  BY <1>9, FinishProgramEffect
  DEF LinkInv, At, Delivering, Writing, SetsTo
<1>10. CASE StopProgram
  BY <1>10, StopProgramEffect
  DEF LinkInv, At, Delivering, Writing, SetsTo
<1>11. CASE CollectStartError
  BY <1>11
  DEF LinkInv, At, Delivering, Writing, CollectStartError, Goto, quiet,
      outside, files, mind, program
<1>12. CASE EvaluateResult
  BY <1>12, EvaluateResultEffect
  DEF LinkInv, At, Delivering, Writing, PersistsTo, SetsTo, Writes
<1>13. CASE ResumeResult
  BY <1>13, ResumeResultEffect
  DEF LinkInv, At, Delivering, Writing, PersistsTo, SetsTo, Writes, Annotates,
      DeliveredNotes
<1>14. CASE OfferNative
  BY <1>14, OfferNativeEffect
  DEF LinkInv, At, Delivering, Writing, PersistsTo, SetsTo, Writes, Annotates
<1>15. CASE BeginAttempt
  BY <1>15, BeginAttemptEffect
  DEF LinkInv, At, Delivering, Writing, SetsTo, PersistsTo, Writes, Annotates
<1>16. CASE SendWake
  BY <1>16, SendWakeEffect
  DEF LinkInv, At, Delivering, Writing, PersistsTo, SetsTo, Writes, Annotates
<1>17. CASE EndAttempt
  BY <1>17, EndAttemptEffect
  DEF LinkInv, At, Delivering, Writing, PersistsTo, SetsTo, Writes, Annotates,
      AtLeastMaybe
<1>18. CASE EndBackoff
  BY <1>18
  DEF LinkInv, At, Delivering, Writing, EndBackoff, Goto, quiet, outside,
      files, mind, program
<1>19. CASE GiveUpDelivery
  BY <1>19, GiveUpDeliveryEffect
  DEF LinkInv, At, Delivering, Writing, UpdatesTo, Writes, UndeliveredCode
<1>20. CASE CloseDelivery
  BY <1>20, CloseDeliveryEffect
  DEF LinkInv, At, Delivering, Writing, UpdatesTo, Writes
<1>21. CASE EndAck
  BY <1>21, EndAckEffect
  DEF LinkInv, At, Delivering, Writing, PersistsTo, SetsTo, Writes, Annotates
<1>22. CASE WriteFinalLog
  BY <1>22, WriteFinalLogEffect
  DEF LinkInv, At, Delivering, Writing, CountsFault
<1>23. CASE RecordWatcherFailure
  BY <1>23, RecordWatcherFailureEffect
  DEF LinkInv, At, Delivering, Writing, CountsFault, KeepsOutcome
<1>24. CASE ReleaseLock
  BY <1>24, ReleaseLockEffect
  DEF LinkInv, At, Delivering, Writing, UpdatesTo, Writes
<1>25. CASE DecideEnd
  BY <1>25, DecideEndEffect
  DEF LinkInv, At, Delivering, Writing, SetsTo, UpdatesTo, Writes, Annotates,
      AttemptOnRecord, TriedInv, Tried
<1>26. CASE SettleFailedNotice
  BY <1>26, SettleFailedNoticeEffect
  DEF LinkInv, At, Delivering, Writing, PersistsTo, SetsTo, Writes, Annotates,
      DeliveredNotes
<1>27. CASE FinishWatch
  BY <1>27, FinishWatchEffect
  DEF LinkInv, At, Delivering, Writing, Writes
<1>28. CASE WakeWithoutPersistence
  BY <1>28, WakeWithoutPersistenceEffect
  DEF LinkInv, At, Delivering, Writing, Annotates, AtLeastMaybe
<1>29. CASE Submit
  BY <1>29, SubmitEffect
  DEF LinkInv, At, Delivering, Writing, CountsFault
<1>30. CASE Cancel
  BY <1>30, CancelEffect
  DEF LinkInv, At, Delivering, Writing, CountsFault, Awaiting
<1>31. CASE SaveOther
  BY <1>31
  DEF LinkInv, At, Delivering, Writing, SaveOther, Awaiting, mind, program,
      outside
<1>32. CASE OwnerActivates
  BY <1>32
  DEF LinkInv, At, Delivering, Writing, OwnerActivates, files, mind, program
<1>33. CASE OwnerChanges
  BY <1>33
  DEF LinkInv, At, Delivering, Writing, OwnerChanges, files, mind, program
<1>34. CASE OrphanExits
  BY <1>34
  DEF LinkInv, At, Delivering, Writing, OrphanExits, quiet, outside, files,
      mind
<1>35. CASE Crash
  BY <1>35, CrashEffect
  DEF LinkInv, At, Delivering, Writing, AtLeastMaybe, Early
<1>36. CASE Shutdown
  BY <1>36, ShutdownEffect
  DEF LinkInv, At, Delivering, Writing, AtLeastMaybe, Awaiting, LockInv
<1>37. CASE SaveOnShutdown
  BY <1>37, SaveOnShutdownEffect
  DEF LinkInv, At, Delivering, Writing, CountsFault, Early
<1>38. CASE Restart
  BY <1>38
  DEF LinkInv, At, Delivering, Writing, Restart, Goto, Restores, quiet,
      outside, files, program
<1>39. QED
  BY <1>0, <1>1, <1>2, <1>3, <1>4, <1>5, <1>6, <1>7, <1>8, <1>9, <1>10, <1>11,
      <1>12, <1>13, <1>14, <1>15, <1>16, <1>17, <1>18, <1>19, <1>20, <1>21,
      <1>22, <1>23, <1>24, <1>25, <1>26, <1>27, <1>28, <1>29, <1>30, <1>31,
      <1>32, <1>33, <1>34, <1>35, <1>36, <1>37, <1>38
  DEF Next, TaskStep, EnvironmentStep, ServiceStep

\* Every step keeps a resumed failure from ending without an attempt.
LEMMA TriedStep ==
  ASSUME TypeOK, LockInv, EndedInv, LinkInv, ResultInv, PhaseInv, ReportInv,
         TriedInv, [Next]_vars
  PROVE  TriedInv'
<1>0. CASE UNCHANGED vars
  BY <1>0 DEF TriedInv, TriedRecord, Tried, At, Rec, Writing, vars
<1>1. CASE WriteLog
  BY <1>1, WriteLogEffect
  DEF TriedInv, TriedRecord, Tried, At, Rec, Writing, FailsAt, CountsFault
<1>2. CASE SaveRecord
  <2>1. CASE disk' = io.rec /\ pc' = io.then /\ UNCHANGED <<lock, prog, faults>>
    BY <1>2, <2>1, SaveRecordEffect
    DEF TriedInv, TriedRecord, Tried, At, Rec, Writing, EndedInv, LinkInv,
        Terminal, TypeOK, Records, States, IOs, Continuations
  <2>2. CASE disk' \in {disk, io.rec} /\ FailsAt(io.then)
    BY <1>2, <2>2, SaveRecordEffect
    DEF TriedInv, TriedRecord, Tried, At, Rec, Writing, EndedInv, LinkInv,
        Terminal, TypeOK, Records, States, IOs, Continuations, FailsAt,
        CountsFault
  <2>3. QED
    BY <1>2, <2>1, <2>2, SaveRecordEffect
<1>3. CASE AcquireLock
  BY <1>3, AcquireLockEffect
  DEF TriedInv, TriedRecord, Tried, At, Rec, Writing, SetsTo, UpdatesTo,
      Writes, CountsFault, Fresh
<1>4. CASE RecoverPhase
  BY <1>4, RecoverPhaseEffect
  DEF TriedInv, TriedRecord, Tried, At, Rec, Writing, SetsTo, CountsFault,
      Started, Late
<1>5. CASE PollActivation
  BY <1>5, PollActivationEffect
  DEF TriedInv, TriedRecord, Tried, At, Rec, Writing, PersistsTo, SetsTo,
      Writes, UpdatesTo, Fresh
<1>6. CASE StartRunning
  BY <1>6, StartRunningEffect
  DEF TriedInv, TriedRecord, Tried, At, Rec, Writing, UpdatesTo, Writes
<1>7. CASE ExecuteProgram
  BY <1>7, ExecuteProgramEffect
  DEF TriedInv, TriedRecord, Tried, At, Rec, Writing, SetsTo, Fresh
<1>8. CASE SpawnProgram
  BY <1>8, SpawnProgramEffect
  DEF TriedInv, TriedRecord, Tried, At, Rec, Writing, SetsTo, UpdatesTo,
      Writes, Fresh
<1>9. CASE FinishProgram
  BY <1>9, FinishProgramEffect
  DEF TriedInv, TriedRecord, Tried, At, Rec, Writing, SetsTo, Fresh
<1>10. CASE StopProgram
  BY <1>10, StopProgramEffect
  DEF TriedInv, TriedRecord, Tried, At, Rec, Writing, SetsTo, Fresh
<1>11. CASE CollectStartError
  BY <1>11
  DEF TriedInv, TriedRecord, Tried, At, Rec, Writing, CollectStartError, Goto,
      quiet, outside, files, mind, program
<1>12. CASE EvaluateResult
  BY <1>12, EvaluateResultEffect
  DEF TriedInv, TriedRecord, Tried, At, Rec, Writing, PersistsTo, SetsTo,
      Writes, PhaseInv, Late
<1>13. CASE ResumeResult
  BY <1>13, ResumeResultEffect
  DEF TriedInv, TriedRecord, Tried, At, Rec, Writing, PersistsTo, SetsTo,
      Writes, Annotates, DeliveredNotes, ReportInv, Late, LinkInv, LockInv,
      Delivering
<1>14. CASE OfferNative
  BY <1>14, OfferNativeEffect
  DEF TriedInv, TriedRecord, Tried, At, Rec, Writing, PersistsTo, SetsTo,
      Writes, Annotates
<1>15. CASE BeginAttempt
  BY <1>15, BeginAttemptEffect
  DEF TriedInv, TriedRecord, Tried, At, Rec, Writing, SetsTo, PersistsTo,
      Writes, Annotates, ResultInv, Told
<1>16. CASE SendWake
  BY <1>16, SendWakeEffect
  DEF TriedInv, TriedRecord, Tried, At, Rec, Writing, PersistsTo, SetsTo,
      Writes, Annotates
<1>17. CASE EndAttempt
  BY <1>17, EndAttemptEffect
  DEF TriedInv, TriedRecord, Tried, At, Rec, Writing, PersistsTo, SetsTo,
      Writes, Annotates, AtLeastMaybe
<1>18. CASE EndBackoff
  BY <1>18
  DEF TriedInv, TriedRecord, Tried, At, Rec, Writing, EndBackoff, Goto, quiet,
      outside, files, mind, program
<1>19. CASE GiveUpDelivery
  BY <1>19, GiveUpDeliveryEffect
  DEF TriedInv, TriedRecord, Tried, At, Rec, Writing, UpdatesTo, Writes,
      UndeliveredCode, LinkInv, Delivering
<1>20. CASE CloseDelivery
  BY <1>20, CloseDeliveryEffect
  DEF TriedInv, TriedRecord, Tried, At, Rec, Writing, UpdatesTo, Writes,
      LinkInv, Delivering
<1>21. CASE EndAck
  BY <1>21, EndAckEffect
  DEF TriedInv, TriedRecord, Tried, At, Rec, Writing, PersistsTo, SetsTo,
      Writes, Annotates, LinkInv, LockInv, Delivering
<1>22. CASE WriteFinalLog
  BY <1>22, WriteFinalLogEffect
  DEF TriedInv, TriedRecord, Tried, At, Rec, Writing, CountsFault
<1>23. CASE RecordWatcherFailure
  BY <1>23, RecordWatcherFailureEffect
  DEF TriedInv, TriedRecord, Tried, At, Rec, Writing, CountsFault,
      KeepsOutcome
<1>24. CASE ReleaseLock
  BY <1>24, ReleaseLockEffect
  DEF TriedInv, TriedRecord, Tried, At, Rec, Writing, UpdatesTo, Writes
<1>25. CASE DecideEnd
  BY <1>25, DecideEndEffect
  DEF TriedInv, TriedRecord, Tried, At, Rec, Writing, SetsTo, UpdatesTo,
      Writes, Annotates, AttemptOnRecord, ResultInv, Told
<1>26. CASE SettleFailedNotice
  BY <1>26, SettleFailedNoticeEffect
  DEF TriedInv, TriedRecord, Tried, At, Rec, Writing, PersistsTo, SetsTo,
      Writes, Annotates, DeliveredNotes
<1>27. CASE FinishWatch
  BY <1>27, FinishWatchEffect
  DEF TriedInv, TriedRecord, Tried, At, Rec, Writing, Writes
<1>28. CASE WakeWithoutPersistence
  BY <1>28, WakeWithoutPersistenceEffect
  DEF TriedInv, TriedRecord, Tried, At, Rec, Writing, Annotates, AtLeastMaybe
<1>29. CASE Submit
  BY <1>29, SubmitEffect
  DEF TriedInv, TriedRecord, Tried, At, Rec, Writing, CountsFault, PhaseInv,
      Early
<1>30. CASE Cancel
  BY <1>30, CancelEffect
  DEF TriedInv, TriedRecord, Tried, At, Rec, Writing, CountsFault, Awaiting
<1>31. CASE SaveOther
  BY <1>31
  DEF TriedInv, TriedRecord, Tried, At, Rec, Writing, SaveOther, Awaiting,
      mind, program, outside
<1>32. CASE OwnerActivates
  BY <1>32
  DEF TriedInv, TriedRecord, Tried, At, Rec, Writing, OwnerActivates, files,
      mind, program
<1>33. CASE OwnerChanges
  BY <1>33
  DEF TriedInv, TriedRecord, Tried, At, Rec, Writing, OwnerChanges, files,
      mind, program
<1>34. CASE OrphanExits
  BY <1>34
  DEF TriedInv, TriedRecord, Tried, At, Rec, Writing, OrphanExits, quiet,
      outside, files, mind
<1>35. CASE Crash
  BY <1>35, CrashEffect
  DEF TriedInv, TriedRecord, Tried, At, Rec, Writing, AtLeastMaybe, Early
<1>36. CASE Shutdown
  BY <1>36, ShutdownEffect
  DEF TriedInv, TriedRecord, Tried, At, Rec, Writing, AtLeastMaybe, Awaiting
<1>37. CASE SaveOnShutdown
  BY <1>37, SaveOnShutdownEffect
  DEF TriedInv, TriedRecord, Tried, At, Rec, Writing, CountsFault, Early
<1>38. CASE Restart
  BY <1>38
  DEF TriedInv, TriedRecord, Tried, At, Rec, Writing, Restart, Goto, Restores,
      quiet, outside, files, program, Terminal
<1>39. QED
  BY <1>0, <1>1, <1>2, <1>3, <1>4, <1>5, <1>6, <1>7, <1>8, <1>9, <1>10, <1>11,
      <1>12, <1>13, <1>14, <1>15, <1>16, <1>17, <1>18, <1>19, <1>20, <1>21,
      <1>22, <1>23, <1>24, <1>25, <1>26, <1>27, <1>28, <1>29, <1>30, <1>31,
      <1>32, <1>33, <1>34, <1>35, <1>36, <1>37, <1>38
  DEF Next, TaskStep, EnvironmentStep, ServiceStep

\* Every step keeps what the results tell true.
LEMMA ResultStep ==
  ASSUME TypeOK, LockInv, LinkInv, RunOnceInv, ResultInv, [Next]_vars
  PROVE  ResultInv'
<1>0. CASE UNCHANGED vars
  BY <1>0 DEF ResultInv, At, Writing, Told, Waiting, vars
<1>1. CASE WriteLog
  BY <1>1, WriteLogEffect
  DEF ResultInv, At, Writing, Told, Waiting, FailsAt, CountsFault, LockInv,
      Continuations, Delivering
<1>2. CASE SaveRecord
  <2>1. CASE disk' = io.rec /\ pc' = io.then /\ UNCHANGED <<lock, prog, faults>>
    BY <1>2, <2>1, SaveRecordEffect
    DEF ResultInv, At, Writing, Told, Waiting, LockInv, Delivering, Continuations
  <2>2. CASE disk' \in {disk, io.rec} /\ FailsAt(io.then)
    BY <1>2, <2>2, SaveRecordEffect
    DEF ResultInv, At, Writing, Told, Waiting, LockInv, Delivering,
        Continuations, FailsAt, CountsFault
  <2>3. QED
    BY <1>2, <2>1, <2>2, SaveRecordEffect
<1>3. CASE AcquireLock
  BY <1>3, AcquireLockEffect
  DEF ResultInv, At, Writing, Told, Waiting, SetsTo, UpdatesTo, Writes,
      CountsFault, Fresh
<1>4. CASE RecoverPhase
  BY <1>4, RecoverPhaseEffect
  DEF ResultInv, At, Writing, Told, Waiting, SetsTo, CountsFault, Started,
      Late, Fresh, NoResult
<1>5. CASE PollActivation
  BY <1>5, PollActivationEffect
  DEF ResultInv, At, Writing, Told, Waiting, PersistsTo, SetsTo, Writes,
      UpdatesTo, Fresh, LogSettled
<1>6. CASE StartRunning
  BY <1>6, StartRunningEffect
  DEF ResultInv, At, Writing, Told, Waiting, UpdatesTo, Writes
<1>7. CASE ExecuteProgram
  BY <1>7, ExecuteProgramEffect
  DEF ResultInv, At, Writing, Told, Waiting, SetsTo, Fresh, RunOnceInv
<1>8. CASE SpawnProgram
  BY <1>8, SpawnProgramEffect
  DEF ResultInv, At, Writing, Told, Waiting, SetsTo, UpdatesTo, Writes, Fresh,
      RunOnceInv
<1>9. CASE FinishProgram
  BY <1>9, FinishProgramEffect
  DEF ResultInv, At, Writing, Told, Waiting, SetsTo, Fresh, LockInv
<1>10. CASE StopProgram
  BY <1>10, StopProgramEffect
  DEF ResultInv, At, Writing, Told, Waiting, SetsTo, Fresh
<1>11. CASE CollectStartError
  BY <1>11
  DEF ResultInv, At, Writing, Told, Waiting, CollectStartError, Goto, quiet,
      outside, files, mind, program
<1>12. CASE EvaluateResult
  BY <1>12, EvaluateResultEffect
  DEF ResultInv, At, Writing, Told, Waiting, PersistsTo, SetsTo, Writes,
      LogSettled
<1>13. CASE ResumeResult
  BY <1>13, ResumeResultEffect
  DEF ResultInv, At, Writing, Told, Waiting, PersistsTo, SetsTo, Writes,
      Annotates, DeliveredNotes, LogSettled
<1>14. CASE OfferNative
  BY <1>14, OfferNativeEffect
  DEF ResultInv, At, Writing, Told, Waiting, PersistsTo, SetsTo, Writes,
      Annotates, LogSettled
<1>15. CASE BeginAttempt
  BY <1>15, BeginAttemptEffect
  DEF ResultInv, At, Writing, Told, Waiting, SetsTo, PersistsTo, Writes,
      Annotates, LogSettled
<1>16. CASE SendWake
  BY <1>16, SendWakeEffect
  DEF ResultInv, At, Writing, Told, Waiting, PersistsTo, SetsTo, Writes,
      Annotates, LogSettled
<1>17. CASE EndAttempt
  BY <1>17, EndAttemptEffect
  DEF ResultInv, At, Writing, Told, Waiting, PersistsTo, SetsTo, Writes,
      Annotates, AtLeastMaybe, LogSettled
<1>18. CASE EndBackoff
  BY <1>18
  DEF ResultInv, At, Writing, Told, Waiting, EndBackoff, Goto, quiet, outside,
      files, mind, program
<1>19. CASE GiveUpDelivery
  BY <1>19, GiveUpDeliveryEffect
  DEF ResultInv, At, Writing, Told, Waiting, UpdatesTo, Writes,
      UndeliveredCode
<1>20. CASE CloseDelivery
  BY <1>20, CloseDeliveryEffect
  DEF ResultInv, At, Writing, Told, Waiting, UpdatesTo, Writes
<1>21. CASE EndAck
  BY <1>21, EndAckEffect
  DEF ResultInv, At, Writing, Told, Waiting, PersistsTo, SetsTo, Writes,
      Annotates, LogSettled
<1>22. CASE WriteFinalLog
  BY <1>22, WriteFinalLogEffect
  DEF ResultInv, At, Writing, Told, Waiting, CountsFault, LogSettled
<1>23. CASE RecordWatcherFailure
  BY <1>23, RecordWatcherFailureEffect
  DEF ResultInv, At, Writing, Told, Waiting, CountsFault, KeepsOutcome,
      NoResult, Fresh
<1>24. CASE ReleaseLock
  BY <1>24, ReleaseLockEffect
  DEF ResultInv, At, Writing, Told, Waiting, UpdatesTo, Writes
<1>25. CASE DecideEnd
  BY <1>25, DecideEndEffect
  DEF ResultInv, At, Writing, Told, Waiting, SetsTo, UpdatesTo, Writes,
      Annotates, AttemptOnRecord
<1>26. CASE SettleFailedNotice
  BY <1>26, SettleFailedNoticeEffect
  DEF ResultInv, At, Writing, Told, Waiting, PersistsTo, SetsTo, Writes,
      Annotates, DeliveredNotes, LogSettled
<1>27. CASE FinishWatch
  BY <1>27, FinishWatchEffect
  DEF ResultInv, At, Writing, Told, Waiting, Writes
<1>28. CASE WakeWithoutPersistence
  BY <1>28, WakeWithoutPersistenceEffect
  DEF ResultInv, At, Writing, Told, Waiting, Annotates, AtLeastMaybe
<1>29. CASE Submit
  BY <1>29, SubmitEffect
  DEF ResultInv, At, Writing, Told, Waiting, CountsFault
<1>30. CASE Cancel
  BY <1>30, CancelEffect
  DEF ResultInv, At, Writing, Told, Waiting, CountsFault, Awaiting
<1>31. CASE SaveOther
  BY <1>31
  DEF ResultInv, At, Writing, Told, Waiting, SaveOther, Awaiting, mind,
      program, outside
<1>32. CASE OwnerActivates
  BY <1>32
  DEF ResultInv, At, Writing, Told, Waiting, OwnerActivates, files, mind,
      program
<1>33. CASE OwnerChanges
  BY <1>33
  DEF ResultInv, At, Writing, Told, Waiting, OwnerChanges, files, mind,
      program
<1>34. CASE OrphanExits
  BY <1>34
  DEF ResultInv, At, Writing, Told, Waiting, OrphanExits, quiet, outside,
      files, mind
<1>35. CASE Crash
  BY <1>35, CrashEffect
  DEF ResultInv, At, Writing, Told, Waiting, AtLeastMaybe, Early, NoResult,
      Fresh, RunOnceInv
<1>36. CASE Shutdown
  BY <1>36, ShutdownEffect
  DEF ResultInv, At, Writing, Told, Waiting, AtLeastMaybe, Awaiting
<1>37. CASE SaveOnShutdown
  BY <1>37, SaveOnShutdownEffect
  DEF ResultInv, At, Writing, Told, Waiting, CountsFault, Early, NoResult,
      Fresh
<1>38. CASE Restart
  BY <1>38
  DEF ResultInv, At, Writing, Told, Waiting, Restart, Goto, Restores, quiet,
      outside, files, program
<1>39. QED
  BY <1>0, <1>1, <1>2, <1>3, <1>4, <1>5, <1>6, <1>7, <1>8, <1>9, <1>10, <1>11,
      <1>12, <1>13, <1>14, <1>15, <1>16, <1>17, <1>18, <1>19, <1>20, <1>21,
      <1>22, <1>23, <1>24, <1>25, <1>26, <1>27, <1>28, <1>29, <1>30, <1>31,
      <1>32, <1>33, <1>34, <1>35, <1>36, <1>37, <1>38
  DEF Next, TaskStep, EnvironmentStep, ServiceStep

-----------------------------------------------------------------------------
(* The order of the phases.                                                *)

\* Every step keeps memory at least as far as the registry.
LEMMA PhaseStep ==
  ASSUME TypeOK, LockInv, LinkInv, AttemptInv, ReportInv, PhaseInv,
         [Next]_vars
  PROVE  PhaseInv'
<1>0. CASE UNCHANGED vars
  BY <1>0 DEF PhaseInv, At, Rec, Writing, Early, Late, Waiting, vars
<1>1. CASE WriteLog
  BY <1>1, WriteLogEffect
  DEF PhaseInv, At, Rec, Writing, Early, Late, Waiting, FailsAt, CountsFault
<1>2. CASE SaveRecord
  <2>1. CASE disk' = io.rec /\ pc' = io.then /\ UNCHANGED <<lock, prog, faults>>
    BY <1>2, <2>1, SaveRecordEffect
    DEF PhaseInv, At, Rec, Writing, Early, Late, Waiting, LinkInv, Continuations
  <2>2. CASE disk' \in {disk, io.rec} /\ FailsAt(io.then)
    BY <1>2, <2>2, SaveRecordEffect
    DEF PhaseInv, At, Rec, Writing, Early, Late, Waiting, LinkInv,
        Continuations, FailsAt, CountsFault
  <2>3. QED
    BY <1>2, <2>1, <2>2, SaveRecordEffect
<1>3. CASE AcquireLock
  BY <1>3, AcquireLockEffect
  DEF PhaseInv, At, Rec, Writing, Early, Late, Waiting, SetsTo, UpdatesTo,
      Writes, CountsFault, LinkInv
<1>4. CASE RecoverPhase
  BY <1>4, RecoverPhaseEffect
  DEF PhaseInv, At, Rec, Writing, Early, Late, Waiting, SetsTo, CountsFault,
      Started
<1>5. CASE PollActivation
  BY <1>5, PollActivationEffect
  DEF PhaseInv, At, Rec, Writing, Early, Late, Waiting, PersistsTo, SetsTo,
      Writes, UpdatesTo
<1>6. CASE StartRunning
  BY <1>6, StartRunningEffect
  DEF PhaseInv, At, Rec, Writing, Early, Late, Waiting, UpdatesTo, Writes
<1>7. CASE ExecuteProgram
  BY <1>7, ExecuteProgramEffect
  DEF PhaseInv, At, Rec, Writing, Early, Late, Waiting, SetsTo
<1>8. CASE SpawnProgram
  BY <1>8, SpawnProgramEffect
  DEF PhaseInv, At, Rec, Writing, Early, Late, Waiting, SetsTo, UpdatesTo,
      Writes
<1>9. CASE FinishProgram
  BY <1>9, FinishProgramEffect
  DEF PhaseInv, At, Rec, Writing, Early, Late, Waiting, SetsTo
<1>10. CASE StopProgram
  BY <1>10, StopProgramEffect
  DEF PhaseInv, At, Rec, Writing, Early, Late, Waiting, SetsTo
<1>11. CASE CollectStartError
  BY <1>11
  DEF PhaseInv, At, Rec, Writing, Early, Late, Waiting, CollectStartError,
      Goto, quiet, outside, files, mind, program
<1>12. CASE EvaluateResult
  BY <1>12, EvaluateResultEffect
  DEF PhaseInv, At, Rec, Writing, Early, Late, Waiting, PersistsTo, SetsTo,
      Writes
<1>13. CASE ResumeResult
  BY <1>13, ResumeResultEffect
  DEF PhaseInv, At, Rec, Writing, Early, Late, Waiting, PersistsTo, SetsTo,
      Writes, Annotates, DeliveredNotes
<1>14. CASE OfferNative
  BY <1>14, OfferNativeEffect
  DEF PhaseInv, At, Rec, Writing, Early, Late, Waiting, PersistsTo, SetsTo,
      Writes, Annotates, ReportInv, Delivering
<1>15. CASE BeginAttempt
  BY <1>15, BeginAttemptEffect
  DEF PhaseInv, At, Rec, Writing, Early, Late, Waiting, SetsTo, PersistsTo,
      Writes, Annotates, ReportInv, Delivering
<1>16. CASE SendWake
  BY <1>16, SendWakeEffect
  DEF PhaseInv, At, Rec, Writing, Early, Late, Waiting, PersistsTo, SetsTo,
      Writes, Annotates, ReportInv, Delivering
<1>17. CASE EndAttempt
  BY <1>17, EndAttemptEffect
  DEF PhaseInv, At, Rec, Writing, Early, Late, Waiting, PersistsTo, SetsTo,
      Writes, Annotates, AtLeastMaybe, ReportInv, Delivering
<1>18. CASE EndBackoff
  BY <1>18
  DEF PhaseInv, At, Rec, Writing, Early, Late, Waiting, EndBackoff, Goto,
      quiet, outside, files, mind, program
<1>19. CASE GiveUpDelivery
  BY <1>19, GiveUpDeliveryEffect
  DEF PhaseInv, At, Rec, Writing, Early, Late, Waiting, UpdatesTo, Writes,
      UndeliveredCode
<1>20. CASE CloseDelivery
  BY <1>20, CloseDeliveryEffect
  DEF PhaseInv, At, Rec, Writing, Early, Late, Waiting, UpdatesTo, Writes
<1>21. CASE EndAck
  BY <1>21, EndAckEffect
  DEF PhaseInv, At, Rec, Writing, Early, Late, Waiting, PersistsTo, SetsTo,
      Writes, Annotates, ReportInv
<1>22. CASE WriteFinalLog
  BY <1>22, WriteFinalLogEffect
  DEF PhaseInv, At, Rec, Writing, Early, Late, Waiting, CountsFault
<1>23. CASE RecordWatcherFailure
  BY <1>23, RecordWatcherFailureEffect
  DEF PhaseInv, At, Rec, Writing, Early, Late, Waiting, CountsFault,
      KeepsOutcome
<1>24. CASE ReleaseLock
  BY <1>24, ReleaseLockEffect
  DEF PhaseInv, At, Rec, Writing, Early, Late, Waiting, UpdatesTo, Writes
<1>25. CASE DecideEnd
  BY <1>25, DecideEndEffect
  DEF PhaseInv, At, Rec, Writing, Early, Late, Waiting, SetsTo, UpdatesTo,
      Writes, Annotates, AttemptOnRecord
<1>26. CASE SettleFailedNotice
  BY <1>26, SettleFailedNoticeEffect
  DEF PhaseInv, At, Rec, Writing, Early, Late, Waiting, PersistsTo, SetsTo,
      Writes, Annotates, DeliveredNotes, ReportInv, Delivering
<1>27. CASE FinishWatch
  BY <1>27, FinishWatchEffect
  DEF PhaseInv, At, Rec, Writing, Early, Late, Waiting, Writes, ReportInv
<1>28. CASE WakeWithoutPersistence
  BY <1>28, WakeWithoutPersistenceEffect
  DEF PhaseInv, At, Rec, Writing, Early, Late, Waiting, Annotates,
      AtLeastMaybe
<1>29. CASE Submit
  BY <1>29, SubmitEffect
  DEF PhaseInv, At, Rec, Writing, Early, Late, Waiting, CountsFault, LinkInv
<1>30. CASE Cancel
  BY <1>30, CancelEffect
  DEF PhaseInv, At, Rec, Writing, Early, Late, Waiting, CountsFault, Awaiting
<1>31. CASE SaveOther
  BY <1>31
  DEF PhaseInv, At, Rec, Writing, Early, Late, Waiting, SaveOther, Awaiting,
      mind, program, outside
<1>32. CASE OwnerActivates
  BY <1>32
  DEF PhaseInv, At, Rec, Writing, Early, Late, Waiting, OwnerActivates, files,
      mind, program
<1>33. CASE OwnerChanges
  BY <1>33
  DEF PhaseInv, At, Rec, Writing, Early, Late, Waiting, OwnerChanges, files,
      mind, program
<1>34. CASE OrphanExits
  BY <1>34
  DEF PhaseInv, At, Rec, Writing, Early, Late, Waiting, OrphanExits, quiet,
      outside, files, mind
<1>35. CASE Crash
  BY <1>35, CrashEffect
  DEF PhaseInv, At, Rec, Writing, Early, Late, Waiting, AtLeastMaybe
<1>36. CASE Shutdown
  BY <1>36, ShutdownEffect
  DEF PhaseInv, At, Rec, Writing, Early, Late, Waiting, AtLeastMaybe,
      Awaiting, LockInv
<1>37. CASE SaveOnShutdown
  BY <1>37, SaveOnShutdownEffect
  DEF PhaseInv, At, Rec, Writing, Early, Late, Waiting, CountsFault
<1>38. CASE Restart
  BY <1>38
  DEF PhaseInv, At, Rec, Writing, Early, Late, Waiting, Restart, Goto,
      Restores, quiet, outside, files, program
<1>39. QED
  BY <1>0, <1>1, <1>2, <1>3, <1>4, <1>5, <1>6, <1>7, <1>8, <1>9, <1>10, <1>11,
      <1>12, <1>13, <1>14, <1>15, <1>16, <1>17, <1>18, <1>19, <1>20, <1>21,
      <1>22, <1>23, <1>24, <1>25, <1>26, <1>27, <1>28, <1>29, <1>30, <1>31,
      <1>32, <1>33, <1>34, <1>35, <1>36, <1>37, <1>38
  DEF Next, TaskStep, EnvironmentStep, ServiceStep

\* Every step keeps whoever reports in a late phase.
LEMMA ReportStep ==
  ASSUME TypeOK, LockInv, LinkInv, PhaseInv, ReportInv, [Next]_vars
  PROVE  ReportInv'
<1>0. CASE UNCHANGED vars
  BY <1>0 DEF ReportInv, At, Rec, Writing, Unreported, Early, Late,
      Delivering, vars
<1>1. CASE WriteLog
  BY <1>1, WriteLogEffect
  DEF ReportInv, At, Rec, Writing, Unreported, Early, Late, Delivering,
      FailsAt, CountsFault, LockInv, Continuations
<1>2. CASE SaveRecord
  <2>1. CASE disk' = io.rec /\ pc' = io.then /\ UNCHANGED <<lock, prog, faults>>
    BY <1>2, <2>1, SaveRecordEffect
    DEF ReportInv, At, Rec, Writing, Unreported, Early, Late, Delivering,
        LockInv, PhaseInv, Continuations
  <2>2. CASE disk' \in {disk, io.rec} /\ FailsAt(io.then)
    BY <1>2, <2>2, SaveRecordEffect
    DEF ReportInv, At, Rec, Writing, Unreported, Early, Late, Delivering,
        LockInv, PhaseInv, Continuations, FailsAt, CountsFault
  <2>3. QED
    BY <1>2, <2>1, <2>2, SaveRecordEffect
<1>3. CASE AcquireLock
  BY <1>3, AcquireLockEffect
  DEF ReportInv, At, Rec, Writing, Unreported, Early, Late, Delivering,
      SetsTo, UpdatesTo, Writes, CountsFault, Fresh, LinkInv
<1>4. CASE RecoverPhase
  BY <1>4, RecoverPhaseEffect
  DEF ReportInv, At, Rec, Writing, Unreported, Early, Late, Delivering,
      SetsTo, CountsFault, Started, Fresh, NoResult, PhaseInv
<1>5. CASE PollActivation
  BY <1>5, PollActivationEffect
  DEF ReportInv, At, Rec, Writing, Unreported, Early, Late, Delivering,
      PersistsTo, SetsTo, Writes, UpdatesTo, Fresh, PhaseInv, Waiting
<1>6. CASE StartRunning
  BY <1>6, StartRunningEffect
  DEF ReportInv, At, Rec, Writing, Unreported, Early, Late, Delivering,
      UpdatesTo, Writes, PhaseInv, Waiting
<1>7. CASE ExecuteProgram
  BY <1>7, ExecuteProgramEffect
  DEF ReportInv, At, Rec, Writing, Unreported, Early, Late, Delivering,
      SetsTo, Fresh, PhaseInv, Waiting
<1>8. CASE SpawnProgram
  BY <1>8, SpawnProgramEffect
  DEF ReportInv, At, Rec, Writing, Unreported, Early, Late, Delivering,
      SetsTo, UpdatesTo, Writes, Fresh, PhaseInv, Waiting
<1>9. CASE FinishProgram
  BY <1>9, FinishProgramEffect
  DEF ReportInv, At, Rec, Writing, Unreported, Early, Late, Delivering,
      SetsTo, Fresh, PhaseInv, Waiting
<1>10. CASE StopProgram
  BY <1>10, StopProgramEffect
  DEF ReportInv, At, Rec, Writing, Unreported, Early, Late, Delivering,
      SetsTo, Fresh, PhaseInv, Waiting
<1>11. CASE CollectStartError
  BY <1>11
  DEF ReportInv, At, Rec, Writing, Unreported, Early, Late, Delivering,
      CollectStartError, Goto, quiet, outside, files, mind, program
<1>12. CASE EvaluateResult
  BY <1>12, EvaluateResultEffect
  DEF ReportInv, At, Rec, Writing, Unreported, Early, Late, Delivering,
      PersistsTo, SetsTo, Writes, PhaseInv
<1>13. CASE ResumeResult
  BY <1>13, ResumeResultEffect
  DEF ReportInv, At, Rec, Writing, Unreported, Early, Late, Delivering,
      PersistsTo, SetsTo, Writes, Annotates, DeliveredNotes
<1>14. CASE OfferNative
  BY <1>14, OfferNativeEffect
  DEF ReportInv, At, Rec, Writing, Unreported, Early, Late, Delivering,
      PersistsTo, SetsTo, Writes, Annotates
<1>15. CASE BeginAttempt
  BY <1>15, BeginAttemptEffect
  DEF ReportInv, At, Rec, Writing, Unreported, Early, Late, Delivering,
      SetsTo, PersistsTo, Writes, Annotates
<1>16. CASE SendWake
  BY <1>16, SendWakeEffect
  DEF ReportInv, At, Rec, Writing, Unreported, Early, Late, Delivering,
      PersistsTo, SetsTo, Writes, Annotates
<1>17. CASE EndAttempt
  BY <1>17, EndAttemptEffect
  DEF ReportInv, At, Rec, Writing, Unreported, Early, Late, Delivering,
      PersistsTo, SetsTo, Writes, Annotates, AtLeastMaybe
<1>18. CASE EndBackoff
  BY <1>18
  DEF ReportInv, At, Rec, Writing, Unreported, Early, Late, Delivering,
      EndBackoff, Goto, quiet, outside, files, mind, program
<1>19. CASE GiveUpDelivery
  BY <1>19, GiveUpDeliveryEffect
  DEF ReportInv, At, Rec, Writing, Unreported, Early, Late, Delivering,
      UpdatesTo, Writes, UndeliveredCode
<1>20. CASE CloseDelivery
  BY <1>20, CloseDeliveryEffect
  DEF ReportInv, At, Rec, Writing, Unreported, Early, Late, Delivering,
      UpdatesTo, Writes
<1>21. CASE EndAck
  BY <1>21, EndAckEffect
  DEF ReportInv, At, Rec, Writing, Unreported, Early, Late, Delivering,
      PersistsTo, SetsTo, Writes, Annotates
<1>22. CASE WriteFinalLog
  BY <1>22, WriteFinalLogEffect
  DEF ReportInv, At, Rec, Writing, Unreported, Early, Late, Delivering,
      CountsFault
<1>23. CASE RecordWatcherFailure
  BY <1>23, RecordWatcherFailureEffect
  DEF ReportInv, At, Rec, Writing, Unreported, Early, Late, Delivering,
      CountsFault, KeepsOutcome
<1>24. CASE ReleaseLock
  BY <1>24, ReleaseLockEffect
  DEF ReportInv, At, Rec, Writing, Unreported, Early, Late, Delivering,
      UpdatesTo, Writes
<1>25. CASE DecideEnd
  BY <1>25, DecideEndEffect
  DEF ReportInv, At, Rec, Writing, Unreported, Early, Late, Delivering,
      SetsTo, UpdatesTo, Writes, Annotates, AttemptOnRecord
<1>26. CASE SettleFailedNotice
  BY <1>26, SettleFailedNoticeEffect
  DEF ReportInv, At, Rec, Writing, Unreported, Early, Late, Delivering,
      PersistsTo, SetsTo, Writes, Annotates, DeliveredNotes
<1>27. CASE FinishWatch
  BY <1>27, FinishWatchEffect
  DEF ReportInv, At, Rec, Writing, Unreported, Early, Late, Delivering, Writes
<1>28. CASE WakeWithoutPersistence
  BY <1>28, WakeWithoutPersistenceEffect
  DEF ReportInv, At, Rec, Writing, Unreported, Early, Late, Delivering,
      Annotates, AtLeastMaybe
<1>29. CASE Submit
  BY <1>29, SubmitEffect
  DEF ReportInv, At, Rec, Writing, Unreported, Early, Late, Delivering,
      CountsFault, LinkInv
<1>30. CASE Cancel
  BY <1>30, CancelEffect
  DEF ReportInv, At, Rec, Writing, Unreported, Early, Late, Delivering,
      CountsFault, Awaiting
<1>31. CASE SaveOther
  BY <1>31
  DEF ReportInv, At, Rec, Writing, Unreported, Early, Late, Delivering,
      SaveOther, Awaiting, mind, program, outside
<1>32. CASE OwnerActivates
  BY <1>32
  DEF ReportInv, At, Rec, Writing, Unreported, Early, Late, Delivering,
      OwnerActivates, files, mind, program
<1>33. CASE OwnerChanges
  BY <1>33
  DEF ReportInv, At, Rec, Writing, Unreported, Early, Late, Delivering,
      OwnerChanges, files, mind, program
<1>34. CASE OrphanExits
  BY <1>34
  DEF ReportInv, At, Rec, Writing, Unreported, Early, Late, Delivering,
      OrphanExits, quiet, outside, files, mind
<1>35. CASE Crash
  BY <1>35, CrashEffect
  DEF ReportInv, At, Rec, Writing, Unreported, Early, Late, Delivering,
      AtLeastMaybe, NoResult, Fresh
<1>36. CASE Shutdown
  BY <1>36, ShutdownEffect
  DEF ReportInv, At, Rec, Writing, Unreported, Early, Late, Delivering,
      AtLeastMaybe, Awaiting, LockInv
<1>37. CASE SaveOnShutdown
  BY <1>37, SaveOnShutdownEffect
  DEF ReportInv, At, Rec, Writing, Unreported, Early, Late, Delivering,
      CountsFault, NoResult, Fresh
<1>38. CASE Restart
  BY <1>38
  DEF ReportInv, At, Rec, Writing, Unreported, Early, Late, Delivering,
      Restart, Goto, Restores, quiet, outside, files, program, LinkInv
<1>39. QED
  BY <1>0, <1>1, <1>2, <1>3, <1>4, <1>5, <1>6, <1>7, <1>8, <1>9, <1>10, <1>11,
      <1>12, <1>13, <1>14, <1>15, <1>16, <1>17, <1>18, <1>19, <1>20, <1>21,
      <1>22, <1>23, <1>24, <1>25, <1>26, <1>27, <1>28, <1>29, <1>30, <1>31,
      <1>32, <1>33, <1>34, <1>35, <1>36, <1>37, <1>38
  DEF Next, TaskStep, EnvironmentStep, ServiceStep

-----------------------------------------------------------------------------
(* Delivery.                                                               *)

\* Every step keeps success for delivered exits.
LEMMA DeliveredStep ==
  ASSUME TypeOK, AttemptInv, LockInv, EndedInv, LinkInv, PhaseInv,
         ReportInv, ResultInv, DeliveredInv, [Next]_vars
  PROVE  DeliveredInv'
<1>0. CASE UNCHANGED vars
  BY <1>0 DEF DeliveredInv, At, Rec, Writing, Sound, Good, Early, Late,
      Waiting, Delivering, DeliveredNotes, vars
<1>1. CASE WriteLog
  BY <1>1, WriteLogEffect
  DEF DeliveredInv, At, Rec, Writing, Sound, Good, Early, Late, Waiting,
      Delivering, DeliveredNotes, FailsAt, CountsFault
<1>2. CASE SaveRecord
  <2>1. CASE disk' = io.rec /\ pc' = io.then /\ UNCHANGED <<lock, prog, faults>>
    BY <1>2, <2>1, SaveRecordEffect
    DEF DeliveredInv, At, Rec, Writing, Sound, Good, Early, Late, Waiting,
        Delivering, DeliveredNotes, Continuations
  <2>2. CASE disk' \in {disk, io.rec} /\ FailsAt(io.then)
    BY <1>2, <2>2, SaveRecordEffect
    DEF DeliveredInv, At, Rec, Writing, Sound, Good, Early, Late, Waiting,
        Delivering, DeliveredNotes, Continuations, FailsAt, CountsFault
  <2>3. QED
    BY <1>2, <2>1, <2>2, SaveRecordEffect
<1>3. CASE AcquireLock
  BY <1>3, AcquireLockEffect
  DEF DeliveredInv, At, Rec, Writing, Sound, Good, Early, Late, Waiting,
      Delivering, DeliveredNotes, SetsTo, UpdatesTo, Writes, CountsFault,
      Fresh, LinkInv, PhaseInv, ReportInv
<1>4. CASE RecoverPhase
  BY <1>4, RecoverPhaseEffect
  DEF DeliveredInv, At, Rec, Writing, Sound, Good, Early, Late, Waiting,
      Delivering, DeliveredNotes, SetsTo, CountsFault, Started, Fresh,
      NoResult, ReportInv, ResultInv, Told
<1>5. CASE PollActivation
  BY <1>5, PollActivationEffect
  DEF DeliveredInv, At, Rec, Writing, Sound, Good, Early, Late, Waiting,
      Delivering, DeliveredNotes, PersistsTo, SetsTo, Writes, UpdatesTo,
      Fresh, LinkInv, PhaseInv, ReportInv
<1>6. CASE StartRunning
  BY <1>6, StartRunningEffect
  DEF DeliveredInv, At, Rec, Writing, Sound, Good, Early, Late, Waiting,
      Delivering, DeliveredNotes, UpdatesTo, Writes
<1>7. CASE ExecuteProgram
  BY <1>7, ExecuteProgramEffect
  DEF DeliveredInv, At, Rec, Writing, Sound, Good, Early, Late, Waiting,
      Delivering, DeliveredNotes, SetsTo, Fresh, LinkInv, PhaseInv, ReportInv
<1>8. CASE SpawnProgram
  BY <1>8, SpawnProgramEffect
  DEF DeliveredInv, At, Rec, Writing, Sound, Good, Early, Late, Waiting,
      Delivering, DeliveredNotes, SetsTo, UpdatesTo, Writes, Fresh, LinkInv,
      PhaseInv, ReportInv
<1>9. CASE FinishProgram
  BY <1>9, FinishProgramEffect
  DEF DeliveredInv, At, Rec, Writing, Sound, Good, Early, Late, Waiting,
      Delivering, DeliveredNotes, SetsTo, Fresh, LinkInv, PhaseInv, ReportInv
<1>10. CASE StopProgram
  BY <1>10, StopProgramEffect
  DEF DeliveredInv, At, Rec, Writing, Sound, Good, Early, Late, Waiting,
      Delivering, DeliveredNotes, SetsTo, Fresh, LinkInv, PhaseInv, ReportInv
<1>11. CASE CollectStartError
  BY <1>11
  DEF DeliveredInv, At, Rec, Writing, Sound, Good, Early, Late, Waiting,
      Delivering, DeliveredNotes, CollectStartError, Goto, quiet, outside,
      files, mind, program, LockInv
<1>12. CASE EvaluateResult
  BY <1>12, EvaluateResultEffect
  DEF DeliveredInv, At, Rec, Writing, Sound, Good, Early, Late, Waiting,
      Delivering, DeliveredNotes, PersistsTo, SetsTo, Writes, LinkInv,
      PhaseInv, ReportInv, ResultInv
<1>13. CASE ResumeResult
  BY <1>13, ResumeResultEffect
  DEF DeliveredInv, At, Rec, Writing, Sound, Good, Early, Late, Waiting,
      Delivering, DeliveredNotes, PersistsTo, SetsTo, Writes, Annotates,
      LinkInv, PhaseInv, ReportInv, ResultInv
<1>14. CASE OfferNative
  BY <1>14, OfferNativeEffect
  DEF DeliveredInv, At, Rec, Writing, Sound, Good, Early, Late, Waiting,
      Delivering, DeliveredNotes, PersistsTo, SetsTo, Writes, Annotates,
      LinkInv, PhaseInv, AttemptInv
<1>15. CASE BeginAttempt
  BY <1>15, BeginAttemptEffect
  DEF DeliveredInv, At, Rec, Writing, Sound, Good, Early, Late, Waiting,
      Delivering, DeliveredNotes, SetsTo, PersistsTo, Writes, Annotates,
      LinkInv, PhaseInv, AttemptInv
<1>16. CASE SendWake
  BY <1>16, SendWakeEffect
  DEF DeliveredInv, At, Rec, Writing, Sound, Good, Early, Late, Waiting,
      Delivering, DeliveredNotes, PersistsTo, SetsTo, Writes, Annotates,
      LinkInv, PhaseInv, AttemptInv
<1>17. CASE EndAttempt
  BY <1>17, EndAttemptEffect
  DEF DeliveredInv, At, Rec, Writing, Sound, Good, Early, Late, Waiting,
      Delivering, DeliveredNotes, PersistsTo, SetsTo, Writes, Annotates,
      AtLeastMaybe, LinkInv, PhaseInv, AttemptInv
<1>18. CASE EndBackoff
  BY <1>18
  DEF DeliveredInv, At, Rec, Writing, Sound, Good, Early, Late, Waiting,
      Delivering, DeliveredNotes, EndBackoff, Goto, quiet, outside, files,
      mind, program
<1>19. CASE GiveUpDelivery
  BY <1>19, GiveUpDeliveryEffect
  DEF DeliveredInv, At, Rec, Writing, Sound, Good, Early, Late, Waiting,
      Delivering, DeliveredNotes, UpdatesTo, Writes, UndeliveredCode, LinkInv,
      PhaseInv, ReportInv, ResultInv
<1>20. CASE CloseDelivery
  BY <1>20, CloseDeliveryEffect
  DEF DeliveredInv, At, Rec, Writing, Sound, Good, Early, Late, Waiting,
      Delivering, DeliveredNotes, UpdatesTo, Writes, LinkInv, PhaseInv,
      ReportInv, ResultInv
<1>21. CASE EndAck
  BY <1>21, EndAckEffect
  DEF DeliveredInv, At, Rec, Writing, Sound, Good, Early, Late, Waiting,
      Delivering, DeliveredNotes, PersistsTo, SetsTo, Writes, Annotates,
      LinkInv, PhaseInv, ReportInv, ResultInv
<1>22. CASE WriteFinalLog
  BY <1>22, WriteFinalLogEffect
  DEF DeliveredInv, At, Rec, Writing, Sound, Good, Early, Late, Waiting,
      Delivering, DeliveredNotes, CountsFault
<1>23. CASE RecordWatcherFailure
  BY <1>23, RecordWatcherFailureEffect
  DEF DeliveredInv, At, Rec, Writing, Sound, Good, Early, Late, Waiting,
      Delivering, DeliveredNotes, CountsFault, KeepsOutcome
<1>24. CASE ReleaseLock
  BY <1>24, ReleaseLockEffect
  DEF DeliveredInv, At, Rec, Writing, Sound, Good, Early, Late, Waiting,
      Delivering, DeliveredNotes, UpdatesTo, Writes
<1>25. CASE DecideEnd
  BY <1>25, DecideEndEffect
  DEF DeliveredInv, At, Rec, Writing, Sound, Good, Early, Late, Waiting,
      Delivering, DeliveredNotes, SetsTo, UpdatesTo, Writes, Annotates,
      AttemptOnRecord
<1>26. CASE SettleFailedNotice
  BY <1>26, SettleFailedNoticeEffect
  DEF DeliveredInv, At, Rec, Writing, Sound, Good, Early, Late, Waiting,
      Delivering, DeliveredNotes, PersistsTo, SetsTo, Writes, Annotates
<1>27. CASE FinishWatch
  BY <1>27, FinishWatchEffect
  DEF DeliveredInv, At, Rec, Writing, Sound, Good, Early, Late, Waiting,
      Delivering, DeliveredNotes, Writes, LinkInv, PhaseInv, ReportInv,
      ResultInv
<1>28. CASE WakeWithoutPersistence
  BY <1>28, WakeWithoutPersistenceEffect
  DEF DeliveredInv, At, Rec, Writing, Sound, Good, Early, Late, Waiting,
      Delivering, DeliveredNotes, Annotates, AtLeastMaybe
<1>29. CASE Submit
  BY <1>29, SubmitEffect
  DEF DeliveredInv, At, Rec, Writing, Sound, Good, Early, Late, Waiting,
      Delivering, DeliveredNotes, CountsFault, LinkInv
<1>30. CASE Cancel
  BY <1>30, CancelEffect
  DEF DeliveredInv, At, Rec, Writing, Sound, Good, Early, Late, Waiting,
      Delivering, DeliveredNotes, CountsFault, Awaiting
<1>31. CASE SaveOther
  BY <1>31
  DEF DeliveredInv, At, Rec, Writing, Sound, Good, Early, Late, Waiting,
      Delivering, DeliveredNotes, SaveOther, Awaiting, mind, program, outside
<1>32. CASE OwnerActivates
  BY <1>32
  DEF DeliveredInv, At, Rec, Writing, Sound, Good, Early, Late, Waiting,
      Delivering, DeliveredNotes, OwnerActivates, files, mind, program
<1>33. CASE OwnerChanges
  BY <1>33
  DEF DeliveredInv, At, Rec, Writing, Sound, Good, Early, Late, Waiting,
      Delivering, DeliveredNotes, OwnerChanges, files, mind, program
<1>34. CASE OrphanExits
  BY <1>34
  DEF DeliveredInv, At, Rec, Writing, Sound, Good, Early, Late, Waiting,
      Delivering, DeliveredNotes, OrphanExits, quiet, outside, files, mind
<1>35. CASE Crash
  BY <1>35, CrashEffect
  DEF DeliveredInv, At, Rec, Writing, Sound, Good, Early, Late, Waiting,
      Delivering, DeliveredNotes, AtLeastMaybe, NoResult, Fresh
<1>36. CASE Shutdown
  BY <1>36, ShutdownEffect
  DEF DeliveredInv, At, Rec, Writing, Sound, Good, Early, Late, Waiting,
      Delivering, DeliveredNotes, AtLeastMaybe, Awaiting
<1>37. CASE SaveOnShutdown
  BY <1>37, SaveOnShutdownEffect
  DEF DeliveredInv, At, Rec, Writing, Sound, Good, Early, Late, Waiting,
      Delivering, DeliveredNotes, CountsFault, NoResult, Fresh
<1>38. CASE Restart
  BY <1>38
  DEF DeliveredInv, At, Rec, Writing, Sound, Good, Early, Late, Waiting,
      Delivering, DeliveredNotes, Restart, Goto, Restores, quiet, outside,
      files, program
<1>39. QED
  BY <1>0, <1>1, <1>2, <1>3, <1>4, <1>5, <1>6, <1>7, <1>8, <1>9, <1>10, <1>11,
      <1>12, <1>13, <1>14, <1>15, <1>16, <1>17, <1>18, <1>19, <1>20, <1>21,
      <1>22, <1>23, <1>24, <1>25, <1>26, <1>27, <1>28, <1>29, <1>30, <1>31,
      <1>32, <1>33, <1>34, <1>35, <1>36, <1>37, <1>38
  DEF Next, TaskStep, EnvironmentStep, ServiceStep

\* Every step keeps a woken session past every attempt on record.
LEMMA WokenStep ==
  ASSUME TypeOK, AttemptInv, LinkInv, PhaseInv, DeliveredInv, WokenInv,
         [Next]_vars
  PROVE  WokenInv'
<1>0. CASE UNCHANGED vars
  BY <1>0 DEF WokenInv, At, Rec, Writing, PastAttempts, Waiting,
      DeliveredNotes, vars
<1>1. CASE WriteLog
  BY <1>1, WriteLogEffect
  DEF WokenInv, At, Rec, Writing, PastAttempts, Waiting, DeliveredNotes,
      FailsAt, CountsFault
<1>2. CASE SaveRecord
  <2>1. CASE disk' = io.rec /\ pc' = io.then /\ UNCHANGED <<lock, prog, faults>>
    BY <1>2, <2>1, SaveRecordEffect
    DEF WokenInv, At, Rec, Writing, PastAttempts, Waiting, DeliveredNotes,
        Continuations
  <2>2. CASE disk' \in {disk, io.rec} /\ FailsAt(io.then)
    BY <1>2, <2>2, SaveRecordEffect
    DEF WokenInv, At, Rec, Writing, PastAttempts, Waiting, DeliveredNotes,
        Continuations, FailsAt, CountsFault
  <2>3. QED
    BY <1>2, <2>1, <2>2, SaveRecordEffect
<1>3. CASE AcquireLock
  BY <1>3, AcquireLockEffect
  DEF WokenInv, At, Rec, Writing, PastAttempts, Waiting, DeliveredNotes,
      SetsTo, UpdatesTo, Writes, CountsFault, LinkInv
<1>4. CASE RecoverPhase
  BY <1>4, RecoverPhaseEffect
  DEF WokenInv, At, Rec, Writing, PastAttempts, Waiting, DeliveredNotes,
      SetsTo, CountsFault, Started, Late, PhaseInv
<1>5. CASE PollActivation
  BY <1>5, PollActivationEffect
  DEF WokenInv, At, Rec, Writing, PastAttempts, Waiting, DeliveredNotes,
      PersistsTo, SetsTo, Writes, UpdatesTo
<1>6. CASE StartRunning
  BY <1>6, StartRunningEffect
  DEF WokenInv, At, Rec, Writing, PastAttempts, Waiting, DeliveredNotes,
      UpdatesTo, Writes
<1>7. CASE ExecuteProgram
  BY <1>7, ExecuteProgramEffect
  DEF WokenInv, At, Rec, Writing, PastAttempts, Waiting, DeliveredNotes,
      SetsTo
<1>8. CASE SpawnProgram
  BY <1>8, SpawnProgramEffect
  DEF WokenInv, At, Rec, Writing, PastAttempts, Waiting, DeliveredNotes,
      SetsTo, UpdatesTo, Writes
<1>9. CASE FinishProgram
  BY <1>9, FinishProgramEffect
  DEF WokenInv, At, Rec, Writing, PastAttempts, Waiting, DeliveredNotes,
      SetsTo
<1>10. CASE StopProgram
  BY <1>10, StopProgramEffect
  DEF WokenInv, At, Rec, Writing, PastAttempts, Waiting, DeliveredNotes,
      SetsTo
<1>11. CASE CollectStartError
  BY <1>11
  DEF WokenInv, At, Rec, Writing, PastAttempts, Waiting, DeliveredNotes,
      CollectStartError, Goto, quiet, outside, files, mind, program
<1>12. CASE EvaluateResult
  BY <1>12, EvaluateResultEffect
  DEF WokenInv, At, Rec, Writing, PastAttempts, Waiting, DeliveredNotes,
      PersistsTo, SetsTo, Writes
<1>13. CASE ResumeResult
  BY <1>13, ResumeResultEffect
  DEF WokenInv, At, Rec, Writing, PastAttempts, Waiting, DeliveredNotes,
      PersistsTo, SetsTo, Writes, Annotates, LinkInv, Delivering,
      DeliveredInv, PhaseInv
<1>14. CASE OfferNative
  BY <1>14, OfferNativeEffect
  DEF WokenInv, At, Rec, Writing, PastAttempts, Waiting, DeliveredNotes,
      PersistsTo, SetsTo, Writes, Annotates
<1>15. CASE BeginAttempt
  BY <1>15, BeginAttemptEffect
  DEF WokenInv, At, Rec, Writing, PastAttempts, Waiting, DeliveredNotes,
      SetsTo, PersistsTo, Writes, Annotates
<1>16. CASE SendWake
  BY <1>16, SendWakeEffect
  DEF WokenInv, At, Rec, Writing, PastAttempts, Waiting, DeliveredNotes,
      PersistsTo, SetsTo, Writes, Annotates
<1>17. CASE EndAttempt
  BY <1>17, EndAttemptEffect
  DEF WokenInv, At, Rec, Writing, PastAttempts, Waiting, DeliveredNotes,
      PersistsTo, SetsTo, Writes, Annotates, AtLeastMaybe, AttemptInv,
      AttemptIsDurableFirst
<1>18. CASE EndBackoff
  BY <1>18
  DEF WokenInv, At, Rec, Writing, PastAttempts, Waiting, DeliveredNotes,
      EndBackoff, Goto, quiet, outside, files, mind, program
<1>19. CASE GiveUpDelivery
  BY <1>19, GiveUpDeliveryEffect
  DEF WokenInv, At, Rec, Writing, PastAttempts, Waiting, DeliveredNotes,
      UpdatesTo, Writes, UndeliveredCode
<1>20. CASE CloseDelivery
  BY <1>20, CloseDeliveryEffect
  DEF WokenInv, At, Rec, Writing, PastAttempts, Waiting, DeliveredNotes,
      UpdatesTo, Writes
<1>21. CASE EndAck
  BY <1>21, EndAckEffect
  DEF WokenInv, At, Rec, Writing, PastAttempts, Waiting, DeliveredNotes,
      PersistsTo, SetsTo, Writes, Annotates, LinkInv, Delivering, DeliveredInv
<1>22. CASE WriteFinalLog
  BY <1>22, WriteFinalLogEffect
  DEF WokenInv, At, Rec, Writing, PastAttempts, Waiting, DeliveredNotes,
      CountsFault
<1>23. CASE RecordWatcherFailure
  BY <1>23, RecordWatcherFailureEffect
  DEF WokenInv, At, Rec, Writing, PastAttempts, Waiting, DeliveredNotes,
      CountsFault, KeepsOutcome, DeliveredInv
<1>24. CASE ReleaseLock
  BY <1>24, ReleaseLockEffect
  DEF WokenInv, At, Rec, Writing, PastAttempts, Waiting, DeliveredNotes,
      UpdatesTo, Writes
<1>25. CASE DecideEnd
  BY <1>25, DecideEndEffect
  DEF WokenInv, At, Rec, Writing, PastAttempts, Waiting, DeliveredNotes,
      SetsTo, UpdatesTo, Writes, Annotates, AttemptOnRecord, DeliveredInv
<1>26. CASE SettleFailedNotice
  BY <1>26, SettleFailedNoticeEffect
  DEF WokenInv, At, Rec, Writing, PastAttempts, Waiting, DeliveredNotes,
      PersistsTo, SetsTo, Writes, Annotates, DeliveredInv
<1>27. CASE FinishWatch
  BY <1>27, FinishWatchEffect
  DEF WokenInv, At, Rec, Writing, PastAttempts, Waiting, DeliveredNotes,
      Writes
<1>28. CASE WakeWithoutPersistence
  BY <1>28, WakeWithoutPersistenceEffect
  DEF WokenInv, At, Rec, Writing, PastAttempts, Waiting, DeliveredNotes,
      Annotates, AtLeastMaybe, DeliveredInv
<1>29. CASE Submit
  BY <1>29, SubmitEffect
  DEF WokenInv, At, Rec, Writing, PastAttempts, Waiting, DeliveredNotes,
      CountsFault, PhaseInv, Early
<1>30. CASE Cancel
  BY <1>30, CancelEffect
  DEF WokenInv, At, Rec, Writing, PastAttempts, Waiting, DeliveredNotes,
      CountsFault, Awaiting
<1>31. CASE SaveOther
  BY <1>31
  DEF WokenInv, At, Rec, Writing, PastAttempts, Waiting, DeliveredNotes,
      SaveOther, Awaiting, mind, program, outside
<1>32. CASE OwnerActivates
  BY <1>32
  DEF WokenInv, At, Rec, Writing, PastAttempts, Waiting, DeliveredNotes,
      OwnerActivates, files, mind, program
<1>33. CASE OwnerChanges
  BY <1>33
  DEF WokenInv, At, Rec, Writing, PastAttempts, Waiting, DeliveredNotes,
      OwnerChanges, files, mind, program
<1>34. CASE OrphanExits
  BY <1>34
  DEF WokenInv, At, Rec, Writing, PastAttempts, Waiting, DeliveredNotes,
      OrphanExits, quiet, outside, files, mind
<1>35. CASE Crash
  BY <1>35, CrashEffect
  DEF WokenInv, At, Rec, Writing, PastAttempts, Waiting, DeliveredNotes,
      AtLeastMaybe, Early
<1>36. CASE Shutdown
  BY <1>36, ShutdownEffect
  DEF WokenInv, At, Rec, Writing, PastAttempts, Waiting, DeliveredNotes,
      AtLeastMaybe, Awaiting
<1>37. CASE SaveOnShutdown
  BY <1>37, SaveOnShutdownEffect
  DEF WokenInv, At, Rec, Writing, PastAttempts, Waiting, DeliveredNotes,
      CountsFault, Early
<1>38. CASE Restart
  BY <1>38
  DEF WokenInv, At, Rec, Writing, PastAttempts, Waiting, DeliveredNotes,
      Restart, Goto, Restores, quiet, outside, files, program, Terminal
<1>39. QED
  BY <1>0, <1>1, <1>2, <1>3, <1>4, <1>5, <1>6, <1>7, <1>8, <1>9, <1>10, <1>11,
      <1>12, <1>13, <1>14, <1>15, <1>16, <1>17, <1>18, <1>19, <1>20, <1>21,
      <1>22, <1>23, <1>24, <1>25, <1>26, <1>27, <1>28, <1>29, <1>30, <1>31,
      <1>32, <1>33, <1>34, <1>35, <1>36, <1>37, <1>38
  DEF Next, TaskStep, EnvironmentStep, ServiceStep

\* Every step keeps a Codex wake in doubt on the log.
LEMMA CodexStep ==
  ASSUME TypeOK, AttemptInv, LinkInv, LockInv, EndedInv, PhaseInv,
         ReportInv, ResultInv, CodexInv, [Next]_vars
  PROVE  CodexInv'
<1>0. CASE UNCHANGED vars
  BY <1>0 DEF CodexInv, At, Rec, Writing, Waiting, Early, Delivering,
      Outcomes, vars
<1>1. CASE WriteLog
  BY <1>1, WriteLogEffect
  DEF CodexInv, At, Rec, Writing, Waiting, Early, Delivering, Outcomes,
      FailsAt, CountsFault, LinkInv, LockInv
<1>2. CASE SaveRecord
  <2>1. CASE disk' = io.rec /\ pc' = io.then /\ UNCHANGED <<lock, prog, faults>>
    BY <1>2, <2>1, SaveRecordEffect
    DEF CodexInv, At, Rec, Writing, Waiting, Early, Delivering, Outcomes,
        LinkInv, LockInv, Continuations
  <2>2. CASE disk' \in {disk, io.rec} /\ FailsAt(io.then)
    BY <1>2, <2>2, SaveRecordEffect
    DEF CodexInv, At, Rec, Writing, Waiting, Early, Delivering, Outcomes,
        LinkInv, LockInv, Continuations, FailsAt, CountsFault
  <2>3. QED
    BY <1>2, <2>1, <2>2, SaveRecordEffect
<1>3. CASE AcquireLock
  BY <1>3, AcquireLockEffect
  DEF CodexInv, At, Rec, Writing, Waiting, Early, Delivering, Outcomes,
      SetsTo, UpdatesTo, Writes, CountsFault, Fresh
<1>4. CASE RecoverPhase
  BY <1>4, RecoverPhaseEffect
  DEF CodexInv, At, Rec, Writing, Waiting, Early, Delivering, Outcomes,
      SetsTo, CountsFault, Started, Late
<1>5. CASE PollActivation
  BY <1>5, PollActivationEffect
  DEF CodexInv, At, Rec, Writing, Waiting, Early, Delivering, Outcomes,
      PersistsTo, SetsTo, Writes, UpdatesTo, Fresh
<1>6. CASE StartRunning
  BY <1>6, StartRunningEffect
  DEF CodexInv, At, Rec, Writing, Waiting, Early, Delivering, Outcomes,
      UpdatesTo, Writes
<1>7. CASE ExecuteProgram
  BY <1>7, ExecuteProgramEffect
  DEF CodexInv, At, Rec, Writing, Waiting, Early, Delivering, Outcomes,
      SetsTo, Fresh
<1>8. CASE SpawnProgram
  BY <1>8, SpawnProgramEffect
  DEF CodexInv, At, Rec, Writing, Waiting, Early, Delivering, Outcomes,
      SetsTo, UpdatesTo, Writes, Fresh
<1>9. CASE FinishProgram
  BY <1>9, FinishProgramEffect
  DEF CodexInv, At, Rec, Writing, Waiting, Early, Delivering, Outcomes,
      SetsTo, Fresh
<1>10. CASE StopProgram
  BY <1>10, StopProgramEffect
  DEF CodexInv, At, Rec, Writing, Waiting, Early, Delivering, Outcomes,
      SetsTo, Fresh
<1>11. CASE CollectStartError
  BY <1>11
  DEF CodexInv, At, Rec, Writing, Waiting, Early, Delivering, Outcomes,
      CollectStartError, Goto, quiet, outside, files, mind, program
<1>12. CASE EvaluateResult
  BY <1>12, EvaluateResultEffect
  DEF CodexInv, At, Rec, Writing, Waiting, Early, Delivering, Outcomes,
      PersistsTo, SetsTo, Writes, Fresh
<1>13. CASE ResumeResult
  BY <1>13, ResumeResultEffect
  DEF CodexInv, At, Rec, Writing, Waiting, Early, Delivering, Outcomes,
      PersistsTo, SetsTo, Writes, Annotates, DeliveredNotes
<1>14. CASE OfferNative
  BY <1>14, OfferNativeEffect
  DEF CodexInv, At, Rec, Writing, Waiting, Early, Delivering, Outcomes,
      PersistsTo, SetsTo, Writes, Annotates
<1>15. CASE BeginAttempt
  BY <1>15, BeginAttemptEffect
  DEF CodexInv, At, Rec, Writing, Waiting, Early, Delivering, Outcomes,
      SetsTo, PersistsTo, Writes, Annotates
<1>16. CASE SendWake
  BY <1>16, SendWakeEffect
  DEF CodexInv, At, Rec, Writing, Waiting, Early, Delivering, Outcomes,
      PersistsTo, SetsTo, Writes, Annotates
<1>17. CASE EndAttempt
  BY <1>17, EndAttemptEffect
  DEF CodexInv, At, Rec, Writing, Waiting, Early, Delivering, Outcomes,
      PersistsTo, SetsTo, Writes, Annotates, AtLeastMaybe, LinkInv,
      AttemptInv, AttemptIsDurableFirst, ResultInv, Told
<1>18. CASE EndBackoff
  BY <1>18
  DEF CodexInv, At, Rec, Writing, Waiting, Early, Delivering, Outcomes,
      EndBackoff, Goto, quiet, outside, files, mind, program
<1>19. CASE GiveUpDelivery
  BY <1>19, GiveUpDeliveryEffect
  DEF CodexInv, At, Rec, Writing, Waiting, Early, Delivering, Outcomes,
      UpdatesTo, Writes, UndeliveredCode
<1>20. CASE CloseDelivery
  BY <1>20, CloseDeliveryEffect
  DEF CodexInv, At, Rec, Writing, Waiting, Early, Delivering, Outcomes,
      UpdatesTo, Writes
<1>21. CASE EndAck
  BY <1>21, EndAckEffect
  DEF CodexInv, At, Rec, Writing, Waiting, Early, Delivering, Outcomes,
      PersistsTo, SetsTo, Writes, Annotates
<1>22. CASE WriteFinalLog
  BY <1>22, WriteFinalLogEffect
  DEF CodexInv, At, Rec, Writing, Waiting, Early, Delivering, Outcomes,
      CountsFault, LockInv, Holding
<1>23. CASE RecordWatcherFailure
  BY <1>23, RecordWatcherFailureEffect
  DEF CodexInv, At, Rec, Writing, Waiting, Early, Delivering, Outcomes,
      CountsFault, KeepsOutcome, LockInv
<1>24. CASE ReleaseLock
  BY <1>24, ReleaseLockEffect
  DEF CodexInv, At, Rec, Writing, Waiting, Early, Delivering, Outcomes,
      UpdatesTo, Writes
<1>25. CASE DecideEnd
  BY <1>25, DecideEndEffect
  DEF CodexInv, At, Rec, Writing, Waiting, Early, Delivering, Outcomes,
      SetsTo, UpdatesTo, Writes, Annotates, AttemptOnRecord, LockInv
<1>26. CASE SettleFailedNotice
  BY <1>26, SettleFailedNoticeEffect
  DEF CodexInv, At, Rec, Writing, Waiting, Early, Delivering, Outcomes,
      PersistsTo, SetsTo, Writes, Annotates, DeliveredNotes, LockInv
<1>27. CASE FinishWatch
  BY <1>27, FinishWatchEffect
  DEF CodexInv, At, Rec, Writing, Waiting, Early, Delivering, Outcomes, Writes
<1>28. CASE WakeWithoutPersistence
  BY <1>28, WakeWithoutPersistenceEffect
  DEF CodexInv, At, Rec, Writing, Waiting, Early, Delivering, Outcomes,
      Annotates, AtLeastMaybe, LockInv
<1>29. CASE Submit
  BY <1>29, SubmitEffect
  DEF CodexInv, At, Rec, Writing, Waiting, Early, Delivering, Outcomes,
      CountsFault, PhaseInv
<1>30. CASE Cancel
  BY <1>30, CancelEffect
  DEF CodexInv, At, Rec, Writing, Waiting, Early, Delivering, Outcomes,
      CountsFault, Awaiting
<1>31. CASE SaveOther
  BY <1>31
  DEF CodexInv, At, Rec, Writing, Waiting, Early, Delivering, Outcomes,
      SaveOther, Awaiting, mind, program, outside
<1>32. CASE OwnerActivates
  BY <1>32
  DEF CodexInv, At, Rec, Writing, Waiting, Early, Delivering, Outcomes,
      OwnerActivates, files, mind, program
<1>33. CASE OwnerChanges
  BY <1>33
  DEF CodexInv, At, Rec, Writing, Waiting, Early, Delivering, Outcomes,
      OwnerChanges, files, mind, program
<1>34. CASE OrphanExits
  BY <1>34
  DEF CodexInv, At, Rec, Writing, Waiting, Early, Delivering, Outcomes,
      OrphanExits, quiet, outside, files, mind
<1>35. CASE Crash
  BY <1>35, CrashEffect
  DEF CodexInv, At, Rec, Writing, Waiting, Early, Delivering, Outcomes,
      AtLeastMaybe
<1>36. CASE Shutdown
  BY <1>36, ShutdownEffect
  DEF CodexInv, At, Rec, Writing, Waiting, Early, Delivering, Outcomes,
      AtLeastMaybe, Awaiting
<1>37. CASE SaveOnShutdown
  BY <1>37, SaveOnShutdownEffect
  DEF CodexInv, At, Rec, Writing, Waiting, Early, Delivering, Outcomes,
      CountsFault
<1>38. CASE Restart
  BY <1>38
  DEF CodexInv, At, Rec, Writing, Waiting, Early, Delivering, Outcomes,
      Restart, Goto, Restores, quiet, outside, files, program
<1>39. QED
  BY <1>0, <1>1, <1>2, <1>3, <1>4, <1>5, <1>6, <1>7, <1>8, <1>9, <1>10, <1>11,
      <1>12, <1>13, <1>14, <1>15, <1>16, <1>17, <1>18, <1>19, <1>20, <1>21,
      <1>22, <1>23, <1>24, <1>25, <1>26, <1>27, <1>28, <1>29, <1>30, <1>31,
      <1>32, <1>33, <1>34, <1>35, <1>36, <1>37, <1>38
  DEF Next, TaskStep, EnvironmentStep, ServiceStep

-----------------------------------------------------------------------------
(* Evidence.                                                               *)

\* Every step keeps a program's outcome past the phases that replace it.
LEMMA OutcomeStep ==
  ASSUME TypeOK, RunOnceInv, AttemptInv, LinkInv, PhaseInv, ReportInv,
         ResultInv, OutcomeInv, [Next]_vars
  PROVE  OutcomeInv'
<1>0. CASE UNCHANGED vars
  BY <1>0 DEF OutcomeInv, At, Rec, Writing, Unreplaced, Replaces, Waiting,
      Early, Outcomes, vars
<1>1. CASE WriteLog
  BY <1>1, WriteLogEffect
  DEF OutcomeInv, At, Rec, Writing, Unreplaced, Replaces, Waiting, Early,
      Outcomes, FailsAt, CountsFault
<1>2. CASE SaveRecord
  <2>1. CASE disk' = io.rec /\ pc' = io.then /\ UNCHANGED <<lock, prog, faults>>
    BY <1>2, <2>1, SaveRecordEffect
    DEF OutcomeInv, At, Rec, Writing, Unreplaced, Replaces, Waiting, Early,
        Outcomes, Continuations
  <2>2. CASE disk' \in {disk, io.rec} /\ FailsAt(io.then)
    BY <1>2, <2>2, SaveRecordEffect
    DEF OutcomeInv, At, Rec, Writing, Unreplaced, Replaces, Waiting, Early,
        Outcomes, Continuations, FailsAt, CountsFault
  <2>3. QED
    BY <1>2, <2>1, <2>2, SaveRecordEffect
<1>3. CASE AcquireLock
  BY <1>3, AcquireLockEffect
  DEF OutcomeInv, At, Rec, Writing, Unreplaced, Replaces, Waiting, Early,
      Outcomes, SetsTo, UpdatesTo, Writes, CountsFault, Fresh
<1>4. CASE RecoverPhase
  BY <1>4, RecoverPhaseEffect
  DEF OutcomeInv, At, Rec, Writing, Unreplaced, Replaces, Waiting, Early,
      Outcomes, SetsTo, CountsFault, Started, Late, PhaseInv, ReportInv,
      Unreported
<1>5. CASE PollActivation
  BY <1>5, PollActivationEffect
  DEF OutcomeInv, At, Rec, Writing, Unreplaced, Replaces, Waiting, Early,
      Outcomes, PersistsTo, SetsTo, Writes, UpdatesTo, Fresh
<1>6. CASE StartRunning
  BY <1>6, StartRunningEffect
  DEF OutcomeInv, At, Rec, Writing, Unreplaced, Replaces, Waiting, Early,
      Outcomes, UpdatesTo, Writes
<1>7. CASE ExecuteProgram
  BY <1>7, ExecuteProgramEffect
  DEF OutcomeInv, At, Rec, Writing, Unreplaced, Replaces, Waiting, Early,
      Outcomes, SetsTo, Fresh, RunOnceInv, PhaseInv, ReportInv, Unreported
<1>8. CASE SpawnProgram
  BY <1>8, SpawnProgramEffect
  DEF OutcomeInv, At, Rec, Writing, Unreplaced, Replaces, Waiting, Early,
      Outcomes, SetsTo, UpdatesTo, Writes, Fresh, RunOnceInv, PhaseInv,
      ReportInv, Unreported
<1>9. CASE FinishProgram
  BY <1>9, FinishProgramEffect
  DEF OutcomeInv, At, Rec, Writing, Unreplaced, Replaces, Waiting, Early,
      Outcomes, SetsTo, Fresh, RunOnceInv, PhaseInv, ReportInv, Unreported,
      ResultInv
<1>10. CASE StopProgram
  BY <1>10, StopProgramEffect
  DEF OutcomeInv, At, Rec, Writing, Unreplaced, Replaces, Waiting, Early,
      Outcomes, SetsTo, Fresh, RunOnceInv, PhaseInv, ReportInv, Unreported,
      ResultInv
<1>11. CASE CollectStartError
  BY <1>11
  DEF OutcomeInv, At, Rec, Writing, Unreplaced, Replaces, Waiting, Early,
      Outcomes, CollectStartError, Goto, quiet, outside, files, mind, program
<1>12. CASE EvaluateResult
  BY <1>12, EvaluateResultEffect
  DEF OutcomeInv, At, Rec, Writing, Unreplaced, Replaces, Waiting, Early,
      Outcomes, PersistsTo, SetsTo, Writes
<1>13. CASE ResumeResult
  BY <1>13, ResumeResultEffect
  DEF OutcomeInv, At, Rec, Writing, Unreplaced, Replaces, Waiting, Early,
      Outcomes, PersistsTo, SetsTo, Writes, Annotates, DeliveredNotes
<1>14. CASE OfferNative
  BY <1>14, OfferNativeEffect
  DEF OutcomeInv, At, Rec, Writing, Unreplaced, Replaces, Waiting, Early,
      Outcomes, PersistsTo, SetsTo, Writes, Annotates
<1>15. CASE BeginAttempt
  BY <1>15, BeginAttemptEffect
  DEF OutcomeInv, At, Rec, Writing, Unreplaced, Replaces, Waiting, Early,
      Outcomes, SetsTo, PersistsTo, Writes, Annotates
<1>16. CASE SendWake
  BY <1>16, SendWakeEffect
  DEF OutcomeInv, At, Rec, Writing, Unreplaced, Replaces, Waiting, Early,
      Outcomes, PersistsTo, SetsTo, Writes, Annotates
<1>17. CASE EndAttempt
  BY <1>17, EndAttemptEffect
  DEF OutcomeInv, At, Rec, Writing, Unreplaced, Replaces, Waiting, Early,
      Outcomes, PersistsTo, SetsTo, Writes, Annotates, AtLeastMaybe
<1>18. CASE EndBackoff
  BY <1>18
  DEF OutcomeInv, At, Rec, Writing, Unreplaced, Replaces, Waiting, Early,
      Outcomes, EndBackoff, Goto, quiet, outside, files, mind, program
<1>19. CASE GiveUpDelivery
  BY <1>19, GiveUpDeliveryEffect
  DEF OutcomeInv, At, Rec, Writing, Unreplaced, Replaces, Waiting, Early,
      Outcomes, UpdatesTo, Writes, UndeliveredCode
<1>20. CASE CloseDelivery
  BY <1>20, CloseDeliveryEffect
  DEF OutcomeInv, At, Rec, Writing, Unreplaced, Replaces, Waiting, Early,
      Outcomes, UpdatesTo, Writes
<1>21. CASE EndAck
  BY <1>21, EndAckEffect
  DEF OutcomeInv, At, Rec, Writing, Unreplaced, Replaces, Waiting, Early,
      Outcomes, PersistsTo, SetsTo, Writes, Annotates
<1>22. CASE WriteFinalLog
  BY <1>22, WriteFinalLogEffect
  DEF OutcomeInv, At, Rec, Writing, Unreplaced, Replaces, Waiting, Early,
      Outcomes, CountsFault
<1>23. CASE RecordWatcherFailure
  BY <1>23, RecordWatcherFailureEffect
  DEF OutcomeInv, At, Rec, Writing, Unreplaced, Replaces, Waiting, Early,
      Outcomes, CountsFault, KeepsOutcome
<1>24. CASE ReleaseLock
  BY <1>24, ReleaseLockEffect
  DEF OutcomeInv, At, Rec, Writing, Unreplaced, Replaces, Waiting, Early,
      Outcomes, UpdatesTo, Writes
<1>25. CASE DecideEnd
  BY <1>25, DecideEndEffect
  DEF OutcomeInv, At, Rec, Writing, Unreplaced, Replaces, Waiting, Early,
      Outcomes, SetsTo, UpdatesTo, Writes, Annotates, AttemptOnRecord
<1>26. CASE SettleFailedNotice
  BY <1>26, SettleFailedNoticeEffect
  DEF OutcomeInv, At, Rec, Writing, Unreplaced, Replaces, Waiting, Early,
      Outcomes, PersistsTo, SetsTo, Writes, Annotates, DeliveredNotes
<1>27. CASE FinishWatch
  BY <1>27, FinishWatchEffect
  DEF OutcomeInv, At, Rec, Writing, Unreplaced, Replaces, Waiting, Early,
      Outcomes, Writes
<1>28. CASE WakeWithoutPersistence
  BY <1>28, WakeWithoutPersistenceEffect
  DEF OutcomeInv, At, Rec, Writing, Unreplaced, Replaces, Waiting, Early,
      Outcomes, Annotates, AtLeastMaybe
<1>29. CASE Submit
  BY <1>29, SubmitEffect
  DEF OutcomeInv, At, Rec, Writing, Unreplaced, Replaces, Waiting, Early,
      Outcomes, CountsFault, PhaseInv
<1>30. CASE Cancel
  BY <1>30, CancelEffect
  DEF OutcomeInv, At, Rec, Writing, Unreplaced, Replaces, Waiting, Early,
      Outcomes, CountsFault, Awaiting
<1>31. CASE SaveOther
  BY <1>31
  DEF OutcomeInv, At, Rec, Writing, Unreplaced, Replaces, Waiting, Early,
      Outcomes, SaveOther, Awaiting, mind, program, outside
<1>32. CASE OwnerActivates
  BY <1>32
  DEF OutcomeInv, At, Rec, Writing, Unreplaced, Replaces, Waiting, Early,
      Outcomes, OwnerActivates, files, mind, program
<1>33. CASE OwnerChanges
  BY <1>33
  DEF OutcomeInv, At, Rec, Writing, Unreplaced, Replaces, Waiting, Early,
      Outcomes, OwnerChanges, files, mind, program
<1>34. CASE OrphanExits
  BY <1>34
  DEF OutcomeInv, At, Rec, Writing, Unreplaced, Replaces, Waiting, Early,
      Outcomes, OrphanExits, quiet, outside, files, mind
<1>35. CASE Crash
  BY <1>35, CrashEffect
  DEF OutcomeInv, At, Rec, Writing, Unreplaced, Replaces, Waiting, Early,
      Outcomes, AtLeastMaybe, NoResult, Fresh
<1>36. CASE Shutdown
  BY <1>36, ShutdownEffect
  DEF OutcomeInv, At, Rec, Writing, Unreplaced, Replaces, Waiting, Early,
      Outcomes, AtLeastMaybe, Awaiting
<1>37. CASE SaveOnShutdown
  BY <1>37, SaveOnShutdownEffect
  DEF OutcomeInv, At, Rec, Writing, Unreplaced, Replaces, Waiting, Early,
      Outcomes, CountsFault, NoResult, Fresh
<1>38. CASE Restart
  BY <1>38
  DEF OutcomeInv, At, Rec, Writing, Unreplaced, Replaces, Waiting, Early,
      Outcomes, Restart, Goto, Restores, quiet, outside, files, program
<1>39. QED
  BY <1>0, <1>1, <1>2, <1>3, <1>4, <1>5, <1>6, <1>7, <1>8, <1>9, <1>10, <1>11,
      <1>12, <1>13, <1>14, <1>15, <1>16, <1>17, <1>18, <1>19, <1>20, <1>21,
      <1>22, <1>23, <1>24, <1>25, <1>26, <1>27, <1>28, <1>29, <1>30, <1>31,
      <1>32, <1>33, <1>34, <1>35, <1>36, <1>37, <1>38
  DEF Next, TaskStep, EnvironmentStep, ServiceStep

\* An event is one of Events.
LEMMA EventType == ASSUME TypeOK PROVE res.event \in Events
BY DEF TypeOK, Results

\* Every step keeps the copies of the record that may be logged faithful to
\* the log.
LEMMA EvidenceStep ==
  ASSUME TypeOK, AttemptInv, LinkInv, LockInv, PhaseInv, ReportInv,
         ResultInv, OutcomeInv, EvidenceInv, [Next]_vars
  PROVE  EvidenceInv'
<1>0. CASE UNCHANGED vars
  BY <1>0 DEF EvidenceInv, At, Rec, Writing, KeepsEvidence, Keeps, Late,
      Waiting, Early, Delivering, Outcomes, vars
<1>1. CASE WriteLog
  BY <1>1, WriteLogEffect
  DEF EvidenceInv, At, Rec, Writing, KeepsEvidence, Keeps, Late, Waiting,
      Early, Delivering, Outcomes, FailsAt, CountsFault, LinkInv, LockInv,
      OutcomeInv, Unreplaced, Replaces
<1>2. CASE SaveRecord
  <2>1. CASE disk' = io.rec /\ pc' = io.then /\ UNCHANGED <<lock, prog, faults>>
    BY <1>2, <2>1, SaveRecordEffect
    DEF EvidenceInv, At, Rec, Writing, KeepsEvidence, Keeps, Late, Waiting,
        Early, Delivering, Outcomes, LockInv, LinkInv, Continuations
  <2>2. CASE disk' \in {disk, io.rec} /\ FailsAt(io.then)
    BY <1>2, <2>2, SaveRecordEffect
    DEF EvidenceInv, At, Rec, Writing, KeepsEvidence, Keeps, Late, Waiting,
        Early, Delivering, Outcomes, LockInv, LinkInv, Continuations, FailsAt,
        CountsFault
  <2>3. QED
    BY <1>2, <2>1, <2>2, SaveRecordEffect
<1>3. CASE AcquireLock
  BY <1>3, AcquireLockEffect
  DEF EvidenceInv, At, Rec, Writing, KeepsEvidence, Keeps, Late, Waiting,
      Early, Delivering, Outcomes, SetsTo, UpdatesTo, Writes, CountsFault,
      Fresh, LinkInv
<1>4. CASE RecoverPhase
  BY <1>4, RecoverPhaseEffect
  DEF EvidenceInv, At, Rec, Writing, KeepsEvidence, Keeps, Late, Waiting,
      Early, Delivering, Outcomes, SetsTo, CountsFault, Started, PhaseInv,
      ReportInv, NoResult, Fresh, ResultInv, Told
<1>5. CASE PollActivation
  BY <1>5, PollActivationEffect
  DEF EvidenceInv, At, Rec, Writing, KeepsEvidence, Keeps, Late, Waiting,
      Early, Delivering, Outcomes, PersistsTo, SetsTo, Writes, UpdatesTo,
      Fresh
<1>6. CASE StartRunning
  BY <1>6, StartRunningEffect
  DEF EvidenceInv, At, Rec, Writing, KeepsEvidence, Keeps, Late, Waiting,
      Early, Delivering, Outcomes, UpdatesTo, Writes
<1>7. CASE ExecuteProgram
  BY <1>7, ExecuteProgramEffect
  DEF EvidenceInv, At, Rec, Writing, KeepsEvidence, Keeps, Late, Waiting,
      Early, Delivering, Outcomes, SetsTo, Fresh
<1>8. CASE SpawnProgram
  BY <1>8, SpawnProgramEffect
  DEF EvidenceInv, At, Rec, Writing, KeepsEvidence, Keeps, Late, Waiting,
      Early, Delivering, Outcomes, SetsTo, UpdatesTo, Writes, Fresh
<1>9. CASE FinishProgram
  BY <1>9, FinishProgramEffect
  DEF EvidenceInv, At, Rec, Writing, KeepsEvidence, Keeps, Late, Waiting,
      Early, Delivering, Outcomes, SetsTo, Fresh
<1>10. CASE StopProgram
  BY <1>10, StopProgramEffect
  DEF EvidenceInv, At, Rec, Writing, KeepsEvidence, Keeps, Late, Waiting,
      Early, Delivering, Outcomes, SetsTo, Fresh
<1>11. CASE CollectStartError
  BY <1>11
  DEF EvidenceInv, At, Rec, Writing, KeepsEvidence, Keeps, Late, Waiting,
      Early, Delivering, Outcomes, CollectStartError, Goto, quiet, outside,
      files, mind, program
<1>12. CASE EvaluateResult
  BY <1>12, EvaluateResultEffect, EventType
  DEF EvidenceInv, At, Rec, Writing, KeepsEvidence, Keeps, Late, Waiting,
      Early, Delivering, Outcomes, PersistsTo, SetsTo, Writes, LogSettled,
      Events, ReportInv, LinkInv
<1>13. CASE ResumeResult
  BY <1>13, ResumeResultEffect, EventType
  DEF EvidenceInv, At, Rec, Writing, KeepsEvidence, Keeps, Late, Waiting,
      Early, Delivering, Outcomes, PersistsTo, SetsTo, Writes, Annotates,
      DeliveredNotes, LogSettled, Events, ReportInv, LinkInv
<1>14. CASE OfferNative
  BY <1>14, OfferNativeEffect, EventType
  DEF EvidenceInv, At, Rec, Writing, KeepsEvidence, Keeps, Late, Waiting,
      Early, Delivering, Outcomes, PersistsTo, SetsTo, Writes, Annotates,
      LogSettled, Events, ReportInv, LinkInv
<1>15. CASE BeginAttempt
  BY <1>15, BeginAttemptEffect, EventType
  DEF EvidenceInv, At, Rec, Writing, KeepsEvidence, Keeps, Late, Waiting,
      Early, Delivering, Outcomes, SetsTo, PersistsTo, Writes, Annotates,
      LogSettled, Events, ReportInv, LinkInv
<1>16. CASE SendWake
  BY <1>16, SendWakeEffect, EventType
  DEF EvidenceInv, At, Rec, Writing, KeepsEvidence, Keeps, Late, Waiting,
      Early, Delivering, Outcomes, PersistsTo, SetsTo, Writes, Annotates,
      LogSettled, Events, ReportInv, LinkInv
<1>17. CASE EndAttempt
  BY <1>17, EndAttemptEffect, EventType
  DEF EvidenceInv, At, Rec, Writing, KeepsEvidence, Keeps, Late, Waiting,
      Early, Delivering, Outcomes, PersistsTo, SetsTo, Writes, Annotates,
      AtLeastMaybe, LogSettled, Events, ReportInv, LinkInv
<1>18. CASE EndBackoff
  BY <1>18
  DEF EvidenceInv, At, Rec, Writing, KeepsEvidence, Keeps, Late, Waiting,
      Early, Delivering, Outcomes, EndBackoff, Goto, quiet, outside, files,
      mind, program
<1>19. CASE GiveUpDelivery
  BY <1>19, GiveUpDeliveryEffect
  DEF EvidenceInv, At, Rec, Writing, KeepsEvidence, Keeps, Late, Waiting,
      Early, Delivering, Outcomes, UpdatesTo, Writes, UndeliveredCode,
      ReportInv, LinkInv
<1>20. CASE CloseDelivery
  BY <1>20, CloseDeliveryEffect
  DEF EvidenceInv, At, Rec, Writing, KeepsEvidence, Keeps, Late, Waiting,
      Early, Delivering, Outcomes, UpdatesTo, Writes, ReportInv, LinkInv
<1>21. CASE EndAck
  BY <1>21, EndAckEffect, EventType
  DEF EvidenceInv, At, Rec, Writing, KeepsEvidence, Keeps, Late, Waiting,
      Early, Delivering, Outcomes, PersistsTo, SetsTo, Writes, Annotates,
      LogSettled, Events, ReportInv, LinkInv
<1>22. CASE WriteFinalLog
  BY <1>22, WriteFinalLogEffect, EventType
  DEF EvidenceInv, At, Rec, Writing, KeepsEvidence, Keeps, Late, Waiting,
      Early, Delivering, Outcomes, CountsFault, LogSettled, OutcomeInv,
      Unreplaced, Replaces, Events
<1>23. CASE RecordWatcherFailure
  BY <1>23, RecordWatcherFailureEffect
  DEF EvidenceInv, At, Rec, Writing, KeepsEvidence, Keeps, Late, Waiting,
      Early, Delivering, Outcomes, CountsFault, KeepsOutcome
<1>24. CASE ReleaseLock
  BY <1>24, ReleaseLockEffect
  DEF EvidenceInv, At, Rec, Writing, KeepsEvidence, Keeps, Late, Waiting,
      Early, Delivering, Outcomes, UpdatesTo, Writes
<1>25. CASE DecideEnd
  BY <1>25, DecideEndEffect
  DEF EvidenceInv, At, Rec, Writing, KeepsEvidence, Keeps, Late, Waiting,
      Early, Delivering, Outcomes, SetsTo, UpdatesTo, Writes, Annotates,
      AttemptOnRecord, ReportInv, Unreported
<1>26. CASE SettleFailedNotice
  BY <1>26, SettleFailedNoticeEffect, EventType
  DEF EvidenceInv, At, Rec, Writing, KeepsEvidence, Keeps, Late, Waiting,
      Early, Delivering, Outcomes, PersistsTo, SetsTo, Writes, Annotates,
      DeliveredNotes, LogSettled, Events, ReportInv, LinkInv
<1>27. CASE FinishWatch
  BY <1>27, FinishWatchEffect
  DEF EvidenceInv, At, Rec, Writing, KeepsEvidence, Keeps, Late, Waiting,
      Early, Delivering, Outcomes, Writes
<1>28. CASE WakeWithoutPersistence
  BY <1>28, WakeWithoutPersistenceEffect
  DEF EvidenceInv, At, Rec, Writing, KeepsEvidence, Keeps, Late, Waiting,
      Early, Delivering, Outcomes, Annotates, AtLeastMaybe
<1>29. CASE Submit
  BY <1>29, SubmitEffect
  DEF EvidenceInv, At, Rec, Writing, KeepsEvidence, Keeps, Late, Waiting,
      Early, Delivering, Outcomes, CountsFault, PhaseInv
<1>30. CASE Cancel
  BY <1>30, CancelEffect
  DEF EvidenceInv, At, Rec, Writing, KeepsEvidence, Keeps, Late, Waiting,
      Early, Delivering, Outcomes, CountsFault, Awaiting
<1>31. CASE SaveOther
  BY <1>31
  DEF EvidenceInv, At, Rec, Writing, KeepsEvidence, Keeps, Late, Waiting,
      Early, Delivering, Outcomes, SaveOther, Awaiting, mind, program, outside
<1>32. CASE OwnerActivates
  BY <1>32
  DEF EvidenceInv, At, Rec, Writing, KeepsEvidence, Keeps, Late, Waiting,
      Early, Delivering, Outcomes, OwnerActivates, files, mind, program
<1>33. CASE OwnerChanges
  BY <1>33
  DEF EvidenceInv, At, Rec, Writing, KeepsEvidence, Keeps, Late, Waiting,
      Early, Delivering, Outcomes, OwnerChanges, files, mind, program
<1>34. CASE OrphanExits
  BY <1>34
  DEF EvidenceInv, At, Rec, Writing, KeepsEvidence, Keeps, Late, Waiting,
      Early, Delivering, Outcomes, OrphanExits, quiet, outside, files, mind
<1>35. CASE Crash
  BY <1>35, CrashEffect
  DEF EvidenceInv, At, Rec, Writing, KeepsEvidence, Keeps, Late, Waiting,
      Early, Delivering, Outcomes, AtLeastMaybe, NoResult, Fresh
<1>36. CASE Shutdown
  BY <1>36, ShutdownEffect
  DEF EvidenceInv, At, Rec, Writing, KeepsEvidence, Keeps, Late, Waiting,
      Early, Delivering, Outcomes, AtLeastMaybe, Awaiting
<1>37. CASE SaveOnShutdown
  BY <1>37, SaveOnShutdownEffect
  DEF EvidenceInv, At, Rec, Writing, KeepsEvidence, Keeps, Late, Waiting,
      Early, Delivering, Outcomes, CountsFault, NoResult, Fresh
<1>38. CASE Restart
  BY <1>38
  DEF EvidenceInv, At, Rec, Writing, KeepsEvidence, Keeps, Late, Waiting,
      Early, Delivering, Outcomes, Restart, Goto, Restores, quiet, outside,
      files, program
<1>39. QED
  BY <1>0, <1>1, <1>2, <1>3, <1>4, <1>5, <1>6, <1>7, <1>8, <1>9, <1>10, <1>11,
      <1>12, <1>13, <1>14, <1>15, <1>16, <1>17, <1>18, <1>19, <1>20, <1>21,
      <1>22, <1>23, <1>24, <1>25, <1>26, <1>27, <1>28, <1>29, <1>30, <1>31,
      <1>32, <1>33, <1>34, <1>35, <1>36, <1>37, <1>38
  DEF Next, TaskStep, EnvironmentStep, ServiceStep

-----------------------------------------------------------------------------
(* The record of a watch.                                                  *)

\* Before it is submitted a watch has all of it.
LEMMA RecordInit == Init => RecordInv
<1> SUFFICES ASSUME Init PROVE RecordInv
  OBVIOUS
<1>1. /\ mem = disk /\ mem.state = "absent" /\ mem.phase \in Early
      /\ mem.result = NoResult /\ mem.code = "ok"
      /\ log = NoResult /\ res = NoResult /\ code = "ok" /\ pc = "idle"
      /\ ~lock /\ ~linked /\ ~failing /\ prog = "none" /\ runs = 0 /\ woken = "no"
      /\ faults.write = 0 /\ faults.read = 0 /\ faults.crash = 0
  BY DEF Init, Absent, FirstPhase, Early
<1>2. /\ NoResult.event = "none" /\ NoResult.note = "none" /\ NoResult.attempts = 0
      /\ ~NoResult.durable
  BY DEF NoResult, Fresh
<1>3. At = "idle" /\ Rec = mem /\ ~Writing
  BY <1>1 DEF At, Rec, Writing
<1> HIDE DEF NoResult
<1>4. RunOnceInv /\ AttemptInv
  BY <1>1, <1>3 DEF RunOnceInv, AttemptInv, AttemptIsDurableFirst, Writing
<1>5. LockInv /\ EndedInv /\ LinkInv
  BY <1>1, <1>3 DEF LockInv, EndedInv, LinkInv, Holding, Waiting, Delivering,
     Terminal
<1>6. TriedInv /\ ResultInv
  BY <1>1, <1>2, <1>3 DEF TriedInv, TriedRecord, Tried, ResultInv, Told, Early,
     Waiting
<1>7. PhaseInv /\ ReportInv
  BY <1>1, <1>2, <1>3
  DEF PhaseInv, ReportInv, Unreported, Early, Late, Waiting, Delivering
<1>8. DeliveredInv /\ WokenInv /\ CodexInv
  BY <1>1, <1>2, <1>3
  DEF DeliveredInv, Sound, Good, WokenInv, CodexInv, Early, Late, Delivering
<1>9. OutcomeInv /\ EvidenceInv
  BY <1>1, <1>2, <1>3 DEF OutcomeInv, EvidenceInv, Outcomes
<1>10. QED
  BY <1>4, <1>5, <1>6, <1>7, <1>8, <1>9 DEF RecordInv

\* Every step keeps it.
LEMMA RecordStep == TypeOK /\ RecordInv /\ [Next]_vars => RecordInv'
<1> SUFFICES ASSUME TypeOK, RecordInv, [Next]_vars PROVE RecordInv'
  OBVIOUS
<1> USE DEF RecordInv
<1>1. RunOnceInv' /\ AttemptInv'
  BY RunOnceStep, AttemptStep
<1>2. LockInv' /\ EndedInv' /\ LinkInv' /\ TriedInv' /\ ResultInv'
  BY LockStep, EndedStep, LinkStep, TriedStep, ResultStep
<1>3. PhaseInv' /\ ReportInv'
  BY PhaseStep, ReportStep
<1>4. DeliveredInv' /\ WokenInv' /\ CodexInv'
  BY DeliveredStep, WokenStep, CodexStep
<1>5. OutcomeInv' /\ EvidenceInv'
  BY OutcomeStep, EvidenceStep
<1>6. QED
  BY <1>1, <1>2, <1>3, <1>4, <1>5

\* Through all failures, restarts and requests the record of a watch can be
\* relied on.
THEOREM RecordCorrect == Spec => []RecordInv
BY RecordInit, RecordStep, TypeCorrect, PTL DEF Spec

\* _watch supervises a program only under the lock, _run_watch ends without
\* either, and a program is abandoned only after a failed write or a crash.
THEOREM LockCorrect == Spec => []ProgramUnderLock
<1>1. RecordInv => ProgramUnderLock
  BY DEF RecordInv, LockInv, ProgramUnderLock, At, Writing, Holding, Waiting
<1>2. QED
  BY <1>1, RecordCorrect, PTL

\* _run_watch's "completed" means an exit of the program and, where a wake was
\* asked for, a confirmed wake or an event on offer.
THEOREM CompletedCorrect == Spec => []CompletedMeansDelivered
<1>1. RecordInv => CompletedMeansDelivered
  BY DEF RecordInv, ResultInv, Told, DeliveredInv, Sound, Good, DeliveredNotes,
    CompletedMeansDelivered
<1>2. QED
  BY <1>1, RecordCorrect, PTL

\* No step starts a wake that was, or for Codex may have been, accepted.
LEMMA RepeatStep ==
  ASSUME TypeOK, DeliveredInv, WokenInv, CodexInv, [Next]_vars
  PROVE  (\/ woken = "yes" /\ faults.write = 0
          \/ args.client = "codex" /\ woken # "no" /\ faults.crash = 0 /\ faults.read = 0)
         => ~StartsWake
<1>0. CASE UNCHANGED vars
  BY <1>0 DEF StartsWake, vars
<1>1. CASE WriteLog
  BY <1>1, WriteLogEffect
  DEF StartsWake, FailsAt, CountsFault, DeliveredInv, WokenInv, CodexInv, At,
      Writing
<1>2. CASE SaveRecord
  <2>1. CASE disk' = io.rec /\ pc' = io.then /\ UNCHANGED <<lock, prog, faults>>
    BY <1>2, <2>1, SaveRecordEffect DEF StartsWake, Continuations
  <2>2. CASE disk' \in {disk, io.rec} /\ FailsAt(io.then)
    BY <1>2, <2>2, SaveRecordEffect
    DEF StartsWake, FailsAt, DeliveredInv, WokenInv, CodexInv, At, Writing
  <2>3. QED
    BY <1>2, <2>1, <2>2, SaveRecordEffect
<1>3. CASE AcquireLock
  BY <1>3, AcquireLockEffect
  DEF StartsWake, SetsTo, UpdatesTo, Writes, CountsFault
<1>4. CASE RecoverPhase
  BY <1>4, RecoverPhaseEffect
  DEF StartsWake, SetsTo, CountsFault, Started, Late
<1>5. CASE PollActivation
  BY <1>5, PollActivationEffect
  DEF StartsWake, PersistsTo, SetsTo, Writes, UpdatesTo
<1>6. CASE StartRunning
  BY <1>6, StartRunningEffect
  DEF StartsWake, UpdatesTo, Writes
<1>7. CASE ExecuteProgram
  BY <1>7, ExecuteProgramEffect
  DEF StartsWake, SetsTo
<1>8. CASE SpawnProgram
  BY <1>8, SpawnProgramEffect
  DEF StartsWake, SetsTo, UpdatesTo, Writes
<1>9. CASE FinishProgram
  BY <1>9, FinishProgramEffect
  DEF StartsWake, SetsTo
<1>10. CASE StopProgram
  BY <1>10, StopProgramEffect
  DEF StartsWake, SetsTo
<1>11. CASE CollectStartError
  BY <1>11
  DEF StartsWake, CollectStartError, Goto, quiet, outside, files, mind,
      program
<1>12. CASE EvaluateResult
  BY <1>12, EvaluateResultEffect
  DEF StartsWake, PersistsTo, SetsTo, Writes
<1>13. CASE ResumeResult
  BY <1>13, ResumeResultEffect
  DEF StartsWake, PersistsTo, SetsTo, Writes, Annotates, DeliveredNotes
<1>14. CASE OfferNative
  BY <1>14, OfferNativeEffect
  DEF StartsWake, PersistsTo, SetsTo, Writes, Annotates
<1>15. CASE BeginAttempt
  BY <1>15, BeginAttemptEffect
  DEF StartsWake, SetsTo, PersistsTo, Writes, Annotates
<1>16. CASE SendWake
  BY <1>16, SendWakeEffect
  DEF StartsWake, PersistsTo, SetsTo, Writes, Annotates, WokenInv, CodexInv,
      At, Writing
<1>17. CASE EndAttempt
  BY <1>17, EndAttemptEffect
  DEF StartsWake, PersistsTo, SetsTo, Writes, Annotates, AtLeastMaybe
<1>18. CASE EndBackoff
  BY <1>18
  DEF StartsWake, EndBackoff, Goto, quiet, outside, files, mind, program
<1>19. CASE GiveUpDelivery
  BY <1>19, GiveUpDeliveryEffect
  DEF StartsWake, UpdatesTo, Writes, UndeliveredCode
<1>20. CASE CloseDelivery
  BY <1>20, CloseDeliveryEffect
  DEF StartsWake, UpdatesTo, Writes
<1>21. CASE EndAck
  BY <1>21, EndAckEffect
  DEF StartsWake, PersistsTo, SetsTo, Writes, Annotates
<1>22. CASE WriteFinalLog
  BY <1>22, WriteFinalLogEffect
  DEF StartsWake, CountsFault
<1>23. CASE RecordWatcherFailure
  BY <1>23, RecordWatcherFailureEffect
  DEF StartsWake, CountsFault, KeepsOutcome
<1>24. CASE ReleaseLock
  BY <1>24, ReleaseLockEffect
  DEF StartsWake, UpdatesTo, Writes
<1>25. CASE DecideEnd
  BY <1>25, DecideEndEffect
  DEF StartsWake, SetsTo, UpdatesTo, Writes, Annotates, AttemptOnRecord
<1>26. CASE SettleFailedNotice
  BY <1>26, SettleFailedNoticeEffect
  DEF StartsWake, PersistsTo, SetsTo, Writes, Annotates, DeliveredNotes
<1>27. CASE FinishWatch
  BY <1>27, FinishWatchEffect
  DEF StartsWake, Writes
<1>28. CASE WakeWithoutPersistence
  BY <1>28, WakeWithoutPersistenceEffect
  DEF StartsWake, Annotates, AtLeastMaybe
<1>29. CASE Submit
  BY <1>29, SubmitEffect
  DEF StartsWake, CountsFault
<1>30. CASE Cancel
  BY <1>30, CancelEffect
  DEF StartsWake, CountsFault, Awaiting
<1>31. CASE SaveOther
  BY <1>31
  DEF StartsWake, SaveOther, Awaiting, mind, program, outside
<1>32. CASE OwnerActivates
  BY <1>32
  DEF StartsWake, OwnerActivates, files, mind, program
<1>33. CASE OwnerChanges
  BY <1>33
  DEF StartsWake, OwnerChanges, files, mind, program
<1>34. CASE OrphanExits
  BY <1>34
  DEF StartsWake, OrphanExits, quiet, outside, files, mind
<1>35. CASE Crash
  BY <1>35, CrashEffect
  DEF StartsWake, AtLeastMaybe, Early
<1>36. CASE Shutdown
  BY <1>36, ShutdownEffect
  DEF StartsWake, AtLeastMaybe, Awaiting
<1>37. CASE SaveOnShutdown
  BY <1>37, SaveOnShutdownEffect
  DEF StartsWake, CountsFault, Early
<1>38. CASE Restart
  BY <1>38
  DEF StartsWake, Restart, Goto, Restores, quiet, outside, files, program
<1>39. QED
  BY <1>0, <1>1, <1>2, <1>3, <1>4, <1>5, <1>6, <1>7, <1>8, <1>9, <1>10, <1>11,
      <1>12, <1>13, <1>14, <1>15, <1>16, <1>17, <1>18, <1>19, <1>20, <1>21,
      <1>22, <1>23, <1>24, <1>25, <1>26, <1>27, <1>28, <1>29, <1>30, <1>31,
      <1>32, <1>33, <1>34, <1>35, <1>36, <1>37, <1>38
  DEF Next, TaskStep, EnvironmentStep, ServiceStep

\* _deliver, its resumption after a restart and _notify_watcher_failure
\* together never send a confirmed wake again while no write fails, and no
\* Codex wake in doubt within one life of the daemon.
THEOREM WakeCorrect == Spec => WakeIsNotRepeated
<1>1. TypeOK /\ RecordInv /\ [Next]_vars =>
        ((\/ woken = "yes" /\ faults.write = 0
          \/ args.client = "codex" /\ woken # "no" /\ faults.crash = 0 /\ faults.read = 0)
         => ~StartsWake)
  BY RepeatStep DEF RecordInv
<1>2. QED
  BY <1>1, TypeCorrect, RecordCorrect, PTL DEF Spec, WakeIsNotRepeated

\* No step replaces a program's outcome in the log, or revives an ended watch.
LEMMA StandStep ==
  ASSUME TypeOK, LinkInv, EndedInv, EvidenceInv, [Next]_vars
  PROVE  /\ log.event \in Outcomes /\ faults'.read = 0 => log'.event \in Outcomes
         /\ disk.state \in Terminal => disk'.state \in Terminal
<1>0. CASE UNCHANGED vars
  BY <1>0 DEF Outcomes, Terminal, vars
<1>1. CASE WriteLog
  BY <1>1, WriteLogEffect
  DEF Outcomes, Terminal, FailsAt, CountsFault, EvidenceInv
<1>2. CASE SaveRecord
  BY <1>2, SaveRecordEffect
  DEF Outcomes, Terminal, FailsAt, CountsFault, EndedInv, Writing
<1>3. CASE AcquireLock
  BY <1>3, AcquireLockEffect
  DEF Outcomes, Terminal, SetsTo, UpdatesTo, Writes, CountsFault
<1>4. CASE RecoverPhase
  BY <1>4, RecoverPhaseEffect
  DEF Outcomes, Terminal, SetsTo, CountsFault, Started, Late
<1>5. CASE PollActivation
  BY <1>5, PollActivationEffect
  DEF Outcomes, Terminal, PersistsTo, SetsTo, Writes, UpdatesTo
<1>6. CASE StartRunning
  BY <1>6, StartRunningEffect
  DEF Outcomes, Terminal, UpdatesTo, Writes
<1>7. CASE ExecuteProgram
  BY <1>7, ExecuteProgramEffect
  DEF Outcomes, Terminal, SetsTo
<1>8. CASE SpawnProgram
  BY <1>8, SpawnProgramEffect
  DEF Outcomes, Terminal, SetsTo, UpdatesTo, Writes
<1>9. CASE FinishProgram
  BY <1>9, FinishProgramEffect
  DEF Outcomes, Terminal, SetsTo
<1>10. CASE StopProgram
  BY <1>10, StopProgramEffect
  DEF Outcomes, Terminal, SetsTo
<1>11. CASE CollectStartError
  BY <1>11
  DEF Outcomes, Terminal, CollectStartError, Goto, quiet, outside, files,
      mind, program
<1>12. CASE EvaluateResult
  BY <1>12, EvaluateResultEffect
  DEF Outcomes, Terminal, PersistsTo, SetsTo, Writes
<1>13. CASE ResumeResult
  BY <1>13, ResumeResultEffect
  DEF Outcomes, Terminal, PersistsTo, SetsTo, Writes, Annotates,
      DeliveredNotes
<1>14. CASE OfferNative
  BY <1>14, OfferNativeEffect
  DEF Outcomes, Terminal, PersistsTo, SetsTo, Writes, Annotates
<1>15. CASE BeginAttempt
  BY <1>15, BeginAttemptEffect
  DEF Outcomes, Terminal, SetsTo, PersistsTo, Writes, Annotates
<1>16. CASE SendWake
  BY <1>16, SendWakeEffect
  DEF Outcomes, Terminal, PersistsTo, SetsTo, Writes, Annotates
<1>17. CASE EndAttempt
  BY <1>17, EndAttemptEffect
  DEF Outcomes, Terminal, PersistsTo, SetsTo, Writes, Annotates, AtLeastMaybe
<1>18. CASE EndBackoff
  BY <1>18
  DEF Outcomes, Terminal, EndBackoff, Goto, quiet, outside, files, mind,
      program
<1>19. CASE GiveUpDelivery
  BY <1>19, GiveUpDeliveryEffect
  DEF Outcomes, Terminal, UpdatesTo, Writes, UndeliveredCode
<1>20. CASE CloseDelivery
  BY <1>20, CloseDeliveryEffect
  DEF Outcomes, Terminal, UpdatesTo, Writes
<1>21. CASE EndAck
  BY <1>21, EndAckEffect
  DEF Outcomes, Terminal, PersistsTo, SetsTo, Writes, Annotates
<1>22. CASE WriteFinalLog
  BY <1>22, WriteFinalLogEffect, EventType
  DEF Outcomes, Terminal, CountsFault, EvidenceInv, At, Writing, Delivering,
      Keeps, LogSettled, Events
<1>23. CASE RecordWatcherFailure
  BY <1>23, RecordWatcherFailureEffect
  DEF Outcomes, Terminal, CountsFault, KeepsOutcome
<1>24. CASE ReleaseLock
  BY <1>24, ReleaseLockEffect
  DEF Outcomes, Terminal, UpdatesTo, Writes
<1>25. CASE DecideEnd
  BY <1>25, DecideEndEffect
  DEF Outcomes, Terminal, SetsTo, UpdatesTo, Writes, Annotates,
      AttemptOnRecord
<1>26. CASE SettleFailedNotice
  BY <1>26, SettleFailedNoticeEffect
  DEF Outcomes, Terminal, PersistsTo, SetsTo, Writes, Annotates,
      DeliveredNotes
<1>27. CASE FinishWatch
  BY <1>27, FinishWatchEffect
  DEF Outcomes, Terminal, Writes
<1>28. CASE WakeWithoutPersistence
  BY <1>28, WakeWithoutPersistenceEffect
  DEF Outcomes, Terminal, Annotates, AtLeastMaybe
<1>29. CASE Submit
  BY <1>29, SubmitEffect
  DEF Outcomes, Terminal, CountsFault, EndedInv, LinkInv
<1>30. CASE Cancel
  BY <1>30, CancelEffect
  DEF Outcomes, Terminal, CountsFault, Awaiting, EndedInv, LinkInv
<1>31. CASE SaveOther
  BY <1>31
  DEF Outcomes, Terminal, SaveOther, Awaiting, mind, program, outside,
      EndedInv, LinkInv
<1>32. CASE OwnerActivates
  BY <1>32
  DEF Outcomes, Terminal, OwnerActivates, files, mind, program
<1>33. CASE OwnerChanges
  BY <1>33
  DEF Outcomes, Terminal, OwnerChanges, files, mind, program
<1>34. CASE OrphanExits
  BY <1>34
  DEF Outcomes, Terminal, OrphanExits, quiet, outside, files, mind
<1>35. CASE Crash
  BY <1>35, CrashEffect
  DEF Outcomes, Terminal, AtLeastMaybe, Early
<1>36. CASE Shutdown
  BY <1>36, ShutdownEffect
  DEF Outcomes, Terminal, AtLeastMaybe, Awaiting
<1>37. CASE SaveOnShutdown
  BY <1>37, SaveOnShutdownEffect
  DEF Outcomes, Terminal, CountsFault, Early, EndedInv, LinkInv
<1>38. CASE Restart
  BY <1>38
  DEF Outcomes, Terminal, Restart, Goto, Restores, quiet, outside, files,
      program
<1>39. QED
  BY <1>0, <1>1, <1>2, <1>3, <1>4, <1>5, <1>6, <1>7, <1>8, <1>9, <1>10, <1>11,
      <1>12, <1>13, <1>14, <1>15, <1>16, <1>17, <1>18, <1>19, <1>20, <1>21,
      <1>22, <1>23, <1>24, <1>25, <1>26, <1>27, <1>28, <1>29, <1>30, <1>31,
      <1>32, <1>33, <1>34, <1>35, <1>36, <1>37, <1>38
  DEF Next, TaskStep, EnvironmentStep, ServiceStep

\* _write_result_log and _record_watcher_failure keep the log of a program's
\* outcome; submit, cancel, restore and the saves of other watches keep what
\* the registry shows as ended.
THEOREM StandCorrect == Spec => RecordStands
<1>1. TypeOK /\ RecordInv /\ [Next]_vars =>
        /\ log.event \in Outcomes /\ faults'.read = 0 => log'.event \in Outcomes
        /\ disk.state \in Terminal => disk'.state \in Terminal
  BY StandStep DEF RecordInv
<1>2. QED
  BY <1>1, TypeCorrect, RecordCorrect, PTL DEF Spec, RecordStands
=============================================================================
