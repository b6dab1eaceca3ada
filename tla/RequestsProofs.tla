--------------------------- MODULE RequestsProofs ---------------------------
(***************************************************************************)
(* What the clients of a watch can rely on, for every number of requests   *)
(* and every bound on attempts, failures and crashes.  Requests leave the  *)
(* watch one of module Watch, so what WatchProofs proves of it is used     *)
(* here; the invariants of RequestsProperties follow, one case per action. *)
(***************************************************************************)
EXTENDS RequestsProperties, WatchProofs

-----------------------------------------------------------------------------
(* The clients only look: the watch they share is the one of module Watch. *)

\* Every step is one of the watch, or leaves the watch alone.
LEMMA WatchSteps == [RNext]_allVars => [Next]_vars
<1> SUFFICES ASSUME [RNext]_allVars PROVE [Next]_vars
  OBVIOUS
<1>1. CASE UNCHANGED allVars
  BY <1>1 DEF allVars
<1>2. CASE TaskMoves
  BY <1>2 DEF TaskMoves, Next, TaskStep
<1>3. CASE OthersMove
  BY <1>3 DEF OthersMove, Next, EnvironmentStep
<1>4. CASE ServiceStops \/ ServiceReturns
  BY <1>4 DEF ServiceStops, ServiceReturns, Next, EnvironmentStep, ServiceStep
<1>5. CASE ClientStep
  BY <1>5
  DEF ClientStep, Follow, Look, LookInVain, Leave, SubmitAnswered, ShowAnswered,
      CancelAnswered, RequestFails, Next, EnvironmentStep
<1>6. QED
  BY <1>1, <1>2, <1>3, <1>4, <1>5 DEF RNext

\* Beside requests of any number of clients a watch behaves as without them
\* (the handlers of follow, show and cancel in handle_client): everything
\* proved of module Watch holds here.
THEOREM RequestsImplementWatch == RSpec => Spec
<1>1. RInit => Init
  BY DEF RInit
<1>2. QED
  BY <1>1, WatchSteps, PTL DEF RSpec, Spec

-----------------------------------------------------------------------------
(* What the watch guarantees its clients.                                  *)

\* Every step keeps a linked result a result.
LEMMA LinkedStep ==
  ASSUME TypeOK, AttemptInv, LinkInv, LockInv, ResultInv, ReportInv,
         LinkedInv, [Next]_vars
  PROVE  LinkedInv'
<1>0. CASE UNCHANGED vars
  BY <1>0 DEF LinkedInv, At, Writing, vars
<1>1. CASE WriteLog
  BY <1>1, WriteLogEffect
  DEF LinkedInv, At, Writing, FailsAt, CountsFault
<1>2. CASE SaveRecord
  <2>1. CASE disk' = io.rec /\ pc' = io.then /\ UNCHANGED <<lock, prog, faults>>
    BY <1>2, <2>1, SaveRecordEffect
    DEF LinkedInv, At, Writing, Continuations
  <2>2. CASE disk' \in {disk, io.rec} /\ FailsAt(io.then)
    BY <1>2, <2>2, SaveRecordEffect
    DEF LinkedInv, At, Writing, Continuations, FailsAt, CountsFault
  <2>3. QED
    BY <1>2, <2>1, <2>2, SaveRecordEffect
<1>3. CASE AcquireLock
  BY <1>3, AcquireLockEffect
  DEF LinkedInv, At, Writing, SetsTo, UpdatesTo, Writes, CountsFault, Fresh,
      LockInv, Delivering, LinkInv
<1>4. CASE RecoverPhase
  BY <1>4, RecoverPhaseEffect
  DEF LinkedInv, At, Writing, SetsTo, CountsFault, Started, Late, Fresh,
      NoResult, ResultInv, Told, ReportInv, LockInv, Delivering
<1>5. CASE PollActivation
  BY <1>5, PollActivationEffect
  DEF LinkedInv, At, Writing, PersistsTo, SetsTo, Writes, UpdatesTo, Fresh,
      LockInv, Delivering
<1>6. CASE StartRunning
  BY <1>6, StartRunningEffect
  DEF LinkedInv, At, Writing, UpdatesTo, Writes
<1>7. CASE ExecuteProgram
  BY <1>7, ExecuteProgramEffect
  DEF LinkedInv, At, Writing, SetsTo, Fresh, LockInv, Delivering
<1>8. CASE SpawnProgram
  BY <1>8, SpawnProgramEffect
  DEF LinkedInv, At, Writing, SetsTo, UpdatesTo, Writes, Fresh, LockInv,
      Delivering
<1>9. CASE FinishProgram
  BY <1>9, FinishProgramEffect
  DEF LinkedInv, At, Writing, SetsTo, Fresh, LockInv, Delivering
<1>10. CASE StopProgram
  BY <1>10, StopProgramEffect
  DEF LinkedInv, At, Writing, SetsTo, Fresh, LockInv, Delivering
<1>11. CASE CollectStartError
  BY <1>11
  DEF LinkedInv, At, Writing, CollectStartError, Goto, quiet, outside, files,
      mind, program
<1>12. CASE EvaluateResult
  BY <1>12, EvaluateResultEffect
  DEF LinkedInv, At, Writing, PersistsTo, SetsTo, Writes, LinkInv, LockInv,
      ResultInv, Delivering, Waiting
<1>13. CASE ResumeResult
  BY <1>13, ResumeResultEffect
  DEF LinkedInv, At, Writing, PersistsTo, SetsTo, Writes, Annotates,
      DeliveredNotes, LinkInv, LockInv, ResultInv, Delivering, Waiting
<1>14. CASE OfferNative
  BY <1>14, OfferNativeEffect
  DEF LinkedInv, At, Writing, PersistsTo, SetsTo, Writes, Annotates, LinkInv,
      LockInv, ResultInv, Delivering, Waiting
<1>15. CASE BeginAttempt
  BY <1>15, BeginAttemptEffect
  DEF LinkedInv, At, Writing, SetsTo, PersistsTo, Writes, Annotates, LinkInv,
      LockInv, ResultInv, Delivering, Waiting
<1>16. CASE SendWake
  BY <1>16, SendWakeEffect
  DEF LinkedInv, At, Writing, PersistsTo, SetsTo, Writes, Annotates, LinkInv,
      LockInv, ResultInv, Delivering, Waiting
<1>17. CASE EndAttempt
  BY <1>17, EndAttemptEffect
  DEF LinkedInv, At, Writing, PersistsTo, SetsTo, Writes, Annotates,
      AtLeastMaybe, LinkInv, LockInv, ResultInv, Delivering, Waiting
<1>18. CASE EndBackoff
  BY <1>18
  DEF LinkedInv, At, Writing, EndBackoff, Goto, quiet, outside, files, mind,
      program
<1>19. CASE GiveUpDelivery
  BY <1>19, GiveUpDeliveryEffect
  DEF LinkedInv, At, Writing, UpdatesTo, Writes, UndeliveredCode, LinkInv,
      LockInv, ResultInv, Delivering, Waiting
<1>20. CASE CloseDelivery
  BY <1>20, CloseDeliveryEffect
  DEF LinkedInv, At, Writing, UpdatesTo, Writes, LinkInv, LockInv, ResultInv,
      Delivering, Waiting
<1>21. CASE EndAck
  BY <1>21, EndAckEffect
  DEF LinkedInv, At, Writing, PersistsTo, SetsTo, Writes, Annotates, LinkInv,
      LockInv, ResultInv, Delivering, Waiting
<1>22. CASE WriteFinalLog
  BY <1>22, WriteFinalLogEffect
  DEF LinkedInv, At, Writing, CountsFault
<1>23. CASE RecordWatcherFailure
  BY <1>23, RecordWatcherFailureEffect
  DEF LinkedInv, At, Writing, CountsFault, KeepsOutcome, LinkInv, LockInv,
      ResultInv, Delivering, Waiting
<1>24. CASE ReleaseLock
  BY <1>24, ReleaseLockEffect
  DEF LinkedInv, At, Writing, UpdatesTo, Writes
<1>25. CASE DecideEnd
  BY <1>25, DecideEndEffect
  DEF LinkedInv, At, Writing, SetsTo, UpdatesTo, Writes, Annotates,
      AttemptOnRecord, LinkInv, LockInv, ResultInv, Delivering, Waiting
<1>26. CASE SettleFailedNotice
  BY <1>26, SettleFailedNoticeEffect
  DEF LinkedInv, At, Writing, PersistsTo, SetsTo, Writes, Annotates,
      DeliveredNotes, LinkInv, LockInv, ResultInv, Delivering, Waiting
<1>27. CASE FinishWatch
  BY <1>27, FinishWatchEffect
  DEF LinkedInv, At, Writing, Writes, LinkInv, LockInv, ResultInv, Delivering,
      Waiting
<1>28. CASE WakeWithoutPersistence
  BY <1>28, WakeWithoutPersistenceEffect
  DEF LinkedInv, At, Writing, Annotates, AtLeastMaybe, LinkInv, LockInv,
      ResultInv, Delivering, Waiting
<1>29. CASE Submit
  BY <1>29, SubmitEffect
  DEF LinkedInv, At, Writing, CountsFault, LinkInv
<1>30. CASE Cancel
  BY <1>30, CancelEffect
  DEF LinkedInv, At, Writing, CountsFault, Awaiting, LinkInv
<1>31. CASE SaveOther
  BY <1>31
  DEF LinkedInv, At, Writing, SaveOther, Awaiting, mind, program, outside
<1>32. CASE OwnerActivates
  BY <1>32
  DEF LinkedInv, At, Writing, OwnerActivates, files, mind, program
<1>33. CASE OwnerChanges
  BY <1>33
  DEF LinkedInv, At, Writing, OwnerChanges, files, mind, program
<1>34. CASE OrphanExits
  BY <1>34
  DEF LinkedInv, At, Writing, OrphanExits, quiet, outside, files, mind
<1>35. CASE Crash
  BY <1>35, CrashEffect
  DEF LinkedInv, At, Writing, AtLeastMaybe, Early, LinkInv
<1>36. CASE Shutdown
  BY <1>36, ShutdownEffect
  DEF LinkedInv, At, Writing, AtLeastMaybe, Awaiting, LinkInv
<1>37. CASE SaveOnShutdown
  BY <1>37, SaveOnShutdownEffect
  DEF LinkedInv, At, Writing, CountsFault, Early, LinkInv
<1>38. CASE Restart
  BY <1>38
  DEF LinkedInv, At, Writing, Restart, Goto, Restores, quiet, outside, files,
      program, LinkInv
<1>39. QED
  BY <1>0, <1>1, <1>2, <1>3, <1>4, <1>5, <1>6, <1>7, <1>8, <1>9, <1>10, <1>11,
      <1>12, <1>13, <1>14, <1>15, <1>16, <1>17, <1>18, <1>19, <1>20, <1>21,
      <1>22, <1>23, <1>24, <1>25, <1>26, <1>27, <1>28, <1>29, <1>30, <1>31,
      <1>32, <1>33, <1>34, <1>35, <1>36, <1>37, <1>38
  DEF Next, TaskStep, EnvironmentStep, ServiceStep

\* Every step keeps Claude without counted attempts.
LEMMA ClaudeStep ==
  ASSUME TypeOK, AttemptInv, LinkInv, LockInv, LinkedInv, ClaudeInv,
         [Next]_vars
  PROVE  ClaudeInv'
<1>0. CASE UNCHANGED vars
  BY <1>0 DEF ClaudeInv, At, Writing, vars
<1>1. CASE WriteLog
  BY <1>1, WriteLogEffect
  DEF ClaudeInv, At, Writing, FailsAt, CountsFault, LinkInv, LockInv,
      BeforeDelivery, Delivering, Continuations
<1>2. CASE SaveRecord
  <2>1. CASE disk' = io.rec /\ pc' = io.then /\ UNCHANGED <<lock, prog, faults>>
    BY <1>2, <2>1, SaveRecordEffect
    DEF ClaudeInv, At, Writing, LinkInv, LockInv, BeforeDelivery, Delivering,
        Continuations
  <2>2. CASE disk' \in {disk, io.rec} /\ FailsAt(io.then)
    BY <1>2, <2>2, SaveRecordEffect
    DEF ClaudeInv, At, Writing, LinkInv, LockInv, BeforeDelivery, Delivering,
        Continuations, FailsAt, CountsFault
  <2>3. QED
    BY <1>2, <2>1, <2>2, SaveRecordEffect
<1>3. CASE AcquireLock
  BY <1>3, AcquireLockEffect
  DEF ClaudeInv, At, Writing, SetsTo, UpdatesTo, Writes, CountsFault, Fresh,
      LinkInv
<1>4. CASE RecoverPhase
  BY <1>4, RecoverPhaseEffect
  DEF ClaudeInv, At, Writing, SetsTo, CountsFault, Started, Late, Fresh,
      NoResult
<1>5. CASE PollActivation
  BY <1>5, PollActivationEffect
  DEF ClaudeInv, At, Writing, PersistsTo, SetsTo, Writes, UpdatesTo, Fresh
<1>6. CASE StartRunning
  BY <1>6, StartRunningEffect
  DEF ClaudeInv, At, Writing, UpdatesTo, Writes
<1>7. CASE ExecuteProgram
  BY <1>7, ExecuteProgramEffect
  DEF ClaudeInv, At, Writing, SetsTo, Fresh
<1>8. CASE SpawnProgram
  BY <1>8, SpawnProgramEffect
  DEF ClaudeInv, At, Writing, SetsTo, UpdatesTo, Writes, Fresh
<1>9. CASE FinishProgram
  BY <1>9, FinishProgramEffect
  DEF ClaudeInv, At, Writing, SetsTo, Fresh
<1>10. CASE StopProgram
  BY <1>10, StopProgramEffect
  DEF ClaudeInv, At, Writing, SetsTo, Fresh
<1>11. CASE CollectStartError
  BY <1>11
  DEF ClaudeInv, At, Writing, CollectStartError, Goto, quiet, outside, files,
      mind, program
<1>12. CASE EvaluateResult
  BY <1>12, EvaluateResultEffect
  DEF ClaudeInv, At, Writing, PersistsTo, SetsTo, Writes
<1>13. CASE ResumeResult
  BY <1>13, ResumeResultEffect
  DEF ClaudeInv, At, Writing, PersistsTo, SetsTo, Writes, Annotates,
      DeliveredNotes
<1>14. CASE OfferNative
  BY <1>14, OfferNativeEffect
  DEF ClaudeInv, At, Writing, PersistsTo, SetsTo, Writes, Annotates
<1>15. CASE BeginAttempt
  BY <1>15, BeginAttemptEffect
  DEF ClaudeInv, At, Writing, SetsTo, PersistsTo, Writes, Annotates
<1>16. CASE SendWake
  BY <1>16, SendWakeEffect
  DEF ClaudeInv, At, Writing, PersistsTo, SetsTo, Writes, Annotates
<1>17. CASE EndAttempt
  BY <1>17, EndAttemptEffect
  DEF ClaudeInv, At, Writing, PersistsTo, SetsTo, Writes, Annotates,
      AtLeastMaybe
<1>18. CASE EndBackoff
  BY <1>18
  DEF ClaudeInv, At, Writing, EndBackoff, Goto, quiet, outside, files, mind,
      program
<1>19. CASE GiveUpDelivery
  BY <1>19, GiveUpDeliveryEffect
  DEF ClaudeInv, At, Writing, UpdatesTo, Writes, UndeliveredCode, LockInv
<1>20. CASE CloseDelivery
  BY <1>20, CloseDeliveryEffect
  DEF ClaudeInv, At, Writing, UpdatesTo, Writes, LinkInv, LockInv, Delivering
<1>21. CASE EndAck
  BY <1>21, EndAckEffect
  DEF ClaudeInv, At, Writing, PersistsTo, SetsTo, Writes, Annotates
<1>22. CASE WriteFinalLog
  BY <1>22, WriteFinalLogEffect
  DEF ClaudeInv, At, Writing, CountsFault, LinkedInv, LinkInv
<1>23. CASE RecordWatcherFailure
  BY <1>23, RecordWatcherFailureEffect
  DEF ClaudeInv, At, Writing, CountsFault, KeepsOutcome, LockInv, Delivering
<1>24. CASE ReleaseLock
  BY <1>24, ReleaseLockEffect
  DEF ClaudeInv, At, Writing, UpdatesTo, Writes, LinkInv
<1>25. CASE DecideEnd
  BY <1>25, DecideEndEffect
  DEF ClaudeInv, At, Writing, SetsTo, UpdatesTo, Writes, Annotates,
      AttemptOnRecord
<1>26. CASE SettleFailedNotice
  BY <1>26, SettleFailedNoticeEffect
  DEF ClaudeInv, At, Writing, PersistsTo, SetsTo, Writes, Annotates,
      DeliveredNotes
<1>27. CASE FinishWatch
  BY <1>27, FinishWatchEffect
  DEF ClaudeInv, At, Writing, Writes
<1>28. CASE WakeWithoutPersistence
  BY <1>28, WakeWithoutPersistenceEffect
  DEF ClaudeInv, At, Writing, Annotates, AtLeastMaybe
<1>29. CASE Submit
  BY <1>29, SubmitEffect
  DEF ClaudeInv, At, Writing, CountsFault
<1>30. CASE Cancel
  BY <1>30, CancelEffect
  DEF ClaudeInv, At, Writing, CountsFault, Awaiting
<1>31. CASE SaveOther
  BY <1>31
  DEF ClaudeInv, At, Writing, SaveOther, Awaiting, mind, program, outside
<1>32. CASE OwnerActivates
  BY <1>32
  DEF ClaudeInv, At, Writing, OwnerActivates, files, mind, program
<1>33. CASE OwnerChanges
  BY <1>33
  DEF ClaudeInv, At, Writing, OwnerChanges, files, mind, program
<1>34. CASE OrphanExits
  BY <1>34
  DEF ClaudeInv, At, Writing, OrphanExits, quiet, outside, files, mind
<1>35. CASE Crash
  BY <1>35, CrashEffect
  DEF ClaudeInv, At, Writing, AtLeastMaybe, Early, Fresh, NoResult
<1>36. CASE Shutdown
  BY <1>36, ShutdownEffect
  DEF ClaudeInv, At, Writing, AtLeastMaybe, Awaiting
<1>37. CASE SaveOnShutdown
  BY <1>37, SaveOnShutdownEffect
  DEF ClaudeInv, At, Writing, CountsFault, Early, Fresh, NoResult
<1>38. CASE Restart
  BY <1>38
  DEF ClaudeInv, At, Writing, Restart, Goto, Restores, quiet, outside, files,
      program, Fresh, NoResult
<1>39. QED
  BY <1>0, <1>1, <1>2, <1>3, <1>4, <1>5, <1>6, <1>7, <1>8, <1>9, <1>10, <1>11,
      <1>12, <1>13, <1>14, <1>15, <1>16, <1>17, <1>18, <1>19, <1>20, <1>21,
      <1>22, <1>23, <1>24, <1>25, <1>26, <1>27, <1>28, <1>29, <1>30, <1>31,
      <1>32, <1>33, <1>34, <1>35, <1>36, <1>37, <1>38
  DEF Next, TaskStep, EnvironmentStep, ServiceStep

\* Every step keeps a first life from recovering a started program.
LEMMA FirstLifeStep ==
  ASSUME TypeOK, AttemptInv, PhaseInv, LockInv, FirstLifeInv, [Next]_vars
  PROVE  FirstLifeInv'
<1>0. CASE UNCHANGED vars
  BY <1>0 DEF FirstLifeInv, At, Writing, Rec, Early, vars
<1>1. CASE WriteLog
  BY <1>1, WriteLogEffect
  DEF FirstLifeInv, At, Writing, Rec, Early, FailsAt, CountsFault
<1>2. CASE SaveRecord
  <2>1. CASE disk' = io.rec /\ pc' = io.then /\ UNCHANGED <<lock, prog, faults>>
    BY <1>2, <2>1, SaveRecordEffect
    DEF FirstLifeInv, At, Rec, Early, Writing, Continuations
  <2>2. CASE disk' \in {disk, io.rec} /\ FailsAt(io.then)
    BY <1>2, <2>2, SaveRecordEffect
    DEF FirstLifeInv, At, Rec, Early, Writing, Continuations, FailsAt, CountsFault
  <2>3. QED
    BY <1>2, <2>1, <2>2, SaveRecordEffect
<1>3. CASE AcquireLock
  BY <1>3, AcquireLockEffect
  DEF FirstLifeInv, At, Writing, Rec, Early, SetsTo, UpdatesTo, Writes,
      CountsFault
<1>4. CASE RecoverPhase
  BY <1>4, RecoverPhaseEffect
  DEF FirstLifeInv, At, Writing, Rec, Early, SetsTo, CountsFault, Started,
      Late
<1>5. CASE PollActivation
  BY <1>5, PollActivationEffect
  DEF FirstLifeInv, At, Writing, Rec, Early, PersistsTo, SetsTo, Writes,
      UpdatesTo
<1>6. CASE StartRunning
  BY <1>6, StartRunningEffect
  DEF FirstLifeInv, At, Writing, Rec, Early, UpdatesTo, Writes
<1>7. CASE ExecuteProgram
  BY <1>7, ExecuteProgramEffect
  DEF FirstLifeInv, At, Writing, Rec, Early, SetsTo
<1>8. CASE SpawnProgram
  BY <1>8, SpawnProgramEffect
  DEF FirstLifeInv, At, Writing, Rec, Early, SetsTo, UpdatesTo, Writes
<1>9. CASE FinishProgram
  BY <1>9, FinishProgramEffect
  DEF FirstLifeInv, At, Writing, Rec, Early, SetsTo
<1>10. CASE StopProgram
  BY <1>10, StopProgramEffect
  DEF FirstLifeInv, At, Writing, Rec, Early, SetsTo
<1>11. CASE CollectStartError
  BY <1>11
  DEF FirstLifeInv, At, Writing, Rec, Early, CollectStartError, Goto, quiet,
      outside, files, mind, program
<1>12. CASE EvaluateResult
  BY <1>12, EvaluateResultEffect
  DEF FirstLifeInv, At, Writing, Rec, Early, PersistsTo, SetsTo, Writes
<1>13. CASE ResumeResult
  BY <1>13, ResumeResultEffect
  DEF FirstLifeInv, At, Writing, Rec, Early, PersistsTo, SetsTo, Writes,
      Annotates, DeliveredNotes
<1>14. CASE OfferNative
  BY <1>14, OfferNativeEffect
  DEF FirstLifeInv, At, Writing, Rec, Early, PersistsTo, SetsTo, Writes,
      Annotates
<1>15. CASE BeginAttempt
  BY <1>15, BeginAttemptEffect
  DEF FirstLifeInv, At, Writing, Rec, Early, SetsTo, PersistsTo, Writes,
      Annotates
<1>16. CASE SendWake
  BY <1>16, SendWakeEffect
  DEF FirstLifeInv, At, Writing, Rec, Early, PersistsTo, SetsTo, Writes,
      Annotates
<1>17. CASE EndAttempt
  BY <1>17, EndAttemptEffect
  DEF FirstLifeInv, At, Writing, Rec, Early, PersistsTo, SetsTo, Writes,
      Annotates, AtLeastMaybe
<1>18. CASE EndBackoff
  BY <1>18
  DEF FirstLifeInv, At, Writing, Rec, Early, EndBackoff, Goto, quiet, outside,
      files, mind, program
<1>19. CASE GiveUpDelivery
  BY <1>19, GiveUpDeliveryEffect
  DEF FirstLifeInv, At, Writing, Rec, Early, UpdatesTo, Writes,
      UndeliveredCode
<1>20. CASE CloseDelivery
  BY <1>20, CloseDeliveryEffect
  DEF FirstLifeInv, At, Writing, Rec, Early, UpdatesTo, Writes
<1>21. CASE EndAck
  BY <1>21, EndAckEffect
  DEF FirstLifeInv, At, Writing, Rec, Early, PersistsTo, SetsTo, Writes,
      Annotates
<1>22. CASE WriteFinalLog
  BY <1>22, WriteFinalLogEffect
  DEF FirstLifeInv, At, Writing, Rec, Early, CountsFault
<1>23. CASE RecordWatcherFailure
  BY <1>23, RecordWatcherFailureEffect
  DEF FirstLifeInv, At, Writing, Rec, Early, CountsFault, KeepsOutcome
<1>24. CASE ReleaseLock
  BY <1>24, ReleaseLockEffect
  DEF FirstLifeInv, At, Writing, Rec, Early, UpdatesTo, Writes
<1>25. CASE DecideEnd
  BY <1>25, DecideEndEffect
  DEF FirstLifeInv, At, Writing, Rec, Early, SetsTo, UpdatesTo, Writes,
      Annotates, AttemptOnRecord
<1>26. CASE SettleFailedNotice
  BY <1>26, SettleFailedNoticeEffect
  DEF FirstLifeInv, At, Writing, Rec, Early, PersistsTo, SetsTo, Writes,
      Annotates, DeliveredNotes
<1>27. CASE FinishWatch
  BY <1>27, FinishWatchEffect
  DEF FirstLifeInv, At, Writing, Rec, Early, Writes
<1>28. CASE WakeWithoutPersistence
  BY <1>28, WakeWithoutPersistenceEffect
  DEF FirstLifeInv, At, Writing, Rec, Early, Annotates, AtLeastMaybe
<1>29. CASE Submit
  BY <1>29, SubmitEffect
  DEF FirstLifeInv, At, Writing, Rec, Early, CountsFault, PhaseInv
<1>30. CASE Cancel
  BY <1>30, CancelEffect
  DEF FirstLifeInv, At, Writing, Rec, Early, CountsFault, Awaiting
<1>31. CASE SaveOther
  BY <1>31
  DEF FirstLifeInv, At, Writing, Rec, Early, SaveOther, Awaiting, mind,
      program, outside
<1>32. CASE OwnerActivates
  BY <1>32
  DEF FirstLifeInv, At, Writing, Rec, Early, OwnerActivates, files, mind,
      program
<1>33. CASE OwnerChanges
  BY <1>33
  DEF FirstLifeInv, At, Writing, Rec, Early, OwnerChanges, files, mind,
      program
<1>34. CASE OrphanExits
  BY <1>34
  DEF FirstLifeInv, At, Writing, Rec, Early, OrphanExits, quiet, outside,
      files, mind
<1>35. CASE Crash
  BY <1>35, CrashEffect
  DEF FirstLifeInv, At, Writing, Rec, Early, AtLeastMaybe
<1>36. CASE Shutdown
  BY <1>36, ShutdownEffect
  DEF FirstLifeInv, At, Writing, Rec, Early, AtLeastMaybe, Awaiting
<1>37. CASE SaveOnShutdown
  BY <1>37, SaveOnShutdownEffect
  DEF FirstLifeInv, At, Writing, Rec, Early, CountsFault
<1>38. CASE Restart
  BY <1>38
  DEF FirstLifeInv, At, Writing, Rec, Early, Restart, Goto, Restores, quiet,
      outside, files, program
<1>39. QED
  BY <1>0, <1>1, <1>2, <1>3, <1>4, <1>5, <1>6, <1>7, <1>8, <1>9, <1>10, <1>11,
      <1>12, <1>13, <1>14, <1>15, <1>16, <1>17, <1>18, <1>19, <1>20, <1>21,
      <1>22, <1>23, <1>24, <1>25, <1>26, <1>27, <1>28, <1>29, <1>30, <1>31,
      <1>32, <1>33, <1>34, <1>35, <1>36, <1>37, <1>38
  DEF Next, TaskStep, EnvironmentStep, ServiceStep

\* Every step keeps the outcomes in the record those of the log.
LEMMA LoggedStep ==
  ASSUME TypeOK, AttemptInv, LinkInv, LockInv, PhaseInv, ReportInv,
         OutcomeInv, EvidenceInv, LinkedInv, LoggedInv, [Next]_vars
  PROVE  LoggedInv'
<1>0. CASE UNCHANGED vars
  BY <1>0 DEF LoggedInv, At, Writing, Logged, Delivering, vars
<1>1. CASE WriteLog
  BY <1>1, WriteLogEffect
  DEF LoggedInv, At, Writing, Logged, Delivering, FailsAt, CountsFault,
      LinkInv, LockInv, LinkedInv, EvidenceInv, Outcomes
<1>2. CASE SaveRecord
  <2>1. CASE disk' = io.rec /\ pc' = io.then /\ UNCHANGED <<lock, prog, faults>>
    BY <1>2, <2>1, SaveRecordEffect
    DEF LoggedInv, At, Writing, Logged, Delivering, LinkInv, LinkedInv, LockInv,
        Outcomes, Continuations
  <2>2. CASE disk' \in {disk, io.rec} /\ FailsAt(io.then)
    BY <1>2, <2>2, SaveRecordEffect
    DEF LoggedInv, At, Writing, Logged, Delivering, LinkInv, LinkedInv, LockInv,
        Outcomes, Continuations, FailsAt, CountsFault
  <2>3. QED
    BY <1>2, <2>1, <2>2, SaveRecordEffect
<1>3. CASE AcquireLock
  BY <1>3, AcquireLockEffect
  DEF LoggedInv, At, Writing, Logged, Delivering, SetsTo, UpdatesTo, Writes,
      CountsFault, Fresh, Outcomes, ReportInv, Unreported, PhaseInv, Late,
      Rec, LinkInv, Waiting, Early
<1>4. CASE RecoverPhase
  BY <1>4, RecoverPhaseEffect
  DEF LoggedInv, At, Writing, Logged, Delivering, SetsTo, CountsFault,
      Started, Late, Fresh, NoResult, Outcomes, ReportInv, Unreported,
      PhaseInv, Rec, LinkInv
<1>5. CASE PollActivation
  BY <1>5, PollActivationEffect
  DEF LoggedInv, At, Writing, Logged, Delivering, PersistsTo, SetsTo, Writes,
      UpdatesTo, Fresh, Outcomes, ReportInv, Unreported, PhaseInv, Late, Rec,
      LinkInv, Waiting, Early
<1>6. CASE StartRunning
  BY <1>6, StartRunningEffect
  DEF LoggedInv, At, Writing, Logged, Delivering, UpdatesTo, Writes
<1>7. CASE ExecuteProgram
  BY <1>7, ExecuteProgramEffect
  DEF LoggedInv, At, Writing, Logged, Delivering, SetsTo, Fresh, Outcomes,
      ReportInv, Unreported, PhaseInv, Late, Rec, LinkInv, Waiting, Early
<1>8. CASE SpawnProgram
  BY <1>8, SpawnProgramEffect
  DEF LoggedInv, At, Writing, Logged, Delivering, SetsTo, UpdatesTo, Writes,
      Fresh, Outcomes, ReportInv, Unreported, PhaseInv, Late, Rec, LinkInv,
      Waiting, Early
<1>9. CASE FinishProgram
  BY <1>9, FinishProgramEffect
  DEF LoggedInv, At, Writing, Logged, Delivering, SetsTo, Fresh, Outcomes,
      ReportInv, Unreported, PhaseInv, Late, Rec, LinkInv, Waiting, Early
<1>10. CASE StopProgram
  BY <1>10, StopProgramEffect
  DEF LoggedInv, At, Writing, Logged, Delivering, SetsTo, Fresh, Outcomes,
      ReportInv, Unreported, PhaseInv, Late, Rec, LinkInv, Waiting, Early
<1>11. CASE CollectStartError
  BY <1>11
  DEF LoggedInv, At, Writing, Logged, Delivering, CollectStartError, Goto,
      quiet, outside, files, mind, program
<1>12. CASE EvaluateResult
  BY <1>12, EvaluateResultEffect
  DEF LoggedInv, At, Writing, Logged, Delivering, PersistsTo, SetsTo, Writes,
      Outcomes, ReportInv, Unreported, PhaseInv, Late, Rec, LinkInv, Waiting,
      LogSettled
<1>13. CASE ResumeResult
  BY <1>13, ResumeResultEffect, EventType
  DEF LoggedInv, At, Writing, Logged, Delivering, PersistsTo, SetsTo, Writes,
      Annotates, DeliveredNotes, LogSettled, LinkInv, LinkedInv, EvidenceInv,
      KeepsEvidence, Keeps, Outcomes, LockInv, Events
<1>14. CASE OfferNative
  BY <1>14, OfferNativeEffect, EventType
  DEF LoggedInv, At, Writing, Logged, Delivering, PersistsTo, SetsTo, Writes,
      Annotates, LogSettled, LinkInv, LinkedInv, EvidenceInv, KeepsEvidence,
      Keeps, Outcomes, LockInv, Events
<1>15. CASE BeginAttempt
  BY <1>15, BeginAttemptEffect, EventType
  DEF LoggedInv, At, Writing, Logged, Delivering, SetsTo, PersistsTo, Writes,
      Annotates, LogSettled, LinkInv, LinkedInv, EvidenceInv, KeepsEvidence,
      Keeps, Outcomes, LockInv, Events
<1>16. CASE SendWake
  BY <1>16, SendWakeEffect, EventType
  DEF LoggedInv, At, Writing, Logged, Delivering, PersistsTo, SetsTo, Writes,
      Annotates, LogSettled, LinkInv, LinkedInv, EvidenceInv, KeepsEvidence,
      Keeps, Outcomes, LockInv, Events
<1>17. CASE EndAttempt
  BY <1>17, EndAttemptEffect, EventType
  DEF LoggedInv, At, Writing, Logged, Delivering, PersistsTo, SetsTo, Writes,
      Annotates, AtLeastMaybe, LogSettled, LinkInv, LinkedInv, EvidenceInv,
      KeepsEvidence, Keeps, Outcomes, LockInv, Events
<1>18. CASE EndBackoff
  BY <1>18
  DEF LoggedInv, At, Writing, Logged, Delivering, EndBackoff, Goto, quiet,
      outside, files, mind, program
<1>19. CASE GiveUpDelivery
  BY <1>19, GiveUpDeliveryEffect
  DEF LoggedInv, At, Writing, Logged, Delivering, UpdatesTo, Writes,
      UndeliveredCode, LockInv
<1>20. CASE CloseDelivery
  BY <1>20, CloseDeliveryEffect
  DEF LoggedInv, At, Writing, Logged, Delivering, UpdatesTo, Writes, LockInv
<1>21. CASE EndAck
  BY <1>21, EndAckEffect, EventType
  DEF LoggedInv, At, Writing, Logged, Delivering, PersistsTo, SetsTo, Writes,
      Annotates, LogSettled, LinkInv, LinkedInv, EvidenceInv, KeepsEvidence,
      Keeps, Outcomes, LockInv, Events
<1>22. CASE WriteFinalLog
  BY <1>22, WriteFinalLogEffect, EventType
  DEF LoggedInv, At, Writing, Logged, Delivering, CountsFault, LogSettled,
      LinkInv, LinkedInv, EvidenceInv, KeepsEvidence, Keeps, Outcomes, Events
<1>23. CASE RecordWatcherFailure
  BY <1>23, RecordWatcherFailureEffect
  DEF LoggedInv, At, Writing, Logged, Delivering, CountsFault, KeepsOutcome,
      Outcomes
<1>24. CASE ReleaseLock
  BY <1>24, ReleaseLockEffect
  DEF LoggedInv, At, Writing, Logged, Delivering, UpdatesTo, Writes
<1>25. CASE DecideEnd
  BY <1>25, DecideEndEffect
  DEF LoggedInv, At, Writing, Logged, Delivering, SetsTo, UpdatesTo, Writes,
      Annotates, AttemptOnRecord, Outcomes
<1>26. CASE SettleFailedNotice
  BY <1>26, SettleFailedNoticeEffect, EventType
  DEF LoggedInv, At, Writing, Logged, Delivering, PersistsTo, SetsTo, Writes,
      Annotates, DeliveredNotes, LogSettled, LinkInv, LinkedInv, EvidenceInv,
      KeepsEvidence, Keeps, Outcomes, LockInv, Events
<1>27. CASE FinishWatch
  BY <1>27, FinishWatchEffect, EventType
  DEF LoggedInv, At, Writing, Logged, Delivering, Writes, LogSettled, LinkInv,
      LinkedInv, EvidenceInv, KeepsEvidence, Keeps, Outcomes, LockInv, Events
<1>28. CASE WakeWithoutPersistence
  BY <1>28, WakeWithoutPersistenceEffect
  DEF LoggedInv, At, Writing, Logged, Delivering, Annotates, AtLeastMaybe,
      LockInv, LinkedInv, Outcomes
<1>29. CASE Submit
  BY <1>29, SubmitEffect
  DEF LoggedInv, At, Writing, Logged, Delivering, CountsFault, LinkInv
<1>30. CASE Cancel
  BY <1>30, CancelEffect
  DEF LoggedInv, At, Writing, Logged, Delivering, CountsFault, Awaiting
<1>31. CASE SaveOther
  BY <1>31
  DEF LoggedInv, At, Writing, Logged, Delivering, SaveOther, Awaiting, mind,
      program, outside
<1>32. CASE OwnerActivates
  BY <1>32
  DEF LoggedInv, At, Writing, Logged, Delivering, OwnerActivates, files, mind,
      program
<1>33. CASE OwnerChanges
  BY <1>33
  DEF LoggedInv, At, Writing, Logged, Delivering, OwnerChanges, files, mind,
      program
<1>34. CASE OrphanExits
  BY <1>34
  DEF LoggedInv, At, Writing, Logged, Delivering, OrphanExits, quiet, outside,
      files, mind
<1>35. CASE Crash
  BY <1>35, CrashEffect
  DEF LoggedInv, At, Writing, Logged, Delivering, AtLeastMaybe, Early, Fresh,
      NoResult, Outcomes
<1>36. CASE Shutdown
  BY <1>36, ShutdownEffect
  DEF LoggedInv, At, Writing, Logged, Delivering, AtLeastMaybe, Awaiting
<1>37. CASE SaveOnShutdown
  BY <1>37, SaveOnShutdownEffect
  DEF LoggedInv, At, Writing, Logged, Delivering, CountsFault, Early, Fresh,
      NoResult, Outcomes
<1>38. CASE Restart
  BY <1>38
  DEF LoggedInv, At, Writing, Logged, Delivering, Restart, Goto, Restores,
      quiet, outside, files, program
<1>39. QED
  BY <1>0, <1>1, <1>2, <1>3, <1>4, <1>5, <1>6, <1>7, <1>8, <1>9, <1>10, <1>11,
      <1>12, <1>13, <1>14, <1>15, <1>16, <1>17, <1>18, <1>19, <1>20, <1>21,
      <1>22, <1>23, <1>24, <1>25, <1>26, <1>27, <1>28, <1>29, <1>30, <1>31,
      <1>32, <1>33, <1>34, <1>35, <1>36, <1>37, <1>38
  DEF Next, TaskStep, EnvironmentStep, ServiceStep

\* What the watch guarantees its clients.
WatchInv == TypeOK /\ RecordInv /\ LinkedInv /\ ClaudeInv /\ FirstLifeInv /\ LoggedInv

\* Before it is submitted a watch guarantees all of it.
LEMMA WatchInit == Init => LinkedInv /\ ClaudeInv /\ FirstLifeInv /\ LoggedInv
<1> SUFFICES ASSUME Init PROVE LinkedInv /\ ClaudeInv /\ FirstLifeInv /\ LoggedInv
  OBVIOUS
<1>1. /\ mem = disk /\ mem.phase \in Early /\ mem.result = NoResult
      /\ log = NoResult /\ res = NoResult /\ pc = "idle" /\ ~linked /\ ~failing
      /\ NoResult.event = "none" /\ NoResult.attempts = 0
  BY DEF Init, Absent, FirstPhase, Early, NoResult, Fresh
<1>2. At = "idle" /\ Rec = mem /\ ~Writing
  BY <1>1 DEF At, Rec, Writing
<1>3. LinkedInv /\ ClaudeInv /\ FirstLifeInv
  BY <1>1, <1>2 DEF LinkedInv, ClaudeInv, FirstLifeInv
<1>4. LoggedInv
  BY <1>1, <1>2 DEF LoggedInv, Logged, Outcomes, Delivering
<1>5. QED
  BY <1>3, <1>4

\* Every behaviour of the clients keeps it.
LEMMA WatchKept == RSpec => []WatchInv
<1>1. RInit => LinkedInv /\ ClaudeInv /\ FirstLifeInv /\ LoggedInv
  BY WatchInit DEF RInit
<1>2. /\ TypeOK /\ RecordInv /\ [Next]_vars
      /\ LinkedInv /\ ClaudeInv /\ FirstLifeInv /\ LoggedInv
      => (LinkedInv /\ ClaudeInv /\ FirstLifeInv /\ LoggedInv)'
  BY LinkedStep, ClaudeStep, FirstLifeStep, LoggedStep DEF RecordInv
<1>3. QED
  BY <1>1, <1>2, WatchSteps, RequestsImplementWatch, TypeCorrect, RecordCorrect,
     PTL
  DEF RSpec, WatchInv

-----------------------------------------------------------------------------
(* Which steps tell the requests that wait, and what the others keep.      *)

\* The steps of the watch that no waiting request is told of ...
QuietStep ==
  \/ WriteLog \/ AcquireLock \/ RecoverPhase \/ PollActivation
  \/ StartRunning \/ ExecuteProgram \/ SpawnProgram \/ FinishProgram
  \/ StopProgram \/ CollectStartError \/ EvaluateResult \/ ResumeResult
  \/ OfferNative \/ BeginAttempt \/ SendWake \/ EndAttempt \/ EndBackoff
  \/ GiveUpDelivery \/ CloseDelivery \/ EndAck \/ WriteFinalLog
  \/ RecordWatcherFailure \/ ReleaseLock \/ DecideEnd \/ SettleFailedNotice
  \/ FinishWatch \/ SaveOther \/ OwnerActivates \/ OwnerChanges
  \/ OrphanExits \/ Submit \/ Shutdown \/ Restart
  \/ UNCHANGED vars

\* ... the writes that fail, and the steps that tell them.
FailedStep == (SaveRecord \/ Cancel \/ SaveOnShutdown) /\ faults' # faults
LoudStep   == Cancel \/ SaveOnShutdown \/ WakeWithoutPersistence \/ Crash

\* No step that tells nobody ends a watch that a request still waits for.
LEMMA QuietSteps ==
  ASSUME TypeOK, AttemptInv, LockInv, LinkInv, ResultInv, PhaseInv, ReportInv,
         LinkedInv, ClaudeInv,
         QuietStep \/ FailedStep
  PROVE  Settled' => Settled
<1>0. CASE UNCHANGED vars
  BY <1>0 DEF Settled, Over, Known, FailedFor, At, Writing, vars
<1>1. CASE WriteLog
  BY <1>1, WriteLogEffect
  DEF Settled, Over, Known, FailedFor, At, Writing, FailsAt, CountsFault,
      LinkInv, LinkedInv, ClaudeInv, LockInv, PhaseInv, Delivering,
      Continuations
<1>2. CASE AcquireLock
  BY <1>2, AcquireLockEffect
  DEF Settled, Over, Known, FailedFor, At, Writing, SetsTo, UpdatesTo, Writes,
      CountsFault, Fresh, LinkInv, LinkedInv, NoResult
<1>3. CASE RecoverPhase
  BY <1>3, RecoverPhaseEffect
  DEF Settled, Over, Known, FailedFor, At, Writing, SetsTo, CountsFault,
      Started, Late, LinkInv, ReportInv, NoResult, Fresh, ResultInv, Told,
      LinkedInv
<1>4. CASE PollActivation
  BY <1>4, PollActivationEffect
  DEF Settled, Over, Known, FailedFor, At, Writing, PersistsTo, SetsTo,
      Writes, UpdatesTo, Fresh, LinkInv, LinkedInv, NoResult
<1>5. CASE StartRunning
  BY <1>5, StartRunningEffect
  DEF Settled, Over, Known, FailedFor, At, Writing, UpdatesTo, Writes
<1>6. CASE ExecuteProgram
  BY <1>6, ExecuteProgramEffect
  DEF Settled, Over, Known, FailedFor, At, Writing, SetsTo, Fresh, LinkInv,
      LinkedInv, NoResult
<1>7. CASE SpawnProgram
  BY <1>7, SpawnProgramEffect
  DEF Settled, Over, Known, FailedFor, At, Writing, SetsTo, UpdatesTo, Writes,
      Fresh, LinkInv, LinkedInv, NoResult
<1>8. CASE FinishProgram
  BY <1>8, FinishProgramEffect
  DEF Settled, Over, Known, FailedFor, At, Writing, SetsTo, Fresh, LinkInv,
      LinkedInv, NoResult
<1>9. CASE StopProgram
  BY <1>9, StopProgramEffect
  DEF Settled, Over, Known, FailedFor, At, Writing, SetsTo, Fresh, LinkInv,
      LinkedInv, NoResult
<1>10. CASE CollectStartError
  BY <1>10
  DEF Settled, Over, Known, FailedFor, At, Writing, CollectStartError, Goto,
      quiet, outside, files, mind, program
<1>11. CASE EvaluateResult
  BY <1>11, EvaluateResultEffect
  DEF Settled, Over, Known, FailedFor, At, Writing, PersistsTo, SetsTo,
      Writes, LinkInv, LinkedInv, ClaudeInv, LockInv, Delivering, NoResult,
      Fresh
<1>12. CASE ResumeResult
  BY <1>12, ResumeResultEffect
  DEF Settled, Over, Known, FailedFor, At, Writing, PersistsTo, SetsTo,
      Writes, Annotates, DeliveredNotes, LinkInv, LinkedInv, ClaudeInv,
      LockInv, Delivering, NoResult, Fresh
<1>13. CASE OfferNative
  BY <1>13, OfferNativeEffect
  DEF Settled, Over, Known, FailedFor, At, Writing, PersistsTo, SetsTo,
      Writes, Annotates, LinkInv, LinkedInv, ClaudeInv, LockInv, Delivering,
      NoResult, Fresh
<1>14. CASE BeginAttempt
  BY <1>14, BeginAttemptEffect
  DEF Settled, Over, Known, FailedFor, At, Writing, SetsTo, PersistsTo,
      Writes, Annotates, LinkInv, LinkedInv, ClaudeInv, LockInv, Delivering,
      NoResult, Fresh
<1>15. CASE SendWake
  BY <1>15, SendWakeEffect
  DEF Settled, Over, Known, FailedFor, At, Writing, PersistsTo, SetsTo,
      Writes, Annotates, LinkInv, LinkedInv, ClaudeInv, LockInv, Delivering,
      NoResult, Fresh
<1>16. CASE EndAttempt
  BY <1>16, EndAttemptEffect
  DEF Settled, Over, Known, FailedFor, At, Writing, PersistsTo, SetsTo,
      Writes, Annotates, AtLeastMaybe, LinkInv, LinkedInv, ClaudeInv, LockInv,
      Delivering, NoResult, Fresh
<1>17. CASE EndBackoff
  BY <1>17
  DEF Settled, Over, Known, FailedFor, At, Writing, EndBackoff, Goto, quiet,
      outside, files, mind, program
<1>18. CASE GiveUpDelivery
  BY <1>18, GiveUpDeliveryEffect
  DEF Settled, Over, Known, FailedFor, At, Writing, UpdatesTo, Writes,
      UndeliveredCode, LinkInv, LinkedInv, ClaudeInv, LockInv, Delivering,
      NoResult, Fresh
<1>19. CASE CloseDelivery
  BY <1>19, CloseDeliveryEffect
  DEF Settled, Over, Known, FailedFor, At, Writing, UpdatesTo, Writes,
      LinkInv, LinkedInv, ClaudeInv, LockInv, Delivering, NoResult, Fresh
<1>20. CASE EndAck
  BY <1>20, EndAckEffect
  DEF Settled, Over, Known, FailedFor, At, Writing, PersistsTo, SetsTo,
      Writes, Annotates, LinkInv, LinkedInv, ClaudeInv, LockInv, Delivering,
      NoResult, Fresh
<1>21. CASE WriteFinalLog
  BY <1>21, WriteFinalLogEffect
  DEF Settled, Over, Known, FailedFor, At, Writing, CountsFault, LinkInv,
      LinkedInv, ClaudeInv, LockInv
<1>22. CASE RecordWatcherFailure
  BY <1>22, RecordWatcherFailureEffect
  DEF Settled, Over, Known, FailedFor, At, Writing, CountsFault, KeepsOutcome
<1>23. CASE ReleaseLock
  BY <1>23, ReleaseLockEffect
  DEF Settled, Over, Known, FailedFor, At, Writing, UpdatesTo, Writes,
      LinkInv, LinkedInv, ClaudeInv, LockInv
<1>24. CASE DecideEnd
  BY <1>24, DecideEndEffect
  DEF Settled, Over, Known, FailedFor, At, Writing, SetsTo, UpdatesTo, Writes,
      Annotates, AttemptOnRecord, LinkInv, LinkedInv, ClaudeInv, LockInv,
      Delivering, NoResult, Fresh, PhaseInv
<1>25. CASE SettleFailedNotice
  BY <1>25, SettleFailedNoticeEffect
  DEF Settled, Over, Known, FailedFor, At, Writing, PersistsTo, SetsTo,
      Writes, Annotates, DeliveredNotes, LinkInv, LinkedInv, ClaudeInv,
      LockInv, Delivering, NoResult, Fresh
<1>26. CASE FinishWatch
  BY <1>26, FinishWatchEffect
  DEF Settled, Over, Known, FailedFor, At, Writing, Writes, LinkInv,
      LinkedInv, ClaudeInv, LockInv, Delivering, NoResult, Fresh
<1>27. CASE SaveOther
  BY <1>27
  DEF Settled, Over, Known, FailedFor, At, Writing, SaveOther, Awaiting, mind,
      program, outside
<1>28. CASE OwnerActivates
  BY <1>28
  DEF Settled, Over, Known, FailedFor, At, Writing, OwnerActivates, files,
      mind, program
<1>29. CASE OwnerChanges
  BY <1>29
  DEF Settled, Over, Known, FailedFor, At, Writing, OwnerChanges, files,
      mind, program
<1>30. CASE OrphanExits
  BY <1>30
  DEF Settled, Over, Known, FailedFor, At, Writing, OrphanExits, quiet,
      outside, files, mind
<1>31. CASE Submit
  BY <1>31, SubmitEffect
  DEF Settled, Over, Known, FailedFor, At, Writing, CountsFault
<1>32. CASE Shutdown
  BY <1>32, ShutdownEffect
  DEF Settled, Over, Known, FailedFor, At, Writing, AtLeastMaybe, Awaiting,
      LockInv
<1>33. CASE Restart
  BY <1>33
  DEF Settled, Over, Known, FailedFor, At, Writing, Restart, Goto, Restores,
      quiet, outside, files, program
<1>34. CASE SaveRecord /\ faults' # faults
  BY <1>34, SaveRecordEffect
  DEF Settled, Over, Known, FailedFor, At, Writing, FailsAt, CountsFault,
      LinkInv, LinkedInv, Continuations, ClaudeInv, LockInv, PhaseInv,
      ReportInv, Late, Rec, Waiting
<1>35. CASE Cancel /\ faults' # faults
  BY <1>35, CancelEffect
  DEF Settled, Over, Known, FailedFor, At, Writing, CountsFault, Awaiting
<1>36. CASE SaveOnShutdown /\ faults' # faults
  BY <1>36, SaveOnShutdownEffect
  DEF Settled, Over, Known, FailedFor, At, Writing, CountsFault, Early
<1>37. QED
  BY <1>0, <1>1, <1>2, <1>3, <1>4, <1>5, <1>6, <1>7, <1>8, <1>9, <1>10, <1>11,
      <1>12, <1>13, <1>14, <1>15, <1>16, <1>17, <1>18, <1>19, <1>20, <1>21,
      <1>22, <1>23, <1>24, <1>25, <1>26, <1>27, <1>28, <1>29, <1>30, <1>31,
      <1>32, <1>33, <1>34, <1>35, <1>36
  DEF QuietStep, FailedStep

\* The task has the lock, or is about to write that it has not.
HasLock == lock \/ (pc = "save" /\ io.then = "tail")

\* The program stays started, the stops stay counted, and in the first life of
\* the daemon the lock is given up only by a step that goes on to write it.
LEMMA KeepsStep ==
  ASSUME TypeOK, RunOnceInv, LinkInv, LinkedInv, FirstLifeInv,
         QuietStep \/ LoudStep
  PROVE  /\ runs = 1 => runs' = 1
         /\ faults'.crash = 0 => faults.crash = 0
         /\ faults'.crash = 0 /\ HasLock /\ At \notin {"start", "phase"} => HasLock'
<1>0. CASE UNCHANGED vars
  BY <1>0 DEF HasLock, At, Writing, vars
<1>1. CASE WriteLog
  BY <1>1, WriteLogEffect
  DEF HasLock, At, Writing, FailsAt, CountsFault, LinkInv, LinkedInv
<1>2. CASE AcquireLock
  BY <1>2, AcquireLockEffect
  DEF HasLock, At, Writing, SetsTo, UpdatesTo, Writes, CountsFault
<1>3. CASE RecoverPhase
  BY <1>3, RecoverPhaseEffect
  DEF HasLock, At, Writing, SetsTo, CountsFault, Started, Late
<1>4. CASE PollActivation
  BY <1>4, PollActivationEffect
  DEF HasLock, At, Writing, PersistsTo, SetsTo, Writes, UpdatesTo
<1>5. CASE StartRunning
  BY <1>5, StartRunningEffect
  DEF HasLock, At, Writing, UpdatesTo, Writes
<1>6. CASE ExecuteProgram
  BY <1>6, ExecuteProgramEffect
  DEF HasLock, At, Writing, SetsTo
<1>7. CASE SpawnProgram
  BY <1>7, SpawnProgramEffect
  DEF HasLock, At, Writing, SetsTo, UpdatesTo, Writes, RunOnceInv
<1>8. CASE FinishProgram
  BY <1>8, FinishProgramEffect
  DEF HasLock, At, Writing, SetsTo
<1>9. CASE StopProgram
  BY <1>9, StopProgramEffect
  DEF HasLock, At, Writing, SetsTo, RunOnceInv
<1>10. CASE CollectStartError
  BY <1>10
  DEF HasLock, At, Writing, CollectStartError, Goto, quiet, outside, files,
      mind, program
<1>11. CASE EvaluateResult
  BY <1>11, EvaluateResultEffect
  DEF HasLock, At, Writing, PersistsTo, SetsTo, Writes
<1>12. CASE ResumeResult
  BY <1>12, ResumeResultEffect
  DEF HasLock, At, Writing, PersistsTo, SetsTo, Writes, Annotates,
      DeliveredNotes
<1>13. CASE OfferNative
  BY <1>13, OfferNativeEffect
  DEF HasLock, At, Writing, PersistsTo, SetsTo, Writes, Annotates
<1>14. CASE BeginAttempt
  BY <1>14, BeginAttemptEffect
  DEF HasLock, At, Writing, SetsTo, PersistsTo, Writes, Annotates
<1>15. CASE SendWake
  BY <1>15, SendWakeEffect
  DEF HasLock, At, Writing, PersistsTo, SetsTo, Writes, Annotates
<1>16. CASE EndAttempt
  BY <1>16, EndAttemptEffect
  DEF HasLock, At, Writing, PersistsTo, SetsTo, Writes, Annotates,
      AtLeastMaybe
<1>17. CASE EndBackoff
  BY <1>17
  DEF HasLock, At, Writing, EndBackoff, Goto, quiet, outside, files, mind,
      program
<1>18. CASE GiveUpDelivery
  BY <1>18, GiveUpDeliveryEffect
  DEF HasLock, At, Writing, UpdatesTo, Writes, UndeliveredCode
<1>19. CASE CloseDelivery
  BY <1>19, CloseDeliveryEffect
  DEF HasLock, At, Writing, UpdatesTo, Writes
<1>20. CASE EndAck
  BY <1>20, EndAckEffect
  DEF HasLock, At, Writing, PersistsTo, SetsTo, Writes, Annotates
<1>21. CASE WriteFinalLog
  BY <1>21, WriteFinalLogEffect
  DEF HasLock, At, Writing, CountsFault
<1>22. CASE RecordWatcherFailure
  BY <1>22, RecordWatcherFailureEffect
  DEF HasLock, At, Writing, CountsFault, KeepsOutcome
<1>23. CASE ReleaseLock
  BY <1>23, ReleaseLockEffect
  DEF HasLock, At, Writing, UpdatesTo, Writes
<1>24. CASE DecideEnd
  BY <1>24, DecideEndEffect
  DEF HasLock, At, Writing, SetsTo, UpdatesTo, Writes, Annotates,
      AttemptOnRecord
<1>25. CASE SettleFailedNotice
  BY <1>25, SettleFailedNoticeEffect
  DEF HasLock, At, Writing, PersistsTo, SetsTo, Writes, Annotates,
      DeliveredNotes
<1>26. CASE FinishWatch
  BY <1>26, FinishWatchEffect
  DEF HasLock, At, Writing, Writes
<1>27. CASE SaveOther
  BY <1>27
  DEF HasLock, At, Writing, SaveOther, Awaiting, mind, program, outside
<1>28. CASE OwnerActivates
  BY <1>28
  DEF HasLock, At, Writing, OwnerActivates, files, mind, program
<1>29. CASE OwnerChanges
  BY <1>29
  DEF HasLock, At, Writing, OwnerChanges, files, mind, program
<1>30. CASE OrphanExits
  BY <1>30
  DEF HasLock, At, Writing, OrphanExits, quiet, outside, files, mind
<1>31. CASE Submit
  BY <1>31, SubmitEffect
  DEF HasLock, At, Writing, CountsFault
<1>32. CASE Shutdown
  BY <1>32, ShutdownEffect
  DEF HasLock, At, Writing, AtLeastMaybe, Awaiting, RunOnceInv
<1>33. CASE Restart
  BY <1>33
  DEF HasLock, At, Writing, Restart, Goto, Restores, quiet, outside, files,
      program
<1>34. CASE Cancel
  BY <1>34, CancelEffect
  DEF HasLock, At, Writing, CountsFault, Awaiting
<1>35. CASE SaveOnShutdown
  BY <1>35, SaveOnShutdownEffect
  DEF HasLock, At, Writing, CountsFault, Early, FirstLifeInv
<1>36. CASE WakeWithoutPersistence
  BY <1>36, WakeWithoutPersistenceEffect
  DEF HasLock, At, Writing, Annotates, AtLeastMaybe
<1>37. CASE Crash
  BY <1>37, CrashEffect
  DEF HasLock, At, Writing, AtLeastMaybe, Early, RunOnceInv
<1>38. QED
  BY <1>0, <1>1, <1>2, <1>3, <1>4, <1>5, <1>6, <1>7, <1>8, <1>9, <1>10, <1>11,
      <1>12, <1>13, <1>14, <1>15, <1>16, <1>17, <1>18, <1>19, <1>20, <1>21,
      <1>22, <1>23, <1>24, <1>25, <1>26, <1>27, <1>28, <1>29, <1>30, <1>31,
      <1>32, <1>33, <1>34, <1>35, <1>36, <1>37
  DEF QuietStep, LoudStep

-----------------------------------------------------------------------------
(* follow.                                                                 *)

\* The clients are typed at first.
LEMMA ClientsInit == RInit => ClientsTypeOK
BY DEF RInit, ClientsTypeOK, NoInfo, NoAnswer, Answers, Events

\* What publishing, stopping and doing nothing does to the follow requests.
LEMMA Published ==
  ASSUME ClientsTypeOK, publish_change \/ Stops
  PROVE  Waiters' = {}
BY DEF ClientsTypeOK, publish_change, Stops, Disconnected, Waiters

\* Every step tells all requests, or none and then starts to wait only before
\* the end.
LEMMA Tells ==
  ASSUME ClientsTypeOK, [RNext]_allVars
  PROVE  \/ Waiters' = {}
         \/ Waiters' \subseteq Waiters /\ (QuietStep \/ FailedStep)
         \/ UNCHANGED vars /\ Awaiting /\ Known /\ ~Over(mem)
<1>1. CASE UNCHANGED allVars
  BY <1>1 DEF allVars, clients, Waiters, QuietStep
<1>2. ASSUME Quiet PROVE Waiters' \subseteq Waiters
  BY <1>2 DEF Quiet, Waiters
<1>3. CASE TaskMoves
  <2>1. CASE SaveRecord /\ PublishesSaved
    BY <1>2, <2>1, Published DEF PublishesSaved, FailedStep
  <2>2. CASE WakeWithoutPersistence /\ PublishesUnsaved
    BY <2>2, Published DEF PublishesUnsaved
  <2>3. QED
    BY <1>2, <1>3, <2>1, <2>2 DEF TaskMoves, QuietStep
<1>4. CASE OthersMove
  <2>1. CASE Cancel /\ PublishesSaved
    BY <1>2, <2>1, Published DEF PublishesSaved, FailedStep
  <2>2. QED
    BY <1>2, <1>4, <2>1, Published DEF OthersMove, QuietStep
<1>5. CASE ServiceStops
  <2>1. CASE Crash /\ Stops
    BY <2>1, Published
  <2>2. CASE Shutdown /\ Quiet
    BY <1>2, <2>2 DEF QuietStep
  <2>3. QED
    BY <1>5, <2>1, <2>2 DEF ServiceStops
<1>6. CASE ServiceReturns
  <2>1. CASE SaveOnShutdown /\ IF faults' = faults THEN Stops ELSE Quiet
    BY <1>2, <2>1, Published DEF FailedStep
  <2>2. CASE Restart /\ Quiet
    BY <1>2, <2>2 DEF QuietStep
  <2>3. QED
    BY <1>6, <2>1, <2>2 DEF ServiceReturns
<1>7. CASE ClientStep
  <2>1. CASE \E f \in Followers : Follow(f) \/ LookInVain(f) \/ Leave(f)
    BY <2>1 DEF Follow, LookInVain, Leave, Waiters, QuietStep, ClientsTypeOK
  <2>2. CASE \E f \in Followers : Look(f)
    BY <2>2 DEF Look, Waiters, QuietStep, ClientsTypeOK
  <2>3. CASE SubmitAnswered
    BY <2>3 DEF SubmitAnswered, Starts, Waiters, QuietStep
  <2>4. CASE ShowAnswered \/ RequestFails
    BY <2>4 DEF ShowAnswered, RequestFails, Starts, Waiters, QuietStep
  <2>5. CASE CancelAnswered
    <3>1. CASE Cancel /\ PublishesSaved
      BY <1>2, <3>1, Published DEF PublishesSaved, FailedStep
    <3>2. QED
      BY <1>2, <2>5, <3>1 DEF CancelAnswered, QuietStep
  <2>6. QED
    BY <1>7, <2>1, <2>2, <2>3, <2>4, <2>5 DEF ClientStep
<1>8. QED
  BY <1>1, <1>3, <1>4, <1>5, <1>6, <1>7 DEF RNext

\* Who starts to wait before the end is not late.
LEMMA LooksInTime ==
  ASSUME WatchInv, Awaiting, Known, ~Over(mem)
  PROVE  ~Settled
BY DEF Settled, Awaiting, Over, At, Writing, WatchInv, LinkedInv, NoResult, Fresh

\* Every step keeps a settled watch without waiting requests.
LEMMA SettledStep ==
  ASSUME WatchInv, ClientsTypeOK, SettledInv, [RNext]_allVars
  PROVE  SettledInv'
<1>1. CASE Waiters' = {}
  BY <1>1 DEF SettledInv
<1>2. CASE Waiters' \subseteq Waiters /\ (QuietStep \/ FailedStep)
  BY <1>2, QuietSteps DEF SettledInv, WatchInv, RecordInv
<1>3. CASE UNCHANGED vars /\ Awaiting /\ Known /\ ~Over(mem)
  <2>1. Settled' => Settled
    BY <1>3, QuietSteps DEF QuietStep, WatchInv, RecordInv
  <2>2. QED
    BY <1>3, <2>1, LooksInTime DEF SettledInv
<1>4. QED
  BY <1>1, <1>2, <1>3, Tells

\* Every step keeps the types of the clients.
LEMMA ClientsStep ==
  ASSUME TypeOK, ClientsTypeOK, [RNext]_allVars
  PROVE  ClientsTypeOK'
<1> DEFINE Infos == [query_status : {"pending", "verified"},
                     lock_status : {"none", "held", "released"}]
           FollowOK == /\ follow \in [Followers -> {"away", "looking", "waiting",
                                       "answered", "unknown", "left", "lost"}]
                       /\ answer \in [Followers -> Answers]
                       /\ \A f \in Followers :
                            follow[f] = "answered" => answer[f] # NoAnswer
           StartOK == start \in {"none", "refused", "checking", "late", "verified",
                                 "failed", "cancelled", "unanswered"}
<1>1. ASSUME Quiet \/ publish_change \/ Stops PROVE FollowOK'
  BY <1>1 DEF ClientsTypeOK, Quiet, publish_change, Stops, Disconnected
<1>2. ASSUME NEW new \in Infos, SavesInfo(new) PROVE info' \in Infos /\ saved' \in Infos
  BY <1>2 DEF SavesInfo, ClientsTypeOK
<1>3. info \in Infos /\ saved \in Infos /\ Updated \in Infos
      /\ [info EXCEPT !.lock_status = "released"] \in Infos /\ NoInfo \in Infos
  BY DEF Updated, ClientsTypeOK, NoInfo
<1>4. FollowOK /\ StartOK
  BY DEF ClientsTypeOK
<1> HIDE DEF Infos
<1>5. info' \in Infos /\ saved' \in Infos
  <2>1. CASE UNCHANGED allVars
    BY <1>3, <2>1 DEF allVars, fields
  <2>2. CASE TaskMoves
    BY <1>2, <1>3, <2>2 DEF TaskMoves, fields
  <2>3. CASE OthersMove
    BY <1>2, <1>3, <2>3 DEF OthersMove, fields
  <2>4. CASE ServiceStops \/ ServiceReturns
    BY <1>2, <1>3, <2>4 DEF ServiceStops, ServiceReturns, fields
  <2>5. CASE ClientStep
    BY <1>2, <1>3, <2>5
    DEF ClientStep, Follow, Look, LookInVain, Leave, SubmitAnswered, ShowAnswered,
        CancelAnswered, RequestFails, fields
  <2>6. QED
    BY <2>1, <2>2, <2>3, <2>4, <2>5 DEF RNext
<1>6. FollowOK' /\ StartOK'
  <2>1. CASE UNCHANGED allVars
    BY <1>4, <2>1 DEF allVars, clients
  <2>2. CASE TaskMoves
    BY <1>1, <1>4, <2>2 DEF TaskMoves, PublishesSaved, PublishesUnsaved
  <2>3. CASE OthersMove
    BY <1>1, <1>4, <2>3 DEF OthersMove, PublishesSaved
  <2>4. CASE ServiceStops \/ ServiceReturns
    BY <1>1, <1>4, <2>4 DEF ServiceStops, ServiceReturns
  <2>5. CASE \E f \in Followers : Follow(f) \/ LookInVain(f) \/ Leave(f)
    BY <1>4, <2>5 DEF Follow, LookInVain, Leave, Answers, NoAnswer, Events
  <2>6. CASE \E f \in Followers : Look(f)
    <3>1. PICK f \in Followers : Look(f)
      BY <2>6
    <3>2. /\ [state |-> mem.state, event |-> mem.result.event] \in Answers
          /\ [state |-> mem.state, event |-> mem.result.event] # NoAnswer
      BY DEF Answers, NoAnswer, TypeOK, Records, Results, States, Terminal
    <3>3. QED
      BY <1>4, <3>1, <3>2 DEF Look
  <2>7. CASE SubmitAnswered \/ ShowAnswered \/ RequestFails
    BY <1>4, <2>7 DEF SubmitAnswered, ShowAnswered, RequestFails, Starts
  <2>8. CASE CancelAnswered
    BY <1>1, <2>8 DEF CancelAnswered, PublishesSaved
  <2>9. QED
    BY <2>1, <2>2, <2>3, <2>4, <2>5, <2>6, <2>7, <2>8 DEF RNext, ClientStep
<1>7. QED
  BY <1>5, <1>6 DEF ClientsTypeOK, Infos

\* At first nobody waits.
LEMMA SettledInit == RInit => SettledInv
BY DEF RInit, SettledInv, Waiters

\* follow and publish_change: no request misses the end of the watch while no
\* write fails, and a failed watcher leaves none of its session waiting
\* whatever writes failed.
THEOREM FollowersCorrect == RSpec => []FollowersHear
<1>1. WatchInv /\ ClientsTypeOK /\ SettledInv => FollowersHear
  BY DEF SettledInv, Settled, FailedFor, FollowersHear, NoEndMissed,
     FailureWakesFollowers
<1>2. WatchInv /\ ClientsTypeOK /\ SettledInv /\ [RNext]_allVars
        => ClientsTypeOK' /\ SettledInv'
  BY SettledStep, ClientsStep DEF WatchInv
<1>3. QED
  BY <1>1, <1>2, WatchKept, ClientsInit, SettledInit, PTL DEF RSpec

\* An outcome of the program that follow answers is in the log by then:
\* _persist_result writes the log before the record, and nothing replaces it.
THEOREM DurableCorrect == RSpec => OutcomeIsDurable
<1>1. ASSUME WatchInv, ClientsTypeOK, [RNext]_allVars, NEW f \in Followers,
             answer'[f] # answer[f], answer'[f].event \in Outcomes, faults.read = 0
      PROVE  log.event = answer'[f].event
  <2>1. PICK g \in Followers : Follow(g) \/ Look(g)
    BY <1>1
    DEF RNext, allVars, clients, TaskMoves, OthersMove, ServiceStops,
        ServiceReturns,
        ClientStep, LookInVain, Leave, SubmitAnswered, ShowAnswered, CancelAnswered,
        RequestFails, PublishesSaved, PublishesUnsaved, publish_change, Quiet, Stops,
        Starts
  <2>2. CASE Follow(g)
    BY <1>1, <2>2 DEF Follow, ClientsTypeOK, NoAnswer, Outcomes
  <2>3. CASE Look(g)
    BY <1>1, <2>3 DEF Look, ClientsTypeOK, WatchInv, LoggedInv, Logged
  <2>4. QED
    BY <2>1, <2>2, <2>3
<1>2. WatchInv /\ ClientsTypeOK /\ [RNext]_allVars
        => ClientsTypeOK'
           /\ \A f \in Followers :
                answer'[f] # answer[f] /\ answer'[f].event \in Outcomes /\ faults.read = 0
                  => log.event = answer'[f].event
  BY <1>1, ClientsStep DEF WatchInv
<1>3. QED
  BY <1>2, WatchKept, ClientsInit, PTL DEF RSpec, OutcomeIsDurable

-----------------------------------------------------------------------------
(* waitctl start.                                                          *)

\* In the first life of the daemon a program that ran is not to be recovered.
LEMMA PastRecovery ==
  ASSUME WatchInv, faults.crash = 0, runs = 1
  PROVE  At \notin {"start", "phase"}
BY DEF WatchInv, RecordInv, FirstLifeInv, RunOnceInv, At, Rec, Writing


\* What a record tells of the start stays so, unless the step writes it.
LEMMA StartKept ==
  ASSUME WatchInv, StartInv, QuietStep \/ LoudStep,
         info'.query_status = "verified" \/ saved'.query_status = "verified"
           => info.query_status = "verified" \/ saved.query_status = "verified",
         faults.crash = 0 /\ info'.query_status = "verified" /\ info'.lock_status = "held"
           => info.query_status = "verified" /\ info.lock_status = "held"
  PROVE  StartInv'
<1>1. /\ runs = 1 => runs' = 1
      /\ faults'.crash = 0 => faults.crash = 0
      /\ faults'.crash = 0 /\ HasLock /\ At \notin {"start", "phase"} => HasLock'
  BY KeepsStep DEF WatchInv, RecordInv
<1>2. info.query_status = "verified" \/ saved.query_status = "verified" => runs = 1
  BY DEF StartInv
<1>3. ASSUME faults'.crash = 0, info'.query_status = "verified", info'.lock_status = "held"
      PROVE  HasLock'
  BY <1>1, <1>2, <1>3, PastRecovery DEF StartInv, HasLock
<1>4. QED
  BY <1>1, <1>2, <1>3 DEF StartInv, HasLock

\* The write of the record: "verified" is written after the program's start,
\* "held" only before it.
LEMMA StartSaved ==
  ASSUME WatchInv, ClientsTypeOK, StartInv, SaveRecord, SavesInfo(Updated)
  PROVE  StartInv'
<1>1. /\ pc = "save" /\ runs' = runs /\ (faults'.crash = 0 <=> faults.crash = 0)
      /\ io.then # "phase" => (lock' <=> lock)
  BY SaveRecordEffect DEF WatchInv, FailsAt, CountsFault
<1>2. CASE io.then = "executing"
  <2>1. lock /\ runs = 1
    BY <1>1, <1>2 DEF WatchInv, RecordInv, LockInv, ResultInv, At, Writing,
       Holding, Waiting
  <2>2. QED
    BY <1>1, <1>2, <2>1 DEF StartInv
<1>3. CASE io.then # "executing"
  <2>1. /\ Updated.query_status = info.query_status
        /\ io.then \notin {"phase", "tail"} => Updated = info
        /\ io.then = "tail" => Updated.lock_status = "released"
    BY <1>3 DEF Updated, ClientsTypeOK
  <2>2. info' = Updated /\ saved' \in {saved, Updated}
    BY DEF SavesInfo
  <2>3. info'.query_status = "verified" \/ saved'.query_status = "verified" => runs = 1
    BY <2>1, <2>2 DEF StartInv
  <2>4. ASSUME faults'.crash = 0, info'.query_status = "verified",
               info'.lock_status = "held"
        PROVE  lock'
    <3>1. At \notin {"start", "phase"}
      BY <1>1, <2>3, <2>4, PastRecovery
    <3>2. io.then \notin {"phase", "tail"}
      BY <1>1, <2>1, <2>2, <2>4, <3>1 DEF At, Writing
    <3>3. QED
      BY <1>1, <2>1, <2>2, <2>4, <3>2 DEF StartInv
  <2>5. QED
    BY <1>1, <2>3, <2>4 DEF StartInv
<1>4. QED
  BY <1>2, <1>3

\* Every step keeps what the record tells of the start.
LEMMA StartStep ==
  ASSUME WatchInv, ClientsTypeOK, StartInv, [RNext]_allVars
  PROVE  StartInv'
<1> DEFINE Same == UNCHANGED fields \/ (info' = info /\ saved' \in {info, saved})
<1>1. ASSUME QuietStep \/ LoudStep, Same PROVE StartInv'
  BY <1>1, StartKept DEF fields
<1>2. ASSUME SavesInfo(info) PROVE Same
  BY <1>2 DEF SavesInfo
<1> HIDE DEF Same
<1>3. ASSUME UNCHANGED fields PROVE Same
  BY <1>3 DEF Same
<1>4. CASE UNCHANGED allVars
  BY <1>1, <1>3, <1>4 DEF allVars, QuietStep
<1>5. CASE TaskMoves
  BY <1>1, <1>3, <1>5, StartSaved DEF TaskMoves, QuietStep, LoudStep
<1>6. CASE OthersMove
  <2>1. saved' = info /\ UNCHANGED info => Same
    BY DEF Same
  <2>2. QED
    BY <1>1, <1>2, <1>3, <1>6, <2>1 DEF OthersMove, QuietStep, LoudStep
<1>7. CASE ServiceStops
  BY <1>1, <1>3, <1>7 DEF ServiceStops, QuietStep, LoudStep
<1>8. CASE SaveOnShutdown /\ SavesInfo([info EXCEPT !.lock_status = "released"])
  <2>1. /\ info' = [info EXCEPT !.lock_status = "released"] /\ saved' \in {saved, info'}
        /\ info'.query_status = info.query_status /\ info'.lock_status = "released"
    BY <1>8 DEF SavesInfo, ClientsTypeOK
  <2>2. QED
    BY <1>8, <2>1, StartKept DEF LoudStep
<1>9. CASE Restart /\ info' = saved /\ UNCHANGED saved
  <2>1. faults.crash # 0
    BY <1>9 DEF WatchInv, FirstLifeInv, Restart
  <2>2. QED
    BY <1>9, <2>1, StartKept DEF QuietStep
<1>10. CASE SubmitAnswered
  <2>1. info' = NoInfo /\ saved' \in {saved, NoInfo} /\ NoInfo.query_status = "pending"
    BY <1>10 DEF SubmitAnswered, SavesInfo, NoInfo
  <2>2. QED
    BY <1>10, <2>1, StartKept DEF SubmitAnswered, QuietStep
<1>11. CASE ClientStep /\ ~SubmitAnswered
  BY <1>1, <1>2, <1>3, <1>11
  DEF ClientStep, Follow, Look, LookInVain, Leave, ShowAnswered, CancelAnswered,
      RequestFails, QuietStep, LoudStep
<1>12. QED
  BY <1>4, <1>5, <1>6, <1>7, <1>8, <1>9, <1>10, <1>11 DEF RNext, ServiceReturns

\* At first nothing is verified.
LEMMA StartInit == RInit => StartInv
BY DEF RInit, StartInv, NoInfo

\* verify_start: a start is verified only when the program ran, and while the
\* watch goes on in the daemon's first life only under its lock.
THEOREM VerifiedCorrect == RSpec => VerifiedMeansStarted
<1>1. ASSUME WatchInv, StartInv, [RNext]_allVars, start' = "verified", start # "verified"
      PROVE  runs = 1 /\ (mem.state = "active" /\ faults.crash = 0 => lock)
  <2>1. ShowAnswered /\ VerifiesStart
    BY <1>1
    DEF RNext, allVars, clients, TaskMoves, OthersMove, ServiceStops,
        ServiceReturns,
        ClientStep, Follow, Look, LookInVain, Leave, SubmitAnswered, CancelAnswered,
        RequestFails, ShowAnswered, Starts
  <2>2. pc # "save"
    BY <2>1 DEF ShowAnswered, Awaiting
  <2>3. QED
    BY <1>1, <2>1, <2>2 DEF StartInv, VerifiesStart
<1>2. WatchInv /\ ClientsTypeOK /\ StartInv /\ [RNext]_allVars
        => ClientsTypeOK' /\ StartInv'
  BY ClientsStep, StartStep DEF WatchInv
<1>3. WatchInv /\ StartInv /\ [RNext]_allVars
        => (start' = "verified" /\ start # "verified"
              => runs = 1 /\ (mem.state = "active" /\ faults.crash = 0 => lock))
  BY <1>1
<1>4. QED
  BY <1>2, <1>3, WatchKept, ClientsInit, StartInit, PTL DEF RSpec,
     VerifiedMeansStarted
=============================================================================
