---------------------------- MODULE ServiceProofs ----------------------------
(***************************************************************************)
(* Proofs that, for any number of clients, services and kills, one service *)
(* at most owns the registry, is reached by the socket's path while it     *)
(* serves, and has ended when stop says so.  The argument is the lock: it  *)
(* is held by exactly the service that may touch the path.                 *)
(***************************************************************************)
EXTENDS ServiceProperties, TLAPS

\* The types, without the claim on the lock's holder.
Types ==
  /\ svc \in [Processes -> {"unborn", "starting", "refused", "locked", "serving",
                            "stopping", "closed", "unlinked", "gone"}]
  /\ lock \in Processes \cup Clients \cup {Nobody}
  /\ path \in Processes \cup {Nobody}
  /\ client \in [Clients -> {"idle", "spawning", "pinging", "started", "start_failed",
                             "awaiting", "probing", "stopped", "stop_failed"}]
  /\ target \in [Clients -> Processes \cup {Nobody}]
  /\ stops \in 0 .. Stops /\ kills \in 0 .. Kills

\* A service holds the lock exactly while it is the owner; a client that tries
\* the lock has it.
LockIsOwnership ==
  /\ \A p \in Processes : p \in Owners <=> lock = p
  /\ \A c \in Clients : client[c] = "probing" => lock = c

\* The service a client waits for is leaving, and is gone once the client had
\* the lock.
Left(c) ==
  /\ client[c] = "awaiting"
       => /\ target[c] \in Processes
          /\ svc[target[c]] \in {"stopping", "closed", "unlinked", "gone"}
  /\ client[c] \in {"probing", "stopped"}
       => target[c] \in Processes /\ svc[target[c]] = "gone"

Leaving == \A c \in Clients : Left(c)

IInv == Types /\ LockIsOwnership /\ ServingIsReached /\ Leaving

-----------------------------------------------------------------------------
LEMMA InitInv == Init => IInv
BY ServiceAssumption
   DEF Init, IInv, Types, LockIsOwnership, Owners, ServingIsReached, Serving, Leaving, Left, Nobody

\* Every step keeps the types.
LEMMA StepTypes == IInv /\ [Next]_vars => Types'
<1> SUFFICES ASSUME IInv, [Next]_vars PROVE Types'
  OBVIOUS
<1> USE ServiceAssumption DEF IInv, Types, Becomes, Goes, Files, OfService
<1>1. ASSUME NEW p \in Processes, ServiceStep(p) PROVE Types'
  BY <1>1 DEF ServiceStep, Acquire, Serve, Close, Leave
<1>2. ASSUME NEW p \in Processes, FailToServe(p) \/ Kill(p) \/ Terminate(p) PROVE Types'
  BY <1>2 DEF FailToServe, Kill, Terminate
<1>3. ASSUME NEW c \in Clients, StartStep(c) PROVE Types'
  BY <1>3 DEF StartStep, Ping, Spawn, PingAnswered, StartFails
<1>4. ASSUME NEW c \in Clients, StopStep(c) \/ Again(c) PROVE Types'
  BY <1>4 DEF StopStep, Stop, TryLock, ReleaseProbe, StopFails, Again
<1>5. CASE UNCHANGED vars
  BY <1>5 DEF vars
<1> QED
  BY <1>1, <1>2, <1>3, <1>4, <1>5 DEF Next

\* The lock changes hands only when nobody has it or its holder lets go.
LEMMA StepLock == IInv /\ [Next]_vars => LockIsOwnership'
<1> SUFFICES ASSUME IInv, [Next]_vars PROVE LockIsOwnership'
  OBVIOUS
<1> USE ServiceAssumption
    DEF IInv, Types, LockIsOwnership, Owners, Becomes, Goes, Files, OfService, Nobody
<1>1. ASSUME NEW p \in Processes, ServiceStep(p) PROVE LockIsOwnership'
  <2>1. CASE Acquire(p)
    BY <2>1 DEF Acquire
  <2>2. CASE Serve(p)
    BY <2>2 DEF Serve
  <2>3. CASE Close(p)
    BY <2>3 DEF Close
  <2>4. CASE Leave(p)
    BY <2>4 DEF Leave
  <2> QED
    BY <1>1, <2>1, <2>2, <2>3, <2>4 DEF ServiceStep
<1>2. ASSUME NEW p \in Processes, FailToServe(p) \/ Kill(p) \/ Terminate(p)
      PROVE  LockIsOwnership'
  BY <1>2 DEF FailToServe, Kill, Terminate, Alive
<1>3. ASSUME NEW c \in Clients, StartStep(c) PROVE LockIsOwnership'
  BY <1>3 DEF StartStep, Ping, Spawn, PingAnswered, StartFails
<1>4. ASSUME NEW c \in Clients, Stop(c) \/ StopFails(c) \/ Again(c) PROVE LockIsOwnership'
  BY <1>4 DEF Stop, StopFails, Again, Reaches, Serving
<1>5. ASSUME NEW c \in Clients, TryLock(c) PROVE LockIsOwnership'
  BY <1>5 DEF TryLock
<1>6. ASSUME NEW c \in Clients, ReleaseProbe(c) PROVE LockIsOwnership'
  <2>1. lock = c /\ lock' = Nobody /\ UNCHANGED svc /\ client' = [client EXCEPT ![c] = "stopped"]
    BY <1>6 DEF ReleaseProbe
  <2>2. \A p \in Processes : p \notin Owners /\ lock' # p
    BY <2>1
  <2>3. \A d \in Clients : client'[d] # "probing"
    BY <2>1
  <2> QED
    BY <2>1, <2>2, <2>3
<1>7. CASE UNCHANGED vars
  BY <1>7 DEF vars
<1> QED
  BY <1>1, <1>2, <1>3, <1>4, <1>5, <1>6, <1>7 DEF Next, StopStep

\* The path leads to the service that serves: only the lock's holder moves it.
LEMMA StepPath == IInv /\ [Next]_vars => ServingIsReached'
<1> SUFFICES ASSUME IInv, [Next]_vars PROVE ServingIsReached'
  OBVIOUS
<1> USE ServiceAssumption
    DEF IInv, Types, LockIsOwnership, Owners, ServingIsReached, Serving, Becomes, Goes, Files,
        OfService, Nobody
<1>1. ASSUME NEW p \in Processes, ServiceStep(p) PROVE ServingIsReached'
  <2>1. CASE Acquire(p)
    BY <2>1 DEF Acquire
  <2>2. CASE Serve(p)
    BY <2>2 DEF Serve
  <2>3. CASE Close(p)
    BY <2>3 DEF Close
  <2>4. CASE Leave(p)
    BY <2>4 DEF Leave
  <2> QED
    BY <1>1, <2>1, <2>2, <2>3, <2>4 DEF ServiceStep
<1>2. ASSUME NEW p \in Processes, FailToServe(p) \/ Kill(p) \/ Terminate(p)
      PROVE  ServingIsReached'
  BY <1>2 DEF FailToServe, Kill, Terminate
<1>3. ASSUME NEW c \in Clients, StartStep(c) \/ StopStep(c) \/ Again(c)
      PROVE  ServingIsReached'
  BY <1>3 DEF StartStep, Ping, Spawn, PingAnswered, StartFails, StopStep, Stop, TryLock,
              ReleaseProbe, StopFails, Again, Reaches
<1>4. CASE UNCHANGED vars
  BY <1>4 DEF vars
<1> QED
  BY <1>1, <1>2, <1>3, <1>4 DEF Next

\* A service that was asked to stop only goes on leaving, and while it has not
\* left it has the lock the client tries for.
LEMMA StepLeaving == IInv /\ [Next]_vars => Leaving'
<1> SUFFICES ASSUME IInv, [Next]_vars, NEW d \in Clients PROVE Left(d)'
  BY DEF Leaving
<1> USE ServiceAssumption
    DEF IInv, Types, Leaving, Left, Becomes, Goes, Files, OfService, Nobody
<1>1. ASSUME NEW p \in Processes, ServiceStep(p) PROVE Left(d)'
  <2>1. CASE Acquire(p)
    BY <2>1 DEF Acquire
  <2>2. CASE Serve(p)
    BY <2>2 DEF Serve
  <2>3. CASE Close(p)
    BY <2>3 DEF Close
  <2>4. CASE Leave(p)
    BY <2>4 DEF Leave
  <2> QED
    BY <1>1, <2>1, <2>2, <2>3, <2>4 DEF ServiceStep
<1>2. ASSUME NEW p \in Processes, FailToServe(p) \/ Kill(p) \/ Terminate(p) PROVE Left(d)'
  BY <1>2 DEF FailToServe, Kill, Terminate, Alive
<1>3. ASSUME NEW c \in Clients, StartStep(c) PROVE Left(d)'
  BY <1>3 DEF StartStep, Ping, Spawn, PingAnswered, StartFails
<1>4. ASSUME NEW c \in Clients, Stop(c) PROVE Left(d)'
  BY <1>4 DEF Stop, Reaches, Serving
<1>5. ASSUME NEW c \in Clients, TryLock(c) PROVE Left(d)'
  <2>1. target[c] \in Processes => target[c] \notin Owners
    BY <1>5 DEF TryLock, LockIsOwnership
  <2> QED
    BY <1>5, <2>1 DEF TryLock, Owners
<1>6. ASSUME NEW c \in Clients, ReleaseProbe(c) \/ StopFails(c) \/ Again(c) PROVE Left(d)'
  BY <1>6 DEF ReleaseProbe, StopFails, Again
<1>7. CASE UNCHANGED vars
  BY <1>7 DEF vars
<1> QED
  BY <1>1, <1>2, <1>3, <1>4, <1>5, <1>6, <1>7 DEF Next, StopStep

\* The invariant holds in every reachable state.
LEMMA Inductive == Spec => []IInv
<1>1. IInv /\ [Next]_vars => IInv'
  BY StepTypes, StepLock, StepPath, StepLeaving DEF IInv
<1> QED
  BY InitInv, <1>1, PTL DEF Spec

-----------------------------------------------------------------------------
\* The types are right, and whoever has the lock lives to free it
\* (acquire_daemon_lock and the kernel's release of a dead holder's lock).
THEOREM ServiceTypeCorrect == Spec => []TypeOK
<1>1. IInv => TypeOK
  BY DEF IInv, Types, LockIsOwnership, Owners, TypeOK, Alive
<1> QED
  BY Inductive, <1>1, PTL

\* One service at most owns the registry, whatever is started, stopped and
\* killed when (acquire_daemon_lock, serve).
THEOREM OneServiceCorrect == Spec => []OneService
<1>1. IInv => OneService
  BY DEF IInv, LockIsOwnership, Owners, OneService
<1> QED
  BY Inductive, <1>1, PTL

\* The socket's path leads to the service that serves (acquire_daemon_lock
\* removes a socket under the lock only, serve frees the lock last).
THEOREM ReachedCorrect == Spec => []ServingIsReached
<1>1. IInv => ServingIsReached
  BY DEF IInv
<1> QED
  BY Inductive, <1>1, PTL

\* A stop that reports success was of a service that is gone
\* (wait_for_daemon_stop).
THEOREM StoppedCorrect == Spec => []StoppedIsGone
<1>1. IInv => StoppedIsGone
  BY DEF IInv, Leaving, Left, StoppedIsGone
<1> QED
  BY Inductive, <1>1, PTL

\* There is one service, and it is the one its clients reach.
THEOREM OneReachableCorrect == Spec => []OneReachableService
<1>1. OneService /\ ServingIsReached => OneReachableService
  BY DEF OneReachableService
<1> QED BY <1>1, OneServiceCorrect, ReachedCorrect, PTL
=============================================================================
