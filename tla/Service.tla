------------------------------- MODULE Service -------------------------------
(***************************************************************************)
(* The life of the service as a process (waitd.py serve and                *)
(* acquire_daemon_lock) and the clients that start and stop it (waitctl.py *)
(* start_daemon, stop_daemon, wait_for_daemon_stop).  They meet in two     *)
(* files: the lock, held by one process at a time and freed by the kernel  *)
(* when that process ends, and the socket's path, which leads to whichever *)
(* process bound it last, also when that one no longer listens.            *)
(*                                                                         *)
(* A definition followed by one of nearly the same name and parameters is  *)
(* its deliberately wrong variant, used by no action.                      *)
(***************************************************************************)
EXTENDS Naturals

CONSTANTS Clients,    \* processes that run waitctl
          Processes,  \* services that can be spawned
          Stops,      \* bound: stop commands
          Kills       \* bound: services that are killed, told to end or fail

Nobody == "nobody"

ASSUME ServiceAssumption ==
  /\ Clients \cap Processes = {} /\ Nobody \notin Clients \cup Processes
  /\ Stops \in Nat /\ Kills \in Nat

VARIABLES
  svc,     \* where each service is
  lock,    \* who holds the lock file
  path,    \* which service the socket's path leads to
  client,  \* where each client is
  target,  \* the service a client spawned, or asked to stop
  stops, kills

vars == <<svc, lock, path, client, target, stops, kills>>

Alive == {p \in Processes : svc[p] \notin {"unborn", "refused", "gone"}}
Serving(p) == svc[p] \in {"serving", "stopping"}

\* A request reaches a service that listens on the path.
Reaches(p) == path = p /\ Serving(p)
Reachable  == \E p \in Processes : Reaches(p)

Becomes(p, pc) == svc' = [svc EXCEPT ![p] = pc]
Goes(c, pc)    == client' = [client EXCEPT ![c] = pc]
OfService == <<client, target, stops, kills>>
Files     == <<lock, path>>

-----------------------------------------------------------------------------
(* A service.                                                              *)

\* acquire_daemon_lock: whoever has the lock removes a socket left behind.
AcquireUnlinkingFirst(p) ==
  /\ svc[p] = "starting"
  /\ path' = Nobody
  /\ IF lock = Nobody THEN Becomes(p, "locked") /\ lock' = p
     ELSE Becomes(p, "refused") /\ UNCHANGED lock
  /\ UNCHANGED OfService
Acquire(p) ==
  /\ svc[p] = "starting"
  /\ IF lock = Nobody
       THEN Becomes(p, "locked") /\ lock' = p /\ path' = Nobody
       ELSE Becomes(p, "refused") /\ UNCHANGED Files
  /\ UNCHANGED OfService

\* The registry is loaded, the watches are restored, then the socket is bound.
Serve(p) ==
  /\ svc[p] = "locked"
  /\ Becomes(p, "serving") /\ path' = p
  /\ UNCHANGED <<lock, OfService>>

\* The registry is invalid, or the socket cannot be bound.
FailToServe(p) ==
  /\ svc[p] = "locked" /\ kills < Kills
  /\ kills' = kills + 1
  /\ Becomes(p, "closed")
  /\ UNCHANGED <<Files, client, target, stops>>

\* The shutdown event is seen: the server listens no more, the watches' tasks
\* are cancelled and awaited.
Close(p) ==
  /\ svc[p] = "stopping"
  /\ Becomes(p, "closed")
  /\ UNCHANGED <<Files, OfService>>

\* Last the socket's path goes, then the lock, with the process.
Leave(p) ==
  /\ \/ svc[p] = "closed"   /\ Becomes(p, "unlinked") /\ path' = Nobody /\ UNCHANGED lock
     \/ svc[p] = "unlinked" /\ Becomes(p, "gone") /\ lock' = Nobody /\ UNCHANGED path
  /\ UNCHANGED OfService

\* SIGKILL, or a crash: the kernel frees the lock, the path stays.
Kill(p) ==
  /\ p \in Alive /\ kills < Kills
  /\ kills' = kills + 1
  /\ Becomes(p, "gone")
  /\ lock' = IF lock = p THEN Nobody ELSE lock
  /\ UNCHANGED <<path, client, target, stops>>

\* SIGTERM, SIGINT: the handler sets the shutdown event.
Terminate(p) ==
  /\ svc[p] = "serving" /\ kills < Kills
  /\ kills' = kills + 1
  /\ Becomes(p, "stopping")
  /\ UNCHANGED <<Files, client, target, stops>>

-----------------------------------------------------------------------------
(* start_daemon.                                                           *)

Ping(c) ==
  /\ client[c] = "idle"
  /\ Goes(c, IF Reachable THEN "started" ELSE "spawning")
  /\ UNCHANGED <<svc, Files, target, stops, kills>>

Spawn(c) ==
  /\ client[c] = "spawning"
  /\ \E p \in Processes :
       /\ svc[p] = "unborn"
       /\ Becomes(p, "starting")
       /\ target' = [target EXCEPT ![c] = p]
  /\ Goes(c, "pinging")
  /\ UNCHANGED <<Files, stops, kills>>

\* Any service that answers will do.
PingAnsweredByOwn(c) ==
  /\ client[c] = "pinging" /\ Reaches(target[c])
  /\ Goes(c, "started")
  /\ UNCHANGED <<svc, Files, target, stops, kills>>
PingAnswered(c) ==
  /\ client[c] = "pinging" /\ Reachable
  /\ Goes(c, "started")
  /\ UNCHANGED <<svc, Files, target, stops, kills>>

\* Five seconds without an answer.
StartFails(c) ==
  /\ client[c] = "pinging" /\ ~Reachable
  /\ Goes(c, "start_failed")
  /\ UNCHANGED <<svc, Files, target, stops, kills>>

-----------------------------------------------------------------------------
(* stop_daemon.                                                            *)

Stop(c) ==
  /\ client[c] = "idle" /\ stops < Stops
  /\ stops' = stops + 1
  /\ \/ \E p \in Processes :
          /\ Reaches(p)
          /\ Becomes(p, "stopping")
          /\ target' = [target EXCEPT ![c] = p]
          /\ Goes(c, "awaiting")
     \/ ~Reachable /\ Goes(c, "stop_failed") /\ UNCHANGED <<svc, target>>
  /\ UNCHANGED <<Files, kills>>

\* wait_for_daemon_stop tries the service's own lock, and so holds it shortly.
TryPing(c) ==
  /\ client[c] = "awaiting" /\ ~Reachable
  /\ Goes(c, "stopped")
  /\ UNCHANGED <<svc, Files, target, stops, kills>>
TryLock(c) ==
  /\ client[c] = "awaiting" /\ lock = Nobody
  /\ lock' = c
  /\ Goes(c, "probing")
  /\ UNCHANGED <<svc, path, target, stops, kills>>

ReleaseProbe(c) ==
  /\ client[c] = "probing"
  /\ lock' = Nobody
  /\ Goes(c, "stopped")
  /\ UNCHANGED <<svc, path, target, stops, kills>>

StopFails(c) ==
  /\ client[c] = "awaiting" /\ lock # Nobody
  /\ Goes(c, "stop_failed")
  /\ UNCHANGED <<svc, Files, target, stops, kills>>

\* The next command.
Again(c) ==
  /\ client[c] \in {"started", "start_failed", "stopped", "stop_failed"}
  /\ Goes(c, "idle")
  /\ target' = [target EXCEPT ![c] = Nobody]
  /\ UNCHANGED <<svc, Files, stops, kills>>

-----------------------------------------------------------------------------
Init ==
  /\ svc = [p \in Processes |-> "unborn"]
  /\ lock = Nobody /\ path = Nobody
  /\ client = [c \in Clients |-> "idle"]
  /\ target = [c \in Clients |-> Nobody]
  /\ stops = 0 /\ kills = 0

ServiceStep(p) == Acquire(p) \/ Serve(p) \/ Close(p) \/ Leave(p)

StartStep(c) == Ping(c) \/ Spawn(c) \/ PingAnswered(c) \/ StartFails(c)
StopStep(c)  == Stop(c) \/ TryLock(c) \/ ReleaseProbe(c) \/ StopFails(c)

Next ==
  \/ \E p \in Processes : ServiceStep(p) \/ FailToServe(p) \/ Kill(p) \/ Terminate(p)
  \/ \E c \in Clients : StartStep(c) \/ StopStep(c) \/ Again(c)

Spec == Init /\ [][Next]_vars

\* A process runs until it ends; a client goes on pinging, and need not start
\* or stop anything.
Fairness ==
  /\ \A p \in Processes : WF_vars(ServiceStep(p))
  /\ \A c \in Clients : /\ WF_vars(PingAnswered(c))
                        /\ WF_vars(TryLock(c)) /\ WF_vars(ReleaseProbe(c))

FairSpec == Spec /\ Fairness
=============================================================================
