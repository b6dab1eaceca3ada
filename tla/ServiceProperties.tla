-------------------------- MODULE ServiceProperties --------------------------
(***************************************************************************)
(* What starting, stopping and serving promise each other, when several    *)
(* clients start and stop the service at once and services are killed.     *)
(***************************************************************************)
EXTENDS Service

\* Every variable has its type; whoever holds the lock is there to free it.
TypeOK ==
  /\ svc \in [Processes -> {"unborn", "starting", "refused", "locked", "serving",
                            "stopping", "closed", "unlinked", "gone"}]
  /\ lock \in Alive \cup Clients \cup {Nobody}
  /\ path \in Processes \cup {Nobody}
  /\ client \in [Clients -> {"idle", "spawning", "pinging", "started", "start_failed",
                             "awaiting", "probing", "stopped", "stop_failed"}]
  /\ target \in [Clients -> Processes \cup {Nobody}]
  /\ stops \in 0 .. Stops /\ kills \in 0 .. Kills

\* The services that read and write the registry (acquire_daemon_lock).
Owners == {p \in Processes : svc[p] \in {"locked", "serving", "stopping", "closed", "unlinked"}}

\* At most one service owns the registry.
OneService == \A p, q \in Owners : p = q

\* A service that serves is reached by the socket's path: neither a predecessor
\* that is still leaving nor another start takes the path away from it.
ServingIsReached == \A p \in Processes : Serving(p) => path = p

\* There is one service, and its clients reach it.
OneReachableService == OneService /\ ServingIsReached

\* When stop reports success the service it asked has ended, its watches'
\* tasks included (wait_for_daemon_stop).
StoppedIsGone ==
  \A c \in Clients : client[c] = "stopped" => svc[target[c]] = "gone"

\* Clients that start at once all get to a service, whoever's wins, unless
\* they stop waiting or a service is stopped or killed meanwhile.
StartSucceeds ==
  \A c \in Clients :
    client[c] = "pinging"
      ~> client[c] \in {"started", "start_failed"} \/ stops > 0 \/ kills > 0

=============================================================================
