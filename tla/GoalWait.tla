------------------------------ MODULE GoalWait ------------------------------
(***************************************************************************)
(* How an external wait of a goal begins: goal.py wait prepares it and     *)
(* submits its watch to the service, the watch takes its lock, writes the  *)
(* startup receipt and polls the goal, goal.py activate-wait turns the     *)
(* prepared wait into an active one, and only then the program starts.     *)
(* Composed of module Goal, for the goal's file with its one external      *)
(* node, and of the command's process, the activating process, the service *)
(* and its watches.                                                        *)
(*                                                                         *)
(* Each of them can be at any point when another one moves: the request    *)
(* times out but is handled later, the command is killed between its       *)
(* steps, the deadline passes, the watch is cancelled, the service crashes *)
(* and resumes its watches.  Once its program has started a watch is       *)
(* module Watch; here it ends at any time.                                 *)
(*                                                                         *)
(* A definition followed by one of nearly the same name and parameters is  *)
(* its deliberately wrong variant, used by no action.                      *)
(***************************************************************************)
EXTENDS Naturals

CONSTANTS MaxIds,   \* bound: watch ids handed out
          Crashes   \* bound: crashes of the service

Node == 1
External == [kind |-> "external", read_only |-> FALSE, write_paths |-> {}, inputs |-> {}]

ASSUME GoalWaitAssumption == MaxIds \in Nat /\ Crashes \in Nat

VARIABLES
  status, verified, nodes, ids, settled,  \* of module Goal
  cmd,       \* where the command that prepared a wait is
  pending,   \* ids of submit requests the service has not handled
  rec,       \* the watch's record: none, activating, started, and how it
             \* is over: ended, or given_up without a start
  held,      \* watches that hold their lock
  polling,   \* watches that have come to polling the goal
  looked,    \* watches that saw their wait prepared and go on to the clock
  receipts,  \* watches whose startup receipt is written
  past,      \* watches whose activation deadline has passed, without a start
  cancelled, \* watches that were cancelled, or failed, before their program
  activating,\* the activation being made: none, or its id and how far it is
  up, crashes

watches == <<rec, held, polling, looked, receipts, cancelled>>
process == <<cmd, pending>>
service == <<up, crashes>>

Uuids == 1 .. MaxIds
NoActivation == [id |-> 0, pc |-> "none"]

\* For the goal a watch holds its lock as long as an activation that saw it
\* held is being made.
G == INSTANCE Goal WITH Size <- 1, Plan <- <<External>>,
                        locks <- held \cup ({activating.id} \ {0})
goal == <<status, verified, nodes, ids, settled>>
vars == <<goal, process, watches, past, activating, service>>

wait == nodes[Node].wait
IsWait(phase, i) == wait = [phase |-> phase, watch_id |-> i]

\* The lock of the goal's file, which the one activation holds meanwhile.
FileFreeToAll == TRUE
FileFree == activating.pc # "checked"

-----------------------------------------------------------------------------
(* Other commands on the goal.  A goal that is finished is for its waits    *)
(* as one that is cancelled, so verify and finish are left out.            *)

NodeCommand ==
  \/ G!add_node(Node, {}, {}) \/ G!start_node(Node) \/ G!complete_node(Node)
  \/ G!fail_node(Node) \/ G!retry_node(Node)
  \/ \E i \in 1 .. ids : G!abort_external_wait(Node, i) \/ G!wake_node(Node, i)

StatusCommand == G!pause \/ G!resume \/ G!cancel

GoalCommand ==
  /\ FileFree
  /\ UNCHANGED <<process, watches, past, activating, service>>
  /\ NodeCommand \/ StatusCommand

-----------------------------------------------------------------------------
(* goal.py wait: prepare, submit, verify the receipt, or roll back.        *)

Goes(i, pc) == cmd' = [cmd EXCEPT ![i] = pc]

command_wait ==
  /\ FileFree
  /\ UNCHANGED <<pending, watches, past, activating, service>>
  /\ G!prepare_external_wait(Node)
  /\ Goes(ids + 1, "prepared")

\* Nobody listens when the service is down.
SendSubmit(i) ==
  /\ cmd[i] = "prepared"
  /\ \/ up /\ Goes(i, "sent") /\ pending' = pending \cup {i}
     \/ ~up /\ Goes(i, "failing") /\ UNCHANGED pending
  /\ UNCHANGED <<goal, watches, past, activating, service>>

\* Five seconds without an answer, or the connection is lost; the request may
\* be handled all the same.
RequestFails(i) ==
  /\ cmd[i] \in {"sent", "answered"}
  /\ Goes(i, "failing")
  /\ UNCHANGED <<goal, pending, watches, past, activating, service>>

\* The answer is read, then the receipt looked at.
SeeReceipt(i) ==
  /\ cmd[i] = "answered" /\ i \in receipts
  /\ Goes(i, "verified")
  /\ UNCHANGED <<goal, pending, watches, past, activating, service>>

ReceiptMissing(i) ==
  /\ cmd[i] = "answered" /\ i \notin receipts
  /\ Goes(i, "failing")
  /\ UNCHANGED <<goal, pending, watches, past, activating, service>>

\* fail: the wait is aborted, or that is refused and the command says so.
RollBackKeepingId(i) ==
  /\ cmd[i] = "failing"
  /\ FileFree
  /\ UNCHANGED <<pending, watches, past, activating, service>>
  /\ \/ G!abort_external_wait_kept_id(Node, i) /\ Goes(i, "rolled_back")
     \/ /\ \/ wait.watch_id # i
           \/ status \notin {"open", "paused"}
        /\ Goes(i, "not_rolled_back") /\ UNCHANGED goal
RollBack(i) ==
  /\ cmd[i] = "failing"
  /\ FileFree
  /\ UNCHANGED <<pending, watches, past, activating, service>>
  /\ \/ G!abort_external_wait(Node, i) /\ Goes(i, "rolled_back")
     \/ /\ \/ wait.watch_id # i
           \/ status \notin {"open", "paused"}
        /\ Goes(i, "not_rolled_back") /\ UNCHANGED goal

-----------------------------------------------------------------------------
(* goal.py activate-wait: receipt, clock and lock are looked at, then the  *)
(* goal's file is replaced; it is locked throughout, the watch is not.     *)

CheckActivation(i) ==
  /\ activating = NoActivation
  /\ status = "open" /\ nodes[Node].status = "running" /\ IsWait("prepared", i)
  /\ i \in receipts /\ i \notin past
  /\ i \in held
  /\ activating' = [id |-> i, pc |-> "checked"]
  /\ UNCHANGED <<goal, process, watches, past, service>>

CommitActivation ==
  /\ activating.pc = "checked"
  /\ activating' = [activating EXCEPT !.pc = "committed"]
  /\ UNCHANGED <<process, watches, past, service, ids, settled>>
  /\ G!Update(Node, [nodes[Node] EXCEPT !.status = "waiting",
                       !.wait = [phase |-> "active", watch_id |-> activating.id]])

\* The command ends; it may be killed before it commits.
EndActivation ==
  /\ activating # NoActivation
  /\ activating' = NoActivation
  /\ UNCHANGED <<goal, process, watches, past, service>>

-----------------------------------------------------------------------------
(* The service and its watches.                                            *)

Answer(i, pc) == cmd' = IF cmd[i] = "sent" THEN [cmd EXCEPT ![i] = pc] ELSE cmd

HandleSubmit(i) ==
  /\ up /\ i \in pending
  /\ pending' = pending \ {i}
  /\ \/ Answer(i, "answered") /\ rec' = [rec EXCEPT ![i] = "activating"]
     \* No notification channel, or the registry could not be saved.
     \/ Answer(i, "failing") /\ UNCHANGED rec
  /\ UNCHANGED <<goal, held, polling, looked, receipts, past, cancelled,
                 activating, service>>

\* The first step of _watch, also of one that is resumed.
TakeLock(i) ==
  /\ up /\ rec[i] \in {"activating", "started"} /\ i \notin held
  /\ held' = held \cup {i}
  /\ UNCHANGED <<goal, process, rec, polling, looked, receipts, past, cancelled,
                 activating, service>>

\* The first of _activate_goal_wait; a watch that cannot write it has failed.
WriteReceipt(i) ==
  /\ up /\ rec[i] = "activating" /\ i \in held \ polling
  /\ polling' = polling \cup {i}
  /\ \/ receipts' = receipts \cup {i} /\ UNCHANGED cancelled
     \/ receipts' \in {receipts, receipts \cup {i}} /\ cancelled' = cancelled \cup {i}
  /\ UNCHANGED <<goal, process, rec, held, looked, past, activating, service>>

EndWatch(i, how) ==
  /\ rec' = [rec EXCEPT ![i] = how]
  /\ held' = held \ {i}
  /\ polling' = polling \ {i}
  /\ looked' = looked \ {i}
  /\ UNCHANGED <<goal, process, receipts, past, cancelled,
                 activating, service>>

Polls(i) == up /\ rec[i] = "activating" /\ i \in polling

\* One look of _activate_goal_wait at the cancel event and the goal.
StartsIfWaiting(i) == nodes[Node].status = "waiting"
StartsIf(i) == nodes[Node].status = "waiting" /\ IsWait("active", i)
StillPrepared(i) == nodes[Node].status = "running" /\ IsWait("prepared", i)

SeeActive(i) ==
  /\ Polls(i) /\ i \notin looked /\ i \notin cancelled
  /\ StartsIf(i)
  /\ rec' = [rec EXCEPT ![i] = "started"]
  /\ past' = past \ {i}
  /\ UNCHANGED <<goal, process, held, polling, looked, receipts, cancelled,
                 activating, service>>

SeePrepared(i) ==
  /\ Polls(i) /\ i \notin looked /\ i \notin cancelled
  /\ StillPrepared(i)
  /\ looked' = looked \cup {i}
  /\ UNCHANGED <<goal, process, rec, held, polling, receipts, past, cancelled,
                 activating, service>>

SeeInvalid(i) ==
  /\ Polls(i) /\ i \notin looked
  /\ \/ i \in cancelled
     \/ ~StartsIf(i) /\ ~StillPrepared(i)
  /\ EndWatch(i, "given_up")

\* Then at the clock.
LookAgainAlways(i) ==
  /\ Polls(i) /\ i \in looked
  /\ looked' = looked \ {i}
  /\ UNCHANGED <<goal, process, rec, held, polling, receipts, past, cancelled,
                 activating, service>>
LookAgain(i) ==
  /\ Polls(i) /\ i \in looked /\ i \notin past
  /\ looked' = looked \ {i}
  /\ UNCHANGED <<goal, process, rec, held, polling, receipts, past, cancelled,
                 activating, service>>

GiveUpEarly(i) ==
  /\ Polls(i) /\ i \in looked
  /\ EndWatch(i, "given_up")
GiveUp(i) ==
  /\ Polls(i) /\ i \in looked /\ i \in past
  /\ EndWatch(i, "given_up")

\* The program, its delivery and the wait for the root are over.
EndStarted(i) ==
  /\ up /\ rec[i] = "started" /\ i \in held
  /\ EndWatch(i, "ended")

\* waitctl cancel, or the watch fails, before the program.
CancelWatch(i) ==
  /\ up /\ rec[i] = "activating" /\ i \notin cancelled
  /\ cancelled' = cancelled \cup {i}
  /\ UNCHANGED <<goal, process, rec, held, polling, looked, receipts, past,
                 activating, service>>

DeadlinePasses(i) ==
  /\ rec[i] = "activating" /\ i \notin past
  /\ past' = past \cup {i}
  /\ UNCHANGED <<goal, process, watches, activating, service>>

\* Requests nobody has read are lost with their connections; the records and
\* their deadlines are on disk.  (A cancelled record is not resumed.)
Crash ==
  /\ up /\ crashes < Crashes
  /\ up' = FALSE /\ crashes' = crashes + 1
  /\ held' = {} /\ polling' = {} /\ looked' = {} /\ pending' = {}
  /\ rec' = [i \in Uuids |-> IF i \in cancelled THEN "given_up" ELSE rec[i]]
  /\ UNCHANGED <<goal, cmd, receipts, past, cancelled, activating>>

Restart ==
  /\ ~up
  /\ up' = TRUE
  /\ UNCHANGED <<goal, process, watches, past, activating, crashes>>

-----------------------------------------------------------------------------
Init ==
  /\ cmd = [i \in Uuids |-> "none"] /\ pending = {}
  /\ rec = [i \in Uuids |-> "none"]
  /\ held = {} /\ polling = {} /\ looked = {}
  /\ receipts = {} /\ past = {} /\ cancelled = {}
  /\ activating = NoActivation
  /\ up = TRUE /\ crashes = 0
  /\ G!Init

Command(i) == \/ SendSubmit(i) \/ RequestFails(i) \/ SeeReceipt(i)
              \/ ReceiptMissing(i) \/ RollBack(i)

WatchStep(i) == \/ TakeLock(i) \/ WriteReceipt(i)
                \/ SeeActive(i) \/ SeePrepared(i) \/ SeeInvalid(i)
                \/ LookAgain(i) \/ GiveUp(i) \/ EndStarted(i)

Next ==
  \/ GoalCommand
  \/ command_wait
  \/ CommitActivation \/ EndActivation
  \/ Crash \/ Restart
  \/ \E i \in Uuids : \/ Command(i) \/ CheckActivation(i)
                      \/ HandleSubmit(i) \/ WatchStep(i)
                      \/ CancelWatch(i) \/ DeadlinePasses(i)

Spec == Init /\ [][Next]_vars

\* The service runs what is ready and is started again, the clock goes on.  No
\* root has to activate, and a command may be killed, by its caller or by the
\* service after 30 seconds: it then takes no more steps and rolls nothing back.
Fairness ==
  /\ \A i \in Uuids : WF_vars(WatchStep(i)) /\ WF_vars(DeadlinePasses(i))
  /\ WF_vars(Restart)

FairSpec == Spec /\ Fairness
=============================================================================
