# A verification project for wait-skill

`waitd` is a local service that waits for programs on behalf of agent sessions and
wakes the session when a program ends. `goal` and `loop` are durable state files that
own such waits. This directory holds TLA+ models of that code, the TLC runs that check
them on small instances, and TLAPS proofs of the properties that matter most.

Source paths below are relative to the repository's `src/` (`waitd.py` and so on);
documents are quoted as `docs/...`. In `PROJECT.json`, `map` names for every definition
the lines it stands for.

## The system

| Part | State it keeps | Operations | Interacts with |
| --- | --- | --- | --- |
| Watcher (`waitd.py` `submit`, `cancel`, `_run_watch`, `_watch`, `_deliver`, ...) | one record per watch in memory and in the registry file; a result log; a lock file; the program's process group; the wake command | submit, cancel, activate, run, evaluate, deliver, await acknowledgement, fail, restore | the goal or loop file that owns the wait (read), the agent's session (wake), the file system |
| Goal graph (`goal.py`) | one JSON file per goal: status, verification, nodes, events | add, edit, prepare-agent, start, abort-agent, wait, activate-wait, abort-wait, wake, complete, fail, retry, verify, pause, resume, cancel, finish | reads the watcher's lock file and startup receipt; submits watches |
| Loop (`loop.py`) | one JSON file per loop: phase, next run, timer's watch id, optional goal | init, due, begin, complete, expire, cancel | the service registers a timer watch for it |
| Registry, reconciliation, state commands (`waitd.py` `save`, `reconcile_loops`, `StateCommandRunner`) | the registry file; known goals and loops; one queue per kind of state command | save with eviction of old watches, repair of missing timers, bounded subprocesses | all watches, all loop files |
| Requests and follow (`handle_client`, `dispatch`, `follow`) | a change event that is replaced at each change | one request per connection; streaming of records | Claude sessions that wait natively |
| Service process (`serve`, `acquire_daemon_lock`) | the service's lock file, the socket's path | start, serve, shut down, signals | the control client, other services |
| Control client (`waitctl.py`) | - | start and stop the service, submit a watch and verify its start | the service's socket and lock |
| Persistence and ownership (`runtime.py`) | - | atomic fsynced replacement, file lock, `watch_is_current` | everything |
| Codex adapter (`codex.py`) | a JSON-RPC connection | read status, resume, `turn/start`; exit codes 0, 70, 71, 75 | app-server |
| Polling (`polling.py`) | deadlines of one poll | repeated queries | run as a waiting program |
| Dashboard (`dashboard.py`, `assets`) | HTTP streams | views, edits as goal and loop commands | the service |
| Installer (`install_skill.py`) | - | copies files | - |

### What is hard

* **Failure between two writes.** A result goes to the log, then to memory, then to the
  registry; each can fail alone, and the service can die between any two. A loop's file
  is committed before its timer is registered. Recovery must infer from what it finds
  whether the program ran and whether the session was woken.
* **A wake is not idempotent.** A lost acknowledgement means "perhaps"; a second
  wake is as wrong as none.
* **Interleaving.** `_watch` is a coroutine: cancel requests, other watches' saves and
  shutdown come in at its awaits, and the owning goal or loop file changes under it at
  any time, because other processes edit it. `command_wait`, its watch and
  `activate-wait` are three processes with one file between them.
* **Late commands.** Goal and loop commands come from several processes, carry ids of
  dispatches, waits and events that may be over, and meet a file that was changed in the
  meantime. A request whose caller gave up may still be handled.
* **Shared objects.** The record's `result` is the very object `_watch` mutates.
* **Clocks.** A deadline can pass between the look at a clock and what is done about it;
  in `polling.py` the alarm can strike between any two statements.

`PROJECT.json` lists each hazard at its line with the properties that cover it.
Three have none, because the code does what the hazard says: the program a failed `started`
callback leaves behind (`waitd.py:196`), a cancelled end that becomes `failed`
(`waitd.py:641`), and the best-effort wake at `waitd.py:704`. Others are covered in part. The `note` of each says
what is not; see also "Conditions in the properties".

## The modules

| Component | Model | Properties | Instances | Theorems |
| --- | --- | --- | --- | --- |
| one watch | `Watch` | `WatchProperties` | `MCWatch` | `WatchProofs` |
| its clients | `Requests` (extends `Watch`) | `RequestsProperties` | `MCRequests` | `RequestsProofs` |
| one goal | `Goal` | `GoalProperties` | `MCGoal` | `GoalProofs` |
| a goal's external wait | `GoalWait` (an instance of `Goal` inside) | `GoalWaitProperties` | the `.cfg` alone | `GoalWaitProofs` |
| one loop and the registry | `Loop` | `LoopProperties` | `MCLoop` | `LoopProofs` |
| the service as a process | `Service` | `ServiceProperties` | `MCService` | `ServiceProofs` |
| one wake of a Codex thread | `Delivery` | `DeliveryProperties` | the `.cfg` alone | `DeliveryProofs` |
| one poll | `Poll` | `PollProperties` | the `.cfg` alone | `PollProofs` |

How they fit together: `Watch` takes the outcome of a wake attempt as given, `Delivery`
computes it. `Watch` sees of its owner only whether it still has the wait; `GoalWait` and
`Loop` hold the owner in full and are coarse about the watch. `GoalWait` implements
`Goal`, so whatever is checked or proved of `Goal` holds of it. `Requests` adds to every
step of `Watch` what the step publishes. `Service` is about processes and knows no watch.

In the model modules a definition followed by one of nearly the same name is a
deliberately wrong variant, the kind of slip a change of that code could make; no action
uses it. `PROJECT.json` pairs each property with one: put in place of the right
definition, TLC finds the property violated. (`abort_external_wait_kept_id` in `Goal` is
used by `RollBackKeepingId` in `GoalWait`, a wrong variant itself.)

### Watch - one watch from submission to its end

`Watch.tla` models the task `_run_watch` and everything it calls, for one watch, with the
requests, saves, other processes and service stops around it.

| Variable | Code |
| --- | --- |
| `args` | the submitted options: client, owner (`plain`, `goal`, `loop`), whether a session is to be woken |
| `owner`, `receipt` | what `watch_is_current` / `goal_wait_phase` read of this wait (`withdrawn` was never active, `gone` was); the startup file exists |
| `mem`, `disk`, `log`, `lock` | `daemon.watchers[id]`, the same record in the registry file, the result log, the flock |
| `pc`, `io` | where the task is; the write in progress and where the task goes after it |
| `res`, `code`, `linked`, `failing` | `_watch`'s locals; the record shares the result object; inside `_notify_watcher_failure` |
| `cancelSet` | the cancel event |
| `prog`, `runs`, `woken` | what really happened: the program's process, how often it started, whether a wake was (perhaps) accepted |
| `faults` | the failures that happened so far |

Every stretch of the coroutine between two awaits or file writes is one action, named for
what it does; the two writes of `_persist_result` are the separate steps `WriteLog` and
`SaveRecord`, each of which may fail and then continues at the handler the code has
there (`Handler`: `_watch`'s except clause, `run_program`'s callback, the sorting in
`_notify_watcher_failure`). Environment actions come in only at `Awaiting` (requests, other
saves, shutdown) or anywhere (`Crash`, `OwnerActivates`, `OwnerChanges`). A write that fails
may have replaced its file already, since `_atomic_write_text` can raise after `os.replace`. A
goal gives a wait up for good, as its ids are settled once; a loop may show one again, when its
linked goal is resumed. An owner's file that cannot be read for a moment is not modelled.

Abstractions: exit codes are `ok`, `error`, `cancelled`; `started`, `completed` and `queued`
notes are `delivered`, `busy`, `notification_unavailable` and `failed` are `failed`,
every `..._retrying` is `retrying`; output, texts and times are left out, and a comparison
with a clock may go either way. A lock file is assumed: `submit` and `parse_job_args` give
every watch one. The wake command is a step with one of the outcomes `run_program` and the
exit codes of `codex.py` allow; that a helper killed by a foreign signal may have woken its
session is left to `Delivery`. `restore`'s own save is left out, since it writes
only fields the model does not have; if it fails the service does not come up, which is the
state `down`. `OrphanExits` and `Crash` are the operating system.

### Requests - the clients of a watch

`Requests.tla` extends `Watch`: its actions are `Watch`'s, each with what it publishes. A
save that succeeds replaces the change event (`publish_change`), one that fails raises
before; `_notify_without_persistence` publishes what only memory has. `info` and `saved`
are the record's `query_status` and `lock_status`, which `verify_start` reads, in memory
and on disk. `follow` says where each follow request is: `looking` (runnable), `waiting` for
the event it holds, `answered`, `unknown` to the service, `left` (its timeout, or the
client hung up), `lost` with the service. `Look` reads the event and then the record without
an await between, as `follow` does. `start` is the submitting client: `SubmitAnswered`,
then `show` in a loop (`ShowAnswered`), at its deadline a cancel that meets the watch
wherever it is by then.

### Goal - the graph of one goal

`Goal.tla` models `GoalGraph` and `GoalStore.edit`. One command is one step: under the file
lock it loads, applies one operation, validates the result (`Valid`) and replaces the
file, or changes nothing, so a refused command is no step. `Commit` is that frame. There is
one action per operation, with the operation's own guards; what only `validate` refuses is
refused by `Commit`. Commands that carry a token or watch id may carry any id ever handed
out, also an old one. `Plan` fixes kind, write scope and inputs of each node,
dependencies are free. Node ids are numbers because a stored graph is sorted by id, which is
the order `ready_nodes` selects in. `validate_wait`, `_validate_node_lifecycle`,
`_validate_node_assignment`, `validate_verification` and `_validate_acyclic` each have their
definition; `Acyclic` says in one line what the depth-first search decides. `locks` is
what `lock_is_held` sees of the watchers, under the watch id, because `command_wait` names a
new lock file for every wait (an explicit `--lock-file` shared by two waits is not modelled);
`settled` is a history variable, read by no action.

Left out: titles, acceptance, artifacts (`complete` may be refused for them, which is no
step), results, times, the event history, and a goal without a session, which cannot
prepare waits.

### GoalWait - how a goal's external wait begins

`GoalWait.tla` composes the goal's file, as `INSTANCE Goal` with one external node, with
the processes around it.

| Variable | Code |
| --- | --- |
| `cmd` | where the process of `goal.py wait` is, per watch id: prepared, sent, answered, verified, failing, rolled back or refused that |
| `pending` | submit requests the service has not handled |
| `rec`, `held`, `polling`, `looked`, `receipts`, `past`, `cancelled` | per watch: its record, its lock, whether it has come to polling the goal, whether it saw its wait prepared and goes on to the clock, its startup receipt, its activation deadline, its cancel event |
| `activating` | the one `activate-wait` under way: what it checked, whether it committed |
| `up`, `crashes` | the service |

`command_wait` prepares and commits; `SendSubmit`, `RequestFails`, `SeeReceipt`,
`ReceiptMissing` and `RollBack` are `submit_prepared_wait` and `fail`. `HandleSubmit` may
come long after the caller gave up. `TakeLock` and `WriteReceipt` are a watch's way to its polling,
which it goes again when it is resumed; if the receipt cannot be written the watch fails.
`CheckActivation` and `CommitActivation` are the two
halves of one `activate-wait`: it holds the goal's file lock throughout (`FileFree`), but the
watch whose lock it tested can end in between. `SeePrepared`, `LookAgain` and `GiveUp` are
`_activate_goal_wait`'s look at the goal and then at the clock. `NodeCommand` and
`StatusCommand` are the goal's other operations, which anybody may run (`GoalCommand`).
`EndWatch` after the start
stands for all of `Watch`. `verify` and `finish` are left out: for its waits a finished goal
is as a cancelled one.

The refinement (`ImplementsGoal`) maps `Goal`'s `locks` to the locks that are held together
with the one the activation under way has seen held. That is what the atomic
`activate_external_wait` of `Goal` amounts to in the code: the activation commits as if the
lock it saw were still there.

### Loop - one loop and the service that keeps its timers

`Loop.tla` models `LoopState`, `LoopStore.edit`, and of the service `dispatch` of state
commands, `submit` and `restore` of timers, `save` with its eviction, and `reconcile_loops`.

| Variable | Code |
| --- | --- |
| `loop` | the file: status, phase, iteration, `watch_id`, `last_event_id` |
| `late` | `deadline_at` has been reached |
| `goal` | what `goal_is_open` reads of the linked goal and node: open, closed (paused, or the node dispatching or failed), over |
| `registry`, `disk` | the service's memory and the registry file: is the loop known, which timers are active, which watches have ended, and in which order they were updated (`at`) |
| `tasks` | timers whose watch runs |
| `requests` | per connection, and for the service's own restore: which command, and how far |
| `begun`, `ended`, `unread` | history: iterations by timer; timers the registry file has shown as ended; a save could not read the loop's file |

A command is `Ask` (its path is known and saved first), `Look` (it has the file lock and has
read the goal, whose lock it does not hold), `Run` (commit or refusal), then a
reconciliation by the service: `StartCancel`/`RunCancel`, `RegisterTimer`, `RepairFails` or
`NothingToRepair`. `Killed` is the 30-second bound. A crash takes the service's part of a
request, its process goes on (`served` is FALSE). `Restart` schedules what is active and
reconciles.

What a timer's watch does between its start and its end is the matter of `Watch`: when it is
due, how its wake is attempted, recorded, retried, and what a crash in between means. `Loop` has
what all that does to the registry: saves (`SaveAgain`) at any time, and one last (`EndTimer`),
which may also stay in memory when a failed watcher cannot save; a user may cancel a timer
(`CancelTimer`), also one whose task runs on. So a timer may be due at any time, a begin may
come before, after or without its watch's end, and a wake may come twice (`docs/loop.md:20`
makes that a no-op, which is `IterationsCounted`). `OtherEnds` fills the registry. Every save,
of whatever cause, drops old ended records; it protects the timer the loop's file shows if
it can read that file, and goes on if it cannot (`waitd.py:259`). A save that fails has
changed the memory and may have changed the file.

The goal is followed until the loop has ended: nothing reads it afterwards. A goal's file
that cannot be read, which `goal_is_open` takes for closed, is not modelled.

### Service - starting and stopping

`Service.tla` has the services that are spawned (`svc`), the lock file (`lock`), the socket's
path (`path`, which leads to whoever bound it last), and clients that run `start_daemon` and
`stop_daemon`. `Acquire` removes a stale socket only with the lock; `Close` and `Leave` are
`serve`'s way out, where the path goes before the lock does; `Kill` frees the lock and leaves
the path. `TryLock` and `ReleaseProbe` are `wait_for_daemon_stop`, which holds the service's
own lock for a moment. Protocol versions are taken to match, and `server.wait_closed`, with
the cancellation of the watches' tasks, is part of `Close`.

### Delivery - one wake of a Codex thread

`Delivery.tla` has the retry loop of `_deliver` (`pc`, `attempt`, `note`), the helper process
(`helper` is the method it has called, `exit` how it ended), the connection (`asked`,
`answer`) and the app-server's thread, which others use too (`thread`, `turns`). An answer
may be a result, a rejection or unusable; the connection may break and the helper's or the
service's deadline pass at any point (`Break`, `TimeOut`); what the app-server has not read
when the helper ends it may still read (`late`). `Verdict` is the classification of exit
codes. The app-server is external: it is known by the protocol `codex.py` follows. A
WebSocket, its frames and TLS are one connection that works or breaks.

### Poll - a polling program

`Poll.tla` models `poll`, `_time_limit` and `run_command` in ticks. `Tick` lets time pass
inside callbacks and the sleep; `Expire` is the signal handler, which may strike between any
two steps of the instant it is due at, also where no `try` meets it: inside `Popen`, which may
have forked, before the `try`, and inside the `finally` clauses. `slips` records what is left
then (a process running, a killed one not reaped, the handler not restored), and where the
alarm struck. That the interpreter or the system collects such a process later is not modelled.

## The runs

| Run | Instance | Shows |
| --- | --- | --- |
| `watch` | every client and notify setting, goal and loop; 2 attempts; up to 2 failed writes, 1 failed read and 1 service stop, 3 of these together | one start of the program at most, after activation and under the lock; an attempt is durable before it is made; no wake repeated, none after an answered cancel; `completed` means delivered; outcomes and ends stay; every watch ends |
| `requests` | 1 follower, a plain Codex and a plain Claude watch; 1 attempt; 2 failures out of failed writes, 1 failed read, 1 stop | no end is missed, a failure wakes the follower, what is answered is durable, a verified start ran, follow is answered |
| `goal` | an agent, an external and a local node, 3 ids | dependencies, write scopes, ids, frontier, ways out, endings; what a node was dispatched with stays until its own token or the goal's cancellation ends the dispatch |
| `goal_wait` | 2 waits after each other, no crash | rolled back waits never start; verified ones wait; activated ones were not given up; what is over stays out |
| `goal_wait_crash` | 1 wait, 2 crashes | the handshake implements `Goal`; a verified wait's watch is still there after restarts; every registered watch starts or gives up |
| `loop` | 1 client beside the service, 3 iterations, a linked goal, 1 other watch, 1 finished record kept, 1 fault, 1 crash | a timer that ended is not registered or restored again, although its loop waits on; iterations counted once and bounded; ends are final; a waiting loop gets its timer; a finished node's loop is cancelled |
| `service` | 2 clients, 3 services, 2 stops, 1 kill | one service owns the registry and is reached; stopped means gone; all simultaneous starts succeed |
| `delivery` | 3 attempts, 1 killed helper | one turn at most; what a recorded notification says is true, whatever is lost, late or rejected |
| `poll` | times up to 4 ticks, limits up to 3 | deadline, count of failures, what is left behind, and where alone; it ends |
| `unconfirmed_replayed`, `cancelled_still_wakes`, `loop_lost_timer` | violations | see "Where documentation and code part" |

**Why these bounds.** Two attempts are the smallest number with a retry, three the smallest
with a retry that follows another. One failed write can be any write, two reach failures
inside the handling of a failure. One stop reaches every recovery, and three failures
together let two of them meet it, before or after. A plain watch is left out of `watch`
because it behaves as a loop's whose owner never changes. Three goal nodes are the smallest
graph with a dependency, a conflicting pair and a bystander, or with a circle that is not a
pair; three ids allow a dispatch, its repetition and a wait, or a wait that is retried
twice. Two waits of one node are what it takes for a late request or rollback of the first
to meet the second; two crashes let a watch be resumed and lose its lock again. Three
iterations have a first, a repeated and a last timer; one kept record beside one other
watch, which stands for a new one once its record is dropped, is where eviction bites; the
command of one client and the service's own restore are two that reconcile; one fault is any
failed save, unreadable file or killed command. Three services let a start meet one that
leaves and one that starts. Four ticks let interval, query timeout, command timeout and
overall deadline fall together and apart in every order. All these bounds are lifted by the
proofs of the safety properties; the liveness properties are checked within them.

**Deadlock** is not checked where the system may stop: a finished watch, a completed goal, a
poll that returned have nothing left to do, and nobody is obliged to send a command. In
`delivery` it is checked but says little, since others go on using the thread; that nothing
is stuck is what the liveness properties say.

**Conditions in the properties.** They are results of the checking, not caution, and each
names a behaviour of the code:

* `GoalProgramNeedsActivation` asks that the goal's file once took the wait as active, not that
  it still does when the program starts: between the watch's look and the start another
  process may take the wait away.
* `ProgramUnderLock` knows a program that is `lost`: after a failed write, or a crash, nobody
  supervises it, with or without a lock.
* `CompletedMeansDelivered` and the first half of `WakeIsNotRepeated` hold while no write
  fails. With a failed write, `_watch` has already changed the shared result to `unconfirmed`
  while the record still says `awaiting_ack` and code 0; another watch's save makes that
  durable, and after a restart the watch is recorded as completed.
* `RecordStands` lets an ended watch change the name of its end: one that was cancelled while
  its task failed becomes `failed` (`waitd.py:641`).
* The second half of `WakeIsNotRepeated`, and the outcomes of `RecordStands`, exclude an
  unreadable log: it hides the attempt, or the outcome, from a failed watcher. Across a crash
  see `unconfirmed_replayed`.
* `NoEndMissed` and `FollowIsAnswered` hold while no write fails: a save that fails publishes
  nothing, though memory may already show the end; `FailureWakesFollowers` says where that
  is made good.
* `OutcomeIsDurable` excludes an unreadable log: a failed watcher that cannot read it replaces
  the outcome there, while the record in memory, which `follow` answers from during the
  watcher's own wake, still has it.
* `VerifiedMeansStarted` claims the lock only while the service has not crashed: a resumed
  record still shows the lock its predecessor held.
* `WatchFollowsWait` excludes waits whose deadline has passed or whose watch was cancelled:
  the deadline can pass between `activate-wait`'s look at the clock and its commit.
* `EndedTimerRests` ends with a save that could not read the loop's file: that save may drop
  the timer's record, and the next repair registers the timer anew. It is about timers whose end
  the registry file has shown. A wake that is repeated before that, by a crash or a failed save
  within the watch, is a matter of `Watch`: `WakeIsNotRepeated`, `unconfirmed_replayed`.
* `TimerRegistered` and `MonitorEnds` hold while nothing fails and begin where somebody
  reconciles: a running service does so only after a command.
* `OneTurnAtMost` and `RetriedMeansNoTurn` hold while no foreign signal ends a helper: the
  service takes that for a failure and retries, also after `turn/start`. `Watch` assumes so
  throughout.
* `NothingLeftBehind` says what an alarm may leave, and where alone: a running process from
  inside `Popen`, between it and the `try`, or before the kill of the `finally`; a killed one
  that is not reaped from the wait after it; the handler from `_time_limit`'s own `finally`.
* `StartSucceeds` ends its promise with a stop or a kill: either may come between.

**Fairness.** Only of what somebody runs whatever happens:

* `Watch`, `Requests`: weak fairness of the task (the event loop runs a ready task, and every
  wait in it has a deadline: program, activation, backoff, acknowledgement), of shutdown and
  restart (the next command of a session starts a stopped service), and of a follow request
  that can look. Nothing is assumed of requests, owners or other processes.
* `GoalWait`: each watch's steps, each deadline and the restart. Not of commands, which may be
  killed, nor of `activate-wait`, which nobody has to run.
* `Loop`: the process of a command that was started, the reconciliation that follows it, and
  the restart. Not of clients, and not of timers.
* `Service`: a service's own steps, a client's repeated ping being answered once a service can
  be reached, and a client's probe of the lock. Giving up (`StartFails`, `StopFails`) is never
  required.
* `Poll`: weak fairness of `Next`: the process runs and time passes.

### Where documentation and code part

Three divergences have a run that finds them:

1. `unconfirmed_replayed` - one crash between the save of an ambiguous Codex outcome and the
   save that leaves the notifying phase: the wake is attempted again, though
   `docs/clients.md:46` says it never is.
2. `cancelled_still_wakes` - a cancel whose save failed leaves the watch cancelled in memory
   and its task running on to the completion wake, though `docs/wait.md:82` says a cancelled
   watch sends none.
3. `loop_lost_timer` - a timer whose submission could not be saved stays in memory without a
   task; every later reconciliation takes it for registered, though `docs/loop.md:91` says a
   missing one is recreated.

These were met on the way, by other properties or in the reading, and have no run of their
own:

* A first attempt that reaches the log but not the registry is taken for made by the failed
  watcher, which wakes nobody (`waitd.py:668`; `docs/waitd.md:59` promises one best-effort
  wake). A delivered `watcher_failed` notice is attempted again when the watcher fails once
  more after a restart, because only logs of other events are kept (`waitd.py:332`).
* When the save in the `started` callback fails, the program is outside the `try` that would
  kill it (`waitd.py:196`; `docs/waitd.md:5`): the `lost` of `ProgramUnderLock`.
* `docs/clients.md:47` says ownership is rechecked before each attempt; the best-effort wake
  of a failed watcher whose record cannot be saved does not look at the goal's or loop's file
  again (`waitd.py:704`), so it wakes a session for a wait that was released. (An answered
  cancel does hold it back: `NoWakeAfterCancel`.)
* A helper ended by a foreign signal after `turn/start` is retried (`docs/clients.md:46`).
* A failed watcher looks for durable evidence in the log; when it cannot read it, it takes it
  for empty and writes its own result over the program's outcome (`waitd.py:332`;
  `docs/waitd.md:42` says a later watcher failure preserves that log).
* `follow` is to block "for a durable event" (docstring of `follow`, `waitd.py:609`), but it
  answers a cancellation that could not be saved (`waitd.py:515`). At its deadline
  `verify_start` cancels a watch that started since it looked last, and reports a failed
  start for a program that ran (`waitctl.py:141`; `docs/waitd.md:28`).
* A node that is dispatching counts as over for the loop that is linked to it
  (`loop.py:41`; `docs/loop.md:92` speaks of a completed node).
* An activation whose commit comes after the deadline it checked leaves the goal waiting for
  a watch that has given up (`goal.py:950`; `docs/goal.md:93`).
* A start that comes while another service is leaving spawns one that is refused the lock,
  and nobody spawns a second (`waitctl.py:93`; `docs/waitd.md:9` says that the service is
  started on demand).
* `polling.py:107` says that the query process is reaped on every exit; the exceptions are
  the `slips` of `Poll`, of which an alarm inside `Popen` after the fork leaves a process that
  `run_command` never had a handle of.

## The proofs

All theorems hold for all values of the constants that their module's assumption allows.
The assumptions are named (`WatchAssumption`, `GoalAssumption`, ...) and say only that bounds
are natural numbers (at least one attempt, one iteration, one tick), that flags are Boolean,
that a goal's plan is well formed, and that clients, services and watches of different kinds
are different. The bounds on faults, crashes, kills and ids are parameters, so the theorems
hold for any number of them.

| Theorem | States |
| --- | --- |
| `TypeCorrect` | the types of a watch |
| `RunOnceCorrect` | a watch's program is started once at most |
| `ActivationCorrect` | a goal's program starts only for a wait the goal's file took as active |
| `AttemptCorrect` | a wake command starts only with the attempt in registry and log |
| `CancelCorrect` | no wake starts after an answered cancel |
| `RecordCorrect` | `RecordInv`: registry, memory, log, result and task agree, whatever fails |
| `LockCorrect` | a supervised program runs under the lock; both end with the task |
| `CompletedCorrect` | completed means that the program exited and the event was delivered |
| `WakeCorrect` | a confirmed wake, and a Codex wake in doubt, are not repeated |
| `StandCorrect` | a program's outcome in the log and an ended watch stay as they are |
| `RequestsImplementWatch` | beside any requests a watch behaves as `Watch` says: `RSpec => Spec` |
| `FollowersCorrect` | no end is missed; a failed watcher leaves no follower waiting |
| `DurableCorrect` | an outcome that `follow` answers is the one in the log |
| `VerifiedCorrect` | a verified start ran its program, under the lock |
| `GoalTypeCorrect` | the types of a goal |
| `DependenciesCorrect` | begun and accepted work rests on completed dependencies |
| `WritersCorrect` | active nodes have no conflicting write scopes |
| `GoalStaysValid` | what `validate` refuses never gets into the file; dependencies stay acyclic |
| `FreezeCorrect` | until its own token or the goal's cancellation ends a dispatch, the node's record and its completed dependencies stay as they were, and no other pending node begins work |
| `FinalCorrect` | a goal that ended is never changed again |
| `IdsCorrect` | an id that was settled is settled for good |
| `FrontierCorrect` | `ready_nodes` offers all work that may begin; blocked means that a node failed |
| `EscapesCorrect` | the ways out of a blocked goal are ones its commands accept |
| `WaitCorrect` | what is settled never comes back into the goal's file |
| `FollowCorrect` | a verified wait keeps its watch, also across restarts, and an activated one was not given up, before its deadline and without a cancel |
| `RolledBackCorrect` | a wait reported as rolled back never starts its program |
| `ImplementsCorrect` | the handshake implements the goal: `Spec => G!Spec` |
| `LoopCorrect` | a loop's types; iterations are counted once and bounded |
| `EndedTimerRestsCorrect` | a timer recorded as ended is not registered or restored again, while every save can read the loop's file |
| `EndIsFinalCorrect` | a loop that ended stays ended |
| `ServiceTypeCorrect`, `OneReachableCorrect`, `StoppedCorrect` | types; one service owns the registry and is reached; stopped means gone |
| `DeliveryTypeCorrect`, `OneTurnCorrect`, `VerdictsCorrect` | types; one turn at most; notifications are true |
| `PollTypeCorrect`, `DeadlineCorrect`, `FailuresCorrect`, `NothingLeftCorrect` | types; deadline; count of failures; what is left behind, and where alone |

The type invariants of `Watch`, `Goal`, `Service`, `Delivery` and `Poll` are proved and have no run.

Each proof has one step per action, and states what it needs of the other actions in lemmas
about what a kind of step may do. Hardly any property is inductive alone:

*Watch.* Records travel: a record being saved (`io.rec`), the registry's and the one in
memory can differ, and after a crash the registry's becomes the one in memory. `RunOnceInv`
says that once the program was started no copy anywhere shows a phase it would be started
from, and that the task's way on after a write does not lead there either; `StartRunning`
makes this true before the start. `ActivationInv` is the mirror image: while the wait was
never active (`NeverActive`: prepared, or withdrawn from there, from which the file gets to
active only through prepared), no copy is past the look at the goal.
`AttemptInv` follows the attempt from `BeginAttempt` through both writes. `CancelInv` says a
cancelled watch is in no window between check and start; it holds because `_deliver` does
not await between the two.

`RecordInv` puts these together with what the other properties need; its parts rest on one
another and are proved together, one lemma for each part. *Where things are*:
`LockInv` (lock and program by the task's place), `LinkInv` (once linked, the record's result
is the task's), `PhaseInv` and `ReportInv` (the registry is never ahead of memory, nor memory
of a write under way; whoever reports is in a late phase). *What a result tells is so*:
`ResultInv`, `TriedInv`, `EndedInv`. *Per property*: `DeliveredInv` (no write failed: success
in a record or in the task's code carries an exit and, later, a delivery), `WokenInv` (no
write failed: what was woken is past every attempt any copy shows), `CodexInv` (first life: a
Codex wake that may have been accepted left its attempt in the log), `OutcomeInv` and
`EvidenceInv` (an outcome the task carries, or the log has, is past the phases that would
replace it). Each action has a lemma that says what it does to the variables that travel
(`WriteLogEffect`, `SaveRecordEffect`, `BeginAttemptEffect`, ...), so that a step of a proof reads
the effect and not the action.

*Requests.* Every action of `Requests` is one of `Watch` or leaves the watch alone, which
makes all of the above available (`RequestsImplementWatch`); the refinement mapping is the
identity. For `FollowersHear`, `Settled` says in terms of the watch alone when nobody may
wait: the end is in memory, or the wake a failed watcher owes is already past. A step that
makes `Settled` true publishes, and what publishes lets nobody wait; a quiet step never makes it
true (`QuietSteps`), nor does a save that fails (`FailedStep`); and a look that finds
`Settled` answers (`LooksInTime`). `ClaudeInv` is needed because only for Claude, whom no
adapter wakes, a failed watcher's wake is the published event itself. `LoggedInv` says that an
outcome in any copy of a record is the log's, but for an unreadable log. `StartInv` says that
the record shows `verified` and `held` only for a program that ran and a lock that is held, which
in the first life needs `FirstLifeInv`: no started program is taken up again.

*Goal.* `DependenciesComplete` is inductive given the types: a node leaves `completed`
in no operation, and dependencies change only while a node is pending.
`NoConflictingWriters` is inductive too: a node begins only beside nodes it has no conflict
with and while nothing is being dispatched, and the conflict relation is symmetric.
`StepKinds` carries both: every step begins the work on one node (`Begins`), moves one node
on or gives it up (`GoesOn`), or touches only nodes that are not worked on afterwards
(`Rests`). Every other property rests on `GoalStaysValid`, which holds because every command
ends in `Commit`. `FreezeCorrect` joins them: a dispatched node is left alone by every operation
but those that carry its token and the goal's cancel (`DispatchedStays`); its dependencies are
completed, and a completed node is touched by none (`DependenciesComplete`); and a step that
begins work finds nothing dispatching (`StepKinds`, `MayStart`). `CancelledRests` and
`OnlyCancelledHasCancelled` make a cancelled goal still;
`EscapesCorrect` shows of the commands a blocked goal is left with that `Valid` accepts what
they write (`ReplaceIsValid`). `IdInv` says that ids in use were handed out, are not settled and
belong to one node; a step hands out a new id, settles its node's, or keeps them (`HandsOut`,
`Settles`, `KeepsIds`). `FrontierCorrect` needs what `ready_nodes`, a recursive function over the
node ids, returns: `SelectionExists` shows the recursion well defined, `SelectionSound`
what it has selected after each id, both by `SetInduction`, which is induction over the
naturals stated for a set and follows from `LeastNatural`. That a goal is blocked only
behind a failed node follows from acyclicity, in the form that every set of nodes has one
without dependencies inside the set.

*GoalWait.* `WInv`: the wait in the file is one that was handed out and is not settled, its
phase goes with the node's status, what the activation under way checked is still so because
it holds the file's lock, a rolled back command's wait is settled, and a watch that gave up
although its wait is the node's had its deadline or a cancel for it, and only watches that hold
their lock poll. Every command on the file
keeps the wait, drops it, prepares a new one or activates it (`Keeps`, `Drops`, `Prepares`,
`Activates`), and for each of these it is shown once that the invariant is kept. The
refinement adds that every step is one of `Goal`, a change of locks alone, or a stutter; the
commit is the step that needs `CheckedInv`.

*Loop.* `FileInv`: the timers that were consumed are exactly those below the iteration, and
the iteration tells how many ids were handed out. `TimerInv`: as long as every save could read
the loop's file, a timer the registry file has shown as ended is active neither in memory nor on
disk, and while the loop waits for it both have its record, so no repair registers it again.
That needs `Known`: the loop is in the registry, in memory and on disk, before its file exists,
because the eviction protects only the timers of loops it knows; and `Served`, the same for
a command that is yet to commit. A record that ends now is ranked after all others and may
still be dropped by the same save, but only if it is not the one the loop waits for.

*Service.* `LockIsOwnership`: a service holds the lock exactly while it owns the registry, a
client only while it probes. `Leaving`: the service a client asked to stop never serves again,
which is why a free lock means it is gone.

*Delivery.* `Unkilled`: where a retry follows or may follow, no turn was started and no
request that could start one is on its way. `Confirmed`: a confirmation that was read, exited
with or recorded is of a turn that was started.

*Poll.* `Timed`: wherever time passes, an alarm or the end of the sleep is due within the
deadline. `KilledFirst`: where a process is waited for it was killed before, so one that slips
there is not running. `Signals`: who has the handler and who will have it back. The history
of queries ends in a row as long as the counter.

What the proofs changed in the model: `Handler` of `Watch` had overlapping cases of which TLC
takes the first, now they are disjoint; the two halves of `WakeIsNotRepeated` were not
grouped as its comment says; `OutcomeIsDurable` lacked the case of the
unreadable log, which TLC showed once the proof of `LoggedInv` failed without it.

Only model-checked: all liveness (`EveryWatchEnds`, `FollowIsAnswered`, `WatchSettles`,
`MonitorEnds`, `TimerRegistered`, `StartSucceeds`, `PollEnds`), which is beyond the prover.
Every safety property of every run is proved. The recursive definitions are
functions on naturals or were stated without recursion (`Acyclic`); induction over data whose
shape is not a number is not used.

## The plan

Done: `Watch`, `Requests`, `Goal`, `GoalWait` with its refinement, `Loop`, `Service`,
`Delivery`, `Poll`, each with its runs and the proofs of its safety properties.

What could follow, in this order:

1. What a session may rely on (submitted, run at most once, woken at most once more than
   confirmed, ended) as an abstract specification that `Watch` implements.
2. The queue of `StateCommandRunner`: one command of a kind at a time, cancelled callers.

## Not modelled

`install_skill.py` (a copy of files); the dashboard's views and assets (presentation; its
edits are the goal and loop commands of `Goal` and `Loop`, from any actor); argument
parsing, preflight and environment checks (refusals before any state changes); protocol
version matching; `list`, `ping` and `lint` (read-only); the per-kind queue of
`StateCommandRunner` (`Loop` lets commands of all connections run beside each other, which
allows more orders than the queue does); the bytes of WebSocket frames and TLS.
