# Verification of the Samsung AC WindFree integration

This directory holds TLA+ models of the Home Assistant custom component in
`custom_components/samsung_ac_windfree`, the TLC configurations that check them
on small instances, and TLAPS proofs of the properties that matter most for
every instance. The integration keeps one DTLS/CoAP session to an air
conditioner that accepts very few sessions, polls and commands it through that
session, and must never lose a session, use it from two threads, or stop
retrying.

File names below are relative to `custom_components/samsung_ac_windfree/`.

## 1. Inventory of the system

| component | state | operations | interacts with | what is hard | what makes it correct |
|---|---|---|---|---|---|
| admission (`coordinator.py` `_PriorityAdmission`) | `_held`, `_sequence`, heap `_waiters` | `acquire`, `release`, `hold` | every poll, reconcile and command | a task cancelled before or after it was granted | exclusive, no grant lost, no task served before one that has to come first |
| session supervisor (`coordinator.py` `WindFreeCoordinator`, start, reconnect, retire, shutdown) | `_transport`, `_pending_transport`, `_retired_transports`, generation, epoch, locks, `_fatal_signals`, failure counters, reconnect task | start, seed, activate, disconnect, reconnect loop and attempt, drain, observe, shutdown | transport, admission, Home Assistant | failing closes, cancellation at any await, a lifecycle that ends during an attempt | no session lost, at most one open, an outage is retried, shutdown closes everything |
| transport (`transport.py` `WindFreeTransport`) | `_closed`, `_connected`, `_session`, two locks, cleanup task, subscriptions, last request time | connect, get, post, observe, close, reader callback | the DTLS library's blocking session on executor threads | a cancelled task cannot interrupt its job; close during connect or a request | one thread in the session, closed for good, silent once given up, rate limit |
| poll scheduler (`coordinator.py` `_schedule`, `next_due`, `async_run_scheduled_once`, `_async_scheduler_loop`) | heap of deadlines with lazily deleted revisions, current deadlines, reconcile deadline, failure counters | schedule, pick the next due path, poll, retry, reconcile | admission, session supervisor, commands, notifications | stale heap entries, priorities that starve, retries | every path is eventually read, no path is polled twice for one deadline |
| command protocol (`coordinator.py` `_async_command_worker`, `handle_observe`) | `_resources`, `_observe_events`, `_mode_settle_until`, `_command_active` | post, wait for the notification, verify by a read, publish | transport, notifications, scheduler | a late or stale notification, rejection, cancellation between post and verification | success is reported only when the device confirmed |
| contract reconciliation (`coordinator.py` `_async_reconcile_impl`) | identity, capabilities, `resource_contract_changed`, `unsupported_identity_after_update` | read identity and capabilities, compare, publish | scheduler, repairs | firmware that changes between two reads | drift is reported and cleared |
| repair issues (`repairs.py`) | per-entry store, pending sets, persistent issues | evaluate, unload, purge, fix flows | entry life cycle, Home Assistant's issue registry | issues survive a restart, the store does not; several entries share one issue | an issue stands until its entry is evaluated again, with one exception (section 4) |
| entry life cycle (`__init__.py`) | `_EntryLifecycle` (listener, suppressed, reauth started), entry state | set-up, unload, remove, stop listener | coordinator, repairs, config flows | refused unload, failed shutdown, cancellation | one listener, reauthentication once, no coordinator at work for an idle entry |
| configuration flow (`config_flow.py`) | step data, probe session | user, discovery, reauthentication, reconfigure steps | transport, config entries | a probe session that is not closed | a close of the probe tried before every exit, nothing written beside a probe that would not close |
| device codec (`device.py`, `models.py`, `const.py`) | none | parse representations, build payloads, compatibility tables | commands, polls | table errors | commands and readings agree |
| credentials (`credentials.py`) | none | validate certificates and keys | set-up, config flow | - | - |
| entities (`climate.py`, `switch.py`, `sensor.py`, `binary_sensor.py`, `entity.py`) | none of their own | project the coordinator's data, one command per service call | coordinator | - | - |
| diagnostics (`diagnostics.py`) | none | a read-only report | coordinator | - | - |

Everything on the event loop is cooperative: a task runs alone from one `await`
to the next. Real parallelism exists only inside the transport, whose blocking
calls run on executor threads and whose reader thread posts notifications to
the loop. Nothing but config entries and Repairs issues is persistent.

## 2. Modules

| module | models | status |
|---|---|---|
| `AdmissionMutex` | abstract specification: a mutex with askers | used as a property, proved against |
| `PriorityAdmission` | `_PriorityAdmission` | checked, proved |
| `MCPriorityAdmission` | instance of it for TLC | |
| `PriorityAdmissionProofs` | theorems | |
| `BlockingSession` | abstract contract of the library's session object: which call may follow which, one at a time | used as a property |
| `Transport` | `WindFreeTransport` | checked, partly proved |
| `TransportProofs` | theorems | |
| `SessionSupervisor` | session ownership of `WindFreeCoordinator` | checked, proved |
| `SessionSupervisorProofs` | theorems | |
| `PollScheduler` | the scheduler loop of `WindFreeCoordinator` | checked, proved |
| `MCPollScheduler` | instances of it for TLC | |
| `PollSchedulerProofs` | theorems | |
| `CommandContract` | abstract specification: what is published, and when | used as a property, proved against |
| `CommandProtocol` | the commands of `WindFreeCoordinator` | checked, proved |
| `CommandProtocolProofs` | theorems | |
| `RepairIssues` | `repairs.py` with the entry life cycle as it bears on it | checked, proved |
| `RepairIssuesProofs` | theorems | |
| `EntryLifecycle` | set-up, unload, reauthentication and stop of one entry (`__init__.py`) | checked, proved |
| `EntryLifecycleProofs` | theorems | |
| `ConfigFlow` | the flows of `config_flow.py` and what they write to the entry | checked, proved |
| `ConfigFlowProofs` | theorems | |

How they compose. `PriorityAdmission` implements `AdmissionMutex`; the
supervisor uses the admission as that mutex (`admission` is free or owned, an
operation waits in `admit`). `Transport` is one of the supervisor's `Sessions`
in detail: the supervisor's "closing" is `async_close` and its "closed" is
that `async_close` returned. `Transport` implements `BlockingSession`.
`CommandProtocol` is what one of the supervisor's commands does while it owns
the admission, and implements `CommandContract`; `PollScheduler` is the
supervisor's "poll" with the choice of what to poll, beside commands that take
the admission and sessions that are lost. `EntryLifecycle` sees the supervisor
from outside: its `alive` ends when the supervisor's shutdown does (`ending` is
the supervisor's shutdown task, `left` that it raised), and its
`rejected` becomes true where the supervisor's does, on a live session or in a
reconnect attempt. `ConfigFlow`'s last steps are `EntryLifecycle`'s `Store`, and
its probes are sessions beside the supervisor's. `RepairIssues` has the same
entry, with what is evaluated for the issues instead of the coordinator.

### 2.1 `PriorityAdmission` <-> `coordinator.py` 206-248

`held`, `sequence`, `waiters` are the fields of the class; the heap is a set
because sequence numbers differ (`SequencesUnique` checks it). `pc[t]` says
where task `t` is in `hold()`. Between the completion of a future and the moment
its task runs, other tasks run and the task may be cancelled, so `granted`,
`cancelled` and `revoked` are states of their own. Actions: `AcquireFree` and
`AcquireWait` (the two branches of `acquire`), `Resume`, `Cancel`, `Unwind` (its
`except`), `Exit` (`release`). Priorities are any set of integers.

`urgency` and `ahead` are history, read by no guard: what a task asked with, and
the requests it has to let through. `ServedInTurn` compares them with who
enters, so it sees a task that takes the fast path past one that waits as well
as a hand-off in the wrong order. The priority is strict: a poll may wait for
ever behind commands that never stop coming. `WaiterServed` therefore says that
a task which waits for ever has, again and again, a more urgent one waiting
beside it; nobody is forgotten. In the run the bound on acquisitions ends every
such stream, so that there every waiter is served; the safety half holds for any
number of acquisitions (section 5).

### 2.2 `SessionSupervisor` <-> `coordinator.py` 340-420, 600-1000, 1040-1690, 1919-2018

The variables carry the names of the fields they stand for; a comment beside
each says so. `session[s]` is what became of transport `s`; `task[t]` is the
position and the locals of each asyncio task. Tasks: the start, the shutdown,
the scheduler's operation ("poll"), command workers, the reconnect loop and,
where a run asks for it, a direct caller of `async_run_reconnect_attempt`. A
cancellation is a flag a task meets at its next await. `evidence` is history.
`Fault` counts what the environment does wrong: failing dials, closes, reads,
fatal alerts and caller cancellations. `PollFails` is a read or a reconcile that
fails without fatal evidence, hot or not; only hot failures are counted.

`NoResurrection` does not say that nothing is dialled once shutdown began: an
attempt past its drain may still make and open a session until the shutdown
cancels it (`coordinator.py:1598`). It says that such a session never becomes the
coordinator's, that no reconnect loop starts and that nothing becomes available;
that the session is closed is `ShutdownCloses`.

### 2.3 `Transport` <-> `transport.py` 285-317, 338-785

`closed`, `connected`, `credentials`, `session`, the two locks and the cleanup
task are the fields; `job[t]` is the executor job task `t` waits for; `dtls` is
the state of the session object. A job's end and the step of its task are one
action. `recent` and `spent` abstract the clock of the request interval: less
than the interval has passed since `_last_request_at`, or since a request
ended. `posted` and `heard` are the notification on its way to the loop.
`SilentOnceLeft` is about the transport as its owner sees it: from the moment a
connect begins to clean up after a failure, or a close begins, nothing is heard
of the device, what the reader thread has posted already included, although
another connect of the same transport may have opened the session meanwhile.

### 2.4 `RepairIssues` <-> `repairs.py`, `__init__.py` 66-108 and 190-418

`store` is `_RepairStateStore`: `known` the keys of `entries`, `value` the five
optional booleans (two runtime kinds stand for the four that are always
evaluated together, one of them with a fix flow), `pending` the two pending
sets. What Home Assistant does (adding, disabling, retrying, restarting) is
external. `open` is history: the entries whose last evaluation found an issue.
`StandsUntilEvaluated` speaks of every kind and every step: an issue that some
entry has is not taken away. `DeletedUnevaluated` names the one step of the code
that does so all the same (section 4), and only while every entry that has the
issue is unevaluated since the restart.

### 2.5 `CommandProtocol` <-> `coordinator.py` 1404-1425, 1691-1980, `device.py` 861-890

`resources` and `data` are `_resources` and the published snapshot, `settling`
says that `_mode_settle_until` lies ahead. `cmd` is the command that holds the
admission: the position of its worker, what it asks for, and the event
`_wait_for_observe` waits on, which exists from before the settling time on.
`op` names the five ways through the code: a single write (`mode`, `off`,
`fan`), `_async_set_hvac_mode_locked` with the power off (`set`, two writes),
and `_async_turn_on_locked` (`on`). The device may take a write, ignore it, or
change other resources with it; somebody else may command it at any time; its
notifications are queued, delayed or lost. Power, mode and fan speed stand for
the eight writable resources. `said` and `recent` are history.

### 2.6 `PollScheduler` <-> `coordinator.py` 612-714, 1037-1095, 1111-1222, 1305-1328

`left` and `reconcile` are `_deadlines` and `_reconcile_deadline` less the time
it is; a `Tick` lets time pass when no step of the program is ready. `place`
ranks the resources by their sequence numbers, which decide between equal
deadlines; the heap is left out. `loop` is the scheduler's task, with the time
its sleep or its read still takes. `age` and `last` are history: since when the resource is
known or failed.

### 2.7 `EntryLifecycle` <-> `__init__.py` 66-107 and 144-409

`phase` is where the task that holds the entry's lock is, between the awaits of
`async_setup_entry` and `async_unload_entry`, or the entry's state. `attached`
and `asked` are `_EntryLifecycle`'s listener (and `suppressed`) and
`reauth_started`; `Look` is `handle_update`, which runs inside every step that
publishes while the listener is on. `listening` is the stop listener. The
coordinator is `alive` from its construction to the end of a shutdown; `ending`
is its `_shutdown_task`, which a failing set-up, an unload and the stop event
begin or join, and `left` that it raised: a session may be open, and a later
caller runs it again. `Over` is where `_async_shutdown_cancellation_safe` stops
waiting, through any number of cancellations (`CancelledMeanwhile`). An entry
that would not unload and is removed all the same is "abandoned": its
coordinator works on until the stop event, and whatever is added afterwards is
another entry, which the model does not follow. `untold` says that it found its credentials rejected in
an attempt that has not told its listeners yet. Home Assistant's part (`Store`,
`ReloadRefused`, `AddOrRemove`, `Stop`, `Restart`) is external. `reauth` is history.

### 2.8 `ConfigFlow` <-> `config_flow.py` 95-643

Each flow has its kind, its step, what its form and its validation task know
(`host`, `cred`, `found`) and what became of its probe session: "open" until a
close of it has ended, and "left" when that close failed, after which nobody
tries again. `ProbeClosedFirst` says that a flow goes on only after the close
was tried, and that nothing is written beside a session that was left; it does
not say that a flow which asks again has none open. A flow that is removed while
it unpacks its uploads is "gone": its handler goes on, and starts a validation
that nobody cancels and whose result nobody takes. A validation is
`unpacking` (the uploads, on the executor), `dialling` (resolve and search the
ports), `identifying` (the reads) and `closing`; `async_step_finish` is one of
`Abort`, `Create`, `FinishReconfigure`, `FinishReauth`. The model follows one
entry: a new entry for another device is left out. `at` says which air
conditioner answers at an address, and changes at any time; `latest` is history.

## 3. Runs

| run | instance | what it shows |
|---|---|---|
| `admission` | 3 tasks, 2 priorities, 4 contended acquisitions | no lost grant, nobody enters before one that has to come first, by the fast path neither, refinement of the mutex; who waits for ever waits behind more urgent ones |
| `supervisor` | 1 command and 1 direct attempt beside the loop; the start and the command may be cancelled; 2 fatal signals, 3 sessions, 3 faults | no session is lost, at most one open, no use of a replaced session, rejection needs two generations, shutdown closes everything, and nothing that is dialled beside it is used or shown |
| `supervisor_liveness` | 5 faults, 3 hot failures, 1 fatal signal | available means there is a session; an outage is retried and ends; shutdown ends |
| `supervisor_stranded` | a cancellable command, 3 faults | finding 1 |
| `transport` | 2 connects, 2 users, 1 close, one cancellation each | one thread in the session and in its order, closed for good, nothing delivered once a connect or a close gave the transport up, rate limit; every call ends |
| `transport_torn_away` | second cancellations allowed | finding 2 |
| `repair_issues` | 2 entries | issues follow the store and stand until their entry is evaluated, but for the premature authentication flow; a removed entry is forgotten |
| `commands` | 2 modes, 2 speeds, 1 notification on its way | success was confirmed by the device, nothing of a command is shown before its end, no write follows a mode too soon |
| `poll_scheduler` | 1 resource of each tier, 3 events | nothing is polled that is known, the most urgent first, nothing starves once the device is well |
| `poll_starvation` | the 13 resources and the times of `const.py` | finding 3 |
| `entry` | one entry | a rejection starts reauthentication exactly once, and not while the entry is unloaded; an idle entry has no coordinator at work; what a flow stores is read; the stop event is heard |
| `config_flow` | 2 flows, 2 addresses, 2 devices, 2 credentials | a close of the probe is tried before anything follows, nothing is written after one that failed, and every validation ends; an entry keeps its device and its owner's last credential |

Every property of a passing run is also run against a *seeded fault*: an
operator kept beside the definition it would replace, marked "A seeded fault",
that is a plausible bug of that code; TLC finds the property violated with it.

Type invariants are checked in the run `admission` and proved in the modules of
theorems: as a theorem of its own for six modules, inside `IInv` for
`EntryLifecycle`, and as `Typed`, which is what the proof needs of the
types, for `PollScheduler`.

### Bounds and why they are enough

- Three tasks at the admission: one owns, two wait, so that priority, arrival
  order and a cancelled head all matter. `MaxSequence` bounds only the
  contended acquisitions of a behaviour; four of them let a task ask again while
  both others are still pending.
- `MaxSessions` 3: the active, a candidate and one that is retained; `Slot`
  reuses closed sessions. In `supervisor` the limits of hot failures and of
  dial failures before a discovery sweep are 2 instead of 3, so that 3 faults
  reach either of them with one more thing going wrong, and two generations of
  evidence; `supervisor_liveness` has the code's limits of 3 and 5 faults.
- Two connects and two users of a transport: one holds the lock while another
  waits; a close at any point.
- Two entries: one has an issue while the other reports.
- Two modes, only one of which allows a fan speed; one notification on its way
  is enough to be late, to be of an earlier state, or to be lost. The writable
  resources differ only in having dependent ones (the mode) or none.
- `poll_scheduler`: one resource of each tier, with periods that leave the
  device a sixth of its time; three events (notifications, commands, failing
  reads, lost sessions) reach the third hot failure, or a notification while
  the loop waits for a command. Deadlines passed longer ago than `MaxLate` are
  not told apart. `poll_starvation` is not scaled: 13 resources, periods,
  rate limit and timeout as in `const.py`, in ticks of half a second. With no
  broken resource the same instance satisfies `NothingStarves`; with reads of
  one second instead of a half it does not, as the hot tier alone then asks
  for more than all of the time.
- `EntryLifecycle` has no bounds: the state of one entry is finite. Entries do
  not share anything in `__init__.py`.
- Two flows: one that validates while another writes the entry, or holds a
  probe beside it. Two addresses and two devices, so that addresses can be
  exchanged; two credentials, the stored and the new one.

### Fairness and why the code justifies it

The event loop runs every ready callback: weak fairness of each task's steps.
`asyncio.Lock` serves waiters in order, so a waiter whose lock is freed again and
again gets it: strong fairness of taking a lock. The admission serves the most
urgent first, so in the supervisor strong fairness of entering it is assumed of
every task but the polls.
Executor jobs end, because every call of the library has a timeout: weak
fairness of a job's end. Cancellations, faults, notifications and new calls are
never fair. In the supervisor the faults are bounded, which states that the
device recovers: `OutageEnds` is a claim about the time after the last fault.
The same holds of the events beside the scheduler, where time passes (weak
fairness of `Tick`) and the reconnect loop ends an outage, which the supervisor
shows. The commands have no fairness: only safety is claimed of them.
Set-ups, unloads and validations that began end, because every call they await
has a timeout (`SETUP_TIMEOUT` and those of the transport): weak fairness of
their steps taken together, which leaves every outcome open. Home Assistant sets
up and reloads what is due and takes a flow whose task is done to its last
step. What an owner does (asking, answering a form, disabling, removing), the stop
event and a restart are never fair.

## 4. Findings

1. `coordinator.py:1462`: a command cancelled by its caller while fatal evidence
   is closing the session leaves the coordinator without a session and without
   a reconnect loop (`OutageIsRetried`, run `supervisor_stranded`).
2. `transport.py:295`: a task that is cancelled a second time leaves its
   executor job running and frees its lock (`SessionUsedAlone`, run
   `transport_torn_away`).
3. `coordinator.py:1198`: a hot resource whose reads time out is due again before
   the others of its tier have been read, so that no warm or cold resource and
   no reconciliation ever gets its turn (`NothingStarves`, run
   `poll_starvation`).

Smaller things, which no run states.

- Commands: the event a command waits on is set by any notification from before
  its settling time on and is not cleared by the POST (`Deliver`, `Send`), so
  that a notification of the requested value from before the write confirms it.
  A command that fails half-way leaves what it read unpublished until the next
  poll or notification. A notification can overtake the answer of a read made
  before it, whose older value is then merged last.
- Scheduler: while the session is lost and a resource is due, the loop comes
  round without sleeping.
- Reconciliation (not modelled): the first one after a resource changed finds the
  path by putting back what `_resources` held (`coordinator.py:1374`). The next
  one, 300 s later, or the first one if a notification or a poll came before it,
  finds the changed value there, singles out no path and refuses every write,
  until a reconciliation finds the device as it was.
  `test_resource_drift_disables_only_affected_path` reconciles once. A
  firmware drift found while reconnecting (`coordinator.py:1519`) is not cleared by
  the reconnect that succeeds, but by the next reconciliation.
- Transport: `close()` or `join()` that raises is logged, the session forgotten
  and `async_close` reports success (`transport.py:320`, outcome `abandoned`).
- Entry: the stop event in the middle of a set-up does not reach its coordinator,
  since the listener is registered at the end (`__init__.py:281`, `late`). A set-up
  that fails ignores whether the shutdown of its coordinator completed
  (`__init__.py:314`; `tests/test_init.py:235` intends it), so that the retry may
  dial beside a session that would not close. A coordinator needs two
  generations to call its credentials rejected, but each set-up builds a new
  one: credentials that are refused at every start are retried as a failed
  set-up and never lead to reauthentication (`__init__.py:257`). An entry whose
  unload failed keeps its coordinator when it is removed (`AddOrRemove` to
  "abandoned"), so that an entry added for the same device afterwards dials
  beside it.
- Flows: a reauthentication writes the whole entry, with the address from when
  its files were uploaded (`config_flow.py:537`, 641), which undoes a
  reconfiguration that ended meanwhile (`FinishReauth`), although the old address
  has just answered. When the close of a probe fails the validation counts as
  failed and the flow asks again (`config_flow.py:297`), but the session may be
  open still and the next attempt dials beside it.
- Repairs: after a restart the authentication fix flow takes an issue whose entry
  was not evaluated again for resolved, deletes it and starts no reauthentication
  (`repairs.py:404`), which is the exception of `StandsUntilEvaluated`. An entry that is disabled
  while it is not loaded is never unloaded, so its state stays in the store until
  a fix flow is opened (`DisableIdle`; the docstring at `repairs.py:208` says it is
  purged). An entry that is removed although its platforms would not unload
  keeps its listener, which puts it back into the store (`Remove` to "ghost",
  then `Update`).

## 5. Proofs

`PriorityAdmissionProofs`, for every set of tasks, every set of integer
priorities and every bound. Assumptions: the named ones of `PriorityAdmission`.
Inductive invariant `IInv`: `Sound` is type correctness, mutual exclusion,
`NoLostGrant`, `FreeHasNoWaiters` and `SequencesUnique`. Mutual exclusion is not
inductive alone: that `acquire` of a free admission finds no owner needs
`NoLostGrant`, and the hand-off needs `FreeHasNoWaiters`. `Queued` says that every
task that waits is in the heap with its priority, and `Turns` that a request which
another has to let through, while it is pending, comes before the other in
the heap and finds the other without the admission. The fast path keeps `Turns` because a
free admission has no waiters and no owner, so that nobody is pending. From
`IInv` follow `ServedInTurn` (`InTurn`), that a free admission has no waiters
(`NoBarging`), and that every step is a step of `AdmissionMutex` or a stutter.

`TransportProofs`, for every number of connects, users and closes. Assumption:
`TasksAssumption`. The theorems are about `Spec`, in which no task is cancelled
again while it waits for its job; with such tasks (`ImpatientSpec`)
`SessionUsedAlone` is false (finding 2). `SessionUsedAlone` speaks of threads;
`IInv` ties each running job to the lock its task holds (`ConnectLocked`,
`RequestLocked`, `CleanupLocked`), and adds that connecting and requesting,
which take different locks, exclude each other by their order (`ConnectFirst`:
no request is made before the connect that spent the credentials has ended).
`JInv` adds `Phases`: the reference is there exactly while the session is open,
and each job, and each request that pauses under the lock, finds the session as
far as it needs it; `Closings`: who waits for a close is told so only when no
job can open the session any more; and `Paces`. From it follow
`NeverForgotten`, `ClosedForGood`, `RateLimited` and the refinement: each step
is one of `BlockingSession` or a stutter. `SilentOnceLeft` rests on `LeftClosed`:
whoever gave the transport up has set `_closed`, a connect that failed too, and
nothing takes that back.

`SessionSupervisorProofs`, for any commands, direct callers, fatal signals,
sessions, limits and faults. Assumptions: `TasksDiffer`, `LimitsPositive`,
`SignalsAreNotPlain`. The invariant is built in layers, each preserved given
those before it, because "who may close a session" can only be argued once it is
known where each task is:

- `Control`: the types, where each kind of task can be (`Fits`), that a task
  which generates holds the generation lock, and one that uses the active
  session holds the admission;
- `Edges`: before `async_start` nothing is there (`Fresh`), and the shutdown
  closes sessions only after every other task has ended (`Joined`);
- `Ownership`: `NoOrphan` and `SessionStable`, with what makes them
  inductive: the candidate of a task is not the active session, not
  retired and not among those being closed, and no more is the active session;
- `Sweeping`: in a shutdown that has been clean so far, what is open is what it
  has still to close.

From them (`IInv`) follow `ShutdownCloses`, and `NoResurrection` as an action
property. `TwoGenerationsToReject` needs only `Control` and that a signal that is
remembered was seen (`Remembered`). `NextSteps` and `OneSteps` divide a step of
the system by the task that makes it; with them what only some steps can change
is a lemma of its own (`WhoPublishes`, `WhoCloses`, `WhoGenerates`, `WhoOpens`,
`WhoHides`, `WhoAdmits`). Four more layers rest on `IInv`:

- `Few`: all sessions that are not closed are the same but for one, and an
  attempt whose drain has been clean so far has yet to close whatever that
  one is not. From it follows the bound of `SessionsBounded` with direct callers,
  any number of them.
- `Lively`: who holds the close lock is closing; a candidate is not closed by
  anyone but its own task; its generation is later than the current one. The
  last says that generations grow (`Generations`), on which rest the
  confirmation of a rejection and which notifications are ignored.
- `Sole`, for `Directs = {}`: nothing runs before start is over; until shutdown
  availability shows the session; an attempt has no session beside it;
  all sessions that are not closed are the same; a notification that is not
  ignored is of the session in use (`Heard`). Each needs the others: `Heard`
  needs that a disconnect finds the close lock free, so that its session is
  marked before it is hidden, which needs that no attempt is closing
  meanwhile, which is because an attempt runs only without a session. From it
  follow `SessionsBounded` without direct callers, `AvailableHasSession`, and
  that late notifications change nothing (`Heeded`).
- `Retried`, for `Directs = {}` and `Cancellable \subseteq {"start"}`: only
  shutdown cancels an operation or an attempt; the reconnect task is overtaken,
  and gives a candidate up, only by shutdown; an operation that leaves its
  disconnect without a reconnect task was refused. From it follows
  `OutageIsRetried`.

`Directs = {}` is the program as it runs: only the reconnect loop calls
`async_run_reconnect_attempt` (`coordinator.py:1475`), other callers are tests.
`AvailableHasSession` and `OutageIsRetried` are false with a direct caller, which
may replace the session in use: it hides the old one before it closes it, with
the entities still available, and when it fails there is no loop. Without the
second condition `OutageIsRetried` is finding 1. The run `supervisor_liveness`,
which checks the two, is an instance of these conditions.

`Admits` is how the modules compose: the supervisor's admission, with those who
wait left out, is the mutex of `AdmissionMutex`, which `PriorityAdmission`
implements.

`CommandProtocolProofs`, for any modes, speeds and length of the inbox. `IInv`:
the types; no mode was written recently without the settling time running;
what a command works on fits its operation (`WorksOn`); and what it was told by
the time it is at each position (`ToldSoFar`), from which `SuccessWasConfirmed`
follows at the end. The refinement maps each step to one of `CommandContract` or
a stutter.

`PollSchedulerProofs`, for any resources, periods and timings with a second at
most a period (`TimeAssumption`). `IInv`: what the arithmetic needs of the types
(`Typed`), and that a resource's deadline and the age of what is known of it go
together (`DueWhenOld`): as long as it is young it is not due. That the most
urgent resource exists is induction over the naturals, by well-foundedness.

`RepairIssuesProofs`, for any number of entries. `IInv`: the types, the
two invariants, that an entry with an open finding is enabled, and that the
store of a run of Home Assistant holds the open findings, or has their entries
pending and unevaluated (`HoldsOpen`), without which a report of another entry
could clear one. Beside it each step is shown to keep every issue some entry has
(`StepStands`), but for the authentication flow, of which the weaker statement
holds.

`EntryLifecycleProofs`: `IInv` says in which phases there may be a coordinator and
a listener, that a coordinator at work while a task waits for its shutdown is
being shut down, and that reauthentication was started once exactly if `asked`.

`ConfigFlowProofs`, for any number of flows, addresses, devices and credentials.
`IInv`: the types, `CredentialStands`, and that every flow is `Good`: it has what
its step needs, belongs to an entry that is there, holds a probe only where
it will be closed, and has a validated device only when its probe was closed.

Every safety property that a run checks is a theorem. Only model-checked: the
liveness properties (`WaiterServed`, `OutageEnds`, `ShutdownEnds`, `CallsEnd`,
`NothingStarves`, `StoredIsRead`, `StopIsHeard`, `ValidationEnds`), since the prover
does not do liveness under fairness, nor that no state is a deadlock, which needs
`ENABLED`.

## 6. What is left

What would come next, the most important first:

1. The heap of deadlines with lazily deleted revisions and its compaction,
   which keeps what `PollScheduler` assumes of it: the latest deadline of each
   resource, once.
2. What a reconciliation takes from commands, with enough of `validate_contract`
   to tell which path changed.

Not modelled: `async_migrate_entry`, which changes data once before anything
else runs; the device codec beyond `verify_command`, and credentials: parsing,
tables and an external library, without state; entities and diagnostics, which
only read; translations and release tooling, no part of the running
integration.
