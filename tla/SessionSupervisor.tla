-------------------------- MODULE SessionSupervisor --------------------------
(***************************************************************************)
(* The session life cycle of WindFreeCoordinator (coordinator.py): start,  *)
(* the operations that use the session (scheduled polls and reconciles,    *)
(* commands), the disconnect they perform when the session is dead or the  *)
(* device refuses the credentials, the reconnect loop with its attempts    *)
(* and discovery sweeps, OBSERVE notifications, and shutdown.              *)
(*                                                                         *)
(* Tasks are cooperative: a step runs from one await to the next.  A       *)
(* cancellation is a flag a caller or shutdown raises; the task meets it   *)
(* at its next await (Cancelled).  The admission is the mutex that         *)
(* AdmissionMutex states and PriorityAdmission implements.                 *)
(*                                                                         *)
(* A session is "closed" when async_close() returned; WindFreeTransport    *)
(* bounds its wait, so the DTLS thread may outlive that by a timeout.      *)
(* Sessions are slots: a closed one is reused for the next transport.      *)
(***************************************************************************)
EXTENDS Integers, FiniteSets

CONSTANTS
  Commands,         \* command workers that may exist at the same time
  Directs,          \* direct callers of async_run_reconnect_attempt
  Cancellable,      \* tasks whose caller may be cancelled
  Signals,          \* the fatal DTLS alerts and CoAP codes
  HotFailureLimit,  \* failed hot polls that end a generation (3)
  DiscoveryPeriod,  \* stored-port failures per discovery sweep (3)
  MaxSessions,      \* bound: transports alive at the same time
  MaxFaults         \* bound: failures of the device and caller cancellations

Free == "free"      \* a lock nobody holds
None == 0           \* no session

Sessions   == 1..MaxSessions
Operations == {"poll"} \cup Commands
Attempters == {"reconnect"} \cup Directs
Tasks      == {"start", "shutdown"} \cup Operations \cup Attempters

ASSUME TasksDiffer ==
  /\ Commands \cap Directs = {}
  /\ (Commands \cup Directs) \cap
       {"start", "shutdown", "poll", "reconnect", Free} = {}
  /\ Cancellable \subseteq Commands \cup {"start"}
ASSUME LimitsPositive ==
  /\ {HotFailureLimit, DiscoveryPeriod, MaxSessions} \subseteq Nat \ {0}
  /\ MaxFaults \in Nat
ASSUME SignalsAreNotPlain == "plain" \notin Signals

VARIABLES
  transport, pending, retired,   \* _transport, _pending_transport, _retired_transports
  session, gen,                  \* of each transport: its state and generation
  generation, attempt,           \* _generation, _generation_attempt
  epoch, down,                   \* _lifecycle_epoch; _shutting_down and _terminated
  scheduler,                     \* start succeeded: the entry is set up and polled
  available,                     \* data.available
  rejected,                      \* _authentication_rejected
  hot, stored,                   \* _hot_failures, _stored_port_failures
  signals,                       \* _fatal_signals: generation per signal, 0: none
  generationLock, admission, closeLock,
  task,                          \* the position and locals of each task
  faults,                        \* faults used of MaxFaults
  evidence                       \* history: signals seen since they were cleared

own   == <<transport, pending, retired>>
wire  == <<session, gen>>
ids   == <<generation, attempt>>
life  == <<epoch, down, scheduler>>
told  == <<available, rejected>>
count == <<hot, stored>>
fatal == <<signals, evidence>>
locks == <<generationLock, admission, closeLock>>
vars  == <<own, wire, ids, life, told, count, fatal, locks, task, faults>>

\* Locals: the candidate (start, attempts) or the transport read (operations),
\* the epoch seen, and of a close in progress: what is left, whether all went
\* well, where to go on.  error is what ended the seeding of a candidate.
Idle == [pc |-> "idle", cand |-> None, seen |-> 0, todo |-> {},
         clean |-> TRUE, after |-> "idle", error |-> "plain",
         cancel |-> FALSE]

At(t, label) == task[t].pc = label
Runs(t, label) == At(t, label) /\ ~task[t].cancel
Busy(t) == task[t].pc \notin {"idle", "done"}
Owned == ({transport, pending} \cup retired) \ {None}
Unclosed == {s \in Sessions : session[s] # "closed"}
Errors == Signals \cup {"plain"}

Init ==
  /\ transport = None /\ pending = None /\ retired = {}
  /\ session = [s \in Sessions |-> "closed"]
  /\ gen = [s \in Sessions |-> 0]
  /\ generation = 0 /\ attempt = 0
  /\ epoch = 0 /\ down = FALSE /\ scheduler = FALSE
  /\ available = FALSE /\ rejected = FALSE
  /\ hot = 0 /\ stored = 0
  /\ signals = [c \in Signals |-> 0] /\ evidence = {}
  /\ generationLock = Free /\ admission = Free /\ closeLock = Free
  /\ task = [t \in Tasks |-> Idle]
  /\ faults = 0

-----------------------------------------------------------------------------
(* Parts of steps *)

Fault == faults < MaxFaults /\ faults' = faults + 1

\* A new transport of generation g, dialled by t, in the first unused slot.
FreeSlots == {s \in Sessions \ (Unclosed \cup Owned) :
                \A t \in Tasks : s \notin task[t].todo}
Slot == CHOOSE s \in FreeSlots : \A r \in FreeSlots : s <= r
Open(t, g, label) ==
  /\ FreeSlots # {}
  /\ session' = [session EXCEPT ![Slot] = "connecting"]
  /\ gen' = [gen EXCEPT ![Slot] = g]
  /\ task' = [task EXCEPT ![t] = [task[t] EXCEPT !.pc = label, !.cand = Slot,
                                                !.seen = epoch']]

\* async_close() takes no further notification before it first waits, and
\* finds nothing to do for a transport that another task closed.
MarkClosing(S) == [s \in Sessions |-> IF s \in S \cap Unclosed THEN "closing"
                                      ELSE session[s]]

\* A seeded fault:
RetainNothing(s) == retired

\* _retain_retired.
Retain(s) == retired \cup {s}

\* Begin to close the transports S under the close lock, then go on at label.
BeginClose(t, S, label) ==
  /\ task' = [task EXCEPT ![t].pc = "closing", ![t].todo = S,
                          ![t].clean = TRUE, ![t].after = label]
  /\ closeLock' = IF closeLock = Free THEN t ELSE closeLock
  /\ session' = IF closeLock = Free THEN MarkClosing(S) ELSE session

\* A seeded fault:
EndReconnectingAnyway(t) ==
  task' = [task EXCEPT ![t] = Idle,
             !["reconnect"] = IF Busy("reconnect") THEN @
                              ELSE [Idle EXCEPT !.pc = "loop"]]

\* _ensure_reconnect_task, by task t, which then ends.
EndEnsuringReconnect(t) ==
  task' = [task EXCEPT ![t] = Idle,
             !["reconnect"] = IF down \/ Busy("reconnect") THEN @
                              ELSE [Idle EXCEPT !.pc = "loop"]]

End(t) == task' = [task EXCEPT ![t] = Idle]

\* An attempt ends; the loop looks again, a direct caller returns.
EndAttempt(t) ==
  /\ generationLock' = Free
  /\ task' = [task EXCEPT ![t] =
                [Idle EXCEPT !.pc = IF t = "reconnect" THEN "loop" ELSE "done"]]

\* A seeded fault:
ConfirmsFirst(e, g) == e \in Signals /\ signals[e] # g

\* _record_fatal_signal: the same signal in two different generations.
Confirms(e, g) == e \in Signals /\ signals[e] # 0 /\ signals[e] # g
Record(e, g) ==
  /\ signals' = [c \in Signals |-> IF c = e THEN g ELSE signals[c]]
  /\ evidence' = IF e \in Signals THEN evidence \cup {<<e, g>>} ELSE evidence

\* _async_reconnect_failure.
Failure(e, g, advance) ==
  /\ Record(e, g)
  /\ rejected' = (rejected \/ Confirms(e, g))
  /\ stored' = IF advance /\ ~Confirms(e, g) THEN stored + 1 ELSE stored
  /\ available' = (available /\ ~Confirms(e, g) /\ transport # None)
  /\ UNCHANGED hot

-----------------------------------------------------------------------------
(* async_start: once per coordinator, before anything else uses it. *)

Start ==
  /\ At("start", "idle") /\ ~down /\ generationLock = Free
  /\ generationLock' = "start"
  /\ epoch' = epoch + 1
  /\ Open("start", generation + 1, "connect")
  /\ pending' = Slot
  /\ UNCHANGED <<transport, retired, ids, down, scheduler, told, count, fatal,
                 admission, closeLock, faults>>

\* async_connect() returns.
Connect ==
  /\ Runs("start", "connect")
  /\ session' = [session EXCEPT ![task["start"].cand] = "open"]
  /\ task' = [task EXCEPT !["start"].pc = "admit"]
  /\ UNCHANGED <<own, gen, ids, life, told, count, fatal, locks, faults>>

ConnectFails ==
  /\ Runs("start", "connect") /\ Fault
  /\ BeginClose("start", {task["start"].cand}, "failed")
  /\ UNCHANGED <<own, gen, ids, life, told, count, fatal, generationLock,
                 admission>>

\* Start fails after the candidate was closed, or could not be.
StartFails ==
  /\ task["start"].pc \in {"failed", "abandoned"}
  /\ available' = (available /\ down)
  /\ generationLock' = Free
  /\ task' = [task EXCEPT !["start"] = [Idle EXCEPT !.pc = "done"]]
  /\ UNCHANGED <<own, wire, ids, life, rejected, count, fatal, admission,
                 closeLock, faults>>

-----------------------------------------------------------------------------
(* Seeding and activation of a candidate, under the admission. *)

\* The candidate t is seeding failed, or its task met a cancellation: leave
\* the admission and close the candidate.
DropCandidate(t, label) ==
  /\ admission' = IF admission = t THEN Free ELSE admission
  /\ BeginClose(t, {task[t].cand}, label)

\* _activate_seeded takes over the generation the candidate was made with.
Taken(s) == gen[s]

\* The last part of _activate_seeded and what follows it in its caller.
Publish(t) ==
  /\ transport' = task[t].cand
  /\ pending' = IF pending = task[t].cand THEN None ELSE pending
  /\ generation' = Taken(task[t].cand)
  /\ hot' = 0 /\ stored' = 0
  /\ available' = TRUE
  /\ admission' = Free
  /\ IF t = "start"
       THEN /\ scheduler' = TRUE
            /\ generationLock' = Free
            /\ task' = [task EXCEPT ![t] = [Idle EXCEPT !.pc = "done"]]
       ELSE UNCHANGED scheduler /\ EndAttempt(t)

Seeding(t) == Runs(t, "seed") /\ admission = t

\* The device answered all reads; no shutdown meanwhile; no old transport.
SeedActivates(t) ==
  /\ Seeding(t)
  /\ ~down /\ task[t].seen = epoch
  /\ transport = None
  /\ Publish(t)
  /\ UNCHANGED <<retired, wire, attempt, epoch, down, rejected, fatal,
                 closeLock, faults>>

\* An old transport is hidden and closed before the candidate is exposed.
SeedReplaces(t) ==
  /\ Seeding(t)
  /\ ~down /\ task[t].seen = epoch
  /\ transport # None
  /\ transport' = None
  /\ retired' = Retain(transport)
  /\ BeginClose(t, {transport}, "activate")
  /\ UNCHANGED <<pending, gen, ids, life, told, count, fatal, generationLock,
                 admission, faults>>

ReplacementActivates(t) ==
  /\ At(t, "activate") /\ task[t].clean /\ ~down
  /\ Publish(t)
  /\ UNCHANGED <<retired, wire, attempt, epoch, down, rejected, fatal,
                 closeLock, faults>>

\* The old transport did not close, or shutdown began: the candidate goes.
ReplacementFails(t) ==
  /\ At(t, "activate") /\ (~task[t].clean \/ down)
  /\ DropCandidate(t, IF task[t].clean THEN "abandoned" ELSE "failed")
  /\ UNCHANGED <<own, gen, ids, life, told, count, fatal, generationLock,
                 faults>>

\* `raise asyncio.CancelledError` after a read that shutdown overtook.
SeedOvertaken(t) ==
  /\ Seeding(t)
  /\ down \/ task[t].seen # epoch
  /\ DropCandidate(t, "abandoned")
  /\ UNCHANGED <<own, gen, ids, life, told, count, fatal, generationLock,
                 faults>>

SeedFails(t) ==
  /\ Seeding(t) /\ Fault
  /\ \E e \in Errors :
       /\ admission' = Free
       /\ task' = [task EXCEPT ![t] =
                     [task[t] EXCEPT !.pc = "closing", !.clean = TRUE,
                        !.todo = {task[t].cand}, !.after = "failed",
                        !.error = e]]
       /\ closeLock' = IF closeLock = Free THEN t ELSE closeLock
       /\ session' = IF closeLock = Free THEN MarkClosing({task[t].cand})
                     ELSE session
  /\ UNCHANGED <<own, gen, ids, life, told, count, fatal, generationLock>>

-----------------------------------------------------------------------------
(* Reconnect loop and attempts. *)

\* Seeded faults:
LoopEndsOnFailure == down \/ available \/ rejected \/ stored > 0
LoopEndsOnSweep == down \/ available \/ rejected \/ stored >= DiscoveryPeriod

\* The loop condition, read negatively.
LoopEnds == down \/ available \/ rejected

\* The backoff sleep separates the condition from the attempt.
Loop ==
  /\ Runs("reconnect", "loop")
  /\ task' = IF LoopEnds
               THEN [task EXCEPT !["reconnect"] = Idle]
               ELSE [task EXCEPT !["reconnect"].pc = "attempt"]
  /\ UNCHANGED <<own, wire, ids, life, told, count, fatal, locks, faults>>

\* A seeded fault:
NoGenerationLock == TRUE

\* `async with self._generation_lock`.
GenerationUnlocked == generationLock = Free

Attempt(t) ==
  /\ (t \in Directs /\ At(t, "idle") /\ scheduler) \/ Runs(t, "attempt")
  /\ GenerationUnlocked
  /\ IF down \/ rejected
       THEN EndAttempt(t)
       ELSE /\ generationLock' = t
            /\ task' = [task EXCEPT ![t].pc = "drain"]
  /\ UNCHANGED <<own, wire, ids, life, told, count, fatal, admission,
                 closeLock, faults>>

\* A seeded fault:
InactivePending == {pending} \ {None}

\* _async_drain_inactive_transports: what it closes.
Inactive == ({pending} \cup retired) \ {None}

Drain(t) ==
  /\ Runs(t, "drain") /\ closeLock = Free
  /\ IF Inactive = {}
       THEN /\ task' = [task EXCEPT ![t].pc = "drained", ![t].clean = TRUE]
            /\ UNCHANGED <<session, closeLock>>
       ELSE BeginClose(t, Inactive, "drained")
  /\ UNCHANGED <<own, gen, ids, life, told, count, fatal, generationLock,
                 admission, faults>>

Larger(m, n) == IF m > n THEN m ELSE n

\* Backpressure: no new transport while an old one is not closed.
DrainFailed(t) ==
  /\ At(t, "drained") /\ ~task[t].clean
  /\ Failure("plain", Larger(attempt, generation), TRUE)
  /\ EndAttempt(t)
  /\ UNCHANGED <<own, wire, ids, life, admission, closeLock, faults>>

Dial(t) ==
  /\ At(t, "drained") /\ task[t].clean
  /\ attempt' = Larger(attempt, generation) + 1
  /\ UNCHANGED epoch
  /\ Open(t, attempt', "dial")
  /\ UNCHANGED <<own, generation, down, scheduler, told, count, fatal, locks,
                 faults>>

\* The stored port, or a discovery probe, connected: _async_accept_candidate.
Dialled(t) ==
  /\ Runs(t, "dial") \/ Runs(t, "discover")
  /\ session' = [session EXCEPT ![task[t].cand] = "open"]
  /\ pending' = task[t].cand
  /\ retired' = IF pending \in {None, task[t].cand} THEN retired
                ELSE Retain(pending)
  /\ task' = [task EXCEPT ![t].pc = "admit", ![t].seen = epoch]
  /\ UNCHANGED <<transport, gen, ids, life, told, count, fatal, locks, faults>>

\* The stored port failed; each DiscoveryPeriod-th time the range is swept,
\* one probe after the other, under a generation of its own.
DialFails(t) ==
  /\ Runs(t, "dial") /\ Fault
  /\ \E e \in Errors :
       LET s == task[t].cand IN
       /\ Failure(e, gen[s], TRUE)
       /\ IF rejected' \/ stored' % DiscoveryPeriod # 0
            THEN /\ session' = [session EXCEPT ![s] = "closed"]
                 /\ EndAttempt(t)
                 /\ UNCHANGED <<gen, attempt>>
            ELSE /\ attempt' = attempt + 1
                 /\ gen' = [gen EXCEPT ![s] = attempt + 1]
                 /\ task' = [task EXCEPT ![t].pc = "discover"]
                 /\ UNCHANGED <<session, generationLock>>
  /\ UNCHANGED <<own, generation, life, admission, closeLock>>

DiscoverFails(t) ==
  /\ Runs(t, "discover") /\ Fault
  /\ \E e \in Errors : Failure(e, gen[task[t].cand], FALSE)
  /\ session' = [session EXCEPT ![task[t].cand] = "closed"]
  /\ EndAttempt(t)
  /\ UNCHANGED <<own, gen, ids, life, admission, closeLock>>

CandidateFailed(t) ==
  /\ At(t, "failed")
  /\ Failure(task[t].error, gen[task[t].cand], TRUE)
  /\ EndAttempt(t)
  /\ UNCHANGED <<own, wire, ids, life, admission, closeLock, faults>>

\* CancelledError leaves the attempt and, through it, the loop.
LeaveAttempt(t) ==
  /\ generationLock' = IF generationLock = t THEN Free ELSE generationLock
  /\ task' = [task EXCEPT ![t] =
                [Idle EXCEPT !.pc = IF t = "reconnect" THEN "idle" ELSE "done"]]

CandidateAbandoned(t) ==
  /\ At(t, "abandoned")
  /\ LeaveAttempt(t)
  /\ UNCHANGED <<own, wire, ids, life, told, count, fatal, admission,
                 closeLock, faults>>

-----------------------------------------------------------------------------
(* Operations on the session: polls, reconciles and commands. *)

\* The scheduler loop and Home Assistant's services submit operations; a poll
\* returns at once when there is no session, a command waits to be refused.
Submit(t) ==
  /\ At(t, "idle") /\ scheduler /\ ~down
  /\ t = "poll" => transport # None
  /\ task' = [task EXCEPT ![t].pc = "admit"]
  /\ UNCHANGED <<own, wire, ids, life, told, count, fatal, locks, faults>>

\* A seeded fault:
NoAdmission == TRUE

\* The admission as a mutex (AdmissionMutex).
Admissible == admission = Free

\* A seeded fault:
GoneUnchecked == down

\* The test that an operation repeats under the admission.
Gone == down \/ transport = None

Admit(t) ==
  /\ Runs(t, "admit") /\ Admissible
  /\ IF t \notin Operations
       THEN admission' = t /\ task' = [task EXCEPT ![t].pc = "seed"]
     ELSE IF Gone
       THEN UNCHANGED admission /\ End(t)
     ELSE /\ admission' = t
          /\ task' = [task EXCEPT ![t] = [task[t] EXCEPT !.pc = "read",
                                            !.cand = transport, !.seen = epoch]]
  /\ UNCHANGED <<own, wire, ids, life, told, count, fatal, generationLock,
                 closeLock, faults>>

Using(t) == Runs(t, "read") /\ admission = t

\* _require_operation_epoch and _require_command_epoch, read negatively.
LostSession(t) == down \/ epoch # task[t].seen \/ transport # task[t].cand
LostEpoch(t)   == down \/ epoch # task[t].seen \/ transport = None

\* An operation ends and leaves the admission.
Finish(t) == admission' = Free /\ End(t)

OperationOvertaken(t) ==
  /\ Using(t) /\ LostSession(t)
  /\ Finish(t)
  /\ UNCHANGED <<own, wire, ids, life, told, count, fatal, generationLock,
                 closeLock, faults>>

\* A hot poll clears the failures and, when the generation has lasted, the
\* fatal signals; other polls and a reconcile only publish.
PollSucceeds ==
  /\ Using("poll") /\ ~LostSession("poll")
  /\ available' = TRUE
  /\ \/ UNCHANGED <<hot, fatal>>
     \/ hot' = 0 /\ UNCHANGED fatal
     \/ hot' = 0 /\ signals' = [c \in Signals |-> 0] /\ evidence' = {}
  /\ Finish("poll")
  /\ UNCHANGED <<own, wire, ids, life, rejected, stored, generationLock,
                 closeLock, faults>>

\* A verified or a refused command publishes what it read; one that failed
\* on the way publishes nothing.
CommandEnds(t) ==
  /\ t \in Commands /\ Using(t) /\ ~LostEpoch(t)
  /\ available' \in {TRUE, available}
  /\ Finish(t)
  /\ UNCHANGED <<own, wire, ids, life, rejected, count, fatal,
                 generationLock, closeLock, faults>>

\* A read or a reconcile fails without a fatal signal: a hot poll counts, and
\* was not yet the last one tolerated; the others only ask to be tried again.
PollFails ==
  /\ Using("poll") /\ ~LostSession("poll") /\ Fault
  /\ \/ UNCHANGED <<hot, available>>
     \/ /\ hot + 1 < HotFailureLimit
        /\ hot' = hot + 1
        /\ available' = TRUE
  /\ Finish("poll")
  /\ UNCHANGED <<own, wire, ids, life, rejected, stored, fatal,
                 generationLock, closeLock>>

\* _async_disconnect_locked up to the await of the close.
Disconnect(t, label) ==
  /\ transport' = None
  /\ retired' = Retain(transport)
  /\ available' = FALSE
  /\ BeginClose(t, {transport}, label)

\* The last tolerated hot poll fails: the generation is dead.
GenerationDies ==
  /\ Using("poll") /\ ~LostSession("poll") /\ Fault
  /\ hot + 1 >= HotFailureLimit
  /\ hot' = hot + 1
  /\ Disconnect("poll", "dead")
  /\ UNCHANGED <<pending, gen, ids, life, rejected, stored, fatal,
                 generationLock, admission>>

\* The device refuses the credentials, to a poll, a reconcile or a command.
FatalEvidence(t) ==
  /\ Using(t) /\ ~LostSession(t) /\ Fault
  /\ \E e \in Signals :
       /\ Record(e, generation)
       /\ rejected' = (rejected \/ Confirms(e, generation))
       /\ Disconnect(t, IF Confirms(e, generation) THEN "refused" ELSE "doubted")
  /\ UNCHANGED <<pending, gen, ids, life, count, generationLock, admission>>

\* The close of a disconnect returned, well or not: evidence that is not
\* confirmed reconnects, and so does a dead generation unless the credentials
\* were rejected meanwhile.
Disconnected(t) ==
  /\ task[t].pc \in {"dead", "doubted", "refused"}
  /\ admission' = Free
  /\ IF At(t, "refused") \/ (At(t, "dead") /\ rejected)
       THEN End(t) ELSE EndEnsuringReconnect(t)
  /\ UNCHANGED <<own, wire, ids, life, told, count, fatal, generationLock,
                 closeLock, faults>>

\* A seeded fault:
HearsClosing(s) == s \in Unclosed /\ gen[s] = generation

\* A notification of transport s reaches handle_observe and is not ignored
\* there: s is not closed, nor about to be, and of the current generation.
Hears(s) == session[s] = "open" /\ gen[s] = generation

\* handle_observe: a subscribed notification of the current generation; a
\* command in progress merges it without publishing.
Observe ==
  /\ ~down
  /\ \E s \in Sessions : Hears(s)
  /\ \A t \in Commands : ~At(t, "read")
  /\ available' = TRUE
  /\ UNCHANGED <<own, wire, ids, life, rejected, count, fatal, locks, task,
                 faults>>

-----------------------------------------------------------------------------
(* Closing, one transport after the other under the close lock. *)

TakeCloseLock(t) ==
  /\ Runs(t, "closing") /\ closeLock = Free
  /\ closeLock' = t
  /\ session' = MarkClosing(task[t].todo)
  /\ UNCHANGED <<own, gen, ids, life, told, count, fatal, generationLock,
                 admission, task, faults>>

\* After s, closed or not: the next one, or out of the lock.
CloseNext(t, s, ok) ==
  LET left == task[t].todo \ {s} IN
  /\ closeLock' = IF left = {} THEN Free ELSE t
  /\ task' = [task EXCEPT ![t].todo = left, ![t].clean = @ /\ ok,
                          ![t].pc = IF left = {} THEN task[t].after ELSE @]

\* _forget_owned after a close.
Closed(t) ==
  /\ Runs(t, "closing") /\ closeLock = t
  /\ \E s \in task[t].todo :
       /\ session' = [session EXCEPT ![s] = "closed"]
       /\ transport' = IF transport = s THEN None ELSE transport
       /\ pending' = IF pending = s THEN None ELSE pending
       /\ retired' = retired \ {s}
       /\ CloseNext(t, s, TRUE)
  /\ UNCHANGED <<gen, ids, life, told, count, fatal, generationLock,
                 admission, faults>>

CloseFails(t) ==
  /\ Runs(t, "closing") /\ closeLock = t /\ Fault
  /\ \E s \in task[t].todo : CloseNext(t, s, FALSE)
  /\ UNCHANGED <<own, wire, ids, life, told, count, fatal, generationLock,
                 admission>>

-----------------------------------------------------------------------------
(* Cancellation and shutdown. *)

\* The caller of a command, or the setup of the entry, is cancelled: the
\* wrapper cancels its task, once.
CallerCancels(t) ==
  /\ t \in Cancellable /\ Fault
  /\ task[t].pc \in {"connect", "admit", "seed", "read", "closing"}
  /\ ~task[t].cancel
  /\ task' = [task EXCEPT ![t].cancel = TRUE]
  /\ UNCHANGED <<own, wire, ids, life, told, count, fatal, locks>>

Cancelled(t, label) == At(t, label) /\ task[t].cancel

\* A seeded fault:
CloseLockKept(t) == closeLock

\* `async with self._close_lock` is left.
CloseLockLeft(t) == IF closeLock = t THEN Free ELSE closeLock

\* An operation meets its cancellation; during a disconnect the transport
\* stays retired and nothing after the close runs.
OperationCancelled(t) ==
  /\ t \in Operations
  /\ \E label \in {"admit", "read", "closing"} : Cancelled(t, label)
  /\ admission' = IF admission = t THEN Free ELSE admission
  /\ closeLock' = CloseLockLeft(t)
  /\ End(t)
  /\ UNCHANGED <<own, wire, ids, life, told, count, fatal, generationLock,
                 faults>>

\* A candidate is closed before the cancellation goes on; its task waits for
\* the close lock again when it was cancelled while closing the old one.
CandidateCancelled(t) ==
  /\ t \notin Operations
  /\ \/ \E label \in {"connect", "admit", "seed"} : Cancelled(t, label)
     \/ Cancelled(t, "closing") /\ task[t].after = "activate"
  /\ admission' = IF admission = t THEN Free ELSE admission
  /\ closeLock' = CloseLockLeft(t)
  /\ task' = [task EXCEPT ![t] =
                [task[t] EXCEPT !.pc = "closing", !.todo = {task[t].cand},
                   !.clean = TRUE, !.after = "abandoned", !.cancel = FALSE]]
  /\ UNCHANGED <<own, wire, ids, life, told, count, fatal, generationLock,
                 faults>>

\* Elsewhere the task just leaves: a transport being dialled closes itself,
\* one whose close is interrupted stays owned.
AttemptCancelled(t) ==
  /\ t \notin Operations
  /\ \/ \E label \in {"loop", "attempt", "drain", "dial", "discover"} :
          Cancelled(t, label)
     \/ Cancelled(t, "closing") /\ task[t].after # "activate"
  /\ session' = IF task[t].pc \in {"dial", "discover"}
                  THEN [session EXCEPT ![task[t].cand] = "closed"]
                  ELSE session
  /\ closeLock' = CloseLockLeft(t)
  /\ LeaveAttempt(t)
  /\ UNCHANGED <<own, gen, ids, life, told, count, fatal, admission, faults>>

\* _begin_shutdown, by async_shutdown; a failed shutdown may be asked again.
BeginShutdown ==
  /\ At("shutdown", "idle")
  /\ down' = TRUE
  /\ epoch' = IF down THEN epoch ELSE epoch + 1
  /\ task' = [task EXCEPT !["shutdown"].pc = "stop"]
  /\ UNCHANGED <<own, wire, ids, scheduler, told, count, fatal, locks, faults>>

\* Cancel every task there is.
Stop ==
  /\ At("shutdown", "stop")
  /\ scheduler' = FALSE
  /\ task' = [t \in Tasks |->
                IF t = "shutdown" THEN [task[t] EXCEPT !.pc = "join"]
                ELSE IF Busy(t) THEN [task[t] EXCEPT !.cancel = TRUE]
                ELSE task[t]]
  /\ UNCHANGED <<own, wire, ids, epoch, down, told, count, fatal, locks,
                 faults>>

\* A seeded fault:
CollectedActive == {transport, pending} \ {None}

\* What shutdown collects to close.
Collected == Owned

\* They are all done: close whatever is owned.
Join ==
  /\ At("shutdown", "join")
  /\ \A t \in Tasks \ {"shutdown"} : ~Busy(t)
  /\ available' = FALSE
  /\ IF Collected = {}
       THEN /\ task' = [task EXCEPT !["shutdown"].pc = "swept",
                                    !["shutdown"].clean = TRUE]
            /\ UNCHANGED <<session, closeLock>>
       ELSE BeginClose("shutdown", Collected, "swept")
  /\ UNCHANGED <<own, gen, ids, life, rejected, count, fatal, generationLock,
                 admission, faults>>

\* Shutdown is over, or failed and retryable.
ShutdownReturns ==
  /\ At("shutdown", "swept")
  /\ task' = [task EXCEPT !["shutdown"] =
                IF task["shutdown"].clean THEN [Idle EXCEPT !.pc = "done"]
                ELSE Idle]
  /\ UNCHANGED <<own, wire, ids, life, told, count, fatal, locks, faults>>

\* After a complete shutdown nothing is left to do.
Stopped == At("shutdown", "done") /\ UNCHANGED vars

-----------------------------------------------------------------------------
SeedStep(t) == \/ SeedActivates(t) \/ SeedReplaces(t)
               \/ ReplacementActivates(t) \/ ReplacementFails(t)
               \/ SeedOvertaken(t) \/ SeedFails(t)
StartStep == Start \/ Connect \/ ConnectFails \/ StartFails
AttemptStep(t) == \/ Attempt(t) \/ Drain(t) \/ DrainFailed(t) \/ Dial(t)
                  \/ Dialled(t) \/ DialFails(t) \/ DiscoverFails(t)
                  \/ CandidateFailed(t) \/ CandidateAbandoned(t)
                  \/ AttemptCancelled(t)
OperationStep(t) == \/ OperationOvertaken(t) \/ FatalEvidence(t)
                    \/ Disconnected(t) \/ OperationCancelled(t)
                    \/ t = "poll" /\ (PollSucceeds \/ PollFails
                                      \/ GenerationDies)
                    \/ CommandEnds(t)
CloseStep(t) == TakeCloseLock(t) \/ Closed(t) \/ CloseFails(t)
ShutdownStep == Stop \/ Join \/ ShutdownReturns

Next ==
  \/ StartStep \/ Loop \/ Observe \/ BeginShutdown \/ ShutdownStep \/ Stopped
  \/ \E t \in Tasks : Admit(t) \/ CloseStep(t) \/ CallerCancels(t)
  \/ \E t \in {"start"} \cup Attempters : SeedStep(t) \/ CandidateCancelled(t)
  \/ AttemptCancelled("start")
  \/ \E t \in Attempters : AttemptStep(t)
  \/ \E t \in Operations : Submit(t) \/ OperationStep(t)

\* Every started task runs on: the event loop is fair and every request to
\* the device ends by an answer or a timeout.  Commands and candidates ask for
\* the admission with its best priority, so none of them is passed over for
\* ever (PriorityAdmission, WaiterServed); a poll may be, and is not assumed
\* to be served while commands keep coming.
Fairness ==
  /\ WF_vars(StartStep) /\ WF_vars(Loop) /\ WF_vars(ShutdownStep)
  /\ WF_vars(AttemptCancelled("start"))
  /\ \A t \in Tasks : WF_vars(CloseStep(t))
  /\ \A t \in Tasks \ {"poll"} : SF_vars(Admit(t))
  /\ \A t \in {"start"} \cup Attempters :
       WF_vars(SeedStep(t)) /\ WF_vars(CandidateCancelled(t))
  /\ \A t \in Attempters : WF_vars(AttemptStep(t))
  /\ \A t \in Operations : WF_vars(OperationStep(t))

Spec == Init /\ [][Next]_vars /\ Fairness

-----------------------------------------------------------------------------
(* Properties *)

Labels == {"idle", "done", "connect", "admit", "seed", "activate", "failed",
           "abandoned", "loop", "attempt", "drain", "drained", "dial",
           "discover", "read", "dead", "doubted", "refused", "closing", "stop",
           "join", "swept"}

Locals == [pc : Labels, cand : Sessions \cup {None}, seen : Nat,
           todo : SUBSET Sessions, clean : BOOLEAN, after : Labels,
           error : Errors, cancel : BOOLEAN]

TypeOK ==
  /\ {transport, pending} \subseteq Sessions \cup {None}
  /\ retired \subseteq Sessions
  /\ session \in [Sessions -> {"closed", "connecting", "open", "closing"}]
  /\ gen \in [Sessions -> Nat]
  /\ generation \in Nat /\ attempt \in Nat /\ epoch \in Nat
  /\ down \in BOOLEAN /\ scheduler \in BOOLEAN
  /\ available \in BOOLEAN /\ rejected \in BOOLEAN
  /\ hot \in Nat /\ stored \in Nat
  /\ signals \in [Signals -> Nat]
  /\ evidence \subseteq Signals \X Nat
  /\ {generationLock, admission, closeLock} \subseteq Tasks \cup {Free}
  /\ task \in [Tasks -> Locals]
  /\ faults \in 0..MaxFaults

\* No session is lost: whatever is not closed is owned by the coordinator,
\* where a later drain or shutdown finds it, or still being dialled.
NoOrphan ==
  \A s \in Unclosed :
    \/ s \in Owned
    \/ \E t \in Attempters : task[t].cand = s
                             /\ task[t].pc \in {"dial", "discover"}

\* The device speaks to one client: the reconnect loop never has two
\* sessions that are not closed; a second caller of a reconnect attempt may
\* add a candidate while the old session is still active.
SessionsBounded ==
  Cardinality(Unclosed) <= IF Directs = {} THEN 1 ELSE 2

\* Entities are shown as available only with a session behind them.
AvailableHasSession == available => transport # None

\* An operation that owns the admission has a session, although it looked for
\* one before it waited, and no other task replaces it or takes it away: the
\* CancelledError that would raise inside a scheduled poll ends the scheduler
\* loop for good.
SessionStable ==
  \A t \in Operations : At(t, "read") =>
                          transport = task[t].cand /\ transport # None

\* Credentials are rejected only after the same signal in two generations
\* with no lasting generation between them.
TwoGenerationsToReject ==
  [][ ~rejected /\ rejected' =>
        \E e \in Signals : \E p, q \in evidence' :
          p[1] = e /\ q[1] = e /\ p[2] # q[2] ]_vars

\* An outage of a set-up entry is being worked on: a reconnect task exists,
\* or the operation that found it has not left the disconnect yet.
OutageIsRetried ==
  scheduler /\ ~down /\ ~available /\ ~rejected =>
    \/ Busy("reconnect")
    \/ \E t \in Operations : task[t].pc \in {"dead", "doubted", "closing"}

\* A complete shutdown leaves no session open, and no task running.
ShutdownCloses ==
  At("shutdown", "done") =>
    Unclosed = {} /\ \A t \in Tasks : ~Busy(t)

\* Nothing comes back after shutdown began: an attempt that is past its drain
\* may still dial until Stop cancels it, but what it dials never becomes the
\* session, no reconnect loop starts, no entity becomes available again.
NoResurrection ==
  [][ down => /\ available' => available
              /\ Busy("reconnect")' => Busy("reconnect")
              /\ transport' \in {transport, None} ]_vars

\* An outage ends: with the session back, with the rejection confirmed, or
\* with shutdown.
OutageEnds ==
  scheduler /\ ~available ~> available \/ rejected \/ down

\* Shutdown joins everything it cancelled and returns.
ShutdownEnds == At("shutdown", "stop") ~> task["shutdown"].pc \in {"idle", "done"}
=============================================================================
