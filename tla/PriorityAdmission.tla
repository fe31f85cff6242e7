-------------------------- MODULE PriorityAdmission --------------------------
(***************************************************************************)
(* `_PriorityAdmission` of coordinator.py: the non-preemptive admission in *)
(* front of the one DTLS session.  `acquire` takes it when it is free and  *)
(* nobody waits, or pushes (priority, sequence, future) on a heap and      *)
(* awaits the future; `release` pops the heap, skips futures that were     *)
(* cancelled, and completes the first live one, which keeps `_held` true.  *)
(*                                                                         *)
(* Between the completion of a future and the moment its task runs again   *)
(* the event loop runs other tasks, and the waiting task may be cancelled  *)
(* in either half; those are separate steps here:                          *)
(*                                                                         *)
(*   idle -> holding -> idle                          uncontended          *)
(*   idle -> waiting -> granted -> holding -> idle    contended            *)
(*           waiting -> cancelled -> idle             future cancelled     *)
(*                      granted -> revoked -> idle    cancelled after the  *)
(*                                                    hand-off             *)
(*                                                                         *)
(* `urgency` and `ahead` are history: they record who asked before whom,   *)
(* for the properties alone.                                               *)
(***************************************************************************)
EXTENDS Integers, FiniteSets

CONSTANTS Tasks,        \* the operations that may ask for the admission
          NoTask,       \* the owner of a free admission
          Priorities,   \* PollTier values: a smaller number goes first
          MaxSequence   \* bound: contended acquisitions before Acquire stops

ASSUME TaskAssumption     == NoTask \notin Tasks
ASSUME PriorityAssumption == Priorities \subseteq Int
ASSUME SequenceAssumption == MaxSequence \in Nat

VARIABLES held,       \* _held
          sequence,   \* _sequence
          waiters,    \* _waiters, the heap as a set: sequences differ
          pc,         \* where each task is in hold()
          ticket,     \* the sequence number of the future a task awaits
          urgency,    \* the priority a task last asked with
          ahead       \* history, read by no guard: the requests that a task's
                      \* last request has to let through first

history == <<urgency, ahead>>
vars == <<held, sequence, waiters, pc, ticket, urgency, ahead>>

Entry == [priority : Priorities, sequence : Nat, task : Tasks]

States == {"idle", "waiting", "granted", "cancelled", "revoked", "holding"}

\* The task whose acquisition succeeded, whether it has run since or not.
Owns(t) == pc[t] \in {"granted", "revoked", "holding"}

\* A request is pending until its task enters hold() or gives it up.
Pending(t) == pc[t] \in {"waiting", "granted"}

\* `not waiter.cancelled()`: cancelling a task cancels the future it awaits
\* but leaves the heap entry behind.
Live(e) == pc[e.task] = "waiting" /\ ticket[e.task] = e.sequence

\* The tuple order of the heap.
Before(e, f) == \/ e.priority < f.priority
                \/ e.priority = f.priority /\ e.sequence < f.sequence

\* A seeded fault:
FirstAsked(e) == \A f \in waiters : Live(f) => e.sequence <= f.sequence

First(e) == \A f \in waiters : Live(f) /\ f # e => Before(e, f)

Init ==
  /\ held = FALSE
  /\ sequence = 0
  /\ waiters = {}
  /\ pc = [t \in Tasks |-> "idle"]
  /\ ticket = [t \in Tasks |-> 0]
  /\ urgency \in [Tasks -> Priorities]
  /\ ahead = [t \in Tasks |-> {}]

-----------------------------------------------------------------------------
\* Task t asks with priority p.  It has to let through every pending request
\* of its priority or a better one, and whoever still waits with a worse
\* priority has to let it through; what t asked for before is forgotten.
Asks(t, p) ==
  /\ urgency' = [urgency EXCEPT ![t] = p]
  /\ ahead' = [v \in Tasks |->
       IF v = t
         THEN {u \in Tasks \ {t} : Pending(u) /\ urgency[u] <= p}
         ELSE IF pc[v] = "waiting" /\ p < urgency[v]
                THEN ahead[v] \cup {t} ELSE ahead[v] \ {t}]

\* A seeded fault:
NobodyQueued == waiters = {}

\* `not self._held and not self._waiters`.
Uncontended == ~held /\ waiters = {}

\* acquire() of a free admission.
AcquireFree(t) ==
  /\ pc[t] = "idle"
  /\ Uncontended
  /\ \E p \in Priorities : Asks(t, p)
  /\ held' = TRUE
  /\ pc' = [pc EXCEPT ![t] = "holding"]
  /\ UNCHANGED <<sequence, waiters, ticket>>

\* A seeded fault:
FormerSequence == sequence - 1

\* `_sequence += 1`.
NextSequence == sequence + 1

\* acquire() that has to wait.
AcquireWait(t) ==
  /\ pc[t] = "idle"
  /\ held \/ waiters # {}
  /\ sequence < MaxSequence
  /\ sequence' = NextSequence
  /\ \E p \in Priorities :
       /\ waiters' = waiters \cup
                    {[priority |-> p, sequence |-> NextSequence, task |-> t]}
       /\ Asks(t, p)
  /\ ticket' = [ticket EXCEPT ![t] = NextSequence]
  /\ pc' = [pc EXCEPT ![t] = "waiting"]
  /\ UNCHANGED held

\* A seeded fault:
Reopened == FALSE

\* `_held` while a grant is on its way.
StillHeld == TRUE

\* release() by task t, whose call then leaves hold() or acquire(): every
\* cancelled entry in front of the next live one is popped and dropped.
Release(t) ==
  \/ \E e \in waiters :
       /\ Live(e) /\ First(e)
       /\ waiters' = {f \in waiters : Before(e, f)}
       /\ pc' = [pc EXCEPT ![t] = "idle", ![e.task] = "granted"]
       /\ held' = StillHeld
       /\ UNCHANGED <<sequence, ticket, history>>
  \/ /\ \A e \in waiters : ~Live(e)
     /\ waiters' = {}
     /\ held' = FALSE
     /\ pc' = [pc EXCEPT ![t] = "idle"]
     /\ UNCHANGED <<sequence, ticket, history>>

\* The body of `async with hold()` ends, by return, error or cancellation.
Exit(t) == pc[t] = "holding" /\ Release(t)

\* The awaiting task runs after its future was completed.
Resume(t) ==
  /\ pc[t] = "granted"
  /\ pc' = [pc EXCEPT ![t] = "holding"]
  /\ UNCHANGED <<held, sequence, waiters, ticket, history>>

\* task.cancel() while the task is inside acquire().
Cancel(t) ==
  /\ \/ pc[t] = "waiting" /\ pc' = [pc EXCEPT ![t] = "cancelled"]
     \/ pc[t] = "granted" /\ pc' = [pc EXCEPT ![t] = "revoked"]
  /\ UNCHANGED <<held, sequence, waiters, ticket, history>>

\* A seeded fault:
UnwindWithoutHandOff(t) ==
  /\ pc[t] \in {"revoked", "cancelled"}
  /\ pc' = [pc EXCEPT ![t] = "idle"]
  /\ UNCHANGED <<held, sequence, waiters, ticket, history>>

\* `except BaseException` of acquire(): an admission granted before the
\* cancellation was delivered is released again.
Unwind(t) ==
  \/ pc[t] = "revoked" /\ Release(t)
  \/ /\ pc[t] = "cancelled"
     /\ pc' = [pc EXCEPT ![t] = "idle"]
     /\ UNCHANGED <<held, sequence, waiters, ticket, history>>

Next == \E t \in Tasks : \/ AcquireFree(t) \/ AcquireWait(t) \/ Exit(t)
                         \/ Resume(t) \/ Cancel(t) \/ Unwind(t)

\* The event loop runs every ready task, and every body ends: the requests
\* made under the admission carry timeouts of their own.
Fairness == \A t \in Tasks : WF_vars(Exit(t)) /\ WF_vars(Resume(t))
                             /\ WF_vars(Unwind(t))

Spec == Init /\ [][Next]_vars /\ Fairness

-----------------------------------------------------------------------------
(* Properties *)

TypeOK ==
  /\ held \in BOOLEAN
  /\ sequence \in Nat
  /\ waiters \in SUBSET Entry
  /\ pc \in [Tasks -> States]
  /\ ticket \in [Tasks -> Nat]
  /\ urgency \in [Tasks -> Priorities]
  /\ ahead \in [Tasks -> SUBSET Tasks]

\* One request stream: two operations never own the admission together,
\* although the grant is made in one step and taken up in a later one.
MutualExclusion == \A t, u \in Tasks : Owns(t) /\ Owns(u) => t = u

\* `_held` and the tasks agree.  A grant lost to a cancellation would leave
\* `_held` true for ever and stop every command, poll and reconnect.
NoLostGrant == held <=> \E t \in Tasks : Owns(t)

\* A free admission has an empty heap: the fast path of acquire() never
\* overtakes a waiter and no waiter is left behind a free admission.
FreeHasNoWaiters == ~held => waiters = {}

\* No two heap entries share a sequence number, so comparing tuples never
\* reaches the futures, which have no order (heapq would raise TypeError).
SequencesUnique ==
  \A e \in waiters : /\ e.sequence <= sequence
                     /\ \A f \in waiters : f.sequence = e.sequence => f = e

\* "Non-preemptive admission with strict waiter priority": a task enters
\* hold(), by the fast path or by a hand-off, only once every request it had to
\* let through was let through or given up: the pending ones of its priority
\* or a better one that came before its own, and those of a better priority
\* that came while it still waited, whatever was cancelled in between.
ServedInTurn ==
  \A t \in Tasks : pc[t] = "holding" => \A u \in ahead[t] : ~Pending(u)

\* No wake-up is lost.  The priority is strict, so a task may wait for ever,
\* but only behind more urgent requests that never stop coming: otherwise it
\* is granted, or cancelled.
WaiterServed ==
  \A t \in Tasks :
    <>[](pc[t] = "waiting") =>
      []<>(\E u \in Tasks : pc[u] = "waiting" /\ urgency[u] < urgency[t])

\* What implements AdmissionMutex: the owner is whoever holds or was granted
\* it, and every task inside hold() is asking.
owner == IF \E t \in Tasks : Owns(t)
           THEN CHOOSE t \in Tasks : Owns(t) ELSE NoTask
asking == {t \in Tasks : pc[t] # "idle"}

Mutex == INSTANCE AdmissionMutex
ImplementsMutex == Mutex!MutexSpec
=============================================================================
