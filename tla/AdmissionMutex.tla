--------------------------- MODULE AdmissionMutex ---------------------------
(***************************************************************************)
(* What the coordinator's admission promises to the operations that use it *)
(* (`async with self._admission.hold(priority)`): at any time at most one  *)
(* task owns the device session, only a task that asked is given it, and a *)
(* task that gave up asking is not.  Nothing is said of who comes next;    *)
(* PriorityAdmission implements this module and says that.                 *)
(***************************************************************************)
CONSTANTS Tasks,     \* the tasks that use the session
          NoTask     \* the absence of a task, which is none of them

VARIABLES owner,    \* the task that owns the admission, or NoTask
          asking    \* the tasks that asked for it and have not returned

mutexVars == <<owner, asking>>

MutexTypeOK ==
  /\ owner \in Tasks \cup {NoTask}
  /\ asking \subseteq Tasks

MutexInit ==
  /\ owner = NoTask
  /\ asking = {}

\* A task starts to ask; it may find the admission free and own it at once.
Ask(t) ==
  /\ t \notin asking /\ owner # t
  /\ \/ owner' = owner
     \/ owner = NoTask /\ owner' = t
  /\ asking' = asking \cup {t}

\* The owner, or a task that no longer wants to wait, leaves; an owner that
\* leaves hands the admission to a task that is asking, or frees it.
Leave(t) ==
  /\ t \in asking
  /\ asking' = asking \ {t}
  /\ IF owner = t
       THEN owner' \in (asking \ {t}) \cup {NoTask}
       ELSE owner' = owner

MutexNext == \E t \in Tasks : Ask(t) \/ Leave(t)

MutexSpec == MutexInit /\ [][MutexNext]_mutexVars
=============================================================================
