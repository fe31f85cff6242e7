------------------------ MODULE EntryLifecycleProofs ------------------------
(***************************************************************************)
(* Reauthentication is started once for a rejected entry, never during an  *)
(* unload, and an entry that is not loaded has no coordinator that works.  *)
(***************************************************************************)
EXTENDS EntryLifecycle, TLAPS

\* A coordinator that works while a task waits for its shutdown is being shut
\* down, whoever began it; with no coordinator, nothing is being shut down and
\* no attempt runs.
CoordinatorInPhase ==
  /\ phase \in {"giving up", "shutting down"} /\ alive => ending
  /\ phase \in {"starting", "forwarding", "giving up"} => ~attached /\ reauth = "never"
  /\ phase \in {"starting", "forwarding"} => ~ending
  /\ phase \in {"starting", "forwarding", "giving up"} => ~listening
  /\ phase \in Idle => ~alive /\ ~ending /\ ~listening
  /\ ~alive => ~untold

\* The listener is on while the entry is loaded, and never during an unload;
\* while it is off, nothing counts.
ListenerInPhase ==
  /\ phase \in Idle \cup {"unloading", "shutting down"} => ~attached
  /\ asked => reauth = "once"
  /\ ~asked => reauth = "never"
  /\ attached /\ rejected /\ ~untold => asked

IInv == TypeOK /\ CoordinatorInPhase /\ ListenerInPhase

LEMMA InitIInv == Init => IInv
BY DEF Init, IInv, TypeOK, CoordinatorInPhase, ListenerInPhase, Idle

\* Every step keeps it.
LEMMA NextIInv == IInv /\ [Next]_vars => IInv'
<1> SUFFICES ASSUME IInv, [Next]_vars PROVE IInv'
  OBVIOUS
<1> USE DEF IInv, TypeOK, CoordinatorInPhase, ListenerInPhase, Idle, entry,
            coordinator, lifecycle, stopping
<1>1. CASE SettingUp
  <2>1. CASE SetUpUnusable BY <2>1 DEF SetUpUnusable
  <2>2. CASE SetUp BY <2>2 DEF SetUp
  <2>3. CASE Started BY <2>3 DEF Started
  <2>4. CASE SetUpFails BY <2>4 DEF SetUpFails
  <2>5. CASE GivenUp BY <2>5 DEF GivenUp, Over
  <2>6. CASE SetUpSucceeds
    BY <2>6 DEF SetUpSucceeds, Attach, Look, Asks, Listen
  <2>7. CASE CancelledMeanwhile BY <2>7 DEF CancelledMeanwhile
  <2> QED BY <1>1, <2>1, <2>2, <2>3, <2>4, <2>5, <2>6, <2>7 DEF SettingUp
<1>2. CASE Unloading
  <2>1. CASE Unload BY <2>1 DEF Unload, Suspend
  <2>2. CASE PlatformsStay BY <2>2 DEF PlatformsStay, Attach, Look, Asks
  <2>3. CASE PlatformsUnloaded BY <2>3 DEF PlatformsUnloaded
  <2>4. CASE Unloaded BY <2>4 DEF Unloaded, Over
  <2>5. CASE UnloadFails BY <2>5 DEF UnloadFails, Over
  <2> QED BY <1>2, <2>1, <2>2, <2>3, <2>4, <2>5 DEF Unloading
<1>3. CASE Coordinating
  <2>1. CASE Reject BY <2>1 DEF Reject, Running, Look, Asks
  <2>2. CASE RejectDialling BY <2>2 DEF RejectDialling, Running
  <2>3. CASE AttemptEnds BY <2>3 DEF AttemptEnds, Told, Look, Asks
  <2>4. CASE Publish BY <2>4 DEF Publish, Look, Asks
  <2>5. CASE ShutdownEnds BY <2>5 DEF ShutdownEnds
  <2> QED BY <1>3, <2>1, <2>2, <2>3, <2>4, <2>5 DEF Coordinating
<1>4. CASE Store
  <2>1. TypeOK' BY <1>4 DEF Store, ScheduleReload
  <2>2. CoordinatorInPhase' BY <1>4 DEF Store
  <2>3. ListenerInPhase' BY <1>4 DEF Store
  <2> QED BY <2>1, <2>2, <2>3
<1>5. CASE ReloadRefused BY <1>5 DEF ReloadRefused
<1>6. CASE AddOrRemove BY <1>6 DEF AddOrRemove
<1>7. CASE Stop BY <1>7 DEF Stop
<1>8. CASE Restart BY <1>8 DEF Restart
<1>9. CASE UNCHANGED vars
  <2>1. TypeOK' BY <1>9 DEF vars
  <2>2. CoordinatorInPhase' BY <1>9 DEF vars
  <2>3. ListenerInPhase' BY <1>9 DEF vars
  <2> QED BY <2>1, <2>2, <2>3
<1> QED BY <1>1, <1>2, <1>3, <1>4, <1>5, <1>6, <1>7, <1>8, <1>9 DEF Next

\* The invariant holds in every reachable state.
LEMMA Invariance == Spec => []IInv
BY InitIInv, NextIInv, PTL DEF Spec

\* Each time the entry is loaded, handle_update starts reauthentication once
\* for a rejection, whenever it came.
THEOREM AskedOnce == Spec => []RejectionAsksOnce
<1>1. IInv => RejectionAsksOnce
  BY DEF IInv, TypeOK, ListenerInPhase, RejectionAsksOnce
<1> QED BY <1>1, Invariance, PTL

\* async_setup_entry and async_unload_entry wait for the shutdown, however often
\* they are cancelled and whoever else began it: an entry they leave idle has no
\* coordinator that works.
THEOREM NoneStray == Spec => []NoStrayCoordinator
<1>1. IInv => NoStrayCoordinator
  BY DEF IInv, CoordinatorInPhase, NoStrayCoordinator
<1> QED BY <1>1, Invariance, PTL

\* async_unload_entry suppresses the lifecycle until it is over or has failed.
THEOREM Silent == Spec => SilentWhileUnloading
<1>1. IInv /\ [Next]_vars =>
        [(phase \in {"unloading", "shutting down"}
          /\ reauth' \in {"once", "again"})
           => reauth' = reauth \/ phase' = "failed unload"]_vars
  <2> SUFFICES ASSUME IInv, Next, phase \in {"unloading", "shutting down"},
                      phase' # "failed unload", reauth' # "never"
               PROVE  reauth' = reauth
    OBVIOUS
  <2>1. ~attached BY DEF IInv, ListenerInPhase
  <2> QED BY <2>1
       DEF Next, SettingUp, Unloading, Coordinating, SetUpUnusable, SetUp,
           Started, SetUpFails, CancelledMeanwhile, GivenUp, SetUpSucceeds,
           Unload, PlatformsStay, PlatformsUnloaded, Unloaded, UnloadFails, Reject,
           RejectDialling, AttemptEnds, Publish, Look, Asks, Store,
           ReloadRefused, AddOrRemove, Stop, ShutdownEnds, Restart, lifecycle, Idle
<1> QED BY <1>1, Invariance, PTL DEF Spec, SilentWhileUnloading
=============================================================================
