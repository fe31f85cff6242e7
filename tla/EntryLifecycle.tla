--------------------------- MODULE EntryLifecycle ---------------------------
(***************************************************************************)
(* One config entry (__init__.py).  Set-up builds a coordinator from what  *)
(* the entry stores and starts it, forwards to the platforms and attaches  *)
(* _EntryLifecycle, whose listener starts reauthentication; unload         *)
(* detaches that first, unloads the platforms and shuts the coordinator    *)
(* down.  A set-up or an unload is one task under the entry's lock; the    *)
(* coordinator, Home Assistant's stop event and a config flow that stores  *)
(* new data come in between at every await.                                *)
(*                                                                         *)
(* The coordinator is seen from outside: it runs until its shutdown ended, *)
(* a task of its own that every caller of it joins, and that may fail to   *)
(* close a session.  It may find its credentials rejected, and says so at  *)
(* once when it finds out on a live session, and at the end of the attempt *)
(* when it finds out while it reconnects.  Home Assistant is external: it  *)
(* sets up, retries, reloads, unloads and removes the entry, one at a time.*)
(*                                                                         *)
(* An entry that would not unload may be removed all the same: it is       *)
(* "abandoned", its coordinator runs on until Home Assistant stops, and an *)
(* entry that is added later is another one.                               *)
(***************************************************************************)
VARIABLES
  phase,      \* what is being done with the entry, or its state
  stored,     \* there is an entry
  current,    \* the last set-up read what the entry stores now
  due,        \* Home Assistant is to set the entry up, by a reload if it is
              \* loaded
  alive,      \* a coordinator was built, and no shutdown of it has ended
  ending,     \* a shutdown of it runs: its _shutdown_task
  left,       \* its last shutdown failed: a session of it may be open
  rejected,   \* its authentication_rejected
  untold,     \* ...found in an attempt to reconnect that still runs
  attached,   \* the lifecycle is not suppressed and has its listener
  asked,      \* its reauth_started
  reauth,     \* history: whether it started reauthentication "never", "once" or
              \* "again"
  failure,    \* why a set-up fails, or that an unload was cancelled
  listening,  \* the stop listener is registered
  stop        \* the stop event: "no"; "late" when it came in the middle of a
              \* set-up; "come"

entry       == <<stored, current, due>>
coordinator == <<alive, ending, left, rejected, untold>>
lifecycle   == <<attached, asked, reauth>>
stopping    == <<listening, stop>>
vars == <<phase, entry, coordinator, lifecycle, failure, stopping>>

Idle == {"not loaded", "retry", "error"}

TypeOK ==
  /\ phase \in Idle \cup {"starting", "forwarding", "giving up", "loaded",
                          "unloading", "shutting down", "failed unload",
                          "abandoned"}
  /\ {stored, current, due} \subseteq BOOLEAN
  /\ {alive, ending, left, rejected, untold} \subseteq BOOLEAN
  /\ {attached, asked, listening} \subseteq BOOLEAN
  /\ reauth \in {"never", "once", "again"}
  /\ failure \in {"none", "cancelled", "rejected", "unusable", "not ready"}
  /\ stop \in {"no", "late", "come"}

Init ==
  /\ phase = "not loaded"
  /\ stored = TRUE /\ current = FALSE /\ due = TRUE
  /\ alive = FALSE /\ ending = FALSE /\ left = FALSE
  /\ rejected = FALSE /\ untold = FALSE
  /\ attached = FALSE /\ asked = FALSE /\ reauth = "never"
  /\ failure = "none"
  /\ listening = FALSE /\ stop = "no"

-----------------------------------------------------------------------------
(* _EntryLifecycle *)

\* Whether a look, with the listener on or not, starts reauthentication.
Asks(on, known) == on /\ known /\ ~asked

\* handle_update
Look(on, known) ==
  IF Asks(on, known)
    THEN asked' = TRUE /\ reauth' = IF reauth = "never" THEN "once" ELSE "again"
    ELSE UNCHANGED <<asked, reauth>>

\* A seeded fault: it waits for the next update.
AttachBlindly == attached' = TRUE /\ UNCHANGED <<asked, reauth>>

Attach == attached' = TRUE /\ Look(TRUE, rejected)

\* A seeded fault: the listener stays on.
StayAttached == UNCHANGED lifecycle

Suspend == attached' = FALSE /\ UNCHANGED <<asked, reauth>>

-----------------------------------------------------------------------------
(* async_setup_entry *)

\* What the entry stores is no credential or no address, or the certificate is
\* not valid now, for which reauthentication is started.
SetUpUnusable ==
  /\ phase \in Idle /\ stored /\ stop = "no"
  /\ phase' = "error" /\ due' = FALSE /\ current' = TRUE
  /\ UNCHANGED <<stored, coordinator, lifecycle, failure, stopping>>

\* The coordinator is built and async_start awaited.
SetUp ==
  /\ phase \in Idle /\ stored /\ stop = "no"
  /\ phase' = "starting" /\ due' = FALSE /\ current' = TRUE
  /\ alive' = TRUE /\ left' = FALSE /\ rejected' = FALSE /\ untold' = FALSE
  /\ asked' = FALSE /\ reauth' = "never"
  /\ UNCHANGED <<stored, ending, attached, failure, stopping>>

\* It started, and is not rejected: the platforms are set up.
Started ==
  /\ phase = "starting" /\ ~rejected
  /\ phase' = "forwarding"
  /\ UNCHANGED <<entry, coordinator, lifecycle, failure, stopping>>

\* It did not start, is rejected or does not fit, a platform failed, or the
\* task was cancelled: its shutdown begins.
SetUpFails ==
  /\ \/ phase = "starting" /\ failure' \in {"cancelled", "unusable", "not ready"}
     \/ phase = "starting" /\ rejected /\ failure' = "rejected"
     \/ phase = "forwarding" /\ failure' \in {"cancelled", "not ready"}
  /\ phase' = "giving up" /\ ending' = TRUE
  /\ UNCHANGED <<entry, alive, left, rejected, untold, lifecycle, stopping>>

\* A seeded fault: a task that is cancelled does not wait for it any longer.
OverWhenCancelled == ~ending \/ failure = "cancelled"

\* _async_shutdown_cancellation_safe: the shutdown is over.
Over == ~ending

\* The task that waits for the shutdown is cancelled, and goes on waiting.
CancelledMeanwhile ==
  /\ phase \in {"giving up", "shutting down"} /\ ending
  /\ failure # "cancelled" /\ failure' = "cancelled"
  /\ UNCHANGED <<phase, entry, coordinator, lifecycle, stopping>>

\* The set-up raises: the failure, or the cancellation.  How the shutdown ended
\* is not looked at.
GivenUp ==
  /\ phase = "giving up" /\ Over
  /\ phase' = IF failure = "not ready" THEN "retry" ELSE "error"
  /\ failure' = "none"
  /\ UNCHANGED <<entry, coordinator, lifecycle, stopping>>

\* A seeded fault: nothing listens for the stop event.
Deaf == UNCHANGED listening

Listen == listening' = TRUE

\* The platforms are set up: the lifecycle is attached, which looks at once,
\* and the stop listener registered.
SetUpSucceeds ==
  /\ phase = "forwarding" /\ phase' = "loaded"
  /\ Attach /\ Listen
  /\ UNCHANGED <<entry, coordinator, failure, stop>>

-----------------------------------------------------------------------------
(* async_unload_entry *)

\* For a reload, or because the entry is disabled or is to be removed.
Unload ==
  /\ phase = "loaded" /\ phase' = "unloading"
  /\ Suspend
  /\ UNCHANGED <<entry, coordinator, failure, stopping>>

\* A platform refuses or raises, or the task is cancelled: the lifecycle goes
\* on, but Home Assistant leaves the entry alone from now on.
PlatformsStay ==
  /\ phase = "unloading" /\ phase' = "failed unload" /\ due' = FALSE
  /\ Attach
  /\ UNCHANGED <<stored, current, coordinator, failure, stopping>>

\* The shutdown is begun, or joined: one that succeeded is not run again.
PlatformsUnloaded ==
  /\ phase = "unloading" /\ phase' = "shutting down"
  /\ ending' = (ending \/ alive \/ left)
  /\ UNCHANGED <<entry, alive, left, rejected, untold, lifecycle, failure,
                 stopping>>

\* The shutdown ended well, and Home Assistant drops the stop listener.
Unloaded ==
  /\ phase = "shutting down" /\ Over /\ ~left /\ failure # "cancelled"
  /\ phase' = "not loaded" /\ listening' = FALSE
  /\ UNCHANGED <<entry, coordinator, lifecycle, failure, stop>>

\* The shutdown failed, or the unload was cancelled while it ran.
UnloadFails ==
  /\ phase = "shutting down" /\ Over /\ (left \/ failure = "cancelled")
  /\ phase' = "failed unload" /\ due' = FALSE /\ failure' = "none"
  /\ UNCHANGED <<stored, current, coordinator, lifecycle, stopping>>

-----------------------------------------------------------------------------
(* The coordinator, while it runs *)

Running == alive /\ ~ending

\* Credentials are found rejected on a live session, which is closed and
\* published at once.  (The set-up expects it of a coordinator that has only
\* just started, although it takes two generations.)
Reject ==
  /\ Running /\ ~rejected
  /\ rejected' = TRUE
  /\ Look(attached, TRUE)
  /\ UNCHANGED <<phase, entry, alive, ending, left, untold, attached, failure,
                 stopping>>

\* They are found rejected in an attempt to reconnect, which publishes nothing
\* while it runs...
RejectDialling ==
  /\ Running /\ ~rejected /\ phase # "starting"
  /\ rejected' = TRUE /\ untold' = TRUE
  /\ UNCHANGED <<phase, entry, alive, ending, left, lifecycle, failure, stopping>>

\* A seeded fault: ...nor when it ends.
NeverTold == FALSE

\* ...and when it ends, or is cancelled, tells what changed.
Told == rejected

AttemptEnds ==
  /\ untold /\ untold' = FALSE
  /\ Look(attached, Told)
  /\ UNCHANGED <<phase, entry, alive, ending, left, rejected, attached, failure,
                 stopping>>

\* Anything else it publishes.
Publish ==
  /\ alive
  /\ Look(attached, rejected)
  /\ UNCHANGED <<phase, entry, coordinator, attached, failure, stopping>>

\* async_shutdown ends, well or not: the attempt to reconnect, which it cancels,
\* has ended, and every session was closed or would not close.
ShutdownEnds ==
  /\ ending /\ ~untold
  /\ ending' = FALSE /\ alive' = FALSE /\ left' \in BOOLEAN
  /\ UNCHANGED <<phase, entry, rejected, untold, lifecycle, failure, stopping>>

-----------------------------------------------------------------------------
(* Home Assistant *)

\* A seeded fault: the data is stored and no reload asked for.
StoreOnly == UNCHANGED due

ScheduleReload == due' = TRUE

\* A config flow stores new data: async_update_reload_and_abort.
Store ==
  /\ stored
  /\ current' = FALSE /\ ScheduleReload
  /\ UNCHANGED <<phase, stored, coordinator, lifecycle, failure, stopping>>

\* The reload of an entry that would not unload is refused.
ReloadRefused ==
  /\ phase = "failed unload" /\ due
  /\ due' = FALSE
  /\ UNCHANGED <<phase, stored, current, coordinator, lifecycle, failure,
                 stopping>>

\* The entry is removed, or a config flow adds one again.
AddOrRemove ==
  /\ \/ phase \in Idle /\ phase' = "not loaded"
     \/ phase = "failed unload" /\ phase' = "abandoned"
  /\ stored' = ~stored /\ due' = ~stored /\ current' = FALSE
  /\ UNCHANGED <<coordinator, lifecycle, failure, stopping>>

\* The stop event; whoever listens shuts the coordinator down, or joins a
\* shutdown that runs.
Stop ==
  /\ stop = "no"
  /\ stop' = IF phase \in {"starting", "forwarding"} THEN "late" ELSE "come"
  /\ ending' = (ending \/ (listening /\ (alive \/ left))) /\ listening' = FALSE
  /\ UNCHANGED <<phase, entry, alive, left, rejected, untold, lifecycle, failure>>

\* Home Assistant starts again.
Restart ==
  /\ stop # "no"
  /\ phase' = "not loaded"
  /\ current' = FALSE /\ due' = stored
  /\ alive' = FALSE /\ ending' = FALSE /\ left' = FALSE
  /\ rejected' = FALSE /\ untold' = FALSE
  /\ attached' = FALSE /\ asked' = FALSE /\ reauth' = "never"
  /\ failure' = "none"
  /\ listening' = FALSE /\ stop' = "no"
  /\ UNCHANGED stored

-----------------------------------------------------------------------------
SettingUp == SetUpUnusable \/ SetUp \/ Started \/ SetUpFails
             \/ CancelledMeanwhile \/ GivenUp \/ SetUpSucceeds

Unloading == Unload \/ PlatformsStay \/ PlatformsUnloaded \/ Unloaded
             \/ UnloadFails

Coordinating == Reject \/ RejectDialling \/ AttemptEnds \/ Publish
                \/ ShutdownEnds

Next == \/ SettingUp \/ Unloading \/ Coordinating
        \/ Store \/ ReloadRefused \/ AddOrRemove \/ Stop \/ Restart

Spec == Init /\ [][Next]_vars

\* Set-ups and unloads that began end, because every call of the coordinator
\* does; Home Assistant sets up and reloads what is due.
Fairness ==
  /\ WF_vars(due /\ (SetUpUnusable \/ SetUp))
  /\ WF_vars(Started \/ SetUpFails \/ GivenUp \/ SetUpSucceeds)
  /\ WF_vars(due /\ Unload)
  /\ WF_vars(PlatformsStay \/ PlatformsUnloaded \/ Unloaded \/ UnloadFails)
  /\ WF_vars(ShutdownEnds) /\ WF_vars(AttemptEnds)

FairSpec == Spec /\ Fairness

-----------------------------------------------------------------------------
(* Safety *)

\* Each time the entry is loaded, a rejection starts reauthentication once: not
\* twice, however often it is published and the listener attached again, and
\* not never, although it may come before the listener is attached, while it is
\* suspended, or in an attempt that does not publish.
RejectionAsksOnce ==
  /\ reauth # "again"
  /\ attached /\ rejected /\ ~untold => reauth = "once"

\* From the moment an unload begins the lifecycle starts no reauthentication,
\* unless the platforms stay and it is attached again.
SilentWhileUnloading ==
  [][(phase \in {"unloading", "shutting down"} /\ reauth' \in {"once", "again"})
       => reauth' = reauth \/ phase' = "failed unload"]_vars

\* An entry that is not loaded, waits for a retry or could not be set up has no
\* coordinator that works, nor one that is being shut down: whichever step of a
\* set-up failed, and although the task that waits for the shutdown is cancelled
\* again, the shutdown was over first.  The next set-up does not dial beside a
\* coordinator.  (It may dial beside a session whose close failed, because a
\* set-up that fails does not look at how the shutdown ended, and beside the
\* coordinator of an abandoned entry for the same device.)
NoStrayCoordinator == phase \in Idle => ~alive /\ ~ending

-----------------------------------------------------------------------------
(* Liveness *)

\* What a flow stores is read by a set-up, although it may be stored in the
\* middle of one, unless Home Assistant cannot unload the entry any more.
StoredIsRead ==
  ~current ~> current \/ ~stored \/ phase = "failed unload" \/ stop # "no"

\* The stop event ends the coordinator's work, unless it came in the middle of
\* a set-up, which registers its listener afterwards.
StopIsHeard == stop = "come" ~> ~alive
=============================================================================
