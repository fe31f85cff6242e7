----------------------------- MODULE Transport -----------------------------
(***************************************************************************)
(* WindFreeTransport (transport.py): one blocking DTLS session used from   *)
(* the event loop.  Connecting takes the lifecycle lock, a request takes   *)
(* the request lock, the retained cleanup task takes both; the calls       *)
(* themselves are jobs of executor threads, which a cancelled task cannot  *)
(* interrupt and therefore waits for.  A notification comes from the       *)
(* reader thread and is handed to the loop.                                *)
(*                                                                         *)
(* Between two awaits a task runs alone, so an action is what a task does  *)
(* from one await to the next.  The end of a job and the step of the task  *)
(* that awaits it are one action: what another task does between them it   *)
(* may as well do before the job ends.  Payloads, encoding and error texts *)
(* are left out.                                                           *)
(***************************************************************************)
CONSTANTS Connectors,   \* the tasks that call async_connect, once each
          Users,        \* the tasks that call async_get, _post and _observe
          Closers,      \* the tasks that call async_close, once each
          Cleaner,      \* the retained cleanup task
          Nobody        \* the owner of a free lock

Tasks == Connectors \cup Users \cup Closers

ASSUME TasksAssumption ==
  /\ Connectors \cap Users = {} /\ Connectors \cap Closers = {}
  /\ Users \cap Closers = {}
  /\ Cleaner \notin Tasks /\ Nobody \notin Tasks /\ Cleaner # Nobody

VARIABLES
  closed, connected,    \* _closed and _connected
  credentials,          \* _credentials is not None: no build was begun
  session,              \* _session is not None
  lifecycle, request,   \* the owners of _lifecycle_lock and _request_lock
  cleanup,              \* _cleanup_task: "none", the lock it waits for, or
                        \* "closing" when its job runs
  pc,                   \* where each task is
  job,                  \* the executor job each task waits for
  stray,                \* the kinds of the jobs nobody waits for any more
  dtls,                 \* what the session object itself has come to
  recent, spent,        \* less than the request interval has passed since
                        \* _last_request_at, and since a request ended
  subscribed,           \* session.on_notification is set
  posted, heard         \* a notification waits on the loop; the parity of
                        \* the notifications delivered

locks == <<lifecycle, request>>
pace  == <<recent, spent>>
inbox == <<subscribed, posted, heard>>
vars  == <<closed, connected, credentials, session, locks, cleanup, pc, job,
           stray, dtls, pace, inbox>>

\* The jobs that call into the session; "build" makes it.
Calls == {"connect", "reader", "request"}

TypeOK ==
  /\ {closed, connected, credentials, session} \subseteq BOOLEAN
  /\ lifecycle \in Connectors \cup {Cleaner, Nobody}
  /\ request \in Users \cup {Cleaner, Nobody}
  /\ cleanup \in {"none", "lifecycle", "request", "closing"}
  /\ pc \in [Tasks -> {"idle", "lock", "building", "connecting", "starting",
                       "settling", "cleaning", "connected", "refused",
                       "pacing", "paced", "requesting",
                       "waiting", "closed", "expired"}]
  /\ job \in [Tasks -> Calls \cup {"none", "build"}]
  /\ stray \subseteq Calls \cup {"build"}
  /\ dtls \in {"absent", "built", "connected", "reading", "closed",
               "abandoned"}
  /\ {recent, spent, subscribed, posted, heard} \subseteq BOOLEAN

Init ==
  /\ closed = FALSE /\ connected = FALSE /\ credentials = TRUE /\ session = FALSE
  /\ lifecycle = Nobody /\ request = Nobody
  /\ cleanup = "none"
  /\ pc = [t \in Tasks |-> "idle"]
  /\ job = [t \in Tasks |-> "none"]
  /\ stray = {}
  /\ dtls = "absent"
  /\ recent = FALSE /\ spent = FALSE
  /\ subscribed = FALSE /\ posted = FALSE /\ heard = FALSE

Move(t, p) == pc' = [pc EXCEPT ![t] = p]

-----------------------------------------------------------------------------
(* Cleanup: one task for the session, started by whoever comes first. *)

\* A seeded fault: only a session that was connected is cleaned up.
CleanupOfConnected(held) ==
  IF cleanup = "none" /\ held /\ connected
    THEN cleanup' = "lifecycle" /\ subscribed' = FALSE
    ELSE UNCHANGED <<cleanup, subscribed>>

\* _ensure_cleanup_task: `held` tells whether there is a session to clean up.
EnsureCleanup(held) ==
  IF cleanup = "none" /\ held
    THEN cleanup' = "lifecycle" /\ subscribed' = FALSE
    ELSE UNCHANGED <<cleanup, subscribed>>

CleanerLocks ==
  /\ cleanup = "lifecycle" /\ lifecycle = Nobody
  /\ lifecycle' = Cleaner /\ cleanup' = "request"
  /\ UNCHANGED <<closed, connected, credentials, session, request, pc, job,
                 stray, dtls, pace, inbox>>

\* A seeded fault: the cleanup does not wait for the request that runs.
RequestIgnored == TRUE

\* The cleanup waits for the request that runs.
RequestOver == request = Nobody

CleanerCloses ==
  /\ cleanup = "request" /\ RequestOver
  /\ request' = Cleaner /\ cleanup' = "closing"
  /\ UNCHANGED <<closed, connected, credentials, session, lifecycle, pc, job,
                 stray, dtls, pace, inbox>>

\* close() and join() returned or raised; either way the task is done, its
\* locks are free and _cleanup_done forgets the session.
CleanerEnds ==
  /\ cleanup = "closing"
  /\ dtls' \in {"closed", "abandoned"}
  /\ lifecycle' = Nobody /\ request' = Nobody
  /\ cleanup' = "none" /\ session' = FALSE /\ connected' = FALSE
  /\ UNCHANGED <<closed, credentials, pc, job, stray, pace, inbox>>

-----------------------------------------------------------------------------
(* async_connect *)

\* A seeded fault: a connect that never had the lock leaves no mark.
ClosedByOwner(c) == closed \/ pc[c] # "lock"

\* What a connect that raises makes of _closed.
ClosedBy(c) == TRUE

\* A connect that fails or is cancelled leaves the lock, closes the transport
\* for good and waits for the cleanup of what was built.
GiveUp(c, held) ==
  /\ closed' = ClosedBy(c)
  /\ lifecycle' = IF lifecycle = c THEN Nobody ELSE lifecycle
  /\ session' = held
  /\ EnsureCleanup(held)
  /\ Move(c, IF cleanup' = "none" THEN "refused" ELSE "cleaning")
  /\ job' = [job EXCEPT ![c] = "none"]
  /\ UNCHANGED <<connected, request, pace, posted, heard>>

Connect(c) ==
  /\ pc[c] = "idle" /\ Move(c, "lock")
  /\ UNCHANGED <<closed, connected, credentials, session, locks, cleanup, job,
                 stray, dtls, pace, inbox>>

TakeLifecycle(c) == lifecycle' = c /\ request' = request

\* With the lock: the first connect builds the session, a later one finds it
\* connected, and one that comes after a close or a failure fails.
Build(c) ==
  /\ pc[c] = "lock" /\ lifecycle = Nobody
  /\ ~closed /\ ~connected /\ credentials
  /\ TakeLifecycle(c) /\ credentials' = FALSE
  /\ job' = [job EXCEPT ![c] = "build"] /\ Move(c, "building")
  /\ UNCHANGED <<closed, connected, session, cleanup, stray, dtls, pace, inbox>>

AlreadyConnected(c) ==
  /\ pc[c] = "lock" /\ lifecycle = Nobody
  /\ ~closed /\ connected
  /\ Move(c, "connected")
  /\ UNCHANGED <<closed, connected, credentials, session, locks, cleanup, job,
                 stray, dtls, pace, inbox>>

TooLate(c) ==
  /\ pc[c] = "lock" /\ lifecycle = Nobody
  /\ closed \/ (~connected /\ ~credentials)
  /\ GiveUp(c, session)
  /\ UNCHANGED <<credentials, stray, dtls>>

\* A seeded fault: it does not look again.
WantedAnyway == TRUE

\* What connect looks at again after each of its jobs.
StillWanted == ~closed

Built(c) ==
  /\ pc[c] = "building" /\ StillWanted
  /\ dtls' = "built" /\ session' = TRUE
  /\ job' = [job EXCEPT ![c] = "connect"] /\ Move(c, "connecting")
  /\ UNCHANGED <<closed, connected, credentials, locks, cleanup, stray, pace,
                 inbox>>

HandshakeDone(c) ==
  /\ pc[c] = "connecting" /\ StillWanted
  /\ dtls' = "connected"
  /\ job' = [job EXCEPT ![c] = "reader"] /\ Move(c, "starting")
  /\ UNCHANGED <<closed, connected, credentials, session, locks, cleanup,
                 stray, pace, inbox>>

ReaderStarted(c) ==
  /\ pc[c] = "starting" /\ StillWanted
  /\ dtls' = "reading" /\ connected' = TRUE
  /\ lifecycle' = Nobody
  /\ job' = [job EXCEPT ![c] = "none"] /\ Move(c, "connected")
  /\ UNCHANGED <<closed, credentials, session, request, cleanup, stray, pace,
                 inbox>>

\* What a job leaves the session in when it fails, and when it succeeds.
Reached(kind) ==
  CASE kind = "build"   -> {dtls, "built"}
    [] kind = "connect" -> {dtls, "connected"}
    [] kind = "reader"  -> {dtls, "reading"}
    [] kind = "request" -> {dtls}

\* A seeded fault: a session that came out of a build that is not wanted any
\* more is not kept.
HeldBefore == session

\* Whether there is a session to clean up: the one there was, or the one that
\* the build that just ended made.
Held == session \/ dtls' = "built"

\* The job failed, or the transport was closed meanwhile.
Refused(c) ==
  /\ pc[c] \in {"building", "connecting", "starting"}
  /\ dtls' \in Reached(job[c])
  /\ closed \/ dtls' = dtls
  /\ GiveUp(c, Held)
  /\ UNCHANGED <<credentials, stray>>

\* Cancelled while it waits for the lock it leaves at once, and closes the
\* transport even so; cancelled while its job runs it waits for the job.
CancelConnect(c) ==
  \/ /\ pc[c] = "lock"
     /\ GiveUp(c, session)
     /\ UNCHANGED <<credentials, stray, dtls>>
  \/ /\ pc[c] \in {"building", "connecting", "starting"}
     /\ Move(c, "settling")
     /\ UNCHANGED <<closed, connected, credentials, session, locks, cleanup,
                    job, stray, dtls, pace, inbox>>

ConnectSettles(c) ==
  /\ pc[c] = "settling"
  /\ dtls' \in Reached(job[c])
  /\ GiveUp(c, Held)
  /\ UNCHANGED <<credentials, stray>>

\* Cancelled again before its job ended: it leaves the job behind.
ConnectTornAway(c) ==
  /\ stray = {}
  /\ pc[c] = "settling"
  /\ stray' = {job[c]}
  /\ GiveUp(c, session)
  /\ UNCHANGED <<credentials, dtls>>

\* The cleanup is over, or took longer than _CLOSE_TIMEOUT: connect raises.
ConnectRaises(c) ==
  /\ pc[c] = "cleaning" /\ Move(c, "refused")
  /\ UNCHANGED <<closed, connected, credentials, session, locks, cleanup, job,
                 stray, dtls, pace, inbox>>

-----------------------------------------------------------------------------
(* async_get, async_post, async_observe *)

\* _require_session
HasSession == ~closed /\ connected /\ session

\* A request starts; async_observe first sets the notification callback.
Ask(u) ==
  /\ pc[u] = "idle" /\ HasSession
  /\ Move(u, "lock")
  /\ subscribed' \in {subscribed, TRUE}
  /\ UNCHANGED <<closed, connected, credentials, session, locks, cleanup, job,
                 stray, dtls, pace, posted, heard>>

\* A seeded fault: a request that was cancelled leaves no trace of its time.
StampedUnlessCancelled(u) == pc[u] # "settling"

Stamped(u) == TRUE

\* A seeded fault: a request that was cancelled keeps the lock.
KeptWhenCancelled(u) ==
  IF request = u /\ pc[u] # "settling" THEN Nobody ELSE request

Freed(u) == IF request = u THEN Nobody ELSE request

\* What every request does last: it frees the lock, and _last_request_at is
\* now.
EndRequest(u) ==
  /\ Move(u, "idle") /\ job' = [job EXCEPT ![u] = "none"]
  /\ request' = Freed(u)
  /\ recent' = (recent \/ Stamped(u))
  /\ UNCHANGED <<closed, connected, credentials, session, lifecycle, cleanup,
                 inbox>>

\* With the lock, and the session still there: pace, or call at once.
Admitted(u) ==
  /\ pc[u] = "lock" /\ request = Nobody /\ HasSession
  /\ request' = u
  /\ IF recent
       THEN Move(u, "pacing") /\ job' = job
       ELSE Move(u, "requesting") /\ job' = [job EXCEPT ![u] = "request"]
  /\ UNCHANGED <<closed, connected, credentials, session, lifecycle, cleanup,
                 stray, dtls, pace, inbox>>

Turned(u) ==
  /\ pc[u] = "lock" /\ request = Nobody /\ ~HasSession
  /\ EndRequest(u)
  /\ UNCHANGED <<stray, dtls, spent>>

\* The pause is over.  The session is not looked at again.
Paced(u) ==
  /\ pc[u] = "paced"
  /\ job' = [job EXCEPT ![u] = "request"] /\ Move(u, "requesting")
  /\ UNCHANGED <<closed, connected, credentials, session, locks, cleanup,
                 stray, dtls, pace, inbox>>

\* The job ended, with an answer or without: the caller has it, or, if it was
\* cancelled, raises now.
Answered(u) ==
  /\ pc[u] \in {"requesting", "settling"}
  /\ EndRequest(u) /\ spent' = TRUE
  /\ UNCHANGED <<stray, dtls>>

CancelRequest(u) ==
  \/ /\ pc[u] \in {"lock", "pacing", "paced"}
     /\ EndRequest(u)
     /\ UNCHANGED <<stray, dtls, spent>>
  \/ /\ pc[u] = "requesting" /\ Move(u, "settling")
     /\ UNCHANGED <<closed, connected, credentials, session, locks, cleanup,
                    job, stray, dtls, pace, inbox>>

RequestTornAway(u) ==
  /\ stray = {}
  /\ pc[u] = "settling"
  /\ stray' = {job[u]}
  /\ EndRequest(u)
  /\ UNCHANGED <<dtls, spent>>

\* The request interval passes: whoever sleeps through it wakes.
Tick ==
  /\ recent
  /\ recent' = FALSE /\ spent' = FALSE
  /\ pc' = [t \in Tasks |-> IF pc[t] = "pacing" THEN "paced" ELSE pc[t]]
  /\ UNCHANGED <<closed, connected, credentials, session, locks, cleanup, job,
                 stray, dtls, inbox>>

-----------------------------------------------------------------------------
(* async_close, notifications, and jobs left behind *)

Close(k) ==
  /\ pc[k] = "idle"
  /\ closed' = TRUE
  /\ EnsureCleanup(session)
  /\ Move(k, IF cleanup' = "none" THEN "closed" ELSE "waiting")
  /\ UNCHANGED <<connected, credentials, session, locks, job, stray, dtls,
                 pace, posted, heard>>

CloseReturns(k) ==
  /\ pc[k] = "waiting" /\ cleanup = "none"
  /\ Move(k, "closed")
  /\ UNCHANGED <<closed, connected, credentials, session, locks, cleanup, job,
                 stray, dtls, pace, inbox>>

\* _CLOSE_TIMEOUT passes first: async_close returns, or raises the
\* cancellation it had met, and the cleanup goes on by itself.
CloseExpires(k) ==
  /\ pc[k] = "waiting" /\ cleanup # "none"
  /\ Move(k, "expired")
  /\ UNCHANGED <<closed, connected, credentials, session, locks, cleanup, job,
                 stray, dtls, pace, inbox>>

\* The reader thread decodes a notification and posts it to the loop.
Notify ==
  /\ dtls = "reading" /\ subscribed /\ ~closed /\ ~posted
  /\ posted' = TRUE
  /\ UNCHANGED <<closed, connected, credentials, session, locks, cleanup, pc,
                 job, stray, dtls, pace, subscribed, heard>>

\* A seeded fault: what the reader thread saw is trusted.
HearsPosted == TRUE

\* _deliver_notification looks once more: the close may have come meanwhile.
Hears == ~closed

Deliver ==
  /\ posted /\ posted' = FALSE
  /\ heard' = IF Hears THEN ~heard ELSE heard
  /\ UNCHANGED <<closed, connected, credentials, session, locks, cleanup, pc,
                 job, stray, dtls, pace, subscribed>>

\* A job nobody waits for ends; its outcome is lost.
StrayEnds ==
  /\ \E kind \in stray : dtls' \in Reached(kind)
  /\ stray' = {}
  /\ UNCHANGED <<closed, connected, credentials, session, locks, cleanup, pc,
                 job, pace, inbox>>

-----------------------------------------------------------------------------
Connecting(c) == \/ Connect(c) \/ Build(c) \/ AlreadyConnected(c) \/ TooLate(c)
                 \/ Built(c) \/ HandshakeDone(c) \/ ReaderStarted(c)
                 \/ Refused(c) \/ CancelConnect(c) \/ ConnectSettles(c)
                 \/ ConnectRaises(c)

Requesting(u) == \/ Ask(u) \/ Admitted(u) \/ Turned(u) \/ Paced(u)
                 \/ Answered(u) \/ CancelRequest(u)

Closing(k) == Close(k) \/ CloseReturns(k) \/ CloseExpires(k)

Cleaning == CleanerLocks \/ CleanerCloses \/ CleanerEnds

Next == \/ \E c \in Connectors : Connecting(c)
        \/ \E u \in Users : Requesting(u)
        \/ \E k \in Closers : Closing(k)
        \/ Cleaning \/ Tick \/ Notify \/ Deliver

Spec == Init /\ [][Next]_vars

\* Tasks that may run do; jobs end, because the library's calls have timeouts
\* of their own; time passes; asyncio locks are granted in the order they were
\* asked for, so whoever waits for one that is freed again and again gets it.
Fairness ==
  /\ \A c \in Connectors :
       /\ WF_vars(Built(c) \/ HandshakeDone(c) \/ ReaderStarted(c)
                  \/ Refused(c) \/ ConnectSettles(c) \/ ConnectRaises(c))
       /\ SF_vars(Build(c) \/ AlreadyConnected(c) \/ TooLate(c))
  /\ \A u \in Users : /\ WF_vars(Paced(u) \/ Answered(u))
                      /\ SF_vars(Admitted(u) \/ Turned(u))
  /\ \A k \in Closers : WF_vars(CloseReturns(k))
  /\ SF_vars(CleanerLocks) /\ SF_vars(CleanerCloses) /\ WF_vars(CleanerEnds)
  /\ WF_vars(Tick)

FairSpec == Spec /\ Fairness

\* With tasks that are cancelled a second time while they wait for the job
\* they started.
ImpatientNext == \/ Next
                 \/ \E c \in Connectors : ConnectTornAway(c)
                 \/ \E u \in Users : RequestTornAway(u)
                 \/ StrayEnds

ImpatientSpec == Init /\ [][ImpatientNext]_vars

-----------------------------------------------------------------------------
(* Safety *)

\* The calls that run in the session: <<who waits for it, what it does>>.
Running == {<<t, job[t]>> : t \in {t \in Tasks : job[t] \in Calls}}
           \cup (IF cleanup = "closing" THEN {<<Cleaner, "close">>} ELSE {})
           \cup {<<Nobody, kind>> : kind \in stray \cap Calls}

\* However its callers overlap and are cancelled, at most one thread at a time
\* is inside the blocking session: no close under a request that runs, no
\* request under another (the two locks, and the wait for a job that was
\* cancelled).
SessionUsedAlone == \A a, b \in Running : a = b

\* Once an async_close returned without having timed out, no session is open
\* and none will be: one that is still being built is never connected, and one
\* that was connected is closed, or close() itself raised.
ClosedForGood ==
  (\E k \in Closers : pc[k] = "closed") =>
    /\ dtls \notin {"connected", "reading"}
    /\ \A c \in Connectors : job[c] \notin {"connect", "reader"}

\* A session that was started is never without the reference that will be used
\* to clean it up, from the moment it was built to its close.
NeverForgotten ==
  dtls \in {"built", "connected", "reading"} => session

\* No request starts before the request interval has passed since the last one
\* that reached the device, whatever was cancelled or refused in between.
RateLimited ==
  [][\A u \in Users : (job[u] # "request" /\ job'[u] = "request") => ~spent]_vars

\* Nobody is told of the device by a transport it gave up: once a connect
\* began to fail or an async_close began, whatever its caller does next, no
\* notification is delivered, those included that the reader thread had posted,
\* and although another connect of the transport may have succeeded.
Leaving == {"cleaning", "refused", "waiting", "closed", "expired"}
SilentOnceLeft ==
  [][heard' # heard => \A t \in Tasks : pc[t] \notin Leaving]_vars

\* The transport keeps to what the blocking session asks of its callers.
Dtls == INSTANCE BlockingSession
          WITH Callers <- Tasks \cup {Cleaner, Nobody},
               phase <- dtls, calls <- Running
UsesSessionWell == Dtls!SessionSpec

-----------------------------------------------------------------------------
(* Liveness *)

\* Every call ends.  A transport that was closed, or whose connect failed, ends
\* without an open session and without a task that waits for it; a request that
\* was made ends, by an answer or without, whoever else asks.
CallsEnd ==
  /\ closed ~> /\ dtls \in {"absent", "closed", "abandoned"}
               /\ \A t \in Tasks : pc[t] \in {"idle", "connected", "refused",
                                              "closed", "expired"}
  /\ \A u \in Users : pc[u] = "lock" ~> pc[u] = "idle"
=============================================================================
