--------------------------- MODULE TransportProofs ---------------------------
(***************************************************************************)
(* For any number of tasks that connect, request and close, as long as a   *)
(* cancelled task is not cancelled again before its job ended: IInv is     *)
(* about the locks, and says that one thread at a time is inside the       *)
(* blocking session; JInv adds how far the session is, from which follow   *)
(* what a close guarantees, the pace of the requests and the refinement of *)
(* BlockingSession.                                                        *)
(***************************************************************************)
EXTENDS Transport, TLAPS

\* The jobs of a connect run under the lifecycle lock...
ConnectLocked ==
  \A c \in Connectors :
    /\ job[c] \in {"none", "build", "connect", "reader"}
    /\ job[c] # "none" <=>
         pc[c] \in {"building", "connecting", "starting", "settling"}
    /\ job[c] # "none" => lifecycle = c

\* ...those of a request under the request lock...
RequestLocked ==
  \A u \in Users :
    /\ job[u] \in {"none", "request"}
    /\ job[u] = "request" => pc[u] \in {"requesting", "settling"}
    /\ pc[u] \in {"pacing", "paced", "requesting", "settling"} => request = u

\* ...and the close under both.
CleanupLocked ==
  /\ cleanup \in {"request", "closing"} => lifecycle = Cleaner
  /\ cleanup = "closing" => request = Cleaner

\* Connecting and requesting take different locks.  They exclude each other
\* by their order: no request is made before the connect that spent the
\* credentials has ended.
ConnectFirst ==
  /\ \A c \in Connectors, u \in Users : job[c] # "none" => pc[u] = "idle"
  /\ connected => \A c \in Connectors : job[c] = "none"
  /\ credentials => /\ ~connected
                    /\ \A c \in Connectors : job[c] = "none"
                    /\ \A u \in Users : pc[u] = "idle"

NothingStray == stray = {} /\ \A k \in Closers : job[k] = "none"

IInv == /\ TypeOK /\ ConnectLocked /\ RequestLocked /\ CleanupLocked
        /\ ConnectFirst /\ NothingStray

\* A new transport satisfies the inductive invariant.
LEMMA InitIInv == Init => IInv
BY TasksAssumption
   DEF Init, IInv, TypeOK, ConnectLocked, RequestLocked, CleanupLocked,
       ConnectFirst, NothingStray, Tasks

\* It says that the session is used by one thread at a time.
LEMMA IInvAlone == IInv => SessionUsedAlone
<1> SUFFICES ASSUME IInv, NEW a \in Running, NEW b \in Running
             PROVE  a = b
  BY DEF SessionUsedAlone
<1> USE DEF Calls
<1>1. \A t \in Tasks : job[t] \in Calls =>
        \/ t \in Connectors /\ lifecycle = t /\ \A u \in Users : pc[u] = "idle"
        \/ t \in Users /\ request = t /\ pc[t] # "idle" /\ job[t] = "request"
  BY DEF IInv, ConnectLocked, RequestLocked, ConnectFirst, NothingStray, Tasks
<1>2. \A s, t \in Tasks : job[s] \in Calls /\ job[t] \in Calls => s = t
  BY <1>1
<1>3. cleanup = "closing" => \A t \in Tasks : job[t] \notin Calls
  BY <1>1, TasksAssumption DEF IInv, CleanupLocked
<1>4. stray = {} BY DEF IInv, NothingStray
<1> QED BY <1>2, <1>3, <1>4 DEF Running
\* A connect that gives up frees only its own lock, and only its own job ends.
LEMMA GiveUpIInv ==
  ASSUME IInv, NEW c \in Connectors, NEW held \in BOOLEAN, GiveUp(c, held),
         credentials' = credentials, stray' = stray,
         dtls' \in {"absent", "built", "connected", "reading", "closed",
                    "abandoned"}
  PROVE  IInv'
<1> USE DEF GiveUp, ClosedBy, EnsureCleanup, Move, IInv, pace, Calls
<1>1. c \in Tasks /\ c \notin Users /\ c \notin Closers /\ c # Cleaner
  BY TasksAssumption DEF Tasks
<1>2. TypeOK' BY <1>1 DEF TypeOK
<1>3. ConnectLocked' BY <1>1 DEF TypeOK, ConnectLocked, Tasks
<1>4. RequestLocked' BY <1>1 DEF TypeOK, RequestLocked, Tasks
<1>5. CleanupLocked' BY <1>1 DEF TypeOK, CleanupLocked
<1>6. ConnectFirst' BY <1>1 DEF TypeOK, ConnectFirst, Tasks
<1>7. NothingStray' BY <1>1 DEF TypeOK, NothingStray, Tasks
<1> QED BY <1>2, <1>3, <1>4, <1>5, <1>6, <1>7

\* A request that ends frees only its own lock.
LEMMA EndRequestIInv ==
  ASSUME IInv, NEW u \in Users, EndRequest(u),
         stray' = stray, dtls' = dtls, spent' \in BOOLEAN,
         credentials' = credentials
  PROVE  IInv'
<1> USE DEF EndRequest, Freed, Stamped, Move, IInv, inbox, Calls
<1>1. u \in Tasks /\ u \notin Connectors /\ u \notin Closers /\ u # Cleaner
  BY TasksAssumption DEF Tasks
<1>2. TypeOK' BY <1>1 DEF TypeOK
<1>3. ConnectLocked' BY <1>1 DEF TypeOK, ConnectLocked, Tasks
<1>4. RequestLocked' BY <1>1 DEF TypeOK, RequestLocked, Tasks
<1>5. CleanupLocked' BY <1>1 DEF TypeOK, CleanupLocked
<1>6. ConnectFirst' BY <1>1 DEF TypeOK, ConnectFirst, Tasks
<1>7. NothingStray' BY <1>1 DEF TypeOK, NothingStray, Tasks
<1> QED BY <1>2, <1>3, <1>4, <1>5, <1>6, <1>7

\* Every step keeps the inductive invariant, if no task is torn away.
LEMMA NextIInv == IInv /\ [Next]_vars => IInv'
<1> SUFFICES ASSUME IInv, [Next]_vars PROVE IInv'
  OBVIOUS
<1> USE DEF IInv, Move, Calls, locks, pace, inbox
<1>1. CASE UNCHANGED vars
  BY <1>1 DEF vars, TypeOK, ConnectLocked, RequestLocked, CleanupLocked,
              ConnectFirst, NothingStray
<1>2. ASSUME NEW c \in Connectors, Connecting(c) PROVE IInv'
  <2>0. c \in Tasks /\ c \notin Users /\ c \notin Closers /\ c # Cleaner
        /\ c # Nobody
    BY TasksAssumption DEF Tasks
  <2>1. CASE Connect(c)
    <3>1. TypeOK' BY <2>0, <2>1 DEF TypeOK, Connect
    <3>2. ConnectLocked' BY <2>0, <2>1 DEF TypeOK, ConnectLocked, Tasks, Connect
    <3>3. RequestLocked' BY <2>0, <2>1 DEF TypeOK, RequestLocked, Tasks, Connect
    <3>4. CleanupLocked' BY <2>0, <2>1 DEF TypeOK, CleanupLocked, Connect
    <3>5. ConnectFirst' BY <2>0, <2>1
         DEF TypeOK, ConnectLocked, ConnectFirst, Tasks, Connect
    <3>6. NothingStray' BY <2>0, <2>1 DEF TypeOK, NothingStray, Tasks, Connect
    <3> QED BY <3>1, <3>2, <3>3, <3>4, <3>5, <3>6
  <2>2. CASE Build(c)
    <3>1. TypeOK' BY <2>0, <2>2 DEF TypeOK, Build, TakeLifecycle
    <3>2. ConnectLocked' BY TasksAssumption, <2>0, <2>2
         DEF TypeOK, ConnectLocked, Tasks, Build, TakeLifecycle
    <3>3. RequestLocked' BY <2>0, <2>2
         DEF TypeOK, RequestLocked, Tasks, Build, TakeLifecycle
    <3>4. CleanupLocked' BY TasksAssumption, <2>0, <2>2
         DEF TypeOK, CleanupLocked, Build, TakeLifecycle
    <3>5. ConnectFirst' BY <2>0, <2>2
         DEF TypeOK, ConnectLocked, ConnectFirst, Tasks, Build, TakeLifecycle
    <3>6. NothingStray' BY <2>0, <2>2
         DEF TypeOK, NothingStray, Tasks, Build, TakeLifecycle
    <3> QED BY <3>1, <3>2, <3>3, <3>4, <3>5, <3>6
  <2>3. CASE AlreadyConnected(c)
    <3>1. TypeOK' BY <2>0, <2>3 DEF TypeOK, AlreadyConnected
    <3>2. ConnectLocked' BY <2>0, <2>3
         DEF TypeOK, ConnectLocked, Tasks, AlreadyConnected
    <3>3. RequestLocked' BY <2>0, <2>3
         DEF TypeOK, RequestLocked, Tasks, AlreadyConnected
    <3>4. CleanupLocked' BY <2>0, <2>3
         DEF TypeOK, CleanupLocked, AlreadyConnected
    <3>5. ConnectFirst' BY <2>0, <2>3
         DEF TypeOK, ConnectLocked, ConnectFirst, Tasks, AlreadyConnected
    <3>6. NothingStray' BY <2>0, <2>3
         DEF TypeOK, NothingStray, Tasks, AlreadyConnected
    <3> QED BY <3>1, <3>2, <3>3, <3>4, <3>5, <3>6
  <2>4. CASE TooLate(c)
    BY <2>4, GiveUpIInv DEF TooLate, TypeOK
  <2>5. CASE Built(c)
    <3>1. TypeOK' BY <2>0, <2>5 DEF TypeOK, Built
    <3>2. ConnectLocked' BY <2>0, <2>5 DEF TypeOK, ConnectLocked, Tasks, Built
    <3>3. RequestLocked' BY <2>0, <2>5 DEF TypeOK, RequestLocked, Tasks, Built
    <3>4. CleanupLocked' BY <2>0, <2>5 DEF TypeOK, CleanupLocked, Built
    <3>5. ConnectFirst' BY <2>0, <2>5
         DEF TypeOK, ConnectLocked, ConnectFirst, Tasks, Built
    <3>6. NothingStray' BY <2>0, <2>5 DEF TypeOK, NothingStray, Tasks, Built
    <3> QED BY <3>1, <3>2, <3>3, <3>4, <3>5, <3>6
  <2>6. CASE HandshakeDone(c)
    <3>1. TypeOK' BY <2>0, <2>6 DEF TypeOK, HandshakeDone
    <3>2. ConnectLocked' BY <2>0, <2>6
         DEF TypeOK, ConnectLocked, Tasks, HandshakeDone
    <3>3. RequestLocked' BY <2>0, <2>6
         DEF TypeOK, RequestLocked, Tasks, HandshakeDone
    <3>4. CleanupLocked' BY <2>0, <2>6 DEF TypeOK, CleanupLocked, HandshakeDone
    <3>5. ConnectFirst' BY <2>0, <2>6
         DEF TypeOK, ConnectLocked, ConnectFirst, Tasks, HandshakeDone
    <3>6. NothingStray' BY <2>0, <2>6
         DEF TypeOK, NothingStray, Tasks, HandshakeDone
    <3> QED BY <3>1, <3>2, <3>3, <3>4, <3>5, <3>6
  <2>7. CASE ReaderStarted(c)
    <3>1. TypeOK' BY <2>0, <2>7 DEF TypeOK, ReaderStarted
    <3>2. ConnectLocked' BY <2>0, <2>7
         DEF TypeOK, ConnectLocked, Tasks, ReaderStarted
    <3>3. RequestLocked' BY <2>0, <2>7
         DEF TypeOK, RequestLocked, Tasks, ReaderStarted
    <3>4. CleanupLocked' BY <2>0, <2>7
         DEF TypeOK, ConnectLocked, CleanupLocked, ReaderStarted
    <3>5. ConnectFirst' BY <2>0, <2>7
         DEF TypeOK, ConnectLocked, ConnectFirst, Tasks, ReaderStarted
    <3>6. NothingStray' BY <2>0, <2>7
         DEF TypeOK, NothingStray, Tasks, ReaderStarted
    <3> QED BY <3>1, <3>2, <3>3, <3>4, <3>5, <3>6
  <2>8. CASE Refused(c)
    BY <2>8, GiveUpIInv DEF Refused, Held, Reached, TypeOK, ConnectLocked
  <2>9. CASE CancelConnect(c)
    <3>1. CASE pc[c] = "lock" /\ GiveUp(c, session)
      BY <2>9, <3>1, GiveUpIInv DEF CancelConnect, TypeOK
    <3>2. CASE pc[c] # "lock"
      BY <2>0, <2>9, <3>2
         DEF CancelConnect, TypeOK, ConnectLocked, RequestLocked,
             CleanupLocked, ConnectFirst, NothingStray, Tasks
    <3> QED BY <2>9, <3>1, <3>2 DEF CancelConnect
  <2>10. CASE ConnectSettles(c)
    BY <2>10, GiveUpIInv
         DEF ConnectSettles, Held, Reached, TypeOK, ConnectLocked
  <2>11. CASE ConnectRaises(c)
    <3>1. TypeOK' BY <2>0, <2>11 DEF TypeOK, ConnectRaises
    <3>2. ConnectLocked' BY <2>0, <2>11
         DEF TypeOK, ConnectLocked, Tasks, ConnectRaises
    <3>3. RequestLocked' BY <2>0, <2>11
         DEF TypeOK, RequestLocked, Tasks, ConnectRaises
    <3>4. CleanupLocked' BY <2>0, <2>11 DEF TypeOK, CleanupLocked, ConnectRaises
    <3>5. ConnectFirst' BY <2>0, <2>11
         DEF TypeOK, ConnectLocked, ConnectFirst, Tasks, ConnectRaises
    <3>6. NothingStray' BY <2>0, <2>11
         DEF TypeOK, NothingStray, Tasks, ConnectRaises
    <3> QED BY <3>1, <3>2, <3>3, <3>4, <3>5, <3>6
  <2> QED
    BY <1>2, <2>1, <2>2, <2>3, <2>4, <2>5, <2>6, <2>7, <2>8, <2>9, <2>10, <2>11
       DEF Connecting
<1>3. ASSUME NEW u \in Users, Requesting(u) PROVE IInv'
  <2>0. u \in Tasks /\ u \notin Connectors /\ u \notin Closers /\ u # Cleaner
        /\ u # Nobody
    BY TasksAssumption DEF Tasks
  <2>1. CASE Ask(u)
    <3>1. TypeOK' BY <2>0, <2>1 DEF TypeOK, Ask, HasSession
    <3>2. ConnectLocked' BY <2>0, <2>1
         DEF TypeOK, ConnectLocked, Tasks, Ask, HasSession
    <3>3. RequestLocked' BY <2>0, <2>1
         DEF TypeOK, RequestLocked, Tasks, Ask, HasSession
    <3>4. CleanupLocked' BY <2>0, <2>1
         DEF TypeOK, CleanupLocked, Ask, HasSession
    <3>5. ConnectFirst' BY <2>0, <2>1
         DEF TypeOK, ConnectLocked, ConnectFirst, Tasks, Ask, HasSession
    <3>6. NothingStray' BY <2>0, <2>1
         DEF TypeOK, NothingStray, Tasks, Ask, HasSession
    <3> QED BY <3>1, <3>2, <3>3, <3>4, <3>5, <3>6
  <2>2. CASE Admitted(u)
    <3>1. TypeOK' BY <2>0, <2>2 DEF TypeOK, Admitted, HasSession
    <3>2. ConnectLocked' BY <2>0, <2>2
         DEF TypeOK, ConnectLocked, Tasks, Admitted, HasSession
    <3>3. RequestLocked' BY TasksAssumption, <2>0, <2>2
         DEF TypeOK, RequestLocked, Tasks, Admitted, HasSession
    <3>4. CleanupLocked' BY TasksAssumption, <2>0, <2>2
         DEF TypeOK, CleanupLocked, Admitted, HasSession
    <3>5. ConnectFirst' BY <2>0, <2>2
         DEF TypeOK, ConnectLocked, ConnectFirst, Tasks, Admitted, HasSession
    <3>6. NothingStray' BY <2>0, <2>2
         DEF TypeOK, NothingStray, Tasks, Admitted, HasSession
    <3> QED BY <3>1, <3>2, <3>3, <3>4, <3>5, <3>6
  <2>3. CASE Turned(u)
    BY <2>3, EndRequestIInv DEF Turned, EndRequest, TypeOK
  <2>4. CASE Paced(u)
    <3>1. TypeOK' BY <2>0, <2>4 DEF TypeOK, Paced
    <3>2. ConnectLocked' BY <2>0, <2>4 DEF TypeOK, ConnectLocked, Tasks, Paced
    <3>3. RequestLocked' BY <2>0, <2>4 DEF TypeOK, RequestLocked, Tasks, Paced
    <3>4. CleanupLocked' BY <2>0, <2>4 DEF TypeOK, CleanupLocked, Paced
    <3>5. ConnectFirst' BY <2>0, <2>4
         DEF TypeOK, ConnectLocked, ConnectFirst, Tasks, Paced
    <3>6. NothingStray' BY <2>0, <2>4 DEF TypeOK, NothingStray, Tasks, Paced
    <3> QED BY <3>1, <3>2, <3>3, <3>4, <3>5, <3>6
  <2>5. CASE Answered(u)
    BY <2>5, EndRequestIInv DEF Answered, EndRequest, TypeOK
  <2>6. CASE CancelRequest(u)
    <3>1. CASE pc[u] # "requesting"
      BY <2>6, <3>1, EndRequestIInv DEF CancelRequest, EndRequest, TypeOK
    <3>2. CASE pc[u] = "requesting"
      BY <2>0, <2>6, <3>2
         DEF CancelRequest, TypeOK, ConnectLocked, RequestLocked,
             CleanupLocked, ConnectFirst, NothingStray, Tasks
    <3> QED BY <3>1, <3>2
  <2> QED BY <1>3, <2>1, <2>2, <2>3, <2>4, <2>5, <2>6 DEF Requesting
<1>4. ASSUME NEW k \in Closers, Closing(k) PROVE IInv'
  <2>0. k \in Tasks /\ k \notin Connectors /\ k \notin Users
    BY TasksAssumption DEF Tasks
  <2>1. CASE Close(k)
    <3>1. TypeOK' BY <2>0, <2>1 DEF TypeOK, Close, EnsureCleanup
    <3>2. ConnectLocked' BY <2>0, <2>1
         DEF TypeOK, ConnectLocked, Tasks, Close, EnsureCleanup
    <3>3. RequestLocked' BY <2>0, <2>1
         DEF TypeOK, RequestLocked, Tasks, Close, EnsureCleanup
    <3>4. CleanupLocked' BY <2>0, <2>1
         DEF TypeOK, CleanupLocked, Close, EnsureCleanup
    <3>5. ConnectFirst' BY <2>0, <2>1
         DEF TypeOK, ConnectLocked, ConnectFirst, Tasks, Close, EnsureCleanup
    <3>6. NothingStray' BY <2>0, <2>1
         DEF TypeOK, NothingStray, Tasks, Close, EnsureCleanup
    <3> QED BY <3>1, <3>2, <3>3, <3>4, <3>5, <3>6
  <2>2. CASE CloseReturns(k)
    <3>1. TypeOK' BY <2>0, <2>2 DEF TypeOK, CloseReturns
    <3>2. ConnectLocked' BY <2>0, <2>2
         DEF TypeOK, ConnectLocked, Tasks, CloseReturns
    <3>3. RequestLocked' BY <2>0, <2>2
         DEF TypeOK, RequestLocked, Tasks, CloseReturns
    <3>4. CleanupLocked' BY <2>0, <2>2 DEF TypeOK, CleanupLocked, CloseReturns
    <3>5. ConnectFirst' BY <2>0, <2>2
         DEF TypeOK, ConnectLocked, ConnectFirst, Tasks, CloseReturns
    <3>6. NothingStray' BY <2>0, <2>2
         DEF TypeOK, NothingStray, Tasks, CloseReturns
    <3> QED BY <3>1, <3>2, <3>3, <3>4, <3>5, <3>6
  <2>3. CASE CloseExpires(k)
    <3>1. TypeOK' BY <2>0, <2>3 DEF TypeOK, CloseExpires
    <3>2. ConnectLocked' BY <2>0, <2>3
         DEF TypeOK, ConnectLocked, Tasks, CloseExpires
    <3>3. RequestLocked' BY <2>0, <2>3
         DEF TypeOK, RequestLocked, Tasks, CloseExpires
    <3>4. CleanupLocked' BY <2>0, <2>3 DEF TypeOK, CleanupLocked, CloseExpires
    <3>5. ConnectFirst' BY <2>0, <2>3
         DEF TypeOK, ConnectLocked, ConnectFirst, Tasks, CloseExpires
    <3>6. NothingStray' BY <2>0, <2>3
         DEF TypeOK, NothingStray, Tasks, CloseExpires
    <3> QED BY <3>1, <3>2, <3>3, <3>4, <3>5, <3>6
  <2> QED BY <1>4, <2>1, <2>2, <2>3 DEF Closing
<1>5. CASE Cleaning
  <2>1. CASE CleanerLocks
    <3>1. TypeOK' BY TasksAssumption, <2>1 DEF TypeOK, CleanerLocks
    <3>2. ConnectLocked' BY TasksAssumption, <2>1
         DEF TypeOK, ConnectLocked, CleanupLocked, Tasks, CleanerLocks
    <3>3. RequestLocked' BY TasksAssumption, <2>1
         DEF TypeOK, RequestLocked, CleanupLocked, Tasks, CleanerLocks
    <3>4. CleanupLocked' BY TasksAssumption, <2>1
         DEF TypeOK, CleanupLocked, CleanerLocks
    <3>5. ConnectFirst' BY TasksAssumption, <2>1
         DEF TypeOK, ConnectLocked, ConnectFirst, Tasks, CleanerLocks
    <3>6. NothingStray' BY TasksAssumption, <2>1
         DEF TypeOK, NothingStray, Tasks, CleanerLocks
    <3> QED BY <3>1, <3>2, <3>3, <3>4, <3>5, <3>6
  <2>2. CASE CleanerCloses
    <3>1. TypeOK' BY TasksAssumption, <2>2
         DEF TypeOK, CleanerCloses, RequestOver
    <3>2. ConnectLocked' BY TasksAssumption, <2>2
         DEF TypeOK, ConnectLocked, CleanupLocked, Tasks, CleanerCloses,
             RequestOver
    <3>3. RequestLocked' BY TasksAssumption, <2>2
         DEF TypeOK, RequestLocked, CleanupLocked, Tasks, CleanerCloses,
             RequestOver
    <3>4. CleanupLocked' BY TasksAssumption, <2>2
         DEF TypeOK, CleanupLocked, CleanerCloses, RequestOver
    <3>5. ConnectFirst' BY TasksAssumption, <2>2
         DEF TypeOK, ConnectLocked, ConnectFirst, Tasks, CleanerCloses,
             RequestOver
    <3>6. NothingStray' BY TasksAssumption, <2>2
         DEF TypeOK, NothingStray, Tasks, CleanerCloses, RequestOver
    <3> QED BY <3>1, <3>2, <3>3, <3>4, <3>5, <3>6
  <2>3. CASE CleanerEnds
    <3>1. TypeOK' BY TasksAssumption, <2>3 DEF TypeOK, CleanerEnds
    <3>2. ConnectLocked' BY TasksAssumption, <2>3
         DEF TypeOK, ConnectLocked, CleanupLocked, Tasks, CleanerEnds
    <3>3. RequestLocked' BY TasksAssumption, <2>3
         DEF TypeOK, RequestLocked, CleanupLocked, Tasks, CleanerEnds
    <3>4. CleanupLocked' BY TasksAssumption, <2>3
         DEF TypeOK, CleanupLocked, CleanerEnds
    <3>5. ConnectFirst' BY TasksAssumption, <2>3
         DEF TypeOK, ConnectLocked, ConnectFirst, Tasks, CleanerEnds
    <3>6. NothingStray' BY TasksAssumption, <2>3
         DEF TypeOK, NothingStray, Tasks, CleanerEnds
    <3> QED BY <3>1, <3>2, <3>3, <3>4, <3>5, <3>6
  <2> QED BY <1>5, <2>1, <2>2, <2>3 DEF Cleaning
<1>6. CASE Tick
  <2>1. TypeOK' BY <1>6 DEF TypeOK, Tick
  <2>2. ConnectLocked' BY <1>6 DEF TypeOK, ConnectLocked, Tasks, Tick
  <2>3. RequestLocked' BY <1>6 DEF TypeOK, RequestLocked, Tasks, Tick
  <2>4. CleanupLocked' BY <1>6 DEF TypeOK, CleanupLocked, Tick
  <2>5. ConnectFirst' BY <1>6
       DEF TypeOK, ConnectLocked, ConnectFirst, Tasks, Tick
  <2>6. NothingStray' BY <1>6 DEF TypeOK, NothingStray, Tasks, Tick
  <2> QED BY <2>1, <2>2, <2>3, <2>4, <2>5, <2>6
<1>7. CASE Notify
  <2>1. TypeOK' BY <1>7 DEF TypeOK, Notify
  <2>2. ConnectLocked' BY <1>7 DEF TypeOK, ConnectLocked, Tasks, Notify
  <2>3. RequestLocked' BY <1>7 DEF TypeOK, RequestLocked, Tasks, Notify
  <2>4. CleanupLocked' BY <1>7 DEF TypeOK, CleanupLocked, Notify
  <2>5. ConnectFirst' BY <1>7
       DEF TypeOK, ConnectLocked, ConnectFirst, Tasks, Notify
  <2>6. NothingStray' BY <1>7 DEF TypeOK, NothingStray, Tasks, Notify
  <2> QED BY <2>1, <2>2, <2>3, <2>4, <2>5, <2>6
<1>8. CASE Deliver
  <2>1. TypeOK' BY <1>8 DEF TypeOK, Deliver, Hears
  <2>2. ConnectLocked' BY <1>8 DEF TypeOK, ConnectLocked, Tasks, Deliver, Hears
  <2>3. RequestLocked' BY <1>8 DEF TypeOK, RequestLocked, Tasks, Deliver, Hears
  <2>4. CleanupLocked' BY <1>8 DEF TypeOK, CleanupLocked, Deliver, Hears
  <2>5. ConnectFirst' BY <1>8
       DEF TypeOK, ConnectLocked, ConnectFirst, Tasks, Deliver, Hears
  <2>6. NothingStray' BY <1>8 DEF TypeOK, NothingStray, Tasks, Deliver, Hears
  <2> QED BY <2>1, <2>2, <2>3, <2>4, <2>5, <2>6
<1> QED BY <1>1, <1>2, <1>3, <1>4, <1>5, <1>6, <1>7, <1>8 DEF Next

\* The invariant holds in every reachable state.
LEMMA Invariance == Spec => []IInv
<1>1. Init => IInv BY InitIInv
<1>2. IInv /\ [Next]_vars => IInv' BY NextIInv
<1> QED BY <1>1, <1>2, PTL DEF Spec

\* The fields of the transport keep their types.
THEOREM TypeCorrect == Spec => []TypeOK
BY Invariance, PTL DEF IInv

\* One thread at a time calls into the blocking session, for any number of
\* tasks, if a cancelled task is left to wait for its job.
THEOREM UsedAlone == Spec => []SessionUsedAlone
<1>1. IInv => SessionUsedAlone BY IInvAlone
<1> QED BY <1>1, Invariance, PTL

-----------------------------------------------------------------------------
(* How far the session is, and who holds a reference to it. *)

\* A session that was built and not closed.
Open == {"built", "connected", "reading"}

\* The transport refers to the session exactly while it is open, cleans up no
\* other, and each job finds the session as far as it needs it: a request is
\* never looked up again after its pause, and yet the session still reads,
\* because the cleanup waits for the request lock.
Phases ==
  /\ session <=> dtls \in Open
  /\ connected => dtls = "reading"
  /\ cleanup # "none" => session
  /\ credentials => dtls = "absent"
  /\ \A c \in Connectors : /\ job[c] = "build" => dtls = "absent"
                           /\ job[c] = "connect" => dtls = "built"
                           /\ job[c] = "reader" => dtls = "connected"
                           /\ pc[c] = "building" => job[c] = "build"
                           /\ pc[c] = "connecting" => job[c] = "connect"
                           /\ pc[c] = "starting" => job[c] = "reader"
  /\ \A u \in Users :
       pc[u] \in {"pacing", "paced", "requesting", "settling"} =>
         dtls = "reading"

\* No session is in use and none is on its way to be.
Quiet == /\ dtls \notin {"connected", "reading"}
         /\ \A c \in Connectors : job[c] \notin {"connect", "reader"}

\* Who waits for a close waits until that is so.
Closings ==
  \A k \in Closers :
    /\ pc[k] = "closed" => closed /\ Quiet
    /\ pc[k] = "waiting" => closed /\ (cleanup = "none" => Quiet)

\* The pause a request slept through covers the last one that was made.
Paces == /\ spent => recent
         /\ \A u \in Users : pc[u] = "paced" => ~spent

JInv == IInv /\ Phases /\ Closings /\ Paces

\* A connect that gives up with a reference to what is open keeps the
\* reference with the session.
LEMMA GiveUpJInv ==
  ASSUME JInv, NEW c \in Connectors, NEW held \in BOOLEAN, GiveUp(c, held),
         dtls' \in {dtls} \cup (IF job[c] = "build" THEN {"built"} ELSE {})
                   \cup (IF job[c] = "connect" THEN {"connected"} ELSE {})
                   \cup (IF job[c] = "reader" THEN {"reading"} ELSE {}),
         held <=> (session \/ dtls' = "built"),
         credentials' = credentials
  PROVE  Phases' /\ Closings' /\ Paces'
<1> USE DEF GiveUp, ClosedBy, EnsureCleanup, Move, JInv, IInv, pace, Calls
<1>1. c \in Tasks /\ c \notin Users /\ c \notin Closers /\ c # Cleaner
  BY TasksAssumption DEF Tasks
<1>2. \A d \in Connectors : job[d] # "none" /\ job[c] # "none" => d = c
  BY DEF ConnectLocked
<1>3. Phases'
  BY <1>1, <1>2 DEF TypeOK, ConnectLocked, ConnectFirst, Phases, Open, Tasks
<1>4. job[c] \in {"connect", "reader"} =>
        \A k \in Closers : pc[k] # "closed" /\ (pc[k] = "waiting" => cleanup #
          "none")
  BY DEF Closings, Quiet
<1>5. Closings'
  BY <1>1, <1>4 DEF TypeOK, Closings, Phases, Open, Quiet, Tasks
<1>6. Paces' BY <1>1 DEF TypeOK, Paces, Tasks
<1> QED BY <1>3, <1>5, <1>6

\* A request that ends disturbs only its own pause.
LEMMA EndRequestJInv ==
  ASSUME JInv, NEW u \in Users, EndRequest(u), dtls' = dtls,
         spent' = spent \/ (spent' = TRUE /\ pc[u] \in {"requesting",
           "settling"}),
         credentials' = credentials
  PROVE  Phases' /\ Closings' /\ Paces'
<1> USE DEF EndRequest, Freed, Stamped, Move, JInv, IInv, inbox
<1>1. u \in Tasks /\ u \notin Connectors /\ u \notin Closers
  BY TasksAssumption DEF Tasks
<1>2. Phases' BY <1>1 DEF TypeOK, Phases, Open, Tasks
<1>3. Closings' BY <1>1 DEF TypeOK, Closings, Quiet, Tasks
<1>4. pc[u] \in {"requesting", "settling"} =>
        \A v \in Users \ {u} : pc[v] # "paced"
  BY DEF RequestLocked
<1>5. recent' = TRUE OBVIOUS
<1>6. Paces' BY <1>1, <1>4, <1>5 DEF TypeOK, Paces, Tasks
<1> QED BY <1>2, <1>3, <1>6

\* Every step keeps them.
LEMMA NextJInv == JInv /\ [Next]_vars => JInv'
<1> SUFFICES ASSUME JInv, [Next]_vars PROVE Phases' /\ Closings' /\ Paces'
  BY NextIInv DEF JInv
<1> USE DEF JInv, IInv, Move, locks, pace, inbox
<1>1. CASE UNCHANGED vars
  BY <1>1 DEF vars, Phases, Open, Closings, Quiet, Paces
<1>2. ASSUME NEW c \in Connectors, Connecting(c)
      PROVE  Phases' /\ Closings' /\ Paces'
  <2>0. c \in Tasks /\ c \notin Users /\ c \notin Closers /\ c # Cleaner
    BY TasksAssumption DEF Tasks
  <2>1. CASE Connect(c)
    <3>1. Phases'
      BY <2>0, <2>1
         DEF TypeOK, Phases, Open, Tasks, ConnectLocked, Connect
    <3>2. Closings'
      BY <2>0, <2>1
         DEF TypeOK, Closings, Quiet, Tasks, Connect
    <3>3. Paces'
      BY <2>0, <2>1 DEF TypeOK, Paces, Tasks, Connect
    <3> QED BY <3>1, <3>2, <3>3
  <2>2. CASE Build(c)
    <3>1. Phases'
      BY <2>0, <2>2
         DEF TypeOK, Phases, Open, Tasks, ConnectLocked, ConnectFirst,
             TakeLifecycle, Build
    <3>2. Closings'
      BY <2>0, <2>2
         DEF TypeOK, Closings, Quiet, Tasks, TakeLifecycle, Build
    <3>3. Paces'
      BY <2>0, <2>2 DEF TypeOK, Paces, Tasks, TakeLifecycle, Build
    <3> QED BY <3>1, <3>2, <3>3
  <2>3. CASE AlreadyConnected(c)
    <3>1. Phases'
      BY <2>0, <2>3
         DEF TypeOK, Phases, Open, Tasks, AlreadyConnected
    <3>2. Closings'
      BY <2>0, <2>3
         DEF TypeOK, Closings, Quiet, Tasks, AlreadyConnected
    <3>3. Paces'
      BY <2>0, <2>3 DEF TypeOK, Paces, Tasks, AlreadyConnected
    <3> QED BY <3>1, <3>2, <3>3
  <2>4. CASE TooLate(c)
    BY <2>4, GiveUpJInv DEF TooLate, TypeOK, Phases, Open
  <2>5. CASE Built(c)
    <3>1. Phases'
      BY <2>0, <2>5
         DEF TypeOK, Phases, Open, Tasks, ConnectLocked, ConnectFirst,
             StillWanted, Built
    <3>2. Closings'
      BY <2>0, <2>5
         DEF TypeOK, Closings, Quiet, Tasks, ConnectLocked, StillWanted, Built
    <3>3. Paces'
      BY <2>0, <2>5 DEF TypeOK, Paces, Tasks, Built
    <3> QED BY <3>1, <3>2, <3>3
  <2>6. CASE HandshakeDone(c)
    <3>1. Phases'
      BY <2>0, <2>6
         DEF TypeOK, Phases, Open, Tasks, ConnectLocked, ConnectFirst,
             StillWanted, HandshakeDone
    <3>2. Closings'
      BY <2>0, <2>6
         DEF TypeOK, Closings, Quiet, Tasks, ConnectLocked, StillWanted,
             HandshakeDone
    <3>3. Paces'
      BY <2>0, <2>6 DEF TypeOK, Paces, Tasks, HandshakeDone
    <3> QED BY <3>1, <3>2, <3>3
  <2>7. CASE ReaderStarted(c)
    <3>1. Phases'
      BY <2>0, <2>7
         DEF TypeOK, Phases, Open, Tasks, ConnectLocked, ConnectFirst,
             StillWanted, ReaderStarted
    <3>2. Closings'
      BY <2>0, <2>7
         DEF TypeOK, Closings, Quiet, Tasks, ConnectLocked, StillWanted,
             ReaderStarted
    <3>3. Paces'
      BY <2>0, <2>7 DEF TypeOK, Paces, Tasks, ReaderStarted
    <3> QED BY <3>1, <3>2, <3>3
  <2>8. CASE Refused(c)
    BY <2>8, GiveUpJInv
       DEF Refused, Held, Reached, TypeOK, ConnectLocked, Calls
  <2>9. CASE CancelConnect(c)
    <3>1. CASE pc[c] = "lock" /\ GiveUp(c, session)
      BY <2>9, <3>1, GiveUpJInv DEF CancelConnect, TypeOK, Phases, Open
    <3>2. CASE pc[c] # "lock"
      BY <2>0, <2>9, <3>2
         DEF CancelConnect, TypeOK, Phases, Open, Closings, Quiet, Paces, Tasks
    <3> QED BY <2>9, <3>1, <3>2 DEF CancelConnect
  <2>10. CASE ConnectSettles(c)
    BY <2>10, GiveUpJInv
       DEF ConnectSettles, Held, Reached, TypeOK, ConnectLocked, Calls
  <2>11. CASE ConnectRaises(c)
    <3>1. Phases'
      BY <2>0, <2>11
         DEF TypeOK, Phases, Open, Tasks, ConnectRaises
    <3>2. Closings'
      BY <2>0, <2>11
         DEF TypeOK, Closings, Quiet, Tasks, ConnectRaises
    <3>3. Paces'
      BY <2>0, <2>11 DEF TypeOK, Paces, Tasks, ConnectRaises
    <3> QED BY <3>1, <3>2, <3>3
  <2> QED
    BY <1>2, <2>1, <2>2, <2>3, <2>4, <2>5, <2>6, <2>7, <2>8, <2>9, <2>10, <2>11
       DEF Connecting
<1>3. ASSUME NEW u \in Users, Requesting(u)
      PROVE  Phases' /\ Closings' /\ Paces'
  <2>0. u \in Tasks /\ u \notin Connectors /\ u \notin Closers
    BY TasksAssumption DEF Tasks
  <2>1. CASE Ask(u)
    <3>1. Phases'
      BY <2>0, <2>1
         DEF TypeOK, Phases, Open, Tasks, Ask
    <3>2. Closings'
      BY <2>0, <2>1
         DEF TypeOK, Closings, Quiet, Tasks, Ask
    <3>3. Paces'
      BY <2>0, <2>1 DEF TypeOK, Paces, Tasks, Ask
    <3> QED BY <3>1, <3>2, <3>3
  <2>2. CASE Admitted(u)
    <3>1. Phases'
      BY <2>0, <2>2
         DEF TypeOK, Phases, Open, Tasks, HasSession, Admitted
    <3>2. Closings'
      BY <2>0, <2>2
         DEF TypeOK, Closings, Quiet, Tasks, Admitted
    <3>3. Paces'
      BY <2>0, <2>2 DEF TypeOK, Paces, Tasks, Admitted
    <3> QED BY <3>1, <3>2, <3>3
  <2>3. CASE Turned(u)
    BY <2>3, EndRequestJInv DEF Turned, EndRequest
  <2>4. CASE Paced(u)
    <3>1. Phases'
      BY <2>0, <2>4
         DEF TypeOK, Phases, Open, Tasks, Paced
    <3>2. Closings'
      BY <2>0, <2>4
         DEF TypeOK, Closings, Quiet, Tasks, Paced
    <3>3. Paces'
      BY <2>0, <2>4 DEF TypeOK, Paces, Tasks, Paced
    <3> QED BY <3>1, <3>2, <3>3
  <2>5. CASE Answered(u)
    BY <2>5, EndRequestJInv DEF Answered, EndRequest
  <2>6. CASE CancelRequest(u)
    <3>1. CASE pc[u] # "requesting"
      BY <2>6, <3>1, EndRequestJInv DEF CancelRequest, EndRequest
    <3>2. CASE pc[u] = "requesting"
      BY <2>0, <2>6, <3>2
         DEF CancelRequest, TypeOK, Phases, Open, Closings, Quiet, Paces, Tasks
    <3> QED BY <3>1, <3>2
  <2> QED BY <1>3, <2>1, <2>2, <2>3, <2>4, <2>5, <2>6 DEF Requesting
<1>4. ASSUME NEW k \in Closers, Closing(k)
      PROVE  Phases' /\ Closings' /\ Paces'
  <2>0. k \in Tasks /\ k \notin Connectors /\ k \notin Users
    BY TasksAssumption DEF Tasks
  <2>1. CASE Close(k)
    <3>1. Phases'
      BY <2>0, <2>1
         DEF TypeOK, Phases, Open, Tasks, EnsureCleanup, Close
    <3>2. Closings'
      BY <2>0, <2>1
         DEF TypeOK, Closings, Quiet, Tasks, Phases, Open, EnsureCleanup, Close
    <3>3. Paces'
      BY <2>0, <2>1 DEF TypeOK, Paces, Tasks, EnsureCleanup, Close
    <3> QED BY <3>1, <3>2, <3>3
  <2>2. CASE CloseReturns(k)
    <3>1. Phases'
      BY <2>0, <2>2
         DEF TypeOK, Phases, Open, Tasks, CloseReturns
    <3>2. Closings'
      BY <2>0, <2>2
         DEF TypeOK, Closings, Quiet, Tasks, CloseReturns
    <3>3. Paces'
      BY <2>0, <2>2 DEF TypeOK, Paces, Tasks, CloseReturns
    <3> QED BY <3>1, <3>2, <3>3
  <2>3. CASE CloseExpires(k)
    <3>1. Phases'
      BY <2>0, <2>3
         DEF TypeOK, Phases, Open, Tasks, CloseExpires
    <3>2. Closings'
      BY <2>0, <2>3
         DEF TypeOK, Closings, Quiet, Tasks, CloseExpires
    <3>3. Paces'
      BY <2>0, <2>3 DEF TypeOK, Paces, Tasks, CloseExpires
    <3> QED BY <3>1, <3>2, <3>3
  <2> QED BY <1>4, <2>1, <2>2, <2>3 DEF Closing
<1>5. CASE Cleaning
  <2>1. CASE CleanerLocks
    <3>1. Phases'
      BY TasksAssumption, <2>1
         DEF TypeOK, Phases, Open, Tasks, CleanerLocks
    <3>2. Closings'
      BY TasksAssumption, <2>1
         DEF TypeOK, Closings, Quiet, Tasks, CleanerLocks
    <3>3. Paces'
      BY TasksAssumption, <2>1 DEF TypeOK, Paces, Tasks, CleanerLocks
    <3> QED BY <3>1, <3>2, <3>3
  <2>2. CASE CleanerCloses
    <3>1. Phases'
      BY TasksAssumption, <2>2
         DEF TypeOK, Phases, Open, Tasks, RequestOver, CleanerCloses
    <3>2. Closings'
      BY TasksAssumption, <2>2
         DEF TypeOK, Closings, Quiet, Tasks, RequestOver, CleanerCloses
    <3>3. Paces'
      BY TasksAssumption, <2>2 DEF TypeOK, Paces, Tasks, RequestOver,
                                   CleanerCloses
    <3> QED BY <3>1, <3>2, <3>3
  <2>3. CASE CleanerEnds
    <3>1. Phases'
      BY TasksAssumption, <2>3
         DEF TypeOK, Phases, Open, Tasks, CleanupLocked, ConnectLocked,
             RequestLocked, CleanerEnds
    <3>2. Closings'
      BY TasksAssumption, <2>3
         DEF TypeOK, Closings, Quiet, Tasks, CleanupLocked, ConnectLocked,
             CleanerEnds
    <3>3. Paces'
      BY TasksAssumption, <2>3 DEF TypeOK, Paces, Tasks, CleanerEnds
    <3> QED BY <3>1, <3>2, <3>3
  <2> QED BY <1>5, <2>1, <2>2, <2>3 DEF Cleaning
<1>6. CASE Tick
  <2>1. Phases' BY <1>6 DEF TypeOK, Phases, Open, Tasks, Tick
  <2>2. Closings' BY <1>6 DEF TypeOK, Closings, Quiet, Tasks, Tick
  <2>3. Paces' BY <1>6 DEF TypeOK, Paces, Tasks, Tick
  <2> QED BY <2>1, <2>2, <2>3
<1>7. CASE Notify
  <2>1. Phases' BY <1>7 DEF TypeOK, Phases, Open, Tasks, Notify
  <2>2. Closings' BY <1>7 DEF TypeOK, Closings, Quiet, Tasks, Notify
  <2>3. Paces' BY <1>7 DEF TypeOK, Paces, Tasks, Notify
  <2> QED BY <2>1, <2>2, <2>3
<1>8. CASE Deliver
  <2>1. Phases' BY <1>8 DEF TypeOK, Phases, Open, Hears, Tasks, Deliver
  <2>2. Closings' BY <1>8 DEF TypeOK, Closings, Quiet, Hears, Tasks, Deliver
  <2>3. Paces' BY <1>8 DEF TypeOK, Paces, Hears, Tasks, Deliver
  <2> QED BY <2>1, <2>2, <2>3
<1> QED BY <1>1, <1>2, <1>3, <1>4, <1>5, <1>6, <1>7, <1>8 DEF Next

\* It holds in every reachable state.
LEMMA JInvariance == Spec => []JInv
<1>1. Init => JInv
  BY InitIInv
     DEF Init, JInv, Phases, Open, Closings, Quiet, Paces, Tasks
<1>2. JInv /\ [Next]_vars => JInv' BY NextJInv
<1> QED BY <1>1, <1>2, PTL DEF Spec

\* A session that was started keeps its reference until it is closed.
THEOREM Remembered == Spec => []NeverForgotten
<1>1. JInv => NeverForgotten BY DEF JInv, Phases, Open, NeverForgotten
<1> QED BY <1>1, JInvariance, PTL

\* After a close that returned in time no session is open or will be.
THEOREM Closed == Spec => []ClosedForGood
<1>1. JInv => ClosedForGood
  BY DEF JInv, Closings, Quiet, ClosedForGood
<1> QED BY <1>1, JInvariance, PTL

\* Whoever left the transport closed it, and it stays closed.
LeftClosed == \A t \in Tasks : pc[t] \in Leaving => closed

LEMMA NextLeftClosed == TypeOK /\ LeftClosed /\ [Next]_vars => LeftClosed'
<1> SUFFICES ASSUME TypeOK, LeftClosed, [Next]_vars,
                    NEW t \in Tasks, pc'[t] \in Leaving
             PROVE  closed'
  BY DEF LeftClosed
<1> USE DEF Leaving, LeftClosed, Move, TypeOK
<1>1. CASE UNCHANGED vars
  BY <1>1 DEF vars
<1>2. ASSUME NEW c \in Connectors, Connecting(c) PROVE closed'
  <2>1. CASE \E held : GiveUp(c, held)
    BY <2>1 DEF GiveUp, ClosedBy
  <2>2. CASE ~ \E held : GiveUp(c, held)
    <3>1. c \in Tasks BY DEF Tasks
    <3>2. closed' = closed
      BY <1>2, <2>2 DEF Connecting, Connect, Build, AlreadyConnected, TooLate,
         Built, HandshakeDone, ReaderStarted, Refused, CancelConnect,
         ConnectSettles, ConnectRaises
    <3>3. CASE ConnectRaises(c)
      BY <3>1, <3>2, <3>3 DEF ConnectRaises
    <3>4. CASE ~ConnectRaises(c)
      <4>1. pc'[t] = pc[t] \/ pc'[t] \notin Leaving
        BY <1>2, <2>2, <3>1, <3>4
           DEF Connecting, Connect, Build, AlreadyConnected, TooLate, Built,
               HandshakeDone, ReaderStarted, Refused, CancelConnect,
               ConnectSettles
      <4> QED BY <3>2, <4>1
    <3> QED BY <3>3, <3>4
  <2> QED BY <2>1, <2>2
<1>3. ASSUME NEW u \in Users, Requesting(u) PROVE closed'
  <2>1. u \in Tasks BY DEF Tasks
  <2>2. closed' = closed /\ (pc'[t] = pc[t] \/ pc'[t] \notin Leaving)
    BY <1>3, <2>1 DEF Requesting, Ask, Admitted, Turned, Paced, Answered,
                      CancelRequest, EndRequest
  <2> QED BY <2>2
<1>4. ASSUME NEW k \in Closers, Closing(k) PROVE closed'
  <2>1. k \in Tasks BY DEF Tasks
  <2>2. CASE Close(k) BY <2>2 DEF Close
  <2>3. CASE CloseReturns(k) \/ CloseExpires(k)
    BY <2>1, <2>3 DEF CloseReturns, CloseExpires
  <2> QED BY <1>4, <2>2, <2>3 DEF Closing
<1>5. CASE Cleaning \/ Tick \/ Notify \/ Deliver
  <2>1. closed' = closed /\ (pc'[t] = pc[t] \/ pc'[t] \notin Leaving)
    BY <1>5 DEF Cleaning, CleanerLocks, CleanerCloses, CleanerEnds, Tick,
                Notify, Deliver
  <2> QED BY <2>1
<1> QED BY <1>1, <1>2, <1>3, <1>4, <1>5 DEF Next

\* A transport that one of its connects or closes gave up delivers nothing,
\* for any number of connects, requests and closes.
THEOREM Silence == Spec => SilentOnceLeft
<1>1. Init => LeftClosed
  BY DEF Init, LeftClosed, Leaving
<1>2. LeftClosed /\ [Next]_vars =>
        [heard' # heard => \A t \in Tasks : pc[t] \notin Leaving]_vars
  <2> SUFFICES ASSUME LeftClosed, Next, heard' # heard,
                      NEW t \in Tasks, pc[t] \in Leaving
               PROVE  FALSE
    OBVIOUS
  <2> USE DEF pace, inbox
  <2>1. closed BY DEF LeftClosed
  <2>2. ~ \E c \in Connectors : Connecting(c)
    BY DEF Connecting, Connect, Build, AlreadyConnected, TooLate, Built,
           HandshakeDone, ReaderStarted, Refused, CancelConnect,
           ConnectSettles, ConnectRaises, GiveUp
  <2>3. ~ \E u \in Users : Requesting(u)
    BY DEF Requesting, Ask, Admitted, Turned, Paced, Answered, CancelRequest,
           EndRequest
  <2>4. ~ \E k \in Closers : Closing(k)
    BY DEF Closing, Close, CloseReturns, CloseExpires
  <2>5. ~Cleaning /\ ~Tick /\ ~Notify
    BY DEF Cleaning, CleanerLocks, CleanerCloses, CleanerEnds, Tick, Notify
  <2> QED BY <2>1, <2>2, <2>3, <2>4, <2>5 DEF Next, Deliver, Hears
<1> QED BY <1>1, <1>2, NextLeftClosed, Invariance, PTL
        DEF Spec, SilentOnceLeft, IInv

\* A request starts only when the pause since the last one is over.
THEOREM Spaced == Spec => RateLimited
<1>1. ASSUME JInv, [Next]_vars
      PROVE  [\A u \in Users :
                (job[u] # "request" /\ job'[u] = "request") => ~spent]_vars
  <2> SUFFICES ASSUME Next, NEW u \in Users,
                      job[u] # "request", job'[u] = "request"
               PROVE  ~spent
    BY <1>1
  <2> USE DEF pace, inbox, JInv, IInv
  <2>1. u \in Tasks /\ u \notin Connectors
    BY TasksAssumption DEF Tasks
  <2>2. ~ \E c \in Connectors : Connecting(c)
    BY <1>1, <2>1
       DEF Connecting, Connect, Build, AlreadyConnected, TooLate, Built,
           HandshakeDone, ReaderStarted, Refused, CancelConnect,
           ConnectSettles, ConnectRaises, GiveUp, ClosedBy, TypeOK
  <2>3. ASSUME NEW v \in Users, Requesting(v) PROVE ~spent
    <3>1. v \in Tasks BY DEF Tasks
    <3>2. CASE Admitted(v)
      BY <1>1, <2>1, <3>1, <3>2 DEF Admitted, TypeOK, Paces
    <3>3. CASE Paced(v)
      BY <1>1, <2>1, <3>1, <3>3 DEF Paced, TypeOK, Paces
    <3> QED
      BY <1>1, <2>1, <2>3, <3>1, <3>2, <3>3
         DEF Requesting, Ask, Turned, Answered, CancelRequest, EndRequest,
             TypeOK
  <2>4. ~ \E k \in Closers : Closing(k)
    BY DEF Closing, Close, CloseReturns, CloseExpires
  <2>5. ~Cleaning
    BY DEF Cleaning, CleanerLocks, CleanerCloses, CleanerEnds
  <2>6. ~Tick /\ ~Notify /\ ~Deliver
    BY DEF Tick, Notify, Deliver
  <2> QED BY <2>2, <2>3, <2>4, <2>5, <2>6 DEF Next
<1> QED BY <1>1, JInvariance, PTL DEF Spec, RateLimited

-----------------------------------------------------------------------------
(* What the blocking session asks of its callers. *)

\* Whoever is inside the session is there alone.
LEMMA Alone ==
  ASSUME JInv
  PROVE  /\ \A x \in Running : Running = {x}
         /\ \A t \in Tasks : job[t] \in Calls => Running = {<<t, job[t]>>}
         /\ cleanup = "closing" => Running = {<<Cleaner, "close">>}
         /\ (/\ \A t \in Tasks : job[t] \notin Calls
             /\ cleanup # "closing") => Running = {}
<1>1. SessionUsedAlone BY IInvAlone DEF JInv
<1>2. \A x \in Running : Running = {x} BY <1>1 DEF SessionUsedAlone
<1>3. stray = {} BY DEF JInv, IInv, NothingStray
<1>4. \A t \in Tasks : job[t] \in Calls => <<t, job[t]>> \in Running
  BY DEF Running
<1>5. cleanup = "closing" => <<Cleaner, "close">> \in Running
  BY DEF Running
<1>6. (/\ \A t \in Tasks : job[t] \notin Calls
       /\ cleanup # "closing") => Running = {}
  BY <1>3 DEF Running
<1> QED BY <1>2, <1>4, <1>5, <1>6

\* The connect that runs is the only one, and no request runs beside it.
LEMMA ConnectAlone ==
  ASSUME JInv, NEW c \in Connectors, job[c] # "none"
  PROVE  /\ \A t \in Tasks \ {c} : job[t] = "none"
         /\ cleanup # "closing"
<1> USE DEF JInv, IInv
<1>1. \A d \in Connectors : job[d] # "none" => d = c
  BY DEF ConnectLocked
<1>2. \A u \in Users : job[u] = "none"
  BY DEF ConnectFirst, RequestLocked
<1>3. cleanup # "closing"
  BY TasksAssumption DEF ConnectLocked, CleanupLocked, Tasks
<1> QED BY <1>1, <1>2, <1>3 DEF NothingStray, Tasks

\* A step that starts and ends no job and leaves the session as it is.
LEMMA NoCall ==
  ASSUME job' = job, stray' = stray, dtls' = dtls,
         cleanup' = "closing" <=> cleanup = "closing"
  PROVE  UNCHANGED <<dtls, Running>>
BY DEF Running

\* What runs after a step, from the jobs that are left.
LEMMA NoneLeft ==
  ASSUME stray' = {}, cleanup' # "closing", \A t \in Tasks : job'[t] \notin
    Calls
  PROVE  Running' = {}
BY DEF Running

LEMMA OneLeft ==
  ASSUME NEW t \in Tasks, job'[t] \in Calls, stray' = {}, cleanup' # "closing",
         \A s \in Tasks \ {t} : job'[s] \notin Calls
  PROVE  Running' = {<<t, job'[t]>>}
<1>1. \A x \in Running' : x = <<t, job'[t]>> BY DEF Running
<1>2. <<t, job'[t]>> \in Running' BY DEF Running
<1> QED BY <1>1, <1>2

\* A call that returned, with nothing called after it.
LEMMA ReturnMaps ==
  ASSUME NEW x \in Tasks \cup {Cleaner, Nobody},
         NEW operation \in {"connect", "reader", "request", "close"},
         Running = {<<x, operation>>}, Running' = {},
         dtls' \in Dtls!After(operation)
  PROVE  Dtls!SessionNext
BY DEF Dtls!SessionNext, Dtls!Return, Dtls!MayRun

\* A connect that gives up: the job it had is over, in whatever state that
\* leaves the session.
LEMMA GiveUpMaps ==
  ASSUME JInv, stray' = {}, NEW c \in Connectors, NEW held \in BOOLEAN,
         GiveUp(c, held),
         dtls' \in IF job[c] = "none" THEN {dtls} ELSE Reached(job[c])
  PROVE  [Dtls!SessionNext]_<<dtls, Running>>
<1> USE DEF GiveUp, ClosedBy, EnsureCleanup, JInv, IInv, Calls
<1>1. c \in Tasks BY DEF Tasks
<1>2. stray = {} BY DEF NothingStray
<1>3. \A t \in Tasks : job'[t] = IF t = c THEN "none" ELSE job[t]
  BY <1>1 DEF TypeOK
<1>4. cleanup' = "closing" <=> cleanup = "closing"
  OBVIOUS
<1>5. job[c] \in {"none", "build", "connect", "reader"} BY DEF ConnectLocked
<1>6. CASE job[c] = "none"
  <2>1. \A t \in Tasks : job'[t] = job[t] BY <1>3, <1>6
  <2>2. Running' = Running BY <1>2, <1>4, <2>1 DEF Running
  <2> QED BY <1>6, <2>2
<1>7. CASE job[c] # "none"
  <2>1. /\ \A t \in Tasks \ {c} : job[t] = "none"
        /\ cleanup # "closing"
    BY <1>7, ConnectAlone
  <2>2. Running' = {} BY <1>3, <1>4, <2>1, NoneLeft
  <2>3. CASE job[c] = "build"
    <3>1. Running = {} BY <2>1, <2>3, <1>1, Alone
    <3>2. dtls = "absent" BY <2>3 DEF Phases
    <3>3. dtls' \in {"absent", "built"} BY <2>3, <3>2 DEF Reached
    <3> QED
      BY <2>2, <3>1, <3>2, <3>3
         DEF Dtls!SessionNext, Dtls!Construct, Dtls!MayRun
  <2>4. CASE job[c] = "connect"
    <3>1. Running = {<<c, "connect">>} BY <2>4, <1>1, Alone
    <3>2. dtls' \in Dtls!After("connect")
      BY <2>4 DEF Reached, Phases, Dtls!After
    <3> QED BY <1>1, <2>2, <3>1, <3>2, ReturnMaps
  <2>5. CASE job[c] = "reader"
    <3>1. Running = {<<c, "reader">>} BY <2>5, <1>1, Alone
    <3>2. dtls' \in Dtls!After("reader")
      BY <2>5 DEF Reached, Phases, Dtls!After
    <3> QED BY <1>1, <2>2, <3>1, <3>2, ReturnMaps
  <2> QED BY <1>5, <1>7, <2>3, <2>4, <2>5
<1> QED BY <1>6, <1>7

\* A request that ends: its call returned, if it had made one.
LEMMA EndRequestMaps ==
  ASSUME JInv, stray' = {}, dtls' = dtls, NEW u \in Users, EndRequest(u)
  PROVE  [Dtls!SessionNext]_<<dtls, Running>>
<1> USE DEF EndRequest, JInv, IInv, Calls
<1>1. u \in Tasks BY DEF Tasks
<1>2. stray = {} BY DEF NothingStray
<1>3. \A t \in Tasks : job'[t] = IF t = u THEN "none" ELSE job[t]
  BY <1>1 DEF TypeOK
<1>4. job[u] \in {"none", "request"} BY DEF RequestLocked
<1>5. CASE job[u] = "none"
  <2>1. \A t \in Tasks : job'[t] = job[t] BY <1>3, <1>5
  <2> QED BY <1>2, <2>1 DEF Running
<1>6. CASE job[u] = "request"
  <2>1. Running = {<<u, "request">>} BY <1>1, <1>6, Alone
  <2>2. \A t \in Tasks : job[t] \in Calls => <<t, job[t]>> \in Running
    BY DEF Running
  <2>3. \A t \in Tasks \ {u} : job[t] \notin Calls
    BY <2>1, <2>2
  <2>4. cleanup # "closing"
    BY <1>1, <1>6, TasksAssumption DEF RequestLocked, CleanupLocked
  <2>5. Running' = {} BY <1>3, <2>3, <2>4, NoneLeft
  <2>6. dtls' \in Dtls!After("request")
    BY <1>6 DEF RequestLocked, Phases, Dtls!After
  <2> QED BY <1>1, <2>1, <2>5, <2>6, ReturnMaps
<1> QED BY <1>4, <1>5, <1>6

\* A request calls into a session that reads and that nobody is in.
LEMMA RequestMaps ==
  ASSUME JInv, NEW u \in Users, request \in {u, Nobody}, dtls = "reading",
         \A c \in Connectors : job[c] = "none", job[u] = "none",
         dtls' = dtls, stray' = {}, cleanup' = cleanup,
         job' = [job EXCEPT ![u] = "request"]
  PROVE  Dtls!SessionNext
<1> USE DEF JInv, IInv, Calls
<1>1. u \in Tasks BY DEF Tasks
<1>2. \A v \in Users : job[v] = "none"
  BY TasksAssumption DEF RequestLocked, Tasks
<1>3. \A t \in Tasks : job[t] = "none"
  BY <1>2 DEF NothingStray, Tasks
<1>4. cleanup # "closing"
  BY <1>1, TasksAssumption DEF CleanupLocked
<1>5. Running = {} BY <1>3, <1>4, Alone
<1>6. job'[u] = "request" /\ \A t \in Tasks \ {u} : job'[t] = "none"
  BY <1>1, <1>3 DEF TypeOK
<1>7. Running' = {<<u, "request">>} BY <1>1, <1>4, <1>6, OneLeft
<1> QED
  BY <1>1, <1>5, <1>7
     DEF Dtls!SessionNext, Dtls!Call, Dtls!MayRun, Dtls!Accepts

\* Every step of the transport is one the session allows, or none of its.
LEMMA StepMaps ==
  ASSUME JInv, JInv', [Next]_vars
  PROVE  [Dtls!SessionNext]_<<dtls, Running>>
<1> USE DEF JInv, IInv, Move, locks, pace, inbox, Calls
<1>1. stray = {} /\ stray' = {} BY DEF NothingStray
<1>2. CASE UNCHANGED vars
  BY <1>2, NoCall DEF vars
<1>3. ASSUME NEW c \in Connectors, Connecting(c)
      PROVE  [Dtls!SessionNext]_<<dtls, Running>>
  <2>1. c \in Tasks BY DEF Tasks
  <2>2. CASE Connect(c) \/ AlreadyConnected(c) \/ ConnectRaises(c)
    BY <2>2, NoCall DEF Connect, AlreadyConnected, ConnectRaises
  <2>3. CASE Build(c)
    <3>1. \A t \in Tasks : job'[t] = job[t] \/ {job[t], job'[t]} \cap Calls = {}
      BY <2>1, <2>3
         DEF Build, TakeLifecycle, TypeOK, ConnectFirst
    <3>2. cleanup' = cleanup /\ dtls' = dtls BY <2>3 DEF Build
    <3>3. Running' = Running BY <1>1, <3>1, <3>2 DEF Running
    <3> QED BY <3>2, <3>3
  <2>4. CASE Built(c)
    <3>1. job[c] = "build" /\ dtls = "absent" /\ dtls' = "built"
          /\ cleanup' = cleanup
      BY <2>4 DEF Built, Phases
    <3>2. job'[c] = "connect" /\ \A t \in Tasks \ {c} : job'[t] = job[t]
      BY <2>1, <2>4 DEF Built, TypeOK
    <3>3. cleanup # "closing" /\ \A t \in Tasks \ {c} : job[t] = "none"
      BY <3>1, ConnectAlone
    <3>4. Running = {} BY <3>1, <3>3, Alone
    <3>5. Running' = {<<c, "connect">>}
      BY <1>1, <2>1, <3>1, <3>2, <3>3, OneLeft
    <3> QED
      BY <2>1, <3>1, <3>4, <3>5
         DEF Dtls!SessionNext, Dtls!Construct, Dtls!MayRun, Dtls!Accepts
  <2>5. CASE HandshakeDone(c)
    <3>1. job[c] = "connect" /\ dtls = "built" /\ dtls' = "connected"
          /\ cleanup' = cleanup
      BY <2>5 DEF HandshakeDone, Phases
    <3>2. job'[c] = "reader" /\ \A t \in Tasks \ {c} : job'[t] = job[t]
      BY <2>1, <2>5 DEF HandshakeDone, TypeOK
    <3>3. cleanup # "closing" /\ \A t \in Tasks \ {c} : job[t] = "none"
      BY <3>1, ConnectAlone
    <3>4. Running = {<<c, "connect">>} BY <2>1, <3>1, Alone
    <3>5. Running' = {<<c, "reader">>}
      BY <1>1, <2>1, <3>1, <3>2, <3>3, OneLeft
    <3> QED
      BY <2>1, <3>1, <3>4, <3>5
         DEF Dtls!SessionNext, Dtls!Return, Dtls!After, Dtls!MayRun,
             Dtls!Accepts
  <2>6. CASE ReaderStarted(c)
    <3>1. job[c] = "reader" /\ dtls = "connected" /\ dtls' = "reading"
          /\ cleanup' = cleanup
      BY <2>6 DEF ReaderStarted, Phases
    <3>2. job'[c] = "none" /\ \A t \in Tasks \ {c} : job'[t] = job[t]
      BY <2>1, <2>6 DEF ReaderStarted, TypeOK
    <3>3. cleanup # "closing" /\ \A t \in Tasks \ {c} : job[t] = "none"
      BY <3>1, ConnectAlone
    <3>4. Running = {<<c, "reader">>} BY <2>1, <3>1, Alone
    <3>5. Running' = {} BY <1>1, <3>1, <3>2, <3>3, NoneLeft
    <3>6. dtls' \in Dtls!After("reader") BY <3>1 DEF Dtls!After
    <3> QED BY <2>1, <3>4, <3>5, <3>6, ReturnMaps
  <2>7. CASE TooLate(c)
    <3>1. job[c] = "none" BY <2>7 DEF TooLate, ConnectLocked
    <3> QED BY <1>1, <2>7, <3>1, GiveUpMaps DEF TooLate, TypeOK
  <2>8. CASE Refused(c)
    <3>1. job[c] # "none" BY <2>8 DEF Refused, ConnectLocked
    <3> QED BY <1>1, <2>8, <3>1, GiveUpMaps DEF Refused, Held, TypeOK
  <2>9. CASE CancelConnect(c)
    <3>1. CASE pc[c] = "lock" /\ GiveUp(c, session) /\ dtls' = dtls
      <4>1. job[c] = "none" BY <3>1 DEF ConnectLocked
      <4> QED BY <1>1, <3>1, <4>1, GiveUpMaps DEF TypeOK
    <3>2. CASE UNCHANGED <<job, stray, dtls, cleanup>>
      BY <3>2, NoCall
    <3> QED BY <2>9, <3>1, <3>2 DEF CancelConnect
  <2>10. CASE ConnectSettles(c)
    <3>1. job[c] # "none" BY <2>10 DEF ConnectSettles, ConnectLocked
    <3> QED
      BY <1>1, <2>10, <3>1, GiveUpMaps DEF ConnectSettles, Held, TypeOK
  <2> QED
    BY <1>3, <2>2, <2>3, <2>4, <2>5, <2>6, <2>7, <2>8, <2>9, <2>10
       DEF Connecting
<1>4. ASSUME NEW u \in Users, Requesting(u)
      PROVE  [Dtls!SessionNext]_<<dtls, Running>>
  <2>1. CASE Ask(u)
    BY <2>1, NoCall DEF Ask
  <2>2. CASE Admitted(u)
    <3>1. dtls = "reading" /\ \A c \in Connectors : job[c] = "none"
      BY <2>2 DEF Admitted, HasSession, Phases, ConnectFirst
    <3>2. job[u] = "none" BY <2>2 DEF Admitted, RequestLocked
    <3>3. CASE job' = job
      BY <2>2, <3>3, NoCall DEF Admitted
    <3>4. CASE job' = [job EXCEPT ![u] = "request"]
      BY <1>1, <2>2, <3>1, <3>2, <3>4, RequestMaps DEF Admitted
    <3> QED BY <2>2, <3>3, <3>4 DEF Admitted
  <2>3. CASE Paced(u)
    <3>1. dtls = "reading" /\ request = u /\ job[u] = "none"
      BY <2>3 DEF Paced, Phases, RequestLocked
    <3>2. \A c \in Connectors : job[c] = "none"
      BY <2>3 DEF Paced, ConnectFirst
    <3> QED BY <1>1, <2>3, <3>1, <3>2, RequestMaps DEF Paced
  <2>4. CASE Turned(u) \/ Answered(u)
    BY <1>1, <2>4, EndRequestMaps DEF Turned, Answered
  <2>5. CASE CancelRequest(u)
    <3>1. CASE EndRequest(u) /\ dtls' = dtls
      BY <1>1, <3>1, EndRequestMaps
    <3>2. CASE UNCHANGED <<job, stray, dtls, cleanup>>
      BY <3>2, NoCall
    <3> QED BY <2>5, <3>1, <3>2 DEF CancelRequest
  <2> QED BY <1>4, <2>1, <2>2, <2>3, <2>4, <2>5 DEF Requesting
<1>5. ASSUME NEW k \in Closers, Closing(k)
      PROVE  [Dtls!SessionNext]_<<dtls, Running>>
  BY <1>5, NoCall DEF Closing, Close, CloseReturns, CloseExpires, EnsureCleanup
<1>6. CASE Cleaning
  <2>1. CASE CleanerLocks
    BY <2>1, NoCall DEF CleanerLocks
  <2>2. CASE CleanerCloses
    <3>1. \A c \in Connectors : job[c] = "none"
      BY <2>2, TasksAssumption DEF CleanerCloses, ConnectLocked, CleanupLocked,
                                   Tasks
    <3>2. \A u \in Users : job[u] = "none"
      BY <2>2, TasksAssumption DEF CleanerCloses, RequestOver, RequestLocked,
                                   Tasks
    <3>3. \A t \in Tasks : job[t] = "none"
      BY <3>1, <3>2 DEF NothingStray, Tasks
    <3>4. Running = {} BY <2>2, <3>3, Alone DEF CleanerCloses
    <3>5. Running' = {<<Cleaner, "close">>}
      BY <1>1, <2>2, <3>3 DEF CleanerCloses, Running
    <3>6. dtls \in Open /\ dtls' = dtls
      BY <2>2 DEF CleanerCloses, Phases
    <3>7. "close" \in Dtls!Accepts(dtls) BY <3>6 DEF Open, Dtls!Accepts
    <3> QED
      BY <3>4, <3>5, <3>6, <3>7
         DEF Dtls!SessionNext, Dtls!Call, Dtls!MayRun
  <2>3. CASE CleanerEnds
    <3>1. Running = {<<Cleaner, "close">>} BY <2>3, Alone DEF CleanerEnds
    <3>2. \A t \in Tasks : job[t] \in Calls => <<t, job[t]>> \in Running
      BY DEF Running
    <3>3. \A t \in Tasks : job'[t] \notin Calls
      BY <2>3, <3>1, <3>2, TasksAssumption DEF CleanerEnds
    <3>4. Running' = {} BY <1>1, <2>3, <3>3, NoneLeft DEF CleanerEnds
    <3>5. dtls' \in Dtls!After("close") BY <2>3 DEF CleanerEnds, Dtls!After
    <3> QED BY <3>1, <3>4, <3>5, ReturnMaps
  <2> QED BY <1>6, <2>1, <2>2, <2>3 DEF Cleaning
<1>7. CASE Tick \/ Notify \/ Deliver
  BY <1>7, NoCall DEF Tick, Notify, Deliver
<1> QED BY <1>2, <1>3, <1>4, <1>5, <1>6, <1>7 DEF Next

\* The transport implements what the blocking session asks of its callers.
THEOREM UsesWell == Spec => UsesSessionWell
<1>1. Init => Dtls!SessionInit
  BY DEF Init, Dtls!SessionInit, Running, Calls
<1>2. JInv /\ JInv' /\ [Next]_vars
        => [Dtls!SessionNext]_(Dtls!sessionVars)
  BY StepMaps DEF Dtls!sessionVars
<1> QED
  BY <1>1, <1>2, JInvariance, PTL DEF Spec, UsesSessionWell, Dtls!SessionSpec

=============================================================================
