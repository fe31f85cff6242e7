----------------------- MODULE PriorityAdmissionProofs -----------------------
(***************************************************************************)
(* For every set of tasks, every set of priorities and every number of     *)
(* acquisitions: the admission is exclusive, is never lost, hands over in  *)
(* order, and implements AdmissionMutex.                                   *)
(***************************************************************************)
EXTENDS PriorityAdmission, TLAPS

\* A waiting task is in the heap, and the heap knows its priority.
Queued ==
  /\ \A u \in Tasks : pc[u] = "waiting" =>
       \E e \in waiters : e.task = u /\ Live(e)
  /\ \A e \in waiters : Live(e) => e.priority = urgency[e.task]

\* The order of the heap, read off the requests themselves.
Precedes(u, t) == \/ urgency[u] < urgency[t]
                  \/ urgency[u] = urgency[t] /\ ticket[u] < ticket[t]

\* What a request has to let through is pending only while the request waits,
\* and then comes before it in the heap or owns the admission.
Turns ==
  \A t \in Tasks : \A u \in ahead[t] :
    /\ u # t
    /\ Pending(u) => ~Owns(t)
    /\ pc[u] = "waiting" /\ pc[t] = "waiting" => Precedes(u, t)

\* Mutual exclusion is not inductive alone: that acquire() of a free
\* admission finds no owner needs NoLostGrant, and that release() with no
\* live waiter leaves an empty heap keeps FreeHasNoWaiters.  The order of the
\* hand-off needs the heap to hold every request that waits.
Sound == TypeOK /\ MutualExclusion /\ NoLostGrant /\ FreeHasNoWaiters
         /\ SequencesUnique
IInv == Sound /\ Queued /\ Turns

\* A new admission satisfies the inductive invariant.
LEMMA InitIInv == Init => IInv
<1> SUFFICES ASSUME Init PROVE IInv
  OBVIOUS
<1>1. TypeOK BY DEF Init, TypeOK, States
<1>2. \A t \in Tasks : ~Owns(t) /\ pc[t] # "waiting" BY DEF Init, Owns
<1>3. waiters = {} /\ held = FALSE BY DEF Init
<1>4. Turns BY DEF Init, Turns
<1> QED BY <1>1, <1>2, <1>3, <1>4
        DEF IInv, Sound, MutualExclusion, NoLostGrant, FreeHasNoWaiters,
            SequencesUnique, Queued

\* What release() by an owner does to the ownership: it moves to the task of
\* one live entry, or to nobody.
LEMMA ReleaseMovesOwnership ==
  ASSUME Sound, NEW t \in Tasks, Owns(t), Release(t)
  PROVE  Sound'
<1>1. CASE \E e \in waiters :
             /\ Live(e) /\ First(e)
             /\ waiters' = {f \in waiters : Before(e, f)}
             /\ pc' = [pc EXCEPT ![t] = "idle", ![e.task] = "granted"]
             /\ held' = StillHeld
             /\ UNCHANGED <<sequence, ticket, history>>
  <2>1. PICK e \in waiters :
             /\ Live(e) /\ First(e)
             /\ waiters' = {f \in waiters : Before(e, f)}
             /\ pc' = [pc EXCEPT ![t] = "idle", ![e.task] = "granted"]
             /\ held' = StillHeld
             /\ UNCHANGED <<sequence, ticket, history>>
    BY <1>1
  <2>2. e.task \in Tasks /\ e.task # t /\ pc[e.task] = "waiting"
    BY <2>1 DEF Sound, TypeOK, Entry, Live, Owns
  <2>3. TypeOK'
    BY <2>1, <2>2 DEF Sound, TypeOK, States, history, StillHeld
  <2>4. \A u \in Tasks : Owns(u)' <=> u = e.task
    BY <2>1, <2>2 DEF Sound, TypeOK, MutualExclusion, Owns
  <2>5. held' = TRUE
    BY <2>1 DEF StillHeld
  <2> QED BY <2>1, <2>2, <2>3, <2>4, <2>5
          DEF Sound, MutualExclusion, NoLostGrant, FreeHasNoWaiters,
              SequencesUnique
<1>2. CASE /\ \A e \in waiters : ~Live(e)
           /\ waiters' = {}
           /\ held' = FALSE
           /\ pc' = [pc EXCEPT ![t] = "idle"]
           /\ UNCHANGED <<sequence, ticket, history>>
  <2>1. TypeOK'
    BY <1>2 DEF Sound, TypeOK, States, history
  <2>2. \A u \in Tasks : ~Owns(u)'
    BY <1>2 DEF Sound, TypeOK, MutualExclusion, Owns
  <2> QED BY <1>2, <2>1, <2>2
          DEF Sound, MutualExclusion, NoLostGrant, FreeHasNoWaiters,
              SequencesUnique
<1> QED BY <1>1, <1>2 DEF Release

\* Every step of every task keeps the sound part: one case per action.
LEMMA NextSound == Sound /\ [Next]_vars => Sound'
<1> SUFFICES ASSUME Sound, [Next]_vars PROVE Sound'
  OBVIOUS
<1> USE DEF Sound, MutualExclusion, NoLostGrant, FreeHasNoWaiters,
            SequencesUnique
<1>1. CASE UNCHANGED vars
  BY <1>1 DEF vars, TypeOK, Owns, history
<1>2. CASE Next
  <2>1. PICK t \in Tasks : \/ AcquireFree(t) \/ AcquireWait(t) \/ Exit(t)
                           \/ Resume(t) \/ Cancel(t) \/ Unwind(t)
    BY <1>2 DEF Next
  <2>2. CASE AcquireFree(t)
    <3>1. TypeOK' BY <2>2 DEF AcquireFree, Asks, Uncontended, TypeOK, States, history
    <3>2. \A u \in Tasks : Owns(u)' <=> u = t
      BY <2>2 DEF AcquireFree, Asks, Uncontended, TypeOK, Owns
    <3> QED BY <2>2, <3>1, <3>2 DEF AcquireFree, Asks, Uncontended
  <2>3. CASE AcquireWait(t)
    <3>1. TypeOK'
      <4>1. PICK p \in Priorities :
              waiters' = waiters \cup {[priority |-> p,
                           sequence |-> NextSequence, task |-> t]}
        BY <2>3 DEF AcquireWait, Asks
      <4>2. [priority |-> p, sequence |-> NextSequence, task |-> t] \in Entry
        BY DEF TypeOK, Entry, NextSequence
      <4>3. waiters' \in SUBSET Entry BY <4>1, <4>2 DEF TypeOK
      <4> QED BY <2>3, <4>3 DEF AcquireWait, Asks, TypeOK, States, history, NextSequence
    <3>2. \A u \in Tasks : Owns(u)' <=> Owns(u)
      BY <2>3 DEF AcquireWait, Asks, TypeOK, Owns
    <3>3. SequencesUnique'
      BY <2>3 DEF AcquireWait, Asks, TypeOK, Entry, NextSequence
    <3> QED BY <2>3, <3>1, <3>2, <3>3 DEF AcquireWait, Asks
  <2>4. CASE Exit(t)
    BY <2>4, ReleaseMovesOwnership DEF Exit, Owns
  <2>5. CASE Resume(t)
    <3>1. TypeOK' BY <2>5 DEF Resume, TypeOK, States, history
    <3>2. \A u \in Tasks : Owns(u)' <=> Owns(u)
      BY <2>5 DEF Resume, TypeOK, Owns
    <3> QED BY <2>5, <3>1, <3>2 DEF Resume
  <2>6. CASE Cancel(t)
    <3>1. TypeOK' BY <2>6 DEF Cancel, TypeOK, States, history
    <3>2. \A u \in Tasks : Owns(u)' <=> Owns(u)
      BY <2>6 DEF Cancel, TypeOK, Owns
    <3> QED BY <2>6, <3>1, <3>2 DEF Cancel
  <2>7. CASE Unwind(t)
    <3>1. CASE pc[t] = "revoked" /\ Release(t)
      BY <3>1, ReleaseMovesOwnership DEF Owns
    <3>2. CASE /\ pc[t] = "cancelled"
               /\ pc' = [pc EXCEPT ![t] = "idle"]
               /\ UNCHANGED <<held, sequence, waiters, ticket, history>>
      <4>1. TypeOK' BY <3>2 DEF TypeOK, States, history
      <4>2. \A u \in Tasks : Owns(u)' <=> Owns(u)
        BY <3>2 DEF TypeOK, Owns
      <4> QED BY <3>2, <4>1, <4>2
    <3> QED BY <2>7, <3>1, <3>2 DEF Unwind
  <2> QED BY <2>1, <2>2, <2>3, <2>4, <2>5, <2>6, <2>7
<1> QED BY <1>1, <1>2

\* A release hands over in order: the first live entry precedes the rest.
LEMMA ReleaseInOrder ==
  ASSUME IInv, NEW t \in Tasks, Owns(t), Release(t)
  PROVE  Queued' /\ Turns'
<1> USE DEF IInv
<1>1. CASE \E e \in waiters :
             /\ Live(e) /\ First(e)
             /\ waiters' = {f \in waiters : Before(e, f)}
             /\ pc' = [pc EXCEPT ![t] = "idle", ![e.task] = "granted"]
             /\ held' = StillHeld
             /\ UNCHANGED <<sequence, ticket, history>>
  <2>1. PICK e \in waiters :
             /\ Live(e) /\ First(e)
             /\ waiters' = {f \in waiters : Before(e, f)}
             /\ pc' = [pc EXCEPT ![t] = "idle", ![e.task] = "granted"]
             /\ UNCHANGED <<sequence, ticket, history>>
    BY <1>1
  <2> DEFINE g == e.task
  <2>2. g \in Tasks /\ g # t /\ pc[g] = "waiting"
    BY <2>1 DEF Sound, TypeOK, Entry, Live, Owns
  <2>3. ticket' = ticket /\ urgency' = urgency /\ ahead' = ahead
    BY <2>1 DEF history
  <2>4. \A u \in Tasks : /\ pc'[u] = "waiting" <=> u # g /\ pc[u] = "waiting"
                         /\ pc'[u] = "granted" => u = g \/ pc[u] = "granted"
                         /\ Owns(u)' => u = g \/ (Owns(u) /\ u # t)
    BY <2>1, <2>2 DEF Sound, TypeOK, Owns
  <2>5. \A u \in Tasks : ~(Owns(u) /\ u # t)
    BY DEF Sound, MutualExclusion
  <2>6. Queued'
    <3>1. ASSUME NEW u \in Tasks, pc'[u] = "waiting"
          PROVE  \E f \in waiters' : f.task = u /\ Live(f)'
      <4>1. PICK f \in waiters : f.task = u /\ Live(f)
        BY <2>4, <3>1 DEF Queued
      <4>2. f # e BY <2>4, <3>1, <4>1
      <4>3. f \in waiters' BY <2>1, <4>1, <4>2 DEF First
      <4> QED BY <2>3, <3>1, <4>1, <4>3 DEF Live
    <3>2. ASSUME NEW f \in waiters', Live(f)'
          PROVE  f.priority = urgency'[f.task]
      <4>1. f \in waiters /\ f.task \in Tasks
        BY <2>1 DEF Sound, TypeOK, Entry
      <4>2. Live(f) BY <2>3, <2>4, <3>2, <4>1 DEF Live
      <4> QED BY <2>3, <4>1, <4>2 DEF Queued
    <3> QED BY <3>1, <3>2 DEF Queued
  <2>7. Turns'
    <3> SUFFICES ASSUME NEW v \in Tasks, NEW u \in ahead'[v]
                 PROVE  /\ u # v
                        /\ Pending(u)' => ~Owns(v)'
                        /\ pc'[u] = "waiting" /\ pc'[v] = "waiting"
                             => Precedes(u, v)'
      BY DEF Turns
    <3>1. u \in ahead[v] /\ u \in Tasks /\ u # v
      BY <2>3 DEF Turns, Sound, TypeOK
    <3>2. ASSUME Pending(u)', Owns(v)' PROVE FALSE
      <4>1. v = g BY <2>4, <2>5, <3>2
      <4>2. u # g BY <3>1, <4>1
      <4>3. pc[u] = "waiting" \/ pc[u] = "granted"
        BY <2>4, <3>1, <3>2, <4>2 DEF Pending
      <4>4. CASE pc[u] = "granted"
        <5>1. u = t BY <2>5, <3>1, <4>4 DEF Owns
        <5>2. pc'[u] = "idle" BY <2>1, <2>2, <5>1 DEF Sound, TypeOK
        <5> QED BY <3>2, <5>2 DEF Pending
      <4>5. CASE pc[u] = "waiting"
        <5>1. PICK f \in waiters : f.task = u /\ Live(f)
          BY <3>1, <4>5 DEF Queued
        <5>2. f # e BY <4>2, <5>1
        <5>3. Before(e, f) BY <2>1, <5>1, <5>2 DEF First
        <5>4. /\ e.priority = urgency[g] /\ e.sequence = ticket[g]
              /\ f.priority = urgency[u] /\ f.sequence = ticket[u]
          BY <2>1, <5>1 DEF Queued, Live
        <5>5. Precedes(u, g) BY <2>2, <3>1, <4>1, <4>5 DEF Turns
        <5>6. /\ urgency[g] \in Int /\ urgency[u] \in Int
              /\ ticket[g] \in Nat /\ ticket[u] \in Nat
          BY <2>2, <3>1, PriorityAssumption DEF Sound, TypeOK
        <5>7. \/ urgency[g] < urgency[u]
              \/ urgency[g] = urgency[u] /\ ticket[g] < ticket[u]
          BY <5>3, <5>4 DEF Before
        <5> HIDE DEF g
        <5> QED BY <5>5, <5>6, <5>7 DEF Precedes
      <4> QED BY <4>3, <4>4, <4>5
    <3>3. ASSUME pc'[u] = "waiting", pc'[v] = "waiting"
          PROVE  Precedes(u, v)'
      <4>1. Precedes(u, v) BY <2>4, <3>1, <3>3 DEF Turns
      <4> QED BY <2>3, <4>1 DEF Precedes
    <3> QED BY <3>1, <3>2, <3>3
  <2> QED BY <2>6, <2>7
<1>2. CASE /\ \A e \in waiters : ~Live(e)
           /\ waiters' = {}
           /\ held' = FALSE
           /\ pc' = [pc EXCEPT ![t] = "idle"]
           /\ UNCHANGED <<sequence, ticket, history>>
  <2>1. \A u \in Tasks : ~Owns(u)' /\ pc'[u] # "waiting"
    BY <1>2 DEF Sound, TypeOK, MutualExclusion, Owns, Queued
  <2>2. ahead' = ahead BY <1>2 DEF history
  <2>3. \A v \in Tasks : \A u \in ahead[v] : u \in Tasks /\ u # v
    BY DEF Turns, Sound, TypeOK
  <2>4. Turns' BY <2>1, <2>2, <2>3 DEF Turns
  <2>5. Queued' BY <1>2, <2>1 DEF Queued
  <2> QED BY <2>4, <2>5
<1> QED BY <1>1, <1>2 DEF Release

\* A task that asks is put behind whom it has to let through.
LEMMA AskInOrder ==
  ASSUME IInv, NEW t \in Tasks, NEW p \in Priorities, Asks(t, p),
         pc[t] = "idle", NEW to \in {"waiting", "holding"},
         pc' = [pc EXCEPT ![t] = to],
         ticket' = [ticket EXCEPT ![t] = ticket'[t]],
         to = "waiting" => ticket'[t] = sequence + 1,
         to = "holding" => \A u \in Tasks : ~Owns(u) /\ pc[u] # "waiting"
  PROVE  Turns'
<1> SUFFICES ASSUME NEW v \in Tasks, NEW u \in ahead'[v]
             PROVE  /\ u # v
                    /\ Pending(u)' => ~Owns(v)'
                    /\ pc'[u] = "waiting" /\ pc'[v] = "waiting"
                         => Precedes(u, v)'
  BY DEF Turns
<1> USE DEF IInv, Sound, TypeOK
<1>1. \A w \in Tasks : w # t =>
        pc'[w] = pc[w] /\ ticket'[w] = ticket[w] /\ urgency'[w] = urgency[w]
  BY DEF Asks
<1>2. urgency'[t] = p /\ pc'[t] = to
  BY DEF Asks
<1>3. \A w \in Tasks : /\ urgency[w] \in Int /\ ticket[w] \in Nat
                       /\ p \in Int /\ sequence \in Nat
  BY PriorityAssumption
<1>4. \A w \in Tasks : pc[w] = "waiting" => ticket[w] <= sequence
  <2> SUFFICES ASSUME NEW w \in Tasks, pc[w] = "waiting"
               PROVE  ticket[w] <= sequence
    OBVIOUS
  <2>1. PICK e \in waiters : e.task = w /\ Live(e) BY DEF Queued
  <2> QED BY <2>1 DEF SequencesUnique, Live
<1>5. CASE v = t
  <2>1. u \in Tasks /\ u # t /\ Pending(u) /\ urgency[u] <= p
    BY <1>5 DEF Asks
  <2>2. to = "waiting"
    BY <2>1 DEF Pending, Owns
  <2>3. ~Owns(v)' BY <1>2, <1>5, <2>2 DEF Owns
  <2>4. ASSUME pc'[u] = "waiting" PROVE Precedes(u, v)'
    <3>1. ticket'[u] <= sequence /\ urgency'[u] <= p
      BY <1>1, <1>4, <2>1, <2>4
    <3>2. ticket'[t] = sequence + 1 BY <2>2
    <3>3. ticket'[u] \in Nat /\ urgency'[u] \in Int BY <1>1, <1>3, <2>1
    <3> QED BY <1>2, <1>3, <1>5, <3>1, <3>2, <3>3 DEF Precedes
  <2> QED BY <1>5, <2>1, <2>3, <2>4
<1>6. CASE v # t /\ u = t
  <2>1. pc[v] = "waiting" /\ p < urgency[v]
    BY <1>6 DEF Asks
  <2>2. ~Owns(v)' BY <1>1, <1>6, <2>1 DEF Owns
  <2> QED BY <1>1, <1>2, <1>6, <2>1, <2>2 DEF Precedes
<1>7. CASE v # t /\ u # t
  <2>1. u \in ahead[v]
    BY <1>7 DEF Asks
  <2>2. u \in Tasks BY <2>1
  <2>3. u # v /\ (Pending(u) => ~Owns(v))
        /\ (pc[u] = "waiting" /\ pc[v] = "waiting" => Precedes(u, v))
    BY <2>1 DEF Turns
  <2>4. pc'[u] = pc[u] /\ pc'[v] = pc[v]
        /\ ticket'[u] = ticket[u] /\ ticket'[v] = ticket[v]
        /\ urgency'[u] = urgency[u] /\ urgency'[v] = urgency[v]
    BY <1>1, <1>7, <2>2
  <2> QED BY <2>3, <2>4 DEF Pending, Owns, Precedes
<1> QED BY <1>5, <1>6, <1>7

\* A step that asks for nothing and hands nothing over keeps the order.
LEMMA OrderKept ==
  ASSUME IInv,
         UNCHANGED <<held, sequence, waiters, ticket, history>>,
         \A u \in Tasks : /\ Owns(u)' <=> Owns(u)
                          /\ Pending(u)' => Pending(u)
                          /\ pc'[u] = "waiting" => pc[u] = "waiting"
  PROVE  Queued' /\ Turns'
<1>1. /\ waiters' = waiters /\ ticket' = ticket /\ ahead' = ahead
      /\ urgency' = urgency
  BY DEF history
<1>2. \A e \in waiters : e.task \in Tasks
  BY DEF IInv, Sound, TypeOK, Entry
<1>3. \A e \in waiters : Live(e)' <=> Live(e) /\ pc'[e.task] = "waiting"
  BY <1>1, <1>2 DEF Live
<1>4. Queued'
  BY <1>1, <1>2, <1>3 DEF Queued, IInv
<1>5. \A v \in Tasks : \A u \in ahead[v] : u \in Tasks
  BY DEF IInv, Sound, TypeOK
<1>6. \A v, u : Precedes(u, v)' <=> Precedes(u, v)
  BY <1>1 DEF Precedes
<1>7. Turns'
  BY <1>1, <1>5, <1>6 DEF Turns, IInv
<1> QED BY <1>4, <1>7

\* Every step keeps the order of the requests: one case per action.
LEMMA NextOrder == IInv /\ [Next]_vars => Queued' /\ Turns'
<1> SUFFICES ASSUME IInv, [Next]_vars PROVE Queued' /\ Turns'
  OBVIOUS
<1> USE DEF IInv, Sound, TypeOK
<1>1. CASE UNCHANGED vars
  <2>1. UNCHANGED <<held, sequence, waiters, ticket, history>> /\ pc' = pc
    BY <1>1 DEF vars, history
  <2> QED BY <2>1, OrderKept DEF Owns, Pending
<1>2. CASE Next
  <2>1. PICK t \in Tasks : \/ AcquireFree(t) \/ AcquireWait(t) \/ Exit(t)
                           \/ Resume(t) \/ Cancel(t) \/ Unwind(t)
    BY <1>2 DEF Next
  <2>2. CASE AcquireFree(t)
    <3>1. PICK p \in Priorities : Asks(t, p) BY <2>2 DEF AcquireFree
    <3>2. \A u \in Tasks : ~Owns(u) /\ pc[u] # "waiting"
      BY <2>2 DEF AcquireFree, Uncontended, NoLostGrant, Queued
    <3>3. /\ ticket' = [ticket EXCEPT ![t] = ticket'[t]]
          /\ pc' = [pc EXCEPT ![t] = "holding"] /\ pc[t] = "idle"
      BY <2>2 DEF AcquireFree
    <3>4. Turns' BY <3>1, <3>2, <3>3, AskInOrder
    <3>5. waiters' = {} BY <2>2 DEF AcquireFree, Uncontended
    <3>6. \A u \in Tasks : pc'[u] # "waiting" BY <3>2, <3>3
    <3>7. Queued' BY <3>5, <3>6 DEF Queued
    <3> QED BY <3>4, <3>7
  <2>3. CASE AcquireWait(t)
    <3>1. PICK p \in Priorities :
            /\ waiters' = waiters \cup {[priority |-> p,
                            sequence |-> NextSequence, task |-> t]}
            /\ Asks(t, p)
      BY <2>3 DEF AcquireWait
    <3>0. PICK own : own = [priority |-> p, sequence |-> NextSequence,
                            task |-> t]
      OBVIOUS
    <3>2. /\ ticket' = [ticket EXCEPT ![t] = sequence + 1]
          /\ pc' = [pc EXCEPT ![t] = "waiting"] /\ pc[t] = "idle"
      BY <2>3 DEF AcquireWait, NextSequence
    <3>3. /\ ticket'[t] = sequence + 1
          /\ ticket' = [ticket EXCEPT ![t] = ticket'[t]]
      BY <3>2
    <3>4. Turns' BY <3>1, <3>2, <3>3, AskInOrder
    <3>5. \A u \in Tasks \ {t} : /\ pc'[u] = pc[u] /\ ticket'[u] = ticket[u]
                                 /\ urgency'[u] = urgency[u]
      BY <3>1, <3>2 DEF Asks
    <3>6. /\ own.task = t /\ own.priority = p /\ own.sequence = sequence + 1
          /\ own \in waiters'
      BY <3>0, <3>1 DEF NextSequence
    <3>7. pc'[t] = "waiting" /\ urgency'[t] = p
      BY <3>1, <3>2 DEF Asks
    <3>8. ASSUME NEW u \in Tasks, pc'[u] = "waiting"
          PROVE  \E f \in waiters' : f.task = u /\ Live(f)'
      <4>1. CASE u = t
        <5>1. Live(own)' BY <3>3, <3>6, <3>7 DEF Live
        <5> QED BY <3>6, <4>1, <5>1
      <4>2. CASE u # t
        <5>1. PICK f \in waiters : f.task = u /\ Live(f)
          BY <3>5, <3>8, <4>2 DEF Queued
        <5>2. f \in waiters' BY <3>1
        <5> QED BY <3>5, <3>8, <4>2, <5>1, <5>2 DEF Live
      <4> QED BY <4>1, <4>2
    <3>9. ASSUME NEW f \in waiters', Live(f)'
          PROVE  f.priority = urgency'[f.task]
      <4>1. CASE f = own BY <3>6, <3>7, <4>1
      <4>2. CASE f \in waiters
        <5>1. f.task \in Tasks /\ f.sequence <= sequence
              /\ f.sequence \in Nat
          BY <4>2 DEF Entry, SequencesUnique
        <5>2. f.task # t BY <3>3, <3>9, <5>1 DEF Live
        <5>3. Live(f) BY <3>5, <3>9, <5>1, <5>2 DEF Live
        <5> QED BY <3>5, <4>2, <5>1, <5>2, <5>3 DEF Queued
      <4> QED BY <3>0, <3>1, <4>1, <4>2
    <3> QED BY <3>4, <3>8, <3>9 DEF Queued
  <2>4. CASE Exit(t)
    BY <2>4, ReleaseInOrder DEF Exit, Owns
  <2>5. CASE Resume(t)
    BY <2>5, OrderKept DEF Resume, Owns, Pending
  <2>6. CASE Cancel(t)
    BY <2>6, OrderKept DEF Cancel, Owns, Pending
  <2>7. CASE Unwind(t)
    <3>1. CASE pc[t] = "revoked" /\ Release(t)
      BY <3>1, ReleaseInOrder DEF Owns
    <3>2. CASE /\ pc[t] = "cancelled"
               /\ pc' = [pc EXCEPT ![t] = "idle"]
               /\ UNCHANGED <<held, sequence, waiters, ticket, history>>
      BY <3>2, OrderKept DEF Owns, Pending
    <3> QED BY <2>7, <3>1, <3>2 DEF Unwind
  <2> QED BY <2>1, <2>2, <2>3, <2>4, <2>5, <2>6, <2>7
<1> QED BY <1>1, <1>2

\* Together: the inductive step.
LEMMA NextIInv == IInv /\ [Next]_vars => IInv'
BY NextSound, NextOrder DEF IInv

\* So it holds in every reachable state.
LEMMA Invariance == Spec => []IInv
BY InitIInv, NextIInv, PTL DEF Spec

\* The fields of the admission keep their types.
THEOREM TypeCorrect == Spec => []TypeOK
BY Invariance, PTL DEF IInv, Sound

\* At most one operation owns the device session, for any number of tasks.
THEOREM Exclusive == Spec => []MutualExclusion
BY Invariance, PTL DEF IInv, Sound

\* A grant is never lost to a cancellation: the admission is held exactly
\* when some task owns it.
THEOREM GrantKept == Spec => []NoLostGrant
BY Invariance, PTL DEF IInv, Sound

\* A free admission has an empty heap: the fast path of acquire() leaves no
\* waiter behind.
THEOREM NoBarging == Spec => []FreeHasNoWaiters
BY Invariance, PTL DEF IInv, Sound

-----------------------------------------------------------------------------
\* Every task whose requests it must not overtake has entered or given up
\* before a task enters hold(), for any number of tasks and of priorities.
THEOREM InTurn == Spec => []ServedInTurn
<1>1. IInv => ServedInTurn
  BY DEF IInv, Sound, Turns, ServedInTurn, Owns, TypeOK
<1> QED BY <1>1, Invariance, PTL
-----------------------------------------------------------------------------
(* Refinement: PriorityAdmission implements AdmissionMutex. *)

\* The refinement mapping of the owner, read off the task states.
LEMMA OwnerOf ==
  ASSUME MutualExclusion
  PROVE  /\ \A t \in Tasks : Owns(t) => owner = t
         /\ (\A t \in Tasks : ~Owns(t)) => owner = NoTask
BY DEF MutualExclusion, owner

\* The same of the next state.
LEMMA OwnerOfNext ==
  ASSUME MutualExclusion'
  PROVE  /\ \A t \in Tasks : Owns(t)' => owner' = t
         /\ (\A t \in Tasks : ~Owns(t)') => owner' = NoTask
BY DEF MutualExclusion, owner

\* A step that changes no ownership leaves the mapped owner alone.
LEMMA OwnerKept ==
  ASSUME MutualExclusion, MutualExclusion',
         \A t \in Tasks : Owns(t)' <=> Owns(t)
  PROVE  owner' = owner
<1>1. CASE \E t \in Tasks : Owns(t)
  <2>1. PICK t \in Tasks : Owns(t) BY <1>1
  <2> QED BY <2>1, OwnerOf, OwnerOfNext
<1>2. CASE \A t \in Tasks : ~Owns(t)
  BY <1>2, OwnerOf, OwnerOfNext
<1> QED BY <1>1, <1>2

\* Releasing, from hold() or from acquire(), is the abstract Leave.
LEMMA ReleaseLeaves ==
  ASSUME IInv, IInv', NEW t \in Tasks, Owns(t), Release(t)
  PROVE  Mutex!Leave(t)
<1>1. owner = t /\ t \in asking
  BY OwnerOf DEF IInv, Sound, asking, Owns
<1>2. CASE \E e \in waiters :
             /\ Live(e) /\ First(e)
             /\ pc' = [pc EXCEPT ![t] = "idle", ![e.task] = "granted"]
  <2>1. PICK e \in waiters :
             /\ Live(e) /\ First(e)
             /\ pc' = [pc EXCEPT ![t] = "idle", ![e.task] = "granted"]
    BY <1>2
  <2>2. e.task \in Tasks /\ e.task # t /\ pc[e.task] = "waiting"
    BY <2>1 DEF IInv, Sound, TypeOK, Entry, Live, Owns
  <2>3. owner' = e.task
    <3>1. Owns(e.task)' BY <2>1, <2>2 DEF IInv, Sound, TypeOK, Owns
    <3> QED BY <2>2, <3>1, OwnerOfNext DEF IInv, Sound
  <2>4. asking' = asking \ {t}
    BY <2>1, <2>2 DEF asking, IInv, Sound, TypeOK
  <2>5. e.task \in asking \ {t}
    BY <2>2 DEF asking
  <2> QED BY <1>1, <2>3, <2>4, <2>5 DEF Mutex!Leave
<1>3. CASE pc' = [pc EXCEPT ![t] = "idle"]
  <2>1. \A u \in Tasks : ~Owns(u)'
    BY <1>3 DEF IInv, Sound, TypeOK, MutualExclusion, Owns
  <2>2. owner' = NoTask BY <2>1, OwnerOfNext DEF IInv, Sound
  <2>3. asking' = asking \ {t}
    BY <1>3 DEF asking, IInv, Sound, TypeOK
  <2> QED BY <1>1, <2>2, <2>3 DEF Mutex!Leave
<1> QED BY <1>2, <1>3 DEF Release

\* Every step of the admission is a step of the mutex or changes nothing of it.
LEMMA StepRefines ==
  ASSUME IInv, IInv', [Next]_vars
  PROVE  [Mutex!MutexNext]_(Mutex!mutexVars)
<1>1. CASE UNCHANGED vars
  <2>1. \A t \in Tasks : Owns(t)' <=> Owns(t)
    BY <1>1 DEF vars, Owns
  <2>2. asking' = asking BY <1>1 DEF vars, asking
  <2> QED BY <2>1, <2>2, OwnerKept DEF IInv, Sound, Mutex!mutexVars
<1>2. CASE Next
  <2>1. PICK t \in Tasks : \/ AcquireFree(t) \/ AcquireWait(t) \/ Exit(t)
                           \/ Resume(t) \/ Cancel(t) \/ Unwind(t)
    BY <1>2 DEF Next
  <2>2. CASE AcquireFree(t)
    <3>1. \A u \in Tasks : ~Owns(u)
      BY <2>2 DEF AcquireFree, Uncontended, IInv, Sound, NoLostGrant
    <3>2. owner = NoTask BY <3>1, OwnerOf DEF IInv, Sound
    <3>3. Owns(t)' BY <2>2 DEF AcquireFree, Owns, IInv, Sound, TypeOK
    <3>4. owner' = t BY <3>3, OwnerOfNext DEF IInv, Sound
    <3>5. t \notin asking /\ asking' = asking \cup {t}
      BY <2>2 DEF AcquireFree, asking, IInv, Sound, TypeOK
    <3>6. Mutex!Ask(t)
      BY <3>2, <3>4, <3>5, TaskAssumption DEF Mutex!Ask
    <3> QED BY <3>6 DEF Mutex!MutexNext
  <2>3. CASE AcquireWait(t)
    <3>1. \A u \in Tasks : Owns(u)' <=> Owns(u)
      BY <2>3 DEF AcquireWait, Owns, IInv, Sound, TypeOK
    <3>2. owner' = owner BY <3>1, OwnerKept DEF IInv, Sound
    <3>3. t \notin asking /\ asking' = asking \cup {t}
      BY <2>3 DEF AcquireWait, asking, IInv, Sound, TypeOK
    <3>4. owner # t
      <4>1. ~Owns(t) BY <2>3 DEF AcquireWait, Owns
      <4>2. PICK u \in Tasks : Owns(u)
        BY <2>3 DEF AcquireWait, IInv, Sound, NoLostGrant, FreeHasNoWaiters
      <4> QED BY <4>1, <4>2, OwnerOf DEF IInv, Sound
    <3>5. Mutex!Ask(t) BY <3>2, <3>3, <3>4 DEF Mutex!Ask
    <3> QED BY <3>5 DEF Mutex!MutexNext
  <2>4. CASE Exit(t)
    <3>1. Mutex!Leave(t) BY <2>4, ReleaseLeaves DEF Exit, Owns
    <3> QED BY <3>1 DEF Mutex!MutexNext
  <2>5. CASE Resume(t) \/ Cancel(t)
    <3>1. \A u \in Tasks : Owns(u)' <=> Owns(u)
      BY <2>5 DEF Resume, Cancel, Owns, IInv, Sound, TypeOK
    <3>2. asking' = asking
      BY <2>5 DEF Resume, Cancel, asking, IInv, Sound, TypeOK
    <3> QED BY <3>1, <3>2, OwnerKept DEF IInv, Sound, Mutex!mutexVars
  <2>6. CASE Unwind(t)
    <3>1. CASE pc[t] = "revoked" /\ Release(t)
      <4>1. Mutex!Leave(t) BY <3>1, ReleaseLeaves DEF Owns
      <4> QED BY <4>1 DEF Mutex!MutexNext
    <3>2. CASE pc[t] = "cancelled" /\ pc' = [pc EXCEPT ![t] = "idle"]
      <4>1. \A u \in Tasks : Owns(u)' <=> Owns(u)
        BY <3>2 DEF Owns, IInv, Sound, TypeOK
      <4>2. owner' = owner BY <4>1, OwnerKept DEF IInv, Sound
      <4>3. t \in asking /\ asking' = asking \ {t}
        BY <3>2 DEF asking, IInv, Sound, TypeOK
      <4>4. owner # t
        <5>1. ~Owns(t) BY <3>2 DEF Owns
        <5>2. CASE \E u \in Tasks : Owns(u)
          BY <5>1, <5>2, OwnerOf DEF IInv, Sound
        <5>3. CASE \A u \in Tasks : ~Owns(u)
          BY <5>3, OwnerOf, TaskAssumption DEF IInv, Sound
        <5> QED BY <5>2, <5>3
      <4>5. Mutex!Leave(t) BY <4>2, <4>3, <4>4 DEF Mutex!Leave
      <4> QED BY <4>5 DEF Mutex!MutexNext
    <3> QED BY <2>6, <3>1, <3>2 DEF Unwind
  <2> QED BY <2>1, <2>2, <2>3, <2>4, <2>5, <2>6
<1> QED BY <1>1, <1>2

\* The admission implements the mutex every operation of the coordinator
\* relies on, for any set of tasks and priorities.
THEOREM Refinement == Spec => ImplementsMutex
<1>1. Init => Mutex!MutexInit
  <2> SUFFICES ASSUME Init PROVE Mutex!MutexInit
    OBVIOUS
  <2>1. \A t \in Tasks : ~Owns(t) BY DEF Init, Owns
  <2>2. owner = NoTask BY <2>1 DEF owner
  <2>3. asking = {} BY DEF Init, asking
  <2> QED BY <2>2, <2>3 DEF Mutex!MutexInit
<1>2. IInv /\ IInv' /\ [Next]_vars => [Mutex!MutexNext]_(Mutex!mutexVars)
  BY StepRefines
<1> QED BY <1>1, <1>2, Invariance, PTL
        DEF Spec, ImplementsMutex, Mutex!MutexSpec
=============================================================================
