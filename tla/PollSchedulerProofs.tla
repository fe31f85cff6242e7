------------------------ MODULE PollSchedulerProofs ------------------------
(***************************************************************************)
(* The scheduler never asks for what it knows, and never begins anything   *)
(* while something more urgent is due: for any resources, periods and      *)
(* times a read may take.                                                  *)
(***************************************************************************)
EXTENDS PollScheduler, WellFoundedInduction, TLAPS

Loops == [pc : Positions, path : Paths \cup {""}, timer : Int, ok : BOOLEAN]

\* What a deadline is counted in.
Typed ==
  /\ left \in [Paths -> Int] /\ \A p \in Paths : left[p] >= -MaxLate
  /\ place \in [Paths -> Nat]
  /\ reconcile \in Int /\ hot_failures \in Nat
  /\ loop \in Loops
  /\ loop.pc = "read" => loop.path \in Paths
  /\ age \in [Paths -> Nat] /\ \A p \in Paths : age[p] <= Period(p)
  /\ last \in [Paths -> {"never", "heard", "failed"}]

\* The deadline and the age of what is known of a resource go together: as long
\* as p is not due, it may be younger than a period, but not once it is.
DueWhenOld(p) ==
  /\ last[p] = "heard" => age[p] = Period(p) \/ age[p] + left[p] >= Period(p)
  /\ last[p] = "failed" => age[p] = Period(p) \/ age[p] + left[p] >= Second

IInv == Typed /\ \A p \in Paths : DueWhenOld(p)

-----------------------------------------------------------------------------
(* The next resource exists *)

LEMMA SmallestNat ==
  ASSUME NEW T, T \subseteq Nat, T # {}
  PROVE  \E x \in T : \A y \in T : x <= y
<1> DEFINE less == {ss \in Nat \X Nat : ss[1] < ss[2]}
<1>1. IsWellFoundedOn(less, Nat)
  BY NatLessThanWellFounded DEF OpToRel
<1>2. PICK x \in T : \A y \in T : ~(<<y, x>> \in less)
  <2> HIDE DEF less
  <2> QED BY <1>1, WFMin
<1>3. ASSUME NEW y \in T PROVE x <= y
  <2>1. x \in Nat /\ y \in Nat
    OBVIOUS
  <2>2. y < x => <<y, x>> \in less
    BY <2>1
  <2>3. ~(y < x)
    BY <1>2, <2>2
  <2> QED BY <2>1, <2>3
<1> QED BY <1>3

LEMMA LeastOf ==
  ASSUME NEW S, S # {}, NEW f, NEW b \in Int,
         \A s \in S : f[s] \in Int /\ f[s] >= b
  PROVE  \E x \in S : \A y \in S : f[x] <= f[y]
<1> DEFINE T == {f[s] - b : s \in S}
<1>1. T \subseteq Nat /\ T # {}
  OBVIOUS
<1>2. PICK t \in T : \A u \in T : t <= u
  BY <1>1, SmallestNat
<1>3. PICK x \in S : t = f[x] - b
  OBVIOUS
<1>4. \A y \in S : f[x] - b <= f[y] - b
  BY <1>2, <1>3
<1> QED BY <1>3, <1>4

LEMMA Periods == \A p \in Paths : /\ Period(p) \in Nat \ {0}
                                  /\ Second \in Nat \ {0} /\ Second <= Period(p)
                                  /\ Tier(p) \in 1..3
BY TimeAssumption DEF Period, Tier

\* The sooner of the resources of S.
LEMMA Soonest ==
  ASSUME Typed, NEW S \in SUBSET Paths, S # {}
  PROVE  \E p \in S : \A q \in S : Sooner(p, q)
<1>1. -MaxLate \in Int
  BY TimeAssumption
<1>2. PICK x \in S : \A y \in S : left[x] <= left[y]
  BY <1>1, LeastOf DEF Typed
<1> DEFINE E == {y \in S : left[y] = left[x]}
<1>3. E # {} /\ \A s \in E : place[s] \in Int /\ place[s] >= 0
  BY DEF Typed
<1>4. PICK p \in E : \A q \in E : place[p] <= place[q]
  <2> HIDE DEF E
  <2> QED BY <1>3, LeastOf
<1>5. \A q \in S : left[p] < left[q] \/ q \in E
  BY <1>2 DEF Typed
<1> QED BY <1>4, <1>5 DEF Sooner

LEMMA NextDueIsDue ==
  ASSUME Typed
  PROVE  /\ NextDue \in Paths
         /\ Due # {} => NextDue \in Due /\ \A q \in Due : Tier(NextDue) <= Tier(q)
<1>1. CASE Due # {}
  <2> DEFINE f == [p \in Paths |-> Tier(p)]
  <2>1. PICK x \in Due : \A y \in Due : f[x] <= f[y]
    BY <1>1, Periods, LeastOf DEF Due
  <2> DEFINE E == {y \in Due : Tier(y) = Tier(x)}
  <2>2. PICK p \in E : \A q \in E : Sooner(p, q)
    BY Soonest DEF Due
  <2>3. \A q \in Due : Tier(p) < Tier(q) \/ q \in E
    BY <2>1, Periods DEF Due
  <2>4. \A q \in Due : Before(p, q)
    BY <2>2, <2>3 DEF Before
  <2>5. NextDue \in Due /\ \A q \in Due : Before(NextDue, q)
    BY <1>1, <2>4 DEF NextDue
  <2>6. \A q \in Due : Tier(NextDue) <= Tier(q)
    BY <2>5, Periods DEF Before, Due
  <2> QED BY <2>5, <2>6 DEF Due
<1>2. CASE Due = {}
  <2>1. \E p \in Paths : \A q \in Paths : Sooner(p, q)
    BY Soonest, PathsAssumption
  <2> QED BY <1>2, <2>1 DEF NextDue
<1> QED BY <1>1, <1>2

-----------------------------------------------------------------------------
LEMMA RetryLater ==
  ASSUME Typed, NEW p \in Paths
  PROVE  Retry(p) \in Int /\ Retry(p) >= Second
<1>1. Least(hot_failures, 5) \in Nat
  BY DEF Typed, Least
<1>2. 2 ^ Least(hot_failures, 5) \in Int
  BY <1>1
<1> QED BY <1>2, Periods DEF Retry, Most, Least

\* A member of a sequence has a place in it.
LEMMA PlaceIn ==
  ASSUME NEW S, NEW s \in Seq(S), NEW p \in Members(s)
  PROVE  Place(s, p) \in 1..Len(s)
<1>1. \E i \in DOMAIN s : s[i] = p
  BY DEF Members
<1> QED BY <1>1 DEF Place

LEMMA AllPlaced == \A p \in Paths : Place(AllPaths, p) \in Nat
<1> SUFFICES ASSUME NEW p \in Paths PROVE Place(AllPaths, p) \in Nat
  OBVIOUS
<1> USE PathsAssumption
<1>1. /\ HotPaths \in Seq(Paths) /\ WarmPaths \in Seq(Paths)
      /\ ColdPaths \in Seq(Paths)
  BY DEF Paths
<1>2. AllPaths \in Seq(Paths)
  BY <1>1 DEF AllPaths
<1>3. p \in Members(AllPaths)
  <2>1. CASE p \in Hot
    <3>1. PICK i \in 1..Len(HotPaths) : HotPaths[i] = p
      BY <1>1, <2>1 DEF Hot, Members
    <3>2. i \in DOMAIN AllPaths /\ AllPaths[i] = p
      BY <1>1, <3>1 DEF AllPaths
    <3> QED BY <3>2 DEF Members
  <2>2. CASE p \in Warm
    <3>1. PICK i \in 1..Len(WarmPaths) : WarmPaths[i] = p
      BY <1>1, <2>2 DEF Warm, Members
    <3>2. /\ Len(HotPaths) + i \in DOMAIN AllPaths
          /\ AllPaths[Len(HotPaths) + i] = p
      BY <1>1, <3>1 DEF AllPaths
    <3> QED BY <3>2 DEF Members
  <2>3. CASE p \in Cold
    <3>1. PICK i \in 1..Len(ColdPaths) : ColdPaths[i] = p
      BY <1>1, <2>3 DEF Cold, Members
    <3>2. /\ Len(HotPaths) + Len(WarmPaths) + i \in DOMAIN AllPaths
          /\ AllPaths[Len(HotPaths) + Len(WarmPaths) + i] = p
      BY <1>1, <3>1 DEF AllPaths
    <3> QED BY <3>2 DEF Members
  <2> QED BY <2>1, <2>2, <2>3 DEF Paths
<1> QED BY <1>2, <1>3, PlaceIn

LEMMA SpreadLater ==
  ASSUME NEW S, NEW s \in Seq(S), NEW period \in Nat, NEW p \in Members(s)
  PROVE  Spread(s, period)[p] \in Int /\ Spread(s, period)[p] >= 0
<1> DEFINE i == Place(s, p)
<1>1. i \in 1..Len(s) /\ Len(s) \in Nat
  BY PlaceIn
<1>2. period * i \in Nat
  <2> HIDE DEF i
  <2> QED BY <1>1
<1>3. (period * i) \div Len(s) \in Nat
  <2> HIDE DEF i
  <2> QED BY <1>1, <1>2
<1> QED BY <1>3 DEF Spread

LEMMA AtTyped ==
  ASSUME NEW pc \in Positions, NEW timer \in Int
  PROVE  At(pc, timer) \in Loops /\ At(pc, timer).pc = pc
BY DEF At, Loops

LEMMA InitIInv == Init => IInv
<1> SUFFICES ASSUME Init PROVE IInv
  OBVIOUS
<1>1. \A p \in Paths : left[p] \in Int /\ left[p] >= 0
  <2> SUFFICES ASSUME NEW p \in Paths PROVE left[p] \in Int /\ left[p] >= 0
    OBVIOUS
  <2> USE PathsAssumption, TimeAssumption DEF Init, Hot, Warm, Cold
  <2>1. CASE p \in Hot BY <2>1, SpreadLater
  <2>2. CASE p \in Warm /\ p \notin Hot BY <2>2, SpreadLater
  <2>3. CASE p \in Cold /\ p \notin Hot /\ p \notin Warm BY <2>3, SpreadLater
  <2> QED BY <2>1, <2>2, <2>3 DEF Paths
<1>2. left \in [Paths -> Int] /\ \A p \in Paths : left[p] >= -MaxLate
  BY <1>1, TimeAssumption DEF Init
<1>3. place \in [Paths -> Nat]
  BY AllPlaced DEF Init
<1>4. loop \in Loops /\ loop.pc = "choose"
  BY AtTyped DEF Init, Positions
<1>5. age \in [Paths -> Nat] /\ \A p \in Paths : age[p] <= Period(p)
  BY Periods DEF Init
<1>6. last = [p \in Paths |-> "never"]
  BY DEF Init
<1>7. reconcile \in Int /\ hot_failures \in Nat
  BY TimeAssumption DEF Init
<1> QED BY <1>2, <1>3, <1>4, <1>5, <1>6, <1>7 DEF IInv, Typed, DueWhenOld

-----------------------------------------------------------------------------
(* The deadlines *)

\* What _schedule, with what is heard or not heard, does to the deadlines.
LEMMA Scheduled ==
  ASSUME IInv, NEW p \in Paths, NEW d \in Int, NEW how \in {"heard", "failed"},
         Schedule(p, d), d >= Second, how = "heard" => d = Period(p),
         age' = [age EXCEPT ![p] = 0], last' = [last EXCEPT ![p] = how],
         reconcile' \in Int, hot_failures' \in Nat, loop' \in Loops,
         loop'.pc # "read" \/ loop'.path \in Paths
  PROVE  IInv'
<1> USE Periods DEF IInv, Typed
<1>1. left' \in [Paths -> Int] /\ \A q \in Paths : left'[q] >= -MaxLate
  <2>1. left' = [left EXCEPT ![p] = d] /\ -MaxLate \in Int /\ d >= -MaxLate
    BY TimeAssumption DEF Schedule
  <2> QED BY <2>1
<1>2. place' \in [Paths -> Nat]
  <2>1. Len(AllPaths) \in Nat
    <3>1. AllPaths \in Seq(Paths)
      BY PathsAssumption DEF AllPaths, Paths
    <3> QED BY <3>1
  <2> QED BY <2>1 DEF Schedule
<1>3. age' \in [Paths -> Nat] /\ \A q \in Paths : age'[q] <= Period(q)
  OBVIOUS
<1>4. last' \in [Paths -> {"never", "heard", "failed"}]
  OBVIOUS
<1>5. \A q \in Paths : DueWhenOld(q)'
  BY DEF Schedule, DueWhenOld
<1> QED BY <1>1, <1>2, <1>3, <1>4, <1>5

LEMMA Merged ==
  ASSUME IInv, NEW p \in Paths, Merge(p),
         reconcile' \in Int, hot_failures' \in Nat, loop' \in Loops,
         loop'.pc # "read" \/ loop'.path \in Paths
  PROVE  IInv'
<1>1. Period(p) \in Int /\ Period(p) >= Second
  BY Periods
<1> QED BY <1>1, Scheduled DEF Merge

\* The steps that leave the deadlines alone.
LEMMA Unscheduled ==
  ASSUME IInv, UNCHANGED queue,
         reconcile' \in Int, hot_failures' \in Nat, loop' \in Loops,
         loop'.pc # "read" \/ loop'.path \in Paths
  PROVE  IInv'
BY DEF IInv, Typed, DueWhenOld, queue

LEMMA TickKeeps == ASSUME IInv, Tick PROVE IInv'
<1>1. left' \in [Paths -> Int] /\ \A q \in Paths : left'[q] >= -MaxLate
  BY TimeAssumption DEF IInv, Typed, Tick, Most
<1>2. age' \in [Paths -> Nat] /\ \A q \in Paths : age'[q] <= Period(q)
  BY Periods DEF IInv, Typed, Tick, Least
<1>3. reconcile' \in Int
  BY TimeAssumption DEF IInv, Typed, Tick, Most
<1>4. loop' \in Loops /\ loop'.pc = loop.pc /\ loop'.path = loop.path
  <2>1. Most(loop.timer - 1, 0) \in Int
    <3>1. loop.timer \in Int
      BY DEF IInv, Typed, Loops
    <3> QED BY <3>1 DEF Most
  <2>2. loop' = [loop EXCEPT !.timer = Most(loop.timer - 1, 0)]
    BY DEF Tick
  <2> QED BY <2>1, <2>2 DEF IInv, Typed, Loops
<1>5. Typed'
  BY <1>1, <1>2, <1>3, <1>4 DEF IInv, Typed, Tick
<1>6. ASSUME NEW p \in Paths PROVE DueWhenOld(p)'
  <2>1. /\ left[p] \in Int /\ age[p] \in Nat /\ age[p] <= Period(p)
        /\ left'[p] = Most(left[p] - 1, -MaxLate) /\ -MaxLate \in Int
        /\ age'[p] = Least(age[p] + 1, Period(p)) /\ last' = last
    BY TimeAssumption DEF IInv, Typed, Tick
  <2>2. left'[p] >= left[p] - 1
    BY <2>1 DEF Most
  <2>3. age'[p] = Period(p) \/ age'[p] = age[p] + 1
    BY <2>1 DEF Least
  <2>4. age[p] = Period(p) => age'[p] = Period(p)
    BY <2>1, Periods DEF Least
  <2> QED BY <2>1, <2>2, <2>3, <2>4, Periods, <1>1 DEF IInv, DueWhenOld
<1> QED BY <1>5, <1>6 DEF IInv

-----------------------------------------------------------------------------
(* The loop *)

LEMMA Ticks ==
  /\ \A d \in ReadTicks, n \in {1, 3} : n * d \in Int
  /\ TimeoutTicks \in Int
<1>1. TimeoutTicks \in Nat \ {0}
  BY TimeAssumption
<1>2. ReadTicks \subseteq Nat
  BY TimeAssumption
<1>3. ASSUME NEW d \in ReadTicks, NEW n \in {1, 3} PROVE n * d \in Int
  <2>1. d \in Int
    BY <1>2
  <2>2. n \in Int
    OBVIOUS
  <2> QED BY <2>1, <2>2
<1> QED BY <1>1, <1>3

LEMMA AsksTyped ==
  ASSUME NEW pc \in Positions, NEW p \in Paths \cup {""}, NEW n \in {1, 3},
         Asks(pc, p, n)
  PROVE  loop' \in Loops /\ loop'.pc = pc /\ loop'.path = p
<1>1. ASSUME NEW t \in Int, NEW ok \in BOOLEAN,
             loop' = [pc |-> pc, path |-> p, timer |-> t, ok |-> ok]
      PROVE  loop' \in Loops /\ loop'.pc = pc /\ loop'.path = p
  BY <1>1 DEF Loops
<1> QED BY <1>1, Ticks DEF Asks

\* What the loop begins once it is admitted: nothing, the most urgent resource,
\* or the reconciliation when none is due.
Urgent ==
  \/ loop'.pc \notin {"read", "reconcile"}
  \/ loop'.pc = "read" /\ loop'.path = NextDue /\ Due # {}
  \/ loop'.pc = "reconcile" /\ Due = {}

LEMMA AdmittedUrgent ==
  ASSUME Typed, Admitted
  PROVE  loop' \in Loops /\ Urgent
<1>1. CASE connected /\ Due # {}
  <2>1. Asks("read", NextDue, 1) /\ NextDue \in Paths
    BY <1>1, NextDueIsDue DEF Admitted
  <2> QED BY <1>1, <2>1, AsksTyped DEF Urgent, Positions
<1>2. CASE connected /\ Due = {} /\ reconcile <= 0
  <2>1. Asks("reconcile", "", 3)
    BY <1>2 DEF Admitted
  <2> QED BY <1>2, <2>1, AsksTyped DEF Urgent, Positions
<1>3. CASE loop' = At("choose", 0)
  BY <1>3, AtTyped DEF Urgent, Positions
<1> QED BY <1>1, <1>2, <1>3 DEF Admitted

LEMMA CheckUrgent ==
  ASSUME Typed, Check \/ Admit
  PROVE  /\ loop' \in Loops /\ Urgent
         /\ UNCHANGED <<queue, reconcile, hot_failures>>
<1>1. CASE Admitted
  BY <1>1, AdmittedUrgent DEF Check, Admit
<1>2. CASE loop' = At("choose", 0)
  BY <1>2, AtTyped DEF Check, Admit, Urgent, Positions
<1>3. CASE loop' = [At("admit", 0) EXCEPT !.path = NextDue]
  <2>1. /\ At("admit", 0) \in Loops /\ At("admit", 0).pc = "admit"
        /\ NextDue \in Paths
    BY AtTyped, NextDueIsDue DEF Positions
  <2>2. loop' \in Loops /\ loop'.pc = "admit"
    BY <1>3, <2>1 DEF Loops
  <2> QED BY <2>2 DEF Check, Admit, Urgent
<1> QED BY <1>1, <1>2, <1>3 DEF Check, Admit, AfterWaiting

LEMMA CheckKeeps == ASSUME IInv, Check \/ Admit PROVE IInv'
<1>1. reconcile' \in Int /\ hot_failures' \in Nat /\ UNCHANGED queue
  BY CheckUrgent DEF IInv, Typed
<1>2. loop' \in Loops /\ Urgent
  BY CheckUrgent DEF IInv
<1>3. loop'.pc # "read" \/ loop'.path \in Paths
  BY <1>2, NextDueIsDue DEF Urgent, IInv
<1> QED BY <1>1, <1>2, <1>3, Unscheduled

LEMMA SleepKeeps == ASSUME IInv, Choose \/ Wake PROVE IInv'
<1>1. Delay \in Int
  <2>1. left[NextDue] \in Int /\ reconcile \in Int
    BY NextDueIsDue DEF IInv, Typed
  <2> QED BY <2>1 DEF Delay, Most, Least
<1>2. loop' \in Loops /\ loop'.pc # "read"
  BY <1>1, AtTyped DEF Choose, Wake, Positions
<1> QED BY <1>2, Unscheduled DEF Choose, Wake, IInv, Typed

LEMMA ReadKeeps == ASSUME IInv, ReadSucceeds \/ ReadFails PROVE IInv'
<1>1. loop.path \in Paths
  BY DEF IInv, Typed, ReadSucceeds, ReadFails
<1>2. loop' \in Loops /\ loop'.pc # "read"
  BY AtTyped DEF ReadSucceeds, ReadFails, Positions
<1>3. hot_failures' \in Nat /\ reconcile' \in Int
  BY DEF IInv, Typed, ReadSucceeds, ReadFails
<1>4. CASE ReadSucceeds
  BY <1>1, <1>2, <1>3, <1>4, Merged DEF ReadSucceeds
<1>5. CASE ReadFails
  <2>1. Retry(loop.path) \in Int /\ Retry(loop.path) >= Second
    BY <1>1, RetryLater DEF IInv
  <2> QED BY <1>1, <1>2, <1>3, <1>5, <2>1, Scheduled DEF ReadFails
<1> QED BY <1>4, <1>5

LEMMA OthersKeep ==
  ASSUME IInv, Reconciled \/ CommandBegins \/ CommandEnds \/ Reconnect
  PROVE  IInv'
<1>1. CASE Reconciled
  <2>1. reconcile' \in Int /\ hot_failures' \in Nat /\ UNCHANGED queue
    BY <1>1, TimeAssumption DEF Reconciled, IInv, Typed
  <2>2. loop' \in Loops /\ loop'.pc # "read"
    BY <1>1, AtTyped DEF Reconciled, Positions
  <2> QED BY <2>1, <2>2, Unscheduled
<1>2. CASE CommandBegins \/ CommandEnds \/ Reconnect
  <2>1. reconcile' \in Int /\ hot_failures' \in Nat /\ UNCHANGED <<queue, loop>>
    <3>1. /\ UNCHANGED <<queue, loop, reconcile>>
          /\ hot_failures' \in {hot_failures, 0}
      BY <1>2 DEF CommandBegins, CommandEnds, Reconnect
    <3> QED BY <3>1 DEF IInv, Typed
  <2> QED BY <2>1, Unscheduled DEF IInv, Typed
<1> QED BY <1>1, <1>2

LEMMA NextIInv == IInv /\ [Next]_vars => IInv'
<1> SUFFICES ASSUME IInv, [Next]_vars PROVE IInv'
  OBVIOUS
<1>1. ASSUME NEW p \in Paths, Notify(p) PROVE IInv'
  BY <1>1, Merged DEF Notify, IInv, Typed
<1>2. CASE UNCHANGED vars
  BY <1>2 DEF vars, IInv, Typed, DueWhenOld
<1> QED BY <1>1, <1>2, SleepKeeps, CheckKeeps, ReadKeeps, OthersKeep, TickKeeps
        DEF Next, Step

LEMMA Invariance == Spec => []IInv
<1> QED BY InitIInv, NextIInv, PTL DEF Spec

-----------------------------------------------------------------------------
\* A read or a reconciliation begins only once the loop is admitted.
LEMMA BeginsAdmitted ==
  ASSUME IInv, Next, Begins("read") \/ Begins("reconcile")
  PROVE  Urgent
<1>1. CASE Check \/ Admit
  BY <1>1, CheckUrgent DEF IInv
<1>2. CASE Choose \/ Wake \/ ReadSucceeds \/ ReadFails \/ Reconciled
  <2>1. \A pc, timer : At(pc, timer).pc = pc
    BY DEF At
  <2>2. \E timer : \E pc \in {"choose", "sleep", "check"} : loop' = At(pc, timer)
    BY <1>2 DEF Choose, Wake, ReadSucceeds, ReadFails, Reconciled
  <2> QED BY <2>1, <2>2 DEF Urgent
<1>3. CASE Tick
  BY <1>3 DEF Tick, Begins, IInv, Typed, Loops
<1>4. CASE \/ CommandEnds \/ Reconnect \/ CommandBegins
           \/ \E p \in Paths : Notify(p)
  BY <1>4 DEF CommandEnds, Reconnect, CommandBegins, Notify, Begins
<1> QED BY <1>1, <1>2, <1>3, <1>4 DEF Next, Step

\* _merge_resource puts the next read off for a period, _async_poll_path_locked
\* for a second or more; the body of the admission chooses only what is due.
THEOREM Needed == Spec => NoNeedlessPoll
<1> DEFINE Old == LET p == loop'.path
                  IN \/ last[p] = "never"
                     \/ last[p] = "heard" /\ age[p] = Period(p)
                     \/ last[p] = "failed" /\ age[p] >= Second
<1>1. IInv /\ [Next]_vars => [Begins("read") => Old]_vars
  <2> SUFFICES ASSUME IInv, Next, Begins("read") PROVE Old
    BY DEF vars
  <2>1. loop'.path \in Due
    BY BeginsAdmitted, NextDueIsDue DEF Urgent, Begins, IInv
  <2> DEFINE p == loop'.path
  <2>2. /\ left[p] \in Int /\ left[p] <= 0 /\ age[p] \in Nat /\ age[p] <= Period(p)
        /\ last[p] \in {"never", "heard", "failed"} /\ DueWhenOld(p)
    BY <2>1 DEF Due, IInv, Typed
  <2>3. Second \in Nat /\ Period(p) \in Nat /\ Second <= Period(p)
    BY <2>1, Periods DEF Due
  <2> QED BY <2>2, <2>3 DEF DueWhenOld
<1>2. NoNeedlessPoll <=> [][Begins("read") => Old]_vars
  BY DEF NoNeedlessPoll
<1> QED BY <1>1, <1>2, Invariance, PTL DEF Spec

\* next_due is asked again inside the admission.
THEOREM Urgency == Spec => UrgentFirst
<1> DEFINE First ==
      /\ Begins("read") => \A p \in Due : Tier(loop'.path) <= Tier(p)
      /\ Begins("reconcile") => Due = {}
<1>1. IInv /\ [Next]_vars => [First]_vars
  <2> SUFFICES ASSUME IInv, Next PROVE First
    BY DEF vars
  <2>1. ASSUME Begins("read"), NEW p \in Due PROVE Tier(loop'.path) <= Tier(p)
    BY <2>1, BeginsAdmitted, NextDueIsDue DEF Urgent, Begins, IInv
  <2>2. ASSUME Begins("reconcile") PROVE Due = {}
    BY <2>2, BeginsAdmitted DEF Urgent, Begins
  <2> QED BY <2>1, <2>2
<1>2. UrgentFirst <=> [][First]_vars
  BY DEF UrgentFirst
<1> QED BY <1>1, <1>2, Invariance, PTL DEF Spec
=============================================================================
