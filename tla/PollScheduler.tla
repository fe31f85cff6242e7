--------------------------- MODULE PollScheduler ---------------------------
(***************************************************************************)
(* The scheduler of WindFreeCoordinator (coordinator.py): every resource   *)
(* has a deadline; the loop sleeps until the next one, takes the           *)
(* admission, and reads the most urgent resource that is due then, or      *)
(* compares the device's identity and contract when none is.  A resource   *)
(* that was polled, or that a notification told of, is due a period later; *)
(* one that could not be read, after a short while.                        *)
(*                                                                         *)
(* Time passes in ticks and only when no step of the program is ready.     *)
(* Deadlines are relative to now.  The heap is left out: what it keeps of  *)
(* a resource is its latest deadline and the place of its latest           *)
(* scheduling in the sequence of all of them.                              *)
(***************************************************************************)
EXTENDS Integers, Sequences, FiniteSets

CONSTANTS
  HotPaths, WarmPaths, ColdPaths,   \* HOT_PATHS and so on: sequences
  HotPeriod, WarmPeriod, ColdPeriod,  \* _PERIODS, in ticks
  ReconcilePeriod,                  \* _RECONCILE_PERIOD, in ticks
  Second,                           \* in ticks
  ReadTicks,                        \* how long a read takes, in ticks
  TimeoutTicks,                     \* when one is given up
  Broken,                           \* the resources the device never answers
  MaxEvents,                        \* bound: notifications, commands, faults
  MaxLate                           \* bound: deadlines are not told apart
                                    \* that passed longer ago

Members(s) == {s[i] : i \in DOMAIN s}
Hot   == Members(HotPaths)
Warm  == Members(WarmPaths)
Cold  == Members(ColdPaths)
Paths == Hot \cup Warm \cup Cold
AllPaths == HotPaths \o WarmPaths \o ColdPaths

ASSUME PathsAssumption ==
  /\ HotPaths \in Seq(Hot) /\ WarmPaths \in Seq(Warm) /\ ColdPaths \in Seq(Cold)
  /\ Hot \cap Warm = {} /\ Hot \cap Cold = {} /\ Warm \cap Cold = {}
  /\ Broken \subseteq Paths /\ Paths # {}
ASSUME TimeAssumption ==
  /\ {HotPeriod, WarmPeriod, ColdPeriod, ReconcilePeriod, Second,
      TimeoutTicks} \subseteq Nat \ {0}
  /\ Second <= HotPeriod /\ Second <= WarmPeriod /\ Second <= ColdPeriod
  /\ ReadTicks \subseteq Nat \ {0} /\ ReadTicks # {}
  /\ {MaxEvents, MaxLate} \subseteq Nat

VARIABLES
  left,         \* _deadlines, less the time it is
  place,        \* the place of the resource's latest scheduling among those
                \* of all of them
  reconcile,    \* _reconcile_deadline, less the time it is
  hot_failures, \* _hot_failures
  connected,    \* _transport is not None
  loop,         \* the scheduler's task; while it waits for the admission,
                \* path is the resource whose tier is its priority
  command,      \* ticks until the command that holds the admission ends, or
                \* 0: no command
  events,       \* how many events there have been
  age,          \* ticks since the resource was heard of or a read of it
                \* failed, up to its period
  last          \* history: what that was, if it was anything

vars == <<left, place, reconcile, hot_failures, connected, loop, command,
          events, age, last>>
queue == <<left, place, age, last>>

\* _tier_for
Tier(p) == IF p \in Hot THEN 1 ELSE IF p \in Warm THEN 2 ELSE 3
Period(p) == IF p \in Hot THEN HotPeriod
             ELSE IF p \in Warm THEN WarmPeriod ELSE ColdPeriod
Least(a, b) == IF a < b THEN a ELSE b
Most(a, b) == IF a > b THEN a ELSE b

\* Positions of the loop: choosing, asleep, before the checks of
\* async_run_scheduled_once, waiting for the admission, reading a resource,
\* reading the identity and the contract.
Positions == {"choose", "sleep", "check", "admit", "read", "reconcile"}
At(pc, timer) == [pc |-> pc, path |-> "", timer |-> timer, ok |-> TRUE]

TypeOK ==
  /\ \A p \in Paths : left[p] \in -MaxLate..Most(Period(p), Second)
  /\ DOMAIN left = Paths
  /\ place \in [Paths -> 1..Cardinality(Paths)]
  /\ reconcile \in -MaxLate..Most(ReconcilePeriod, 5 * Second)
  /\ hot_failures \in 0..3 /\ connected \in BOOLEAN
  /\ loop.pc \in Positions /\ loop.timer \in Nat /\ loop.ok \in BOOLEAN
  /\ loop.path \in Paths \cup {""}
  /\ command \in Nat /\ events \in 0..MaxEvents
  /\ \A p \in Paths : age[p] \in 0..Period(p)
  /\ last \in [Paths -> {"never", "heard", "failed"}]

\* The place of p in s.
Place(s, p) == CHOOSE i \in DOMAIN s : s[i] = p

\* _initialize_deadlines: the deadlines of a tier are spread over its period.
Spread(s, period) == [p \in Members(s) |->
  (period * Place(s, p)) \div Len(s)]
Init ==
  /\ left = [p \in Paths |-> IF p \in Hot THEN Spread(HotPaths, HotPeriod)[p]
                             ELSE IF p \in Warm
                               THEN Spread(WarmPaths, WarmPeriod)[p]
                             ELSE Spread(ColdPaths, ColdPeriod)[p]]
  /\ place = [p \in Paths |-> Place(AllPaths, p)]
  /\ reconcile = ReconcilePeriod
  /\ hot_failures = 0 /\ connected = TRUE
  /\ loop = At("choose", 0)
  /\ command = 0 /\ events = 0
  /\ age = [p \in Paths |-> 0]
  /\ last = [p \in Paths |-> "never"]

-----------------------------------------------------------------------------
(* The deadlines *)

\* _schedule: p is due in d ticks, and was scheduled last.
Schedule(p, d) ==
  /\ left' = [left EXCEPT ![p] = d]
  /\ place' = [q \in Paths |-> IF q = p THEN Len(AllPaths)
                              ELSE IF place[q] > place[p] THEN place[q] - 1
                              ELSE place[q]]

\* A seeded fault: what a notification tells does not postpone the next read.
KeepsDeadline(p) ==
  /\ Schedule(p, left[p])
  /\ age' = [age EXCEPT ![p] = 0] /\ last' = [last EXCEPT ![p] = "heard"]

\* _merge_resource
Merge(p) ==
  /\ Schedule(p, Period(p))
  /\ age' = [age EXCEPT ![p] = 0] /\ last' = [last EXCEPT ![p] = "heard"]

\* The time until a read that failed is tried again.
Retry(p) ==
  Most(Second, Least(Period(p), Second * 2 ^ Least(hot_failures, 5)))

\* p comes before q among the resources that are due.
Sooner(p, q) == \/ left[p] < left[q]
                \/ left[p] = left[q] /\ place[p] <= place[q]
Before(p, q) == \/ Tier(p) < Tier(q)
                \/ Tier(p) = Tier(q) /\ Sooner(p, q)

\* next_due
Due == {p \in Paths : left[p] <= 0}
NextDue == IF Due # {} THEN CHOOSE p \in Due : \A q \in Due : Before(p, q)
           ELSE CHOOSE p \in Paths : \A q \in Paths : Sooner(p, q)

-----------------------------------------------------------------------------
(* The loop *)

\* A seeded fault: the loop sleeps until a resource is due.
UntilDue == Most(0, left[NextDue])

Delay == Most(0, Least(left[NextDue], reconcile))

\* _async_scheduler_loop
Choose ==
  /\ loop.pc = "choose"
  /\ loop' = At("sleep", Delay)
  /\ UNCHANGED <<queue, reconcile, hot_failures, connected, command, events>>

Wake ==
  /\ loop.pc = "sleep" /\ loop.timer = 0
  /\ loop' = At("check", 0)
  /\ UNCHANGED <<queue, reconcile, hot_failures, connected, command, events>>

\* A read of p, or of three resources, begins; how it will end is drawn here.
Asks(pc, p, n) ==
  \/ /\ p \notin Broken
     /\ \E d \in ReadTicks :
          loop' = [pc |-> pc, path |-> p, timer |-> n * d, ok |-> TRUE]
     /\ UNCHANGED events
  \/ /\ p \in Broken \/ events < MaxEvents
     /\ loop' = [pc |-> pc, path |-> p, timer |-> TimeoutTicks, ok |-> FALSE]
     /\ events' = IF p \in Broken THEN events ELSE events + 1

\* The body of `async with self._admission.hold(priority)`.
Admitted ==
  CASE ~connected             -> loop' = At("choose", 0) /\ UNCHANGED events
    [] connected /\ Due # {}  -> Asks("read", NextDue, 1)
    [] connected /\ Due = {} /\ reconcile <= 0 -> Asks("reconcile", "", 3)
    [] OTHER                  -> loop' = At("choose", 0) /\ UNCHANGED events

\* _async_run_scheduled_once_impl.  Without a transport it returns at once,
\* and the loop comes round again until there is one.
Check ==
  /\ loop.pc = "check" /\ connected
  /\ IF Due = {} /\ reconcile > 0
       THEN loop' = At("choose", 0) /\ UNCHANGED events
     ELSE IF command = 0 THEN Admitted
     ELSE loop' = [At("admit", 0) EXCEPT !.path = NextDue] /\ UNCHANGED events
  /\ UNCHANGED <<queue, reconcile, hot_failures, connected, command>>

\* A seeded fault: the resource chosen before the admission is read after it.
ChosenBefore == Asks("read", loop.path, 1)

AfterWaiting == Admitted

Admit ==
  /\ loop.pc = "admit" /\ command = 0
  /\ AfterWaiting
  /\ UNCHANGED <<queue, reconcile, hot_failures, connected, command>>

\* _async_poll_path_locked
ReadSucceeds ==
  /\ loop.pc = "read" /\ loop.timer = 0 /\ loop.ok
  /\ Merge(loop.path)
  /\ hot_failures' = IF loop.path \in Hot THEN 0 ELSE hot_failures
  /\ loop' = At("choose", 0)
  /\ UNCHANGED <<reconcile, connected, command, events>>

\* _async_request_failure_locked; fatal evidence disconnects, and so does the
\* third failure of hot reads without one that succeeds.
ReadFails ==
  /\ loop.pc = "read" /\ loop.timer = 0 /\ ~loop.ok
  /\ Schedule(loop.path, Retry(loop.path))
  /\ age' = [age EXCEPT ![loop.path] = 0]
  /\ last' = [last EXCEPT ![loop.path] = "failed"]
  /\ \/ /\ hot_failures' = IF loop.path \in Hot THEN hot_failures + 1
                                                ELSE hot_failures
        /\ connected' = (hot_failures' < 3)
     \/ /\ loop.path \notin Broken
        /\ connected' = FALSE /\ UNCHANGED hot_failures
  /\ loop' = At("choose", 0)
  /\ UNCHANGED <<reconcile, command, events>>

\* _async_reconcile_with_failure_locked; fatal evidence disconnects.
Reconciled ==
  /\ loop.pc = "reconcile" /\ loop.timer = 0
  /\ reconcile' = IF loop.ok THEN ReconcilePeriod ELSE 5 * Second
  /\ connected' \in IF loop.ok THEN {TRUE} ELSE {TRUE, FALSE}
  /\ loop' = At("choose", 0)
  /\ UNCHANGED <<queue, hot_failures, command, events>>

-----------------------------------------------------------------------------
(* What happens beside it *)

\* handle_observe: _OBSERVE_PATHS are the hot and the warm resources.
Notify(p) ==
  /\ connected /\ p \in Hot \cup Warm /\ events < MaxEvents
  /\ Merge(p)
  /\ events' = events + 1
  /\ UNCHANGED <<reconcile, hot_failures, connected, loop, command>>

\* A command takes the admission when it is free, before a poll that waits.
CommandBegins ==
  /\ connected /\ command = 0 /\ events < MaxEvents
  /\ loop.pc \notin {"read", "reconcile"}
  /\ \E d \in ReadTicks : command' = d + 1
  /\ events' = events + 1
  /\ UNCHANGED <<queue, reconcile, hot_failures, connected, loop>>

\* It ends, or lost the session.  What it read itself postpones nothing.
CommandEnds ==
  /\ command = 1 /\ command' = 0
  /\ connected' \in {connected, FALSE}
  /\ UNCHANGED <<queue, reconcile, hot_failures, loop, events>>

\* _activate_seeded, of the reconnect loop.
Reconnect ==
  /\ ~connected /\ command = 0
  /\ connected' = TRUE /\ hot_failures' = 0
  /\ UNCHANGED <<queue, reconcile, loop, command, events>>

\* Every task waits.
Waiting ==
  /\ command # 1
  /\ \/ loop.pc \in {"sleep", "read", "reconcile"} /\ loop.timer > 0
     \/ loop.pc = "admit" /\ command > 0
     \/ loop.pc = "check" /\ ~connected

Tick ==
  /\ Waiting
  /\ left' = [p \in Paths |-> Most(left[p] - 1, -MaxLate)]
  /\ reconcile' = Most(reconcile - 1, -MaxLate)
  /\ loop' = [loop EXCEPT !.timer = Most(@ - 1, 0)]
  /\ command' = Most(command - 1, 0)
  /\ age' = [p \in Paths |-> Least(age[p] + 1, Period(p))]
  /\ UNCHANGED <<place, hot_failures, connected, events, last>>

Step == \/ Choose \/ Wake \/ Check \/ Admit
        \/ ReadSucceeds \/ ReadFails \/ Reconciled \/ CommandEnds
Next == \/ Step \/ Tick \/ Reconnect \/ CommandBegins
        \/ \E p \in Paths : Notify(p)

\* The event loop runs what is ready, time passes, and the device comes back.
Fairness == WF_vars(Step) /\ WF_vars(Tick) /\ WF_vars(Reconnect)

Spec == Init /\ [][Next]_vars /\ Fairness

-----------------------------------------------------------------------------
(* Properties *)

Begins(pc) == loop.pc # pc /\ loop'.pc = pc

\* A poll asks for what is not known: no poll and no notification told of the
\* resource for a period, or it could not be read a second ago, whatever the
\* device notified while the loop slept or waited for the admission.
NoNeedlessPoll ==
  [][ Begins("read") =>
        LET p == loop'.path
        IN \/ last[p] = "never"
           \/ last[p] = "heard" /\ age[p] = Period(p)
           \/ last[p] = "failed" /\ age[p] >= Second ]_vars

\* Nothing is begun while something more urgent is due, though that became
\* due after the loop began to wait for the admission.
UrgentFirst ==
  [][ /\ Begins("read") => \A p \in Due : Tier(loop'.path) <= Tier(p)
      /\ Begins("reconcile") => Due = {} ]_vars

\* Every resource the device answers for is asked for again and again, and so
\* are its identity and its contract.
Answering == Paths \ Broken
NothingStarves ==
  /\ \A p \in Answering : []<>(loop.pc = "read" /\ loop.path = p)
  /\ []<>(loop.pc = "reconcile")
=============================================================================
