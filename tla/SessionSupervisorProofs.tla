---------------------- MODULE SessionSupervisorProofs ----------------------
(***************************************************************************)
(* The session life cycle, for any number of commands, direct callers,     *)
(* signals, sessions and faults: no session is lost, the one an operation  *)
(* uses is not replaced, there are never more than the device bears, a     *)
(* complete shutdown leaves none and nothing comes back, and credentials   *)
(* are rejected only after two generations.  With the reconnect loop as    *)
(* the only caller of an attempt: entities are available only with a       *)
(* session, and an outage is being worked on.                              *)
(*                                                                         *)
(* The invariant is built in layers, each inductive with those before it:  *)
(* Control, where a task is and which locks it holds there; Edges, what    *)
(* holds before start (Fresh) and once shutdown has joined the tasks       *)
(* (Joined); Ownership, who may close which session; Sweeping, what a      *)
(* clean shutdown has closed; these are IInv.  On it rest Few, how many    *)
(* sessions are not closed; Lively, what the close lock and a candidate's  *)
(* generation promise; without direct callers Sole, that there is one      *)
(* session and the entities show it; and with commands that nobody         *)
(* cancels Retried, that an outage is being worked on.                     *)
(***************************************************************************)
EXTENDS SessionSupervisor, WellFoundedInduction, FiniteSetTheorems, TLAPS

Candidates == {"start"} \cup Attempters

\* Where each kind of task can be, and where it goes on after a close.
Places(u) ==
  IF u \in Operations THEN {"idle", "admit", "read", "dead", "doubted", "refused", "closing"}
  ELSE IF u = "shutdown" THEN {"idle", "stop", "join", "closing", "swept", "done"}
  ELSE IF u = "start"
    THEN {"idle", "done", "connect", "admit", "seed", "activate", "failed",
          "abandoned", "closing"}
  ELSE {"idle", "done", "loop", "attempt", "drain", "drained", "dial",
        "discover", "admit", "seed", "activate", "failed", "abandoned",
        "closing"}
Afters(u) ==
  IF u \in Operations THEN {"dead", "doubted", "refused"}
  ELSE IF u = "shutdown" THEN {"swept"}
  ELSE IF u = "start" THEN {"activate", "failed", "abandoned"}
  ELSE {"drained", "activate", "failed", "abandoned"}

\* Locals l belong to a task that is replacing the session, that has a
\* candidate, that it has or has failed with, that is inside the generation
\* lock, or inside the admission.
Activating(l) ==
  \/ l.pc = "activate"
  \/ l.pc = "closing" /\ l.after = "activate"
Holding(l) ==
  l.pc \in {"connect", "dial", "discover", "admit", "seed"} \/ Activating(l)
Carries(l) ==
  \/ Holding(l) \/ l.pc \in {"failed", "abandoned"}
  \/ l.pc = "closing" /\ l.after \in {"failed", "abandoned"}
Generates(l) ==
  l.pc \in {"connect", "drain", "drained", "dial", "discover", "admit", "seed",
            "activate", "failed", "abandoned", "closing"}
Uses(l) ==
  \/ l.pc \in {"read", "dead", "doubted", "refused", "seed", "activate"}
  \/ l.pc = "closing" /\ l.after \in {"dead", "doubted", "refused", "activate"}

Fits(u, l) ==
  /\ l \in Locals
  /\ l.pc \in Places(u)
  /\ l.pc = "closing" => l.after \in Afters(u)
  /\ l.todo # {} => l.pc = "closing"
  /\ u \in Candidates /\ Carries(l) => l.cand \in Sessions
  /\ u \in Operations /\ l.pc = "read" => l.cand \in Sessions

Control ==
  /\ TypeOK
  /\ \A u \in Tasks : Fits(u, task[u])
  /\ \A u \in Candidates : Generates(task[u]) => generationLock = u
  /\ \A u \in Tasks : Uses(task[u]) => admission = u

-----------------------------------------------------------------------------
(* Evidence *)

\* A signal that is remembered was seen.
Remembered == \A e \in Signals : signals[e] # 0 => <<e, signals[e]>> \in evidence

LEMMA TaskKinds ==
  /\ "start" \notin Operations /\ "shutdown" \notin Operations
  /\ "start" \notin Attempters /\ "shutdown" \notin Attempters
  /\ Operations \cap Attempters = {} /\ Free \notin Tasks
  /\ Operations \subseteq Tasks /\ Candidates \subseteq Tasks
  /\ Tasks = Operations \cup Candidates \cup {"shutdown"}
BY TasksDiffer DEF Operations, Attempters, Tasks, Candidates, Free

\* Only t moves, and takes or leaves only locks that are its own or free.
Moves(t) == \A u \in Tasks \ {t} : task'[u] = task[u]
Takes(t) ==
  /\ \/ generationLock' = generationLock
     \/ generationLock \in {t, Free} /\ generationLock' \in {t, Free}
  /\ \/ admission' = admission
     \/ admission \in {t, Free} /\ admission' \in {t, Free}

LEMMA OneMoves ==
  ASSUME Control, NEW t \in Tasks, TypeOK', Moves(t), Fits(t, task'[t]), Takes(t),
         t \in Candidates /\ Generates(task'[t]) => generationLock' = t,
         Uses(task'[t]) => admission' = t
  PROVE  Control'
<1> USE TaskKinds DEF Control
<1>1. \A u \in Tasks \ {t} : task'[u] = task[u]
  BY DEF Moves
<1>2. \A u \in Tasks : Fits(u, task'[u])
  BY <1>1
<1>3. (\A u \in Tasks : Fits(u, task[u]))'
  BY <1>2 DEF Fits, Carries, Holding, Activating
<1>4. \A u \in Candidates : Generates(task'[u]) => generationLock' = u
  BY <1>1 DEF Takes
<1>5. \A u \in Tasks : Uses(task'[u]) => admission' = u
  BY <1>1 DEF Takes
<1> QED BY <1>3, <1>4, <1>5 DEF Generates, Uses, Activating

\* A close begins: what is locked for it, and what it does to the sessions.
LEMMA CloseBegins ==
  ASSUME Control, NEW t \in Tasks, NEW S \in SUBSET Sessions,
         NEW label \in Afters(t), BeginClose(t, S, label),
         t \in Candidates /\ label # "drained" => task[t].cand \in Sessions
  PROVE  /\ task' \in [Tasks -> Locals] /\ Moves(t) /\ Fits(t, task'[t])
         /\ task'[t].pc = "closing" /\ task'[t].after = label
         /\ task'[t].todo = S /\ task'[t].clean = TRUE
         /\ task'[t].cand = task[t].cand /\ task'[t].cancel = task[t].cancel
         /\ session' \in [Sessions -> {"closed", "connecting", "open", "closing"}]
         /\ Unclosed' = Unclosed
         /\ closeLock' \in Tasks \cup {Free}
<1>1. task \in [Tasks -> Locals] /\ task[t] \in Locals
  BY DEF Control, TypeOK
<1>2. "closing" \in Labels /\ label \in Labels
  BY DEF Afters, Labels
<1>3. /\ task' \in [Tasks -> Locals] /\ Moves(t) /\ task'[t] \in Locals
      /\ task'[t].pc = "closing" /\ task'[t].after = label
      /\ task'[t].todo = S /\ task'[t].clean = TRUE
      /\ task'[t].cand = task[t].cand /\ task'[t].cancel = task[t].cancel
  BY <1>1, <1>2 DEF BeginClose, Locals, Moves
<1>4. /\ session' \in [Sessions -> {"closed", "connecting", "open", "closing"}]
      /\ Unclosed' = Unclosed
  BY DEF BeginClose, MarkClosing, Unclosed, Control, TypeOK
<1>5. closeLock' \in Tasks \cup {Free}
  BY DEF BeginClose, Control, TypeOK
<1>6. Fits(t, task'[t])
  <2>1. "closing" \in Places(t)
    BY DEF Places
  <2>2. t \in Candidates => label \in {"drained", "activate", "failed", "abandoned"}
    BY TaskKinds DEF Afters, Candidates
  <2> QED BY <1>3, <2>1, <2>2 DEF Fits, Carries, Holding, Activating
<1> QED BY <1>3, <1>4, <1>5, <1>6

-----------------------------------------------------------------------------
(* What steps are made of *)

LEMMA SmallestNat ==
  ASSUME NEW T, T \subseteq Nat, T # {}
  PROVE  \E x \in T : \A y \in T : x <= y
<1> DEFINE less == {ss \in Nat \X Nat : ss[1] < ss[2]}
<1>1. IsWellFoundedOn(less, Nat)
  BY NatLessThanWellFounded DEF OpToRel
<1>2. PICK x \in T : \A y \in T : ~(<<y, x>> \in less)
  <2> HIDE DEF less
  <2> QED BY <1>1, WFMin
<1>3. ASSUME NEW y \in T PROVE x <= y
  <2>1. x \in Nat /\ y \in Nat
    OBVIOUS
  <2>2. y < x => <<y, x>> \in less
    BY <2>1
  <2>3. ~(y < x)
    BY <1>2, <2>2
  <2> QED BY <2>1, <2>3
<1> QED BY <1>3

LEMMA SlotIsFree == FreeSlots # {} => Slot \in FreeSlots /\ Slot \in Sessions
<1>1. FreeSlots \subseteq Sessions
  BY DEF FreeSlots
<1>2. FreeSlots \subseteq Nat
  BY <1>1, LimitsPositive DEF Sessions
<1> QED BY <1>1, <1>2, SmallestNat DEF Slot

\* A task is done with everything.
LEMMA IdleFits ==
  ASSUME NEW t \in Tasks, NEW pc \in Places(t) \cap {"idle", "done", "loop"}
  PROVE  /\ Fits(t, [Idle EXCEPT !.pc = pc])
         /\ ~Generates([Idle EXCEPT !.pc = pc]) /\ ~Uses([Idle EXCEPT !.pc = pc])
         /\ [Idle EXCEPT !.pc = pc] \in Locals
         /\ [Idle EXCEPT !.pc = pc].pc = pc /\ [Idle EXCEPT !.pc = pc].todo = {}
<1> DEFINE l == [Idle EXCEPT !.pc = pc]
<1>1. pc \in Labels /\ "idle" \in Labels /\ "plain" \in Errors
  BY DEF Labels, Errors
<1>2. Idle \in Locals /\ Idle.todo = {}
  BY <1>1 DEF Idle, Locals, None
<1>3. l \in Locals /\ l.pc = pc /\ l.todo = {}
  BY <1>1, <1>2 DEF Locals
<1> HIDE DEF l
<1>4. Fits(t, l) /\ ~Generates(l) /\ ~Uses(l)
  BY <1>3 DEF Fits, Carries, Holding, Activating, Generates, Uses
<1> QED BY <1>3, <1>4 DEF l

LEMMA IdleIsIdle ==
  /\ Idle \in Locals /\ Idle.pc = "idle" /\ Idle.todo = {} /\ Idle.cand = None
  /\ \A u \in Tasks : Fits(u, Idle)
  /\ ~Generates(Idle) /\ ~Uses(Idle)
<1>1. "idle" \in Labels /\ "plain" \in Errors
  BY DEF Labels, Errors
<1>2. Idle \in Locals /\ Idle.pc = "idle" /\ Idle.todo = {} /\ Idle.cand = None
  BY <1>1 DEF Idle, Locals, None
<1> QED BY <1>2 DEF Fits, Places, Carries, Holding, Activating, Generates, Uses

LEMMA Rests ==
  ASSUME Control, NEW t \in Tasks, NEW pc \in Places(t) \cap {"idle", "done", "loop"},
         \/ task' = [task EXCEPT ![t] = [Idle EXCEPT !.pc = pc]]
         \/ task' = [task EXCEPT ![t] = Idle] /\ pc = "idle"
  PROVE  /\ task' \in [Tasks -> Locals] /\ Moves(t) /\ Fits(t, task'[t])
         /\ task'[t].pc = pc /\ task'[t].todo = {}
         /\ ~Generates(task'[t]) /\ ~Uses(task'[t])
<1> DEFINE l == task'[t]
<1>1. "idle" \in Labels /\ "plain" \in Errors
  BY DEF Labels, Errors
<1>2. Idle \in Locals /\ Idle.todo = {} /\ Idle.pc = "idle"
  BY <1>1 DEF Idle, Locals, None
<1>3. task \in [Tasks -> Locals]
  BY DEF Control, TypeOK
<1>4. task' \in [Tasks -> Locals] /\ Moves(t) /\ l.pc = pc /\ l.todo = {}
  BY <1>2, <1>3, IdleFits DEF Moves
<1>5. l \in Locals
  BY <1>4
<1> HIDE DEF l
<1>6. Fits(t, l) /\ ~Generates(l) /\ ~Uses(l)
  BY <1>4, <1>5 DEF Fits, Carries, Holding, Activating, Generates, Uses
<1> QED BY <1>4, <1>6 DEF l

\* A task goes on elsewhere with the same locals.
LEMMA Relabels ==
  ASSUME Control, NEW t \in Tasks, NEW label \in Labels,
         task' = [task EXCEPT ![t].pc = label]
  PROVE  /\ task' \in [Tasks -> Locals] /\ Moves(t) /\ task'[t].pc = label
         /\ task'[t].cand = task[t].cand /\ task'[t].todo = task[t].todo
         /\ task'[t].after = task[t].after /\ task'[t].cancel = task[t].cancel
         /\ task'[t].seen = task[t].seen /\ task'[t].clean = task[t].clean
BY DEF Control, TypeOK, Locals, Moves

LEMMA Replaced ==
  ASSUME Control, NEW t \in Tasks, NEW l \in Locals, task' = [task EXCEPT ![t] = l]
  PROVE  task' \in [Tasks -> Locals] /\ Moves(t) /\ task'[t] = l
BY DEF Control, TypeOK, Moves

\* A task goes on elsewhere, with session c, seeing epoch n.
LEMMA TakesUp ==
  ASSUME Control, NEW t \in Tasks, NEW label \in Labels, NEW c \in Sessions, NEW n \in Nat,
         task' = [task EXCEPT ![t] =
                    [task[t] EXCEPT !.pc = label, !.cand = c, !.seen = n]]
  PROVE  /\ task' \in [Tasks -> Locals] /\ Moves(t) /\ task'[t].pc = label
         /\ task'[t].cand = c /\ task'[t].todo = task[t].todo
         /\ task'[t].after = task[t].after
<1>1. task[t] \in Locals
  BY DEF Control, TypeOK
<1> DEFINE l == [task[t] EXCEPT !.pc = label, !.cand = c, !.seen = n]
<1>2. /\ l \in Locals /\ l.pc = label /\ l.cand = c
      /\ l.todo = task[t].todo /\ l.after = task[t].after
  BY <1>1 DEF Locals
<1>3. task' = [task EXCEPT ![t] = l]
  OBVIOUS
<1> HIDE DEF l
<1>4. task' \in [Tasks -> Locals] /\ Moves(t) /\ task'[t] = l
  BY <1>2, <1>3, Replaced
<1> QED BY <1>2, <1>4

LEMMA Opens ==
  ASSUME Control, NEW t \in Tasks, NEW g \in Nat, NEW label \in Labels,
         epoch' \in Nat, Open(t, g, label)
  PROVE  /\ Slot \in FreeSlots /\ Slot \in Sessions
         /\ session' \in [Sessions -> {"closed", "connecting", "open", "closing"}]
         /\ session' = [session EXCEPT ![Slot] = "connecting"]
         /\ gen' \in [Sessions -> Nat]
         /\ task' \in [Tasks -> Locals] /\ Moves(t) /\ task'[t].pc = label
         /\ task'[t].cand = Slot /\ task'[t].todo = task[t].todo
         /\ task'[t].after = task[t].after
<1>1. Slot \in FreeSlots /\ Slot \in Sessions
  BY SlotIsFree DEF Open
<1>2. /\ session' \in [Sessions -> {"closed", "connecting", "open", "closing"}]
      /\ session' = [session EXCEPT ![Slot] = "connecting"]
      /\ gen' \in [Sessions -> Nat]
  BY <1>1 DEF Control, TypeOK, Open
<1>3. task' = [task EXCEPT ![t] = [task[t] EXCEPT !.pc = label, !.cand = Slot,
                                                  !.seen = epoch']]
  BY DEF Open
<1> HIDE DEF Slot
<1>4. /\ task' \in [Tasks -> Locals] /\ Moves(t) /\ task'[t].pc = label
      /\ task'[t].cand = Slot /\ task'[t].todo = task[t].todo
      /\ task'[t].after = task[t].after
  BY <1>1, <1>3, TakesUp
<1> QED BY <1>1, <1>2, <1>4

-----------------------------------------------------------------------------
(* Control: start *)

LEMMA StartControl == ASSUME Control, Start PROVE Control'
<1>1. /\ generation + 1 \in Nat /\ "connect" \in Labels /\ epoch' \in Nat
      /\ "start" \in Tasks /\ "start" \in Candidates
  BY TaskKinds DEF Control, TypeOK, Start, Labels, Tasks, Candidates
<1>2. Open("start", generation + 1, "connect")
  BY DEF Start
<1>3. /\ Slot \in Sessions
      /\ session' \in [Sessions -> {"closed", "connecting", "open", "closing"}]
      /\ gen' \in [Sessions -> Nat]
      /\ task' \in [Tasks -> Locals] /\ Moves("start")
      /\ task'["start"].pc = "connect" /\ task'["start"].cand = Slot
      /\ task'["start"].todo = task["start"].todo
  BY <1>1, <1>2, Opens
<1> HIDE DEF Slot
<1>4. TypeOK'
  BY <1>1, <1>3 DEF Control, TypeOK, Start, ids, told, count, fatal
<1>5. Fits("start", task'["start"])
  <2>1. task["start"].todo = {}
    BY <1>1 DEF Control, Fits, Start, At
  <2> QED BY <1>1, <1>3, <2>1, TaskKinds DEF Fits, Places
<1>6. Takes("start")
  BY DEF Takes, Start
<1> QED BY <1>1, <1>3, <1>4, <1>5, <1>6, OneMoves DEF Start, Uses, Control

LEMMA ConnectControl == ASSUME Control, Connect PROVE Control'
<1>1. "admit" \in Labels /\ "start" \in Tasks /\ "start" \in Candidates
  BY TaskKinds DEF Labels, Tasks, Candidates
<1>2. /\ task' \in [Tasks -> Locals] /\ Moves("start")
      /\ task'["start"].pc = "admit"
      /\ task'["start"].cand = task["start"].cand
      /\ task'["start"].todo = task["start"].todo
  BY <1>1, Relabels DEF Connect
<1>3. /\ Fits("start", task["start"]) /\ task["start"].pc = "connect"
      /\ generationLock = "start"
  BY <1>1 DEF Control, Connect, Runs, At, Generates
<1>4. TypeOK'
  BY <1>2 DEF Control, TypeOK, Connect, own, ids, life, told, count, fatal, locks
<1>5. Fits("start", task'["start"])
  BY <1>1, <1>2, <1>3, TaskKinds DEF Fits, Places, Carries, Holding
<1>6. Takes("start")
  BY DEF Takes, Connect, locks
<1> QED BY <1>1, <1>2, <1>3, <1>4, <1>5, <1>6, OneMoves DEF Connect, locks, Uses

\* Where a task stands tells what it has.
LEMMA Standing ==
  ASSUME Control, NEW t \in Tasks
  PROVE  /\ task \in [Tasks -> Locals] /\ task[t] \in Locals
         /\ Fits(t, task[t]) /\ task[t].pc \in Places(t)
         /\ t \in Candidates /\ Generates(task[t]) => generationLock = t
         /\ Uses(task[t]) => admission = t
         /\ task[t].pc # "closing" => task[t].todo = {}
BY DEF Control, TypeOK, Fits

\* A candidate is given up: closed, outside the admission.
LEMMA GivesUp ==
  ASSUME Control, NEW t \in Candidates, Carries(task[t]), Generates(task[t]),
         NEW label \in {"failed", "abandoned"}, BeginClose(t, {task[t].cand}, label),
         admission' = admission \/ (admission = t /\ admission' = Free),
         UNCHANGED <<own, gen, ids, life, told, count, fatal, generationLock>>,
         faults' \in 0..MaxFaults
  PROVE  Control'
<1>1. /\ t \in Tasks /\ task[t].cand \in Sessions /\ generationLock = t
      /\ label \in Afters(t)
  BY Standing, TaskKinds DEF Fits, Afters, Candidates
<1>2. /\ task' \in [Tasks -> Locals] /\ Moves(t) /\ Fits(t, task'[t])
      /\ task'[t].pc = "closing" /\ task'[t].after = label
      /\ session' \in [Sessions -> {"closed", "connecting", "open", "closing"}]
      /\ closeLock' \in Tasks \cup {Free}
  BY <1>1, CloseBegins
<1>3. Takes(t)
  BY DEF Takes
<1>4. admission' \in Tasks \cup {Free}
  BY DEF Control, TypeOK
<1>5. TypeOK'
  BY <1>2, <1>4 DEF Control, TypeOK, own, ids, life, told, count, fatal
<1> QED BY <1>1, <1>2, <1>3, <1>5, OneMoves DEF Uses

LEMMA FaultTyped == ASSUME Control, Fault PROVE faults' \in 0..MaxFaults
BY LimitsPositive DEF Control, TypeOK, Fault

LEMMA ConnectFailsControl == ASSUME Control, ConnectFails PROVE Control'
<1>1. "start" \in Candidates /\ At("start", "connect")
  BY DEF Candidates, ConnectFails, Runs
<1>2. Carries(task["start"]) /\ Generates(task["start"])
  BY <1>1 DEF At, Carries, Holding, Generates
<1>3. faults' \in 0..MaxFaults
  BY FaultTyped DEF ConnectFails
<1>4. /\ BeginClose("start", {task["start"].cand}, "failed")
      /\ UNCHANGED <<own, gen, ids, life, told, count, fatal, generationLock>>
      /\ admission' = admission
  BY DEF ConnectFails
<1> QED BY <1>1, <1>2, <1>3, <1>4, GivesUp

LEMMA StartFailsControl == ASSUME Control, StartFails PROVE Control'
<1>1. /\ "start" \in Candidates /\ "start" \in Tasks
      /\ "done" \in Places("start") \cap {"idle", "done", "loop"}
  BY TaskKinds DEF Candidates, Places
<1>2. task' = [task EXCEPT !["start"] = [Idle EXCEPT !.pc = "done"]]
  BY DEF StartFails
<1>3. /\ task' \in [Tasks -> Locals] /\ Moves("start")
      /\ Fits("start", task'["start"])
      /\ ~Generates(task'["start"]) /\ ~Uses(task'["start"])
  BY <1>1, <1>2, Rests
<1>4. generationLock = "start"
  BY <1>1 DEF Control, Generates, StartFails
<1>5. Takes("start") /\ available' \in BOOLEAN
  BY <1>4 DEF Takes, StartFails, Control, TypeOK
<1>6. TypeOK'
  BY <1>3, <1>5 DEF Control, TypeOK, StartFails, own, wire, ids, life, count, fatal
<1> QED BY <1>1, <1>3, <1>5, <1>6, OneMoves

-----------------------------------------------------------------------------
(* Control: seeding *)

LEMMA EndsAttempt ==
  ASSUME Control, NEW t \in Attempters, EndAttempt(t), Generates(task[t])
  PROVE  /\ task' \in [Tasks -> Locals] /\ Moves(t) /\ Fits(t, task'[t])
         /\ task'[t].pc \in {"loop", "done"} /\ task'[t].todo = {}
         /\ ~Generates(task'[t]) /\ ~Uses(task'[t])
         /\ generationLock = t /\ generationLock' = Free
<1>1. t \in Candidates /\ t \in Tasks
  BY TaskKinds DEF Candidates
<1>2. {"loop", "done"} \subseteq Places(t)
  BY TaskKinds DEF Places
<1>3. \E pc \in Places(t) \cap {"loop", "done"} :
        task' = [task EXCEPT ![t] = [Idle EXCEPT !.pc = pc]]
  BY <1>2 DEF EndAttempt
<1> QED BY <1>1, <1>3, Rests, Standing DEF EndAttempt

LEMMA PublishControl ==
  ASSUME Control, NEW t \in Candidates, Publish(t), admission = t,
         Carries(task[t]), Generates(task[t]),
         UNCHANGED <<retired, wire, attempt, epoch, down, rejected, fatal,
                     closeLock, faults>>
  PROVE  Control'
<1>1. /\ t \in Tasks /\ task[t].cand \in Sessions /\ generationLock = t
  BY Standing, TaskKinds DEF Fits
<1>2. /\ task' \in [Tasks -> Locals] /\ Moves(t) /\ Fits(t, task'[t])
      /\ ~Generates(task'[t]) /\ ~Uses(task'[t]) /\ generationLock' = Free
      /\ scheduler' \in BOOLEAN
  <2>1. CASE t = "start"
    <3>1. /\ task' = [task EXCEPT ![t] = [Idle EXCEPT !.pc = "done"]]
          /\ generationLock' = Free /\ scheduler' \in BOOLEAN
      BY <2>1 DEF Publish
    <3>2. "done" \in Places(t) \cap {"idle", "done", "loop"}
      BY <2>1, TaskKinds DEF Places
    <3> QED BY <1>1, <3>1, <3>2, Rests
  <2>2. CASE t \in Attempters
    <3>1. EndAttempt(t) /\ scheduler' \in BOOLEAN
      BY <2>2, TaskKinds DEF Publish, Control, TypeOK
    <3> QED BY <2>2, <3>1, EndsAttempt
  <2> QED BY <2>1, <2>2 DEF Candidates
<1>3. Takes(t)
  BY <1>1, <1>2 DEF Takes, Publish
<1>4. generation' \in Nat
  BY <1>1 DEF Publish, Taken, Control, TypeOK
<1>5. TypeOK'
  BY <1>1, <1>2, <1>4 DEF Control, TypeOK, Publish, wire, fatal
<1> QED BY <1>1, <1>2, <1>3, <1>5, OneMoves

LEMMA SeedingStands ==
  ASSUME Control, NEW t \in Candidates,
         task[t].pc \in {"seed", "activate"}
  PROVE  /\ Carries(task[t]) /\ Generates(task[t]) /\ Uses(task[t])
         /\ admission = t /\ generationLock = t /\ t \in Tasks
         /\ task[t].cand \in Sessions
<1>1. Carries(task[t]) /\ Generates(task[t]) /\ Uses(task[t]) /\ t \in Tasks
  BY TaskKinds DEF Carries, Holding, Activating, Generates, Uses
<1>2. admission = t /\ generationLock = t /\ Fits(t, task[t])
  BY <1>1, Standing
<1> QED BY <1>1, <1>2 DEF Fits

LEMMA DropControl ==
  ASSUME Control, NEW t \in Candidates, NEW label \in {"failed", "abandoned"},
         task[t].pc \in {"seed", "activate"}, DropCandidate(t, label),
         UNCHANGED <<own, gen, ids, life, told, count, fatal, generationLock,
                     faults>>
  PROVE  Control'
<1>1. faults' \in 0..MaxFaults
  BY DEF Control, TypeOK
<1>2. BeginClose(t, {task[t].cand}, label) /\ admission = t /\ admission' = Free
  BY SeedingStands DEF DropCandidate
<1> QED BY <1>1, <1>2, SeedingStands, GivesUp

LEMMA SeedFailsControl ==
  ASSUME Control, NEW t \in Candidates, SeedFails(t)
  PROVE  Control'
<1>1. /\ task[t].pc = "seed" /\ admission = t /\ generationLock = t
      /\ t \in Tasks /\ task[t].cand \in Sessions
  BY SeedingStands DEF SeedFails, Seeding, Runs, At
<1>2. PICK e \in Errors :
        /\ admission' = Free
        /\ task' = [task EXCEPT ![t] =
                      [task[t] EXCEPT !.pc = "closing", !.clean = TRUE,
                         !.todo = {task[t].cand}, !.after = "failed",
                         !.error = e]]
        /\ closeLock' = IF closeLock = Free THEN t ELSE closeLock
        /\ session' = IF closeLock = Free THEN MarkClosing({task[t].cand})
                      ELSE session
  BY DEF SeedFails
<1>3. task \in [Tasks -> Locals] /\ {"closing", "failed"} \subseteq Labels
  BY DEF Control, TypeOK, Labels
<1>4. /\ task' \in [Tasks -> Locals] /\ Moves(t)
      /\ task'[t].pc = "closing" /\ task'[t].after = "failed"
      /\ task'[t].cand = task[t].cand /\ task'[t] \in Locals
  <2> DEFINE l == [task[t] EXCEPT !.pc = "closing", !.clean = TRUE,
                     !.todo = {task[t].cand}, !.after = "failed", !.error = e]
  <2>1. {task[t].cand} \in SUBSET Sessions /\ task[t] \in Locals
    BY <1>1, <1>3
  <2>2. /\ l \in Locals /\ l.pc = "closing" /\ l.after = "failed"
        /\ l.cand = task[t].cand
    BY <1>3, <2>1 DEF Locals
  <2> HIDE DEF l
  <2>3. task' = [task EXCEPT ![t] = l]
    BY <1>2 DEF l
  <2> QED BY <1>1, <1>3, <2>2, <2>3 DEF Moves
<1>5. session' \in [Sessions -> {"closed", "connecting", "open", "closing"}]
  BY <1>2 DEF MarkClosing, Control, TypeOK
<1>6. TypeOK'
  <2>1. faults' \in 0..MaxFaults
    BY FaultTyped DEF SeedFails
  <2>2. {generationLock', admission', closeLock'} \subseteq Tasks \cup {Free}
    BY <1>1, <1>2 DEF Control, TypeOK, SeedFails
  <2>3. UNCHANGED <<own, gen, ids, life, told, count, fatal>>
    BY DEF SeedFails
  <2> QED BY <1>4, <1>5, <2>1, <2>2, <2>3
          DEF Control, TypeOK, own, ids, life, told, count, fatal
<1>7. Fits(t, task'[t])
  BY <1>1, <1>4, TaskKinds DEF Fits, Places, Afters, Candidates
<1>8. Takes(t) /\ generationLock' = t
  BY <1>1, <1>2 DEF Takes, SeedFails
<1> QED BY <1>1, <1>4, <1>6, <1>7, <1>8, OneMoves DEF Uses

\* The old transport is closed first, inside the admission.
LEMMA SeedReplacesControl ==
  ASSUME Control, NEW t \in Candidates, SeedReplaces(t)
  PROVE  Control'
<1>1. /\ task[t].pc = "seed" /\ admission = t /\ generationLock = t
      /\ t \in Tasks /\ task[t].cand \in Sessions
  BY SeedingStands DEF SeedReplaces, Seeding, Runs, At
<1>2. transport \in Sessions /\ {transport} \in SUBSET Sessions
  BY DEF SeedReplaces, Control, TypeOK
<1>3. "activate" \in Afters(t)
  BY TaskKinds DEF Afters, Candidates
<1>4. BeginClose(t, {transport}, "activate")
  BY DEF SeedReplaces
<1>5. /\ task' \in [Tasks -> Locals] /\ Moves(t) /\ Fits(t, task'[t])
      /\ session' \in [Sessions -> {"closed", "connecting", "open", "closing"}]
      /\ closeLock' \in Tasks \cup {Free}
  BY <1>1, <1>2, <1>3, <1>4, CloseBegins
<1>6. TypeOK'
  BY <1>2, <1>5 DEF Control, TypeOK, SeedReplaces, ids, life, told, count, fatal,
                    Retain, None
<1>7. Takes(t)
  BY DEF Takes, SeedReplaces
<1> QED BY <1>1, <1>5, <1>6, <1>7, OneMoves DEF SeedReplaces

LEMMA SeedControl ==
  ASSUME Control, NEW t \in Candidates, SeedStep(t)
  PROVE  Control'
<1>1. CASE SeedActivates(t)
  BY <1>1, SeedingStands, PublishControl DEF SeedActivates, Seeding, Runs, At
<1>2. CASE SeedReplaces(t)
  BY <1>2, SeedReplacesControl
<1>3. CASE ReplacementActivates(t)
  BY <1>3, SeedingStands, PublishControl DEF ReplacementActivates, At
<1>4. CASE ReplacementFails(t)
  BY <1>4, DropControl DEF ReplacementFails, At
<1>5. CASE SeedOvertaken(t)
  BY <1>5, DropControl DEF SeedOvertaken, Seeding, Runs, At
<1>6. CASE SeedFails(t)
  BY <1>6, SeedFailsControl
<1> QED BY <1>1, <1>2, <1>3, <1>4, <1>5, <1>6 DEF SeedStep

-----------------------------------------------------------------------------
(* Control: the reconnect loop and its attempts *)

LEMMA RecordTyped ==
  ASSUME Control, NEW e, NEW g \in Nat, Record(e, g)
  PROVE  signals' \in [Signals -> Nat] /\ evidence' \subseteq Signals \X Nat
BY DEF Record, Control, TypeOK

LEMMA FailureTyped ==
  ASSUME Control, NEW e, NEW g \in Nat, NEW advance \in BOOLEAN,
         Failure(e, g, advance)
  PROVE  /\ signals' \in [Signals -> Nat] /\ evidence' \subseteq Signals \X Nat
         /\ rejected' \in BOOLEAN /\ available' \in BOOLEAN
         /\ stored' \in Nat /\ hot' = hot
<1>1. Record(e, g)
  BY DEF Failure
<1>2. rejected' \in BOOLEAN /\ available' \in BOOLEAN
  BY DEF Failure, Control, TypeOK
<1>3. stored' \in Nat /\ hot' = hot
  BY DEF Failure, Control, TypeOK
<1> QED BY <1>1, <1>2, <1>3, RecordTyped

\* A task of the generation lock goes on with the same locals.
LEMMA GoesOn ==
  ASSUME Control, NEW t \in Attempters, NEW label \in Places(t),
         task[t].pc # "closing", label # "closing",
         task' = [task EXCEPT ![t].pc = label],
         label \in {"connect", "dial", "discover", "admit", "seed", "activate",
                    "failed", "abandoned"} => task[t].cand \in Sessions
  PROVE  /\ task' \in [Tasks -> Locals] /\ Moves(t) /\ Fits(t, task'[t])
         /\ task'[t].pc = label /\ task'[t].cand = task[t].cand
<1>1. t \in Tasks /\ label \in Labels
  BY TaskKinds DEF Places, Labels, Candidates
<1> DEFINE l == task'[t]
<1>2. /\ task' \in [Tasks -> Locals] /\ Moves(t) /\ l.pc = label
      /\ l.cand = task[t].cand /\ l.todo = {}
  BY <1>1, Relabels, Standing
<1>3. l \in Locals
  BY <1>1, <1>2
<1> HIDE DEF l
<1>4. Fits(t, l)
  BY <1>2, <1>3, TaskKinds DEF Fits, Carries, Holding, Activating
<1> QED BY <1>2, <1>4 DEF l

LEMMA LoopControl == ASSUME Control, Loop PROVE Control'
<1> DEFINE t == "reconnect"
<1>1. t \in Attempters /\ t \in Candidates /\ t \in Tasks /\ task[t].pc = "loop"
  BY TaskKinds DEF Attempters, Candidates, Loop, Runs, At
<1>2. {"idle", "attempt"} \subseteq Places(t)
  BY <1>1, TaskKinds DEF Places
<1>3. /\ task' \in [Tasks -> Locals] /\ Moves(t) /\ Fits(t, task'[t])
      /\ ~Generates(task'[t]) /\ ~Uses(task'[t])
  <2>1. CASE task' = [task EXCEPT ![t] = Idle]
    BY <1>1, <1>2, <2>1, Rests
  <2>2. CASE task' = [task EXCEPT ![t].pc = "attempt"]
    <3>1. /\ task' \in [Tasks -> Locals] /\ Moves(t) /\ Fits(t, task'[t])
          /\ task'[t].pc = "attempt"
      BY <1>1, <1>2, <2>2, GoesOn
    <3> QED BY <3>1 DEF Generates, Uses
  <2> QED BY <2>1, <2>2 DEF Loop
<1>4. TypeOK'
  BY <1>3 DEF Control, TypeOK, Loop, own, wire, ids, life, told, count, fatal, locks
<1>5. Takes(t)
  BY DEF Takes, Loop, locks
<1> QED BY <1>1, <1>3, <1>4, <1>5, OneMoves

LEMMA AttemptControl ==
  ASSUME Control, NEW t \in Attempters, Attempt(t)
  PROVE  Control'
<1>1. t \in Candidates /\ t \in Tasks /\ task[t].pc \in {"idle", "attempt"}
  BY TaskKinds DEF Candidates, Attempt, Runs, At
<1>2. {"loop", "done", "drain"} \subseteq Places(t) /\ generationLock = Free
  BY <1>1, TaskKinds DEF Places, Attempt, GenerationUnlocked
<1>3. CASE EndAttempt(t)
  <2>1. \E pc \in Places(t) \cap {"loop", "done"} :
          task' = [task EXCEPT ![t] = [Idle EXCEPT !.pc = pc]]
    BY <1>2, <1>3 DEF EndAttempt
  <2>2. /\ task' \in [Tasks -> Locals] /\ Moves(t) /\ Fits(t, task'[t])
        /\ ~Generates(task'[t]) /\ ~Uses(task'[t])
    BY <1>1, <2>1, Rests
  <2>3. TypeOK' /\ Takes(t)
    BY <1>2, <1>3, <2>2 DEF Control, TypeOK, Attempt, EndAttempt, own, wire, ids,
                            life, told, count, fatal, Takes
  <2> QED BY <1>1, <2>2, <2>3, OneMoves
<1>4. CASE generationLock' = t /\ task' = [task EXCEPT ![t].pc = "drain"]
  <2>1. /\ task' \in [Tasks -> Locals] /\ Moves(t) /\ Fits(t, task'[t])
        /\ task'[t].pc = "drain"
    BY <1>1, <1>2, <1>4, GoesOn
  <2>2. TypeOK' /\ Takes(t)
    BY <1>1, <1>2, <1>4, <2>1 DEF Control, TypeOK, Attempt, own, wire, ids,
                            life, told, count, fatal, Takes
  <2> QED BY <1>1, <1>4, <2>1, <2>2, OneMoves DEF Uses
<1> QED BY <1>3, <1>4 DEF Attempt

LEMMA DrainControl ==
  ASSUME Control, NEW t \in Attempters, Drain(t)
  PROVE  Control'
<1>1. /\ t \in Candidates /\ t \in Tasks /\ task[t].pc = "drain"
      /\ generationLock = t
  BY TaskKinds, Standing DEF Candidates, Drain, Runs, At, Generates
<1>2. /\ task' \in [Tasks -> Locals] /\ Moves(t) /\ Fits(t, task'[t])
      /\ session' \in [Sessions -> {"closed", "connecting", "open", "closing"}]
      /\ closeLock' \in Tasks \cup {Free} /\ ~Uses(task'[t])
  <2>1. CASE Inactive = {}
    <3>1. /\ task' = [task EXCEPT ![t].pc = "drained", ![t].clean = TRUE]
          /\ UNCHANGED <<session, closeLock>>
      BY <2>1 DEF Drain
    <3>2. task[t].todo = {} /\ task \in [Tasks -> Locals] /\ "drained" \in Labels
      BY <1>1, Standing DEF Labels
    <3>3. /\ task' \in [Tasks -> Locals] /\ Moves(t) /\ task'[t].todo = {}
          /\ task'[t].pc = "drained"
      BY <1>1, <3>1, <3>2 DEF Locals, Moves
    <3>4. Fits(t, task'[t]) /\ ~Uses(task'[t])
      BY <1>1, <3>3, TaskKinds DEF Fits, Places, Carries, Holding, Activating, Uses
    <3> QED BY <3>1, <3>3, <3>4 DEF Control, TypeOK
  <2>2. CASE Inactive # {}
    <3>1. Inactive \in SUBSET Sessions
      BY DEF Inactive, Control, TypeOK
    <3>2. "drained" \in Afters(t)
      BY <1>1, TaskKinds DEF Afters
    <3>3. BeginClose(t, Inactive, "drained")
      BY <2>2 DEF Drain
    <3>4. /\ task' \in [Tasks -> Locals] /\ Moves(t) /\ Fits(t, task'[t])
          /\ session' \in [Sessions -> {"closed", "connecting", "open", "closing"}]
          /\ closeLock' \in Tasks \cup {Free}
          /\ task'[t].pc = "closing" /\ task'[t].after = "drained"
      BY <1>1, <3>1, <3>2, <3>3, CloseBegins
    <3> QED BY <3>4 DEF Uses
  <2> QED BY <2>1, <2>2
<1>3. TypeOK' /\ Takes(t)
  BY <1>2 DEF Control, TypeOK, Drain, own, ids, life, told, count, fatal, Takes
<1> QED BY <1>1, <1>2, <1>3, OneMoves DEF Drain

\* An attempt fails and is over.
LEMMA AttemptOver ==
  ASSUME Control, NEW t \in Attempters, EndAttempt(t), Generates(task[t]),
         NEW e, NEW g \in Nat, NEW advance \in BOOLEAN, Failure(e, g, advance),
         session' \in [Sessions -> {"closed", "connecting", "open", "closing"}],
         faults' \in 0..MaxFaults,
         UNCHANGED <<own, gen, ids, life, admission, closeLock>>
  PROVE  Control'
<1>1. t \in Candidates /\ t \in Tasks
  BY TaskKinds DEF Candidates
<1>2. /\ task' \in [Tasks -> Locals] /\ Moves(t) /\ Fits(t, task'[t])
      /\ ~Generates(task'[t]) /\ ~Uses(task'[t])
      /\ generationLock = t /\ generationLock' = Free
  BY EndsAttempt
<1>3. TypeOK' /\ Takes(t)
  BY <1>2, FailureTyped DEF Control, TypeOK, own, ids, life, Takes
<1> QED BY <1>1, <1>2, <1>3, OneMoves

LEMMA LargerTyped ==
  ASSUME Control PROVE Larger(attempt, generation) \in Nat
BY DEF Larger, Control, TypeOK

LEMMA DrainFailedControl ==
  ASSUME Control, NEW t \in Attempters, DrainFailed(t) PROVE Control'
<1>1. Generates(task[t])
  BY DEF DrainFailed, At, Generates
<1>2. /\ session' \in [Sessions -> {"closed", "connecting", "open", "closing"}]
      /\ faults' \in 0..MaxFaults /\ UNCHANGED gen
  BY DEF DrainFailed, Control, TypeOK, wire
<1>3. /\ Failure("plain", Larger(attempt, generation), TRUE) /\ EndAttempt(t)
      /\ UNCHANGED <<own, ids, life, admission, closeLock>>
  BY DEF DrainFailed
<1> QED BY <1>1, <1>2, <1>3, LargerTyped, AttemptOver

LEMMA DialControl ==
  ASSUME Control, NEW t \in Attempters, Dial(t) PROVE Control'
<1>1. t \in Candidates /\ t \in Tasks /\ task[t].pc = "drained"
  BY TaskKinds DEF Candidates, Dial, At
<1>2. generationLock = t /\ task[t].todo = {}
  BY <1>1, Standing DEF Generates
<1>3. attempt' \in Nat /\ epoch' \in Nat
  BY LargerTyped DEF Dial, Control, TypeOK
<1>4. Open(t, attempt', "dial") /\ "dial" \in Labels
  BY DEF Dial, Labels
<1>5. /\ Slot \in Sessions
      /\ session' \in [Sessions -> {"closed", "connecting", "open", "closing"}]
      /\ gen' \in [Sessions -> Nat]
      /\ task' \in [Tasks -> Locals] /\ Moves(t) /\ task'[t].pc = "dial"
      /\ task'[t].cand = Slot /\ task'[t].todo = {}
  BY <1>1, <1>2, <1>3, <1>4, Opens
<1> HIDE DEF Slot
<1>6. TypeOK' /\ Takes(t)
  BY <1>3, <1>5 DEF Control, TypeOK, Dial, own, told, count, fatal, locks, Takes
<1>7. Fits(t, task'[t])
  BY <1>1, <1>5, TaskKinds DEF Fits, Places, Carries, Holding
<1> QED BY <1>1, <1>2, <1>5, <1>6, <1>7, OneMoves DEF Dial, locks, Uses

\* An attempt that dials carries its candidate.
LEMMA DialStands ==
  ASSUME Control, NEW t \in Attempters, task[t].pc \in {"dial", "discover"}
  PROVE  /\ t \in Candidates /\ t \in Tasks /\ generationLock = t
         /\ task[t].cand \in Sessions /\ task[t].todo = {} /\ Generates(task[t])
<1>1. t \in Candidates /\ t \in Tasks
  BY TaskKinds DEF Candidates
<1>2. Generates(task[t]) /\ Carries(task[t])
  BY DEF Generates, Carries, Holding
<1> QED BY <1>1, <1>2, Standing DEF Fits

LEMMA DialledControl ==
  ASSUME Control, NEW t \in Attempters, Dialled(t) PROVE Control'
<1>1. task[t].pc \in {"dial", "discover"}
  BY DEF Dialled, Runs, At
<1>2. /\ t \in Candidates /\ t \in Tasks /\ generationLock = t
      /\ task[t].cand \in Sessions /\ task[t].todo = {}
  BY <1>1, DialStands
<1>3. task' = [task EXCEPT ![t].pc = "admit", ![t].seen = epoch]
  BY DEF Dialled
<1>4. /\ task \in [Tasks -> Locals] /\ "admit" \in Labels /\ epoch \in Nat
  BY DEF Control, TypeOK, Labels
<1>5. /\ task' \in [Tasks -> Locals] /\ Moves(t) /\ task'[t].pc = "admit"
      /\ task'[t].cand = task[t].cand /\ task'[t].todo = {}
  BY <1>2, <1>3, <1>4 DEF Locals, Moves
<1>6. pending' \in Sessions /\ retired' \subseteq Sessions
  BY <1>2 DEF Dialled, Retain, Control, TypeOK, None
<1>7. TypeOK' /\ Takes(t)
  BY <1>2, <1>5, <1>6 DEF Control, TypeOK, Dialled, ids, life, told, count, fatal,
                         locks, Takes
<1>8. Fits(t, task'[t])
  BY <1>2, <1>5, TaskKinds DEF Fits, Places, Carries, Holding
<1> QED BY <1>2, <1>5, <1>7, <1>8, OneMoves DEF Dialled, locks, Uses

LEMMA DialFailsControl ==
  ASSUME Control, NEW t \in Attempters, DialFails(t) PROVE Control'
<1>1. task[t].pc = "dial" /\ faults' \in 0..MaxFaults
  BY FaultTyped DEF DialFails, Runs, At
<1>2. /\ t \in Candidates /\ t \in Tasks /\ generationLock = t
      /\ task[t].cand \in Sessions /\ task[t].todo = {} /\ Generates(task[t])
  BY <1>1, DialStands
<1> DEFINE s == task[t].cand
<1>3. PICK e \in Errors :
        /\ Failure(e, gen[s], TRUE)
        /\ IF rejected' \/ stored' % DiscoveryPeriod # 0
             THEN /\ session' = [session EXCEPT ![s] = "closed"]
                  /\ EndAttempt(t)
                  /\ UNCHANGED <<gen, attempt>>
             ELSE /\ attempt' = attempt + 1
                  /\ gen' = [gen EXCEPT ![s] = attempt + 1]
                  /\ task' = [task EXCEPT ![t].pc = "discover"]
                  /\ UNCHANGED <<session, generationLock>>
  BY DEF DialFails
<1>4. gen[s] \in Nat /\ UNCHANGED <<own, generation, life, admission, closeLock>>
  BY <1>2 DEF DialFails, Control, TypeOK
<1>5. CASE rejected' \/ stored' % DiscoveryPeriod # 0
  <2>1. /\ session' \in [Sessions -> {"closed", "connecting", "open", "closing"}]
        /\ EndAttempt(t) /\ UNCHANGED <<gen, ids>>
    BY <1>2, <1>3, <1>4, <1>5 DEF Control, TypeOK, ids
  <2> QED BY <1>1, <1>2, <1>3, <1>4, <2>1, AttemptOver
<1>6. CASE ~(rejected' \/ stored' % DiscoveryPeriod # 0)
  <2>1. /\ attempt' \in Nat /\ gen' \in [Sessions -> Nat]
        /\ task' = [task EXCEPT ![t].pc = "discover"]
        /\ UNCHANGED <<session, generationLock>>
    BY <1>2, <1>3, <1>6 DEF Control, TypeOK
  <2>2. "discover" \in Places(t)
    BY <1>2, TaskKinds DEF Places
  <2>3. /\ task' \in [Tasks -> Locals] /\ Moves(t) /\ Fits(t, task'[t])
        /\ task'[t].pc = "discover"
    BY <1>1, <1>2, <2>1, <2>2, GoesOn
  <2>4. TypeOK' /\ Takes(t)
    BY <1>1, <1>3, <1>4, <2>1, <2>3, FailureTyped
       DEF Control, TypeOK, own, life, Takes
  <2> QED BY <1>2, <2>1, <2>3, <2>4, OneMoves DEF Uses
<1> QED BY <1>5, <1>6

LEMMA AttemptFailsControl ==
  ASSUME Control, NEW t \in Attempters, DiscoverFails(t) \/ CandidateFailed(t)
  PROVE  Control'
<1>1. /\ t \in Candidates /\ t \in Tasks /\ Generates(task[t])
      /\ task[t].cand \in Sessions
  <2>1. task[t].pc \in {"discover", "failed"}
    BY DEF DiscoverFails, CandidateFailed, Runs, At
  <2>2. Generates(task[t]) /\ Carries(task[t]) /\ t \in Candidates /\ t \in Tasks
    BY <2>1, TaskKinds DEF Generates, Carries, Holding, Candidates
  <2> QED BY <2>2, Standing DEF Fits
<1>2. \/ \E e \in Errors : Failure(e, gen[task[t].cand], FALSE)
      \/ Failure(task[t].error, gen[task[t].cand], TRUE)
  BY DEF DiscoverFails, CandidateFailed
<1>3. /\ session' \in [Sessions -> {"closed", "connecting", "open", "closing"}]
      /\ UNCHANGED gen
  BY DEF DiscoverFails, CandidateFailed, Control, TypeOK, wire
<1>4. faults' \in 0..MaxFaults
  BY FaultTyped DEF DiscoverFails, CandidateFailed, Control, TypeOK
<1>5. EndAttempt(t) /\ UNCHANGED <<own, ids, life, admission, closeLock>>
  BY DEF DiscoverFails, CandidateFailed
<1>6. gen[task[t].cand] \in Nat
  BY <1>1 DEF Control, TypeOK
<1>7. CASE Failure(task[t].error, gen[task[t].cand], TRUE)
  BY <1>1, <1>3, <1>4, <1>5, <1>6, <1>7, AttemptOver
<1>8. ASSUME NEW e \in Errors, Failure(e, gen[task[t].cand], FALSE) PROVE Control'
  BY <1>1, <1>3, <1>4, <1>5, <1>6, <1>8, AttemptOver
<1> QED BY <1>2, <1>7, <1>8

\* CancelledError leaves an attempt, or the start.
LEMMA LeavesAttempt ==
  ASSUME Control, NEW t \in Candidates, LeaveAttempt(t),
         session' \in [Sessions -> {"closed", "connecting", "open", "closing"}],
         closeLock' \in Tasks \cup {Free},
         UNCHANGED <<own, gen, ids, life, told, count, fatal, admission, faults>>
  PROVE  Control'
<1>1. t \in Tasks /\ \E pc \in Places(t) \cap {"idle", "done"} :
                       task' = [task EXCEPT ![t] = [Idle EXCEPT !.pc = pc]]
  BY TaskKinds DEF LeaveAttempt, Places, Candidates
<1>2. /\ task' \in [Tasks -> Locals] /\ Moves(t) /\ Fits(t, task'[t])
      /\ ~Generates(task'[t]) /\ ~Uses(task'[t])
  BY <1>1, Rests
<1>3. /\ generationLock' \in Tasks \cup {Free}
      /\ generationLock' = generationLock
         \/ (generationLock \in {t, Free} /\ generationLock' \in {t, Free})
  BY DEF LeaveAttempt, Control, TypeOK
<1>4. TypeOK' /\ Takes(t)
  BY <1>2, <1>3 DEF Control, TypeOK, own, ids, life, told, count, fatal, Takes
<1> QED BY <1>1, <1>2, <1>4, OneMoves

LEMMA LockLeft ==
  ASSUME Control, NEW t PROVE CloseLockLeft(t) \in Tasks \cup {Free}
BY DEF CloseLockLeft, Control, TypeOK

LEMMA AttemptLeavesControl ==
  ASSUME Control, NEW t \in Candidates, CandidateAbandoned(t) \/ AttemptCancelled(t)
  PROVE  Control'
<1>1. LeaveAttempt(t)
  BY DEF CandidateAbandoned, AttemptCancelled
<1>2. /\ session' \in [Sessions -> {"closed", "connecting", "open", "closing"}]
      /\ closeLock' \in Tasks \cup {Free}
  BY LockLeft DEF CandidateAbandoned, AttemptCancelled, wire, Control, TypeOK
<1>3. UNCHANGED <<own, gen, ids, life, told, count, fatal, admission, faults>>
  BY DEF CandidateAbandoned, AttemptCancelled, wire
<1> QED BY <1>1, <1>2, <1>3, LeavesAttempt

LEMMA CandidateCancelledControl ==
  ASSUME Control, NEW t \in Candidates, CandidateCancelled(t)
  PROVE  Control'
<1>1. t \in Tasks /\ (Holding(task[t]) /\ Generates(task[t]))
  BY TaskKinds DEF CandidateCancelled, Cancelled, At, Holding, Activating, Generates
<1>2. generationLock = t /\ task[t].cand \in Sessions /\ task \in [Tasks -> Locals]
  BY <1>1, Standing DEF Fits, Carries
<1>3. task' = [task EXCEPT ![t] =
                 [task[t] EXCEPT !.pc = "closing", !.todo = {task[t].cand},
                    !.clean = TRUE, !.after = "abandoned", !.cancel = FALSE]]
  BY DEF CandidateCancelled
<1>4. "closing" \in Labels /\ "abandoned" \in Labels /\ {task[t].cand} \in SUBSET Sessions
  BY <1>2 DEF Labels
<1>5. /\ task' \in [Tasks -> Locals] /\ Moves(t) /\ task'[t].pc = "closing"
      /\ task'[t].cand = task[t].cand /\ task'[t].after = "abandoned"
      /\ task'[t].todo = {task[t].cand} /\ task'[t].cancel = FALSE
  <2> DEFINE l == [task[t] EXCEPT !.pc = "closing", !.todo = {task[t].cand},
                     !.clean = TRUE, !.after = "abandoned", !.cancel = FALSE]
  <2>1. task[t] \in Locals
    BY <1>1, <1>2
  <2>2. /\ l \in Locals /\ l.pc = "closing" /\ l.after = "abandoned"
        /\ l.cand = task[t].cand /\ l.todo = {task[t].cand} /\ l.cancel = FALSE
    BY <1>4, <2>1 DEF Locals
  <2> HIDE DEF l
  <2>3. task' = [task EXCEPT ![t] = l]
    BY <1>3 DEF l
  <2> QED BY <1>1, <1>2, <2>2, <2>3 DEF Moves
<1>6. Fits(t, task'[t])
  BY <1>1, <1>2, <1>5, TaskKinds DEF Fits, Places, Afters, Candidates
<1>7. /\ admission' = admission \/ (admission = t /\ admission' = Free)
      /\ closeLock' \in Tasks \cup {Free}
  BY LockLeft DEF CandidateCancelled
<1>8. TypeOK' /\ Takes(t) /\ generationLock' = generationLock
  BY <1>5, <1>7 DEF Control, TypeOK, CandidateCancelled, own, wire, ids, life, told,
                   count, fatal, Takes
<1> QED BY <1>1, <1>2, <1>5, <1>6, <1>8, OneMoves DEF Uses
-----------------------------------------------------------------------------
(* Control: operations on the session *)

LEMMA SubmitControl ==
  ASSUME Control, NEW t \in Operations, Submit(t) PROVE Control'
<1>1. /\ t \in Tasks /\ task[t].pc = "idle" /\ "admit" \in Labels
      /\ "admit" \in Places(t) /\ t \notin Candidates
  BY TaskKinds DEF Submit, At, Labels, Places, Candidates
<1>2. /\ task' \in [Tasks -> Locals] /\ Moves(t) /\ task'[t].pc = "admit"
      /\ task'[t].todo = {}
  BY <1>1, Relabels, Standing DEF Submit
<1>3. Fits(t, task'[t])
  BY <1>1, <1>2 DEF Fits
<1>4. TypeOK' /\ Takes(t)
  BY <1>2 DEF Control, TypeOK, Submit, own, wire, ids, life, told, count, fatal,
              locks, Takes
<1> QED BY <1>1, <1>2, <1>3, <1>4, OneMoves DEF Uses

\* An operation is over and out of the admission, if it was inside.
LEMMA OperationRests ==
  ASSUME Control, NEW t \in Operations, End(t),
         admission' = admission \/ (admission \in {t, Free} /\ admission' = Free),
         available' \in BOOLEAN, hot' \in Nat, signals' \in [Signals -> Nat],
         evidence' \subseteq Signals \X Nat, faults' \in 0..MaxFaults,
         closeLock' \in Tasks \cup {Free},
         UNCHANGED <<own, wire, ids, life, rejected, stored, generationLock>>
  PROVE  Control'
<1>1. t \in Tasks /\ "idle" \in Places(t) /\ t \notin Candidates
  BY TaskKinds DEF Places, Candidates
<1>2. /\ task' \in [Tasks -> Locals] /\ Moves(t) /\ Fits(t, task'[t])
      /\ ~Generates(task'[t]) /\ ~Uses(task'[t])
  BY <1>1, Rests DEF End
<1>3. admission' \in Tasks \cup {Free} /\ Takes(t)
  BY DEF Control, TypeOK, Takes
<1>4. TypeOK'
  BY <1>2, <1>3 DEF Control, TypeOK, own, wire, ids, life
<1> QED BY <1>1, <1>2, <1>3, <1>4, OneMoves

LEMMA AdmitControl ==
  ASSUME Control, NEW t \in Tasks, Admit(t) PROVE Control'
<1>1. /\ task[t].pc = "admit" /\ admission = Free /\ task[t].todo = {}
      /\ task \in [Tasks -> Locals] /\ Fits(t, task[t])
  BY Standing DEF Admit, Gone, Runs, At, Admissible
<1>2. t \in Operations \/ t \in Candidates
  BY <1>1, TaskKinds, Standing DEF Places
<1>3. UNCHANGED <<own, wire, ids, life, told, count, fatal, generationLock,
                  closeLock, faults>>
  BY DEF Admit, Gone
<1>4. CASE t \notin Operations
  <2>1. admission' = t /\ task' = [task EXCEPT ![t].pc = "seed"]
    BY <1>4 DEF Admit, Gone
  <2>2. /\ "seed" \in Labels /\ "seed" \in Places(t) /\ generationLock = t
        /\ task[t].cand \in Sessions
    BY <1>1, <1>2, <1>4, TaskKinds, Standing
       DEF Labels, Places, Candidates, Generates, Fits, Carries, Holding
  <2>3. /\ task' \in [Tasks -> Locals] /\ Moves(t) /\ task'[t].pc = "seed"
        /\ task'[t].cand = task[t].cand /\ task'[t].todo = {}
    BY <1>1, <2>1, <2>2, Relabels
  <2>4. Fits(t, task'[t])
    BY <1>4, <2>2, <2>3 DEF Fits
  <2>5. TypeOK' /\ Takes(t)
    BY <1>1, <1>3, <2>1, <2>3 DEF Control, TypeOK, own, wire, ids, life, told, count,
                                  fatal, Takes
  <2> QED BY <1>3, <2>1, <2>2, <2>3, <2>4, <2>5, OneMoves
<1>5. CASE t \in Operations /\ End(t) /\ UNCHANGED admission
  <2>1. /\ available' \in BOOLEAN /\ hot' \in Nat /\ signals' \in [Signals -> Nat]
        /\ evidence' \subseteq Signals \X Nat /\ faults' \in 0..MaxFaults
        /\ closeLock' \in Tasks \cup {Free}
    BY <1>3 DEF Control, TypeOK, told, count, fatal
  <2>2. UNCHANGED <<own, wire, ids, life, rejected, stored, generationLock>>
    BY <1>3 DEF told, count
  <2> QED BY <1>5, <2>1, <2>2, OperationRests
<1>6. CASE t \in Operations /\ transport # None /\ admission' = t
           /\ task' = [task EXCEPT ![t] = [task[t] EXCEPT !.pc = "read",
                                             !.cand = transport, !.seen = epoch]]
  <2>1. "read" \in Labels /\ transport \in Sessions /\ epoch \in Nat
    BY <1>6 DEF Labels, Control, TypeOK
  <2>2. /\ task' \in [Tasks -> Locals] /\ Moves(t) /\ task'[t].pc = "read"
        /\ task'[t].cand = transport /\ task'[t].todo = {}
    <3> DEFINE l == [task[t] EXCEPT !.pc = "read", !.cand = transport, !.seen = epoch]
    <3>1. /\ l \in Locals /\ l.pc = "read" /\ l.cand = transport
          /\ l.todo = task[t].todo
      BY <1>1, <2>1 DEF Locals
    <3>2. task' = [task EXCEPT ![t] = l]
      BY <1>6
    <3> HIDE DEF l
    <3>3. task' \in [Tasks -> Locals] /\ Moves(t) /\ task'[t] = l
      BY <3>1, <3>2, Replaced
    <3> QED BY <1>1, <3>1, <3>3
  <2>3. Fits(t, task'[t]) /\ t \notin Candidates
    BY <1>6, <2>1, <2>2, TaskKinds DEF Fits, Places, Candidates
  <2>4. TypeOK' /\ Takes(t)
    BY <1>1, <1>3, <1>6, <2>2 DEF Control, TypeOK, own, wire, ids, life, told, count,
                                  fatal, Takes
  <2> QED BY <1>6, <2>2, <2>3, <2>4, OneMoves
<1> QED BY <1>2, <1>4, <1>5, <1>6 DEF Admit, Gone

LEMMA OvertakenControl ==
  ASSUME Control, NEW t \in Operations, OperationOvertaken(t) PROVE Control'
<1>1. /\ available' \in BOOLEAN /\ hot' \in Nat /\ signals' \in [Signals -> Nat]
      /\ evidence' \subseteq Signals \X Nat /\ faults' \in 0..MaxFaults
      /\ closeLock' \in Tasks \cup {Free}
  BY DEF OperationOvertaken, Control, TypeOK, told, count, fatal
<1>2. /\ End(t) /\ admission = t /\ admission' = Free
      /\ UNCHANGED <<own, wire, ids, life, rejected, stored, generationLock>>
  BY DEF OperationOvertaken, Using, Finish, told, count
<1> QED BY <1>1, <1>2, OperationRests

LEMMA PollSucceedsControl == ASSUME Control, PollSucceeds PROVE Control'
<1>1. "poll" \in Operations
  BY DEF Operations
<1>2. /\ available' \in BOOLEAN /\ hot' \in Nat /\ faults' \in 0..MaxFaults
      /\ closeLock' \in Tasks \cup {Free}
  BY DEF PollSucceeds, Control, TypeOK
<1>3. signals' \in [Signals -> Nat] /\ evidence' \subseteq Signals \X Nat
  BY DEF PollSucceeds, Control, TypeOK, fatal
<1>4. /\ End("poll") /\ admission = "poll" /\ admission' = Free
      /\ UNCHANGED <<own, wire, ids, life, rejected, stored, generationLock>>
  BY DEF PollSucceeds, Using, Finish
<1> QED BY <1>1, <1>2, <1>3, <1>4, OperationRests

LEMMA CommandEndsControl ==
  ASSUME Control, NEW t \in Operations, CommandEnds(t) PROVE Control'
<1>1. /\ available' \in BOOLEAN /\ hot' \in Nat /\ signals' \in [Signals -> Nat]
      /\ evidence' \subseteq Signals \X Nat /\ faults' \in 0..MaxFaults
      /\ closeLock' \in Tasks \cup {Free}
  BY DEF CommandEnds, Control, TypeOK, count, fatal
<1>2. /\ End(t) /\ admission = t /\ admission' = Free
      /\ UNCHANGED <<own, wire, ids, life, rejected, stored, generationLock>>
  BY DEF CommandEnds, Using, Finish, count
<1> QED BY <1>1, <1>2, OperationRests

LEMMA PollFailsControl == ASSUME Control, PollFails PROVE Control'
<1>1. "poll" \in Operations /\ faults' \in 0..MaxFaults
  BY FaultTyped DEF Operations, PollFails
<1>2. /\ available' \in BOOLEAN /\ hot' \in Nat /\ signals' \in [Signals -> Nat]
      /\ evidence' \subseteq Signals \X Nat /\ closeLock' \in Tasks \cup {Free}
  <2>1. signals' = signals /\ evidence' = evidence /\ closeLock' = closeLock
    BY DEF PollFails, fatal
  <2>2. available \in BOOLEAN /\ hot \in Nat
    BY DEF Control, TypeOK
  <2>3. /\ available' = available \/ available' = TRUE
        /\ hot' = hot \/ hot' = hot + 1
    BY DEF PollFails
  <2>4. available' \in BOOLEAN
    BY <2>2, <2>3
  <2>5. hot' \in Nat
    BY <2>2, <2>3
  <2> QED BY <2>1, <2>4, <2>5 DEF Control, TypeOK
<1>3. /\ End("poll") /\ admission = "poll" /\ admission' = Free
      /\ UNCHANGED <<own, wire, ids, life, rejected, stored, generationLock>>
  BY DEF PollFails, Using, Finish
<1> QED BY <1>1, <1>2, <1>3, OperationRests

\* A disconnect, inside the admission.
LEMMA DisconnectControl ==
  ASSUME Control, NEW t \in Operations, NEW label \in {"dead", "doubted", "refused"},
         task[t].pc = "read", transport # None, Disconnect(t, label),
         rejected' \in BOOLEAN, hot' \in Nat, signals' \in [Signals -> Nat],
         evidence' \subseteq Signals \X Nat, faults' \in 0..MaxFaults,
         UNCHANGED <<pending, gen, ids, life, stored, generationLock, admission>>
  PROVE  Control'
<1>1. t \in Tasks /\ t \notin Candidates /\ label \in Afters(t)
  BY TaskKinds DEF Candidates, Afters
<1>2. transport \in Sessions /\ {transport} \in SUBSET Sessions /\ admission = t
  BY <1>1, Standing DEF Control, TypeOK, Uses
<1>3. BeginClose(t, {transport}, label)
  BY DEF Disconnect
<1>4. /\ task' \in [Tasks -> Locals] /\ Moves(t) /\ Fits(t, task'[t])
      /\ session' \in [Sessions -> {"closed", "connecting", "open", "closing"}]
      /\ closeLock' \in Tasks \cup {Free}
  BY <1>1, <1>2, <1>3, CloseBegins
<1>5. TypeOK'
  BY <1>2, <1>4 DEF Control, TypeOK, Disconnect, Retain, None, ids, life
<1>6. Takes(t)
  BY DEF Takes
<1> QED BY <1>1, <1>2, <1>4, <1>5, <1>6, OneMoves

\* An operation at its device has a session as long as nobody took it away.
LEMMA ReadHasSession ==
  ASSUME Control, NEW t \in Operations, Using(t), ~LostSession(t)
  PROVE  /\ t \in Tasks /\ task[t].pc = "read" /\ transport = task[t].cand
         /\ transport \in Sessions /\ transport # None
<1>1. t \in Tasks /\ task[t].pc = "read" /\ transport = task[t].cand
  BY TaskKinds DEF Using, Runs, At, LostSession
<1>2. transport \in Sessions
  BY <1>1, Standing DEF Fits
<1> QED BY <1>1, <1>2, LimitsPositive DEF Sessions, None

LEMMA GenerationDiesControl == ASSUME Control, GenerationDies PROVE Control'
<1>1. "poll" \in Operations /\ faults' \in 0..MaxFaults
  BY FaultTyped DEF Operations, GenerationDies
<1>2. task["poll"].pc = "read" /\ transport # None
  BY <1>1, ReadHasSession DEF GenerationDies
<1>3. /\ rejected' \in BOOLEAN /\ hot' \in Nat /\ signals' \in [Signals -> Nat]
      /\ evidence' \subseteq Signals \X Nat
  BY DEF GenerationDies, Control, TypeOK, fatal
<1>4. /\ Disconnect("poll", "dead")
      /\ UNCHANGED <<pending, gen, ids, life, stored, generationLock, admission>>
  BY DEF GenerationDies
<1> QED BY <1>1, <1>2, <1>3, <1>4, DisconnectControl

LEMMA FatalEvidenceControl ==
  ASSUME Control, NEW t \in Operations, FatalEvidence(t) PROVE Control'
<1>1. faults' \in 0..MaxFaults /\ generation \in Nat
  BY FaultTyped DEF FatalEvidence, Control, TypeOK
<1>2. task[t].pc = "read" /\ transport # None
  BY ReadHasSession DEF FatalEvidence
<1>3. PICK e \in Signals :
        /\ Record(e, generation)
        /\ rejected' = (rejected \/ Confirms(e, generation))
        /\ Disconnect(t, IF Confirms(e, generation) THEN "refused" ELSE "doubted")
  BY DEF FatalEvidence
<1>4. /\ signals' \in [Signals -> Nat] /\ evidence' \subseteq Signals \X Nat
  BY <1>1, <1>3, RecordTyped
<1>5. rejected' \in BOOLEAN /\ hot' \in Nat
  BY <1>3 DEF FatalEvidence, Control, TypeOK, count, Confirms
<1>6. UNCHANGED <<pending, gen, ids, life, stored, generationLock, admission>>
  BY DEF FatalEvidence, count
<1>7. \E label \in {"dead", "doubted", "refused"} : Disconnect(t, label)
  BY <1>3
<1> QED BY <1>1, <1>2, <1>4, <1>5, <1>6, <1>7, DisconnectControl

\* A disconnect is over; besides the operation the loop may start.
LEMMA LoopStarts ==
  ASSUME Control, NEW t \in Operations, EndEnsuringReconnect(t)
  PROVE  /\ task' \in [Tasks -> Locals] /\ "reconnect" \in Tasks \ {t}
         /\ \A u \in Tasks \ {t, "reconnect"} : task'[u] = task[u]
         /\ task'[t] = Idle
         /\ \/ task'["reconnect"] = task["reconnect"]
            \/ /\ ~down /\ ~Busy("reconnect")
               /\ task'["reconnect"] = [Idle EXCEPT !.pc = "loop"]
<1>1. /\ t \in Tasks /\ "reconnect" \in Tasks /\ t # "reconnect"
      /\ "loop" \in Places("reconnect") /\ "idle" \in Places(t)
  BY TaskKinds DEF Attempters, Candidates, Places
<1>2. [Idle EXCEPT !.pc = "loop"] \in Locals /\ task \in [Tasks -> Locals]
  BY <1>1, IdleFits, Standing
<1> QED BY <1>1, <1>2, IdleIsIdle DEF EndEnsuringReconnect

LEMMA DisconnectedControl ==
  ASSUME Control, NEW t \in Operations, Disconnected(t) PROVE Control'
<1>1. t \in Tasks /\ admission = t /\ admission' = Free /\ t \notin Candidates
  BY TaskKinds, Standing DEF Disconnected, Uses, Candidates
<1>2. UNCHANGED <<own, wire, ids, life, told, count, fatal, generationLock,
                  closeLock, faults>>
  BY DEF Disconnected
<1>3. CASE End(t)
  <2>1. /\ available' \in BOOLEAN /\ hot' \in Nat /\ signals' \in [Signals -> Nat]
        /\ evidence' \subseteq Signals \X Nat /\ faults' \in 0..MaxFaults
        /\ closeLock' \in Tasks \cup {Free}
    BY <1>2 DEF Control, TypeOK, told, count, fatal
  <2>2. UNCHANGED <<own, wire, ids, life, rejected, stored, generationLock>>
    BY <1>2 DEF told, count
  <2> QED BY <1>1, <1>3, <2>1, <2>2, OperationRests
<1>4. CASE EndEnsuringReconnect(t)
  <2>1. /\ task' \in [Tasks -> Locals] /\ "reconnect" \in Tasks
        /\ \A u \in Tasks \ {t, "reconnect"} : task'[u] = task[u]
        /\ task'[t] = Idle
        /\ \/ task'["reconnect"] = task["reconnect"]
           \/ task'["reconnect"] = [Idle EXCEPT !.pc = "loop"]
    BY <1>4, LoopStarts
  <2>2. TypeOK'
    BY <1>1, <1>2, <2>1 DEF Control, TypeOK, own, wire, ids, life, told, count, fatal
  <2>3. /\ Fits(t, Idle) /\ ~Generates(Idle) /\ ~Uses(Idle)
    BY <1>1, IdleIsIdle
  <2>4. \/ task'["reconnect"] = task["reconnect"]
        \/ /\ Fits("reconnect", task'["reconnect"]) /\ ~Generates(task'["reconnect"])
           /\ ~Uses(task'["reconnect"])
    <3>1. "loop" \in Places("reconnect")
      BY TaskKinds DEF Places, Attempters
    <3> QED BY <2>1, <3>1, IdleFits
  <2>5. \A u \in Tasks : Fits(u, task'[u])
    BY <2>1, <2>3, <2>4 DEF Control
  <2>6. \A u \in Candidates : Generates(task'[u]) => generationLock' = u
    BY <1>1, <1>2, <2>1, <2>4, TaskKinds DEF Control
  <2>7. \A u \in Tasks : Uses(task'[u]) => admission' = u
    BY <1>1, <2>1, <2>3, <2>4 DEF Control
  <2>8. (\A u \in Tasks : Fits(u, task[u]))'
    BY <2>5 DEF Fits, Carries, Holding, Activating
  <2> QED BY <2>2, <2>6, <2>7, <2>8 DEF Control, Generates, Uses
<1> QED BY <1>3, <1>4 DEF Disconnected

LEMMA OperationCancelledControl ==
  ASSUME Control, NEW t \in Operations, OperationCancelled(t) PROVE Control'
<1>1. /\ available' \in BOOLEAN /\ hot' \in Nat /\ signals' \in [Signals -> Nat]
      /\ evidence' \subseteq Signals \X Nat /\ faults' \in 0..MaxFaults
      /\ closeLock' \in Tasks \cup {Free}
  BY LockLeft DEF OperationCancelled, Control, TypeOK, told, count, fatal
<1>2. /\ End(t)
      /\ admission' = admission \/ (admission = t /\ admission' = Free)
      /\ UNCHANGED <<own, wire, ids, life, rejected, stored, generationLock>>
  BY DEF OperationCancelled, told, count
<1> QED BY <1>1, <1>2, OperationRests
-----------------------------------------------------------------------------
(* Control: closing *)

\* One transport less to close, or the close is over.
LEMMA NextToClose ==
  ASSUME Control, NEW t \in Tasks, NEW s, NEW ok \in BOOLEAN,
         task[t].pc = "closing", CloseNext(t, s, ok)
  PROVE  /\ task' \in [Tasks -> Locals] /\ Moves(t) /\ Fits(t, task'[t])
         /\ task'[t].todo = task[t].todo \ {s}
         /\ task'[t].clean = (task[t].clean /\ ok)
         /\ task'[t].cand = task[t].cand /\ task'[t].after = task[t].after
         /\ task'[t].cancel = task[t].cancel
         /\ task'[t].pc = IF task'[t].todo = {} THEN task[t].after ELSE "closing"
         /\ Uses(task'[t]) => Uses(task[t])
         /\ closeLock' \in Tasks \cup {Free}
<1>1. /\ task[t] \in Locals /\ Fits(t, task[t]) /\ task \in [Tasks -> Locals]
      /\ task[t].after \in Afters(t)
  BY Standing DEF Fits
<1> DEFINE left == task[t].todo \ {s}
           pc == IF left = {} THEN task[t].after ELSE task[t].pc
           clean == task[t].clean /\ ok
<1>2. /\ left \in SUBSET Sessions /\ pc \in Labels /\ clean \in BOOLEAN
  BY <1>1 DEF Locals
<1>3. task' = [task EXCEPT ![t].todo = left, ![t].clean = clean, ![t].pc = pc]
  BY DEF CloseNext
<1>4. pc = IF left = {} THEN task[t].after ELSE "closing"
  OBVIOUS
<1> HIDE DEF left, pc, clean
<1>5. /\ task' \in [Tasks -> Locals] /\ Moves(t) /\ task'[t].todo = left
      /\ task'[t].clean = clean /\ task'[t].pc = pc
      /\ task'[t].cand = task[t].cand /\ task'[t].after = task[t].after
      /\ task'[t].cancel = task[t].cancel
  BY <1>1, <1>2, <1>3 DEF Locals, Moves
<1>6. Fits(t, task'[t])
  <2>1. pc \in Places(t)
    BY <1>1, <1>4, TaskKinds DEF Places, Afters, Fits
  <2>2. /\ t \in Candidates => task[t].after \in {"drained", "activate", "failed",
                                                    "abandoned", "swept"}
        /\ t \in Operations => t \notin Candidates /\ pc # "read"
    BY <1>1, <1>4, TaskKinds DEF Afters, Candidates
  <2>3. t \in Candidates /\ Carries(task'[t]) => task[t].cand \in Sessions
    BY <1>1, <1>4, <1>5, <2>2 DEF Fits, Carries, Holding, Activating
  <2> QED BY <1>1, <1>4, <1>5, <2>1, <2>2, <2>3 DEF Fits
<1>7. Uses(task'[t]) => Uses(task[t])
  BY <1>1, <1>4, <1>5, TaskKinds DEF Uses, Afters
<1>8. closeLock' \in Tasks \cup {Free}
  BY DEF CloseNext
<1> QED BY <1>4, <1>5, <1>6, <1>7, <1>8 DEF left, clean

LEMMA ClosesControl ==
  ASSUME Control, NEW t \in Tasks, NEW s, NEW ok \in BOOLEAN,
         task[t].pc = "closing", CloseNext(t, s, ok),
         session' \in [Sessions -> {"closed", "connecting", "open", "closing"}],
         transport' \in {transport, None}, pending' \in {pending, None},
         retired' \subseteq retired, faults' \in 0..MaxFaults,
         UNCHANGED <<gen, ids, life, told, count, fatal, generationLock, admission>>
  PROVE  Control'
<1>1. /\ task' \in [Tasks -> Locals] /\ Moves(t) /\ Fits(t, task'[t])
      /\ Uses(task'[t]) => Uses(task[t])
      /\ closeLock' \in Tasks \cup {Free}
  BY NextToClose
<1>2. Takes(t)
  BY DEF Takes
<1>3. /\ t \in Candidates => generationLock = t
      /\ Uses(task[t]) => admission = t
  BY Standing DEF Generates
<1>4. TypeOK'
  BY <1>1 DEF Control, TypeOK, ids, life, told, count, fatal
<1> QED BY <1>1, <1>2, <1>3, <1>4, OneMoves

LEMMA CloseControl ==
  ASSUME Control, NEW t \in Tasks, CloseStep(t) PROVE Control'
<1>1. CASE TakeCloseLock(t)
  <2>1. /\ session' \in [Sessions -> {"closed", "connecting", "open", "closing"}]
    BY <1>1 DEF TakeCloseLock, MarkClosing, Control, TypeOK
  <2>2. TypeOK' /\ UNCHANGED <<task, generationLock, admission>>
    BY <1>1, <2>1 DEF TakeCloseLock, Control, TypeOK, own, ids, life, told, count, fatal
  <2> QED BY <2>2 DEF Control, Fits, Carries, Holding, Activating, Generates, Uses
<1>2. CASE Closed(t)
  <2>1. PICK s \in task[t].todo :
          /\ session' = [session EXCEPT ![s] = "closed"]
          /\ transport' = IF transport = s THEN None ELSE transport
          /\ pending' = IF pending = s THEN None ELSE pending
          /\ retired' = retired \ {s}
          /\ CloseNext(t, s, TRUE)
    BY <1>2 DEF Closed
  <2>2. session' \in [Sessions -> {"closed", "connecting", "open", "closing"}]
    BY <2>1 DEF Control, TypeOK
  <2>3. /\ task[t].pc = "closing" /\ faults' \in 0..MaxFaults
        /\ UNCHANGED <<gen, ids, life, told, count, fatal, generationLock, admission>>
    BY <1>2 DEF Closed, Runs, At, Control, TypeOK
  <2> QED BY <2>1, <2>2, <2>3, ClosesControl
<1>3. CASE CloseFails(t)
  <2>1. PICK s \in task[t].todo : CloseNext(t, s, FALSE)
    BY <1>3 DEF CloseFails
  <2>2. /\ task[t].pc = "closing" /\ faults' \in 0..MaxFaults
        /\ UNCHANGED <<own, wire, ids, life, told, count, fatal, generationLock,
                       admission>>
    BY <1>3, FaultTyped DEF CloseFails, Runs, At
  <2>3. /\ session' \in [Sessions -> {"closed", "connecting", "open", "closing"}]
        /\ transport' \in {transport, None} /\ pending' \in {pending, None}
        /\ retired' \subseteq retired /\ UNCHANGED gen
    BY <2>2 DEF Control, TypeOK, own, wire
  <2> QED BY <2>1, <2>2, <2>3, ClosesControl
<1> QED BY <1>1, <1>2, <1>3 DEF CloseStep

-----------------------------------------------------------------------------
(* Control: cancellation, shutdown, notifications *)

\* Tasks are told to stop where they stand.
LEMMA FlagsControl ==
  ASSUME Control, task' \in [Tasks -> Locals],
         \A u \in Tasks :
           /\ task'[u].cand = task[u].cand /\ task'[u].todo = task[u].todo
           /\ task'[u].after = task[u].after
           /\ \/ task'[u].pc = task[u].pc
              \/ /\ u = "shutdown"
                 /\ task'[u].pc \in {"stop", "join"}
                 /\ task[u].pc \in {"idle", "stop"},
         epoch' \in Nat, down' \in BOOLEAN, scheduler' \in BOOLEAN,
         faults' \in 0..MaxFaults,
         UNCHANGED <<own, wire, ids, told, count, fatal, locks>>
  PROVE  Control'
<1>1. TypeOK'
  BY DEF Control, TypeOK, own, wire, ids, told, count, fatal, locks
<1>2. ASSUME NEW u \in Tasks
      PROVE  /\ Fits(u, task'[u])
             /\ u \in Candidates /\ Generates(task'[u]) => generationLock = u
             /\ Uses(task'[u]) => admission = u
  <2>1. /\ Fits(u, task[u]) /\ task'[u] \in Locals
        /\ u \in Candidates /\ Generates(task[u]) => generationLock = u
        /\ Uses(task[u]) => admission = u
    BY Standing
  <2>2. CASE task'[u].pc = task[u].pc
    BY <2>1, <2>2 DEF Fits, Carries, Holding, Activating, Generates, Uses
  <2>3. CASE task'[u].pc # task[u].pc
    <3>1. /\ u = "shutdown" /\ task'[u].pc \in {"stop", "join"}
          /\ task[u].pc \in {"idle", "stop"}
      BY <2>3
    <3>2. /\ u \notin Candidates /\ u \notin Operations
      BY <3>1, TaskKinds DEF Candidates
    <3> QED BY <2>1, <3>1, <3>2 DEF Fits, Places, Uses
  <2> QED BY <2>2, <2>3
<1>3. (\A u \in Tasks : Fits(u, task[u]))'
  BY <1>2 DEF Fits, Carries, Holding, Activating
<1> QED BY <1>1, <1>2, <1>3, TaskKinds DEF Control, locks, Generates, Uses

LEMMA CancelControl ==
  ASSUME Control, NEW t \in Tasks, CallerCancels(t) PROVE Control'
<1>1. task' = [task EXCEPT ![t].cancel = TRUE] /\ task \in [Tasks -> Locals]
  BY Standing DEF CallerCancels
<1>2. /\ task' \in [Tasks -> Locals]
      /\ \A u \in Tasks :
           /\ task'[u].cand = task[u].cand /\ task'[u].todo = task[u].todo
           /\ task'[u].after = task[u].after /\ task'[u].pc = task[u].pc
  BY <1>1 DEF Locals
<1>3. /\ epoch' \in Nat /\ down' \in BOOLEAN /\ scheduler' \in BOOLEAN
      /\ faults' \in 0..MaxFaults
      /\ UNCHANGED <<own, wire, ids, told, count, fatal, locks>>
  BY FaultTyped DEF CallerCancels, life, Control, TypeOK
<1> QED BY <1>2, <1>3, FlagsControl

LEMMA BeginShutdownControl == ASSUME Control, BeginShutdown PROVE Control'
<1>1. /\ task' = [task EXCEPT !["shutdown"].pc = "stop"] /\ "shutdown" \in Tasks
      /\ task["shutdown"].pc = "idle" /\ "stop" \in Labels
      /\ task \in [Tasks -> Locals]
  BY TaskKinds, Standing DEF BeginShutdown, At, Labels
<1>2. /\ task' \in [Tasks -> Locals]
      /\ \A u \in Tasks :
           /\ task'[u].cand = task[u].cand /\ task'[u].todo = task[u].todo
           /\ task'[u].after = task[u].after
           /\ \/ task'[u].pc = task[u].pc
              \/ u = "shutdown" /\ task'[u].pc = "stop"
  BY <1>1 DEF Locals
<1>3. /\ epoch' \in Nat /\ down' \in BOOLEAN /\ scheduler' \in BOOLEAN
      /\ faults' \in 0..MaxFaults
      /\ UNCHANGED <<own, wire, ids, told, count, fatal, locks>>
  BY DEF BeginShutdown, Control, TypeOK
<1> QED BY <1>1, <1>2, <1>3, FlagsControl

LEMMA StopControl == ASSUME Control, Stop PROVE Control'
<1>1. /\ "shutdown" \in Tasks /\ task["shutdown"].pc = "stop"
      /\ "join" \in Labels /\ task \in [Tasks -> Locals]
  BY TaskKinds, Standing DEF Stop, At, Labels
<1>2. task' = [t \in Tasks |->
                 IF t = "shutdown" THEN [task[t] EXCEPT !.pc = "join"]
                 ELSE IF Busy(t) THEN [task[t] EXCEPT !.cancel = TRUE]
                 ELSE task[t]]
  BY DEF Stop
<1>3. ASSUME NEW u \in Tasks
      PROVE  /\ task'[u] \in Locals
             /\ task'[u].cand = task[u].cand /\ task'[u].todo = task[u].todo
             /\ task'[u].after = task[u].after
             /\ \/ task'[u].pc = task[u].pc
                \/ u = "shutdown" /\ task'[u].pc = "join" /\ task[u].pc = "stop"
  <2>1. task[u] \in Locals
    BY <1>1
  <2>2. CASE u = "shutdown"
    <3>1. task'[u] = [task[u] EXCEPT !.pc = "join"]
      BY <1>2, <2>2
    <3> QED BY <1>1, <2>1, <2>2, <3>1 DEF Locals
  <2>3. CASE u # "shutdown" /\ Busy(u)
    <3>1. task'[u] = [task[u] EXCEPT !.cancel = TRUE]
      BY <1>2, <2>3
    <3> QED BY <2>1, <3>1 DEF Locals
  <2>4. CASE u # "shutdown" /\ ~Busy(u)
    BY <1>2, <2>1, <2>4
  <2> QED BY <2>2, <2>3, <2>4
<1>4. task' \in [Tasks -> Locals]
  BY <1>2, <1>3
<1>5. /\ epoch' \in Nat /\ down' \in BOOLEAN /\ scheduler' \in BOOLEAN
      /\ faults' \in 0..MaxFaults
      /\ UNCHANGED <<own, wire, ids, told, count, fatal, locks>>
  BY DEF Stop, Control, TypeOK
<1> QED BY <1>3, <1>4, <1>5, FlagsControl

LEMMA NothingToClose ==
  ASSUME Control, NEW t \in Tasks, NEW label \in Labels,
         task' = [task EXCEPT ![t].pc = label, ![t].clean = TRUE]
  PROVE  /\ task' \in [Tasks -> Locals] /\ Moves(t) /\ task'[t].pc = label
         /\ task'[t].todo = task[t].todo
<1>1. task \in [Tasks -> Locals]
  BY Standing
<1> QED BY <1>1 DEF Locals, Moves

LEMMA JoinControl == ASSUME Control, Join PROVE Control'
<1>1. /\ "shutdown" \in Tasks /\ "shutdown" \notin Candidates
      /\ "shutdown" \notin Operations
  BY TaskKinds DEF Candidates
<1>2. /\ task' \in [Tasks -> Locals] /\ Moves("shutdown")
      /\ Fits("shutdown", task'["shutdown"])
      /\ session' \in [Sessions -> {"closed", "connecting", "open", "closing"}]
      /\ closeLock' \in Tasks \cup {Free} /\ ~Uses(task'["shutdown"])
  <2>1. CASE Collected = {}
    <3>1. /\ task' = [task EXCEPT !["shutdown"].pc = "swept",
                                  !["shutdown"].clean = TRUE]
          /\ UNCHANGED <<session, closeLock>>
      BY <2>1 DEF Join
    <3>2. /\ task["shutdown"].todo = {} /\ task \in [Tasks -> Locals]
          /\ "swept" \in Labels
      BY <1>1, Standing DEF Labels, Join, At
    <3>3. /\ task' \in [Tasks -> Locals] /\ Moves("shutdown")
          /\ task'["shutdown"].todo = {} /\ task'["shutdown"].pc = "swept"
      BY <1>1, <3>1, <3>2, NothingToClose
    <3>4. Fits("shutdown", task'["shutdown"]) /\ ~Uses(task'["shutdown"])
      BY <1>1, <3>3 DEF Fits, Places, Uses
    <3> QED BY <3>1, <3>3, <3>4 DEF Control, TypeOK
  <2>2. CASE Collected # {}
    <3>1. Collected \in SUBSET Sessions
      BY DEF Collected, Owned, Control, TypeOK
    <3>2. "swept" \in Afters("shutdown")
      BY <1>1 DEF Afters
    <3>3. BeginClose("shutdown", Collected, "swept")
      BY <2>2 DEF Join
    <3> QED BY <1>1, <3>1, <3>2, <3>3, CloseBegins DEF Uses
  <2> QED BY <2>1, <2>2
<1>3. TypeOK' /\ Takes("shutdown")
  BY <1>2 DEF Control, TypeOK, Join, own, ids, life, count, fatal, Takes
<1> QED BY <1>1, <1>2, <1>3, OneMoves

LEMMA ReturnsControl == ASSUME Control, ShutdownReturns PROVE Control'
<1>1. /\ "shutdown" \in Tasks /\ {"idle", "done"} \subseteq Places("shutdown")
  BY TaskKinds DEF Places
<1>2. /\ task' \in [Tasks -> Locals] /\ Moves("shutdown")
      /\ Fits("shutdown", task'["shutdown"])
      /\ ~Generates(task'["shutdown"]) /\ ~Uses(task'["shutdown"])
  <2>1. CASE task["shutdown"].clean
    <3>1. task' = [task EXCEPT !["shutdown"] = [Idle EXCEPT !.pc = "done"]]
      BY <2>1 DEF ShutdownReturns
    <3> QED BY <1>1, <3>1, Rests
  <2>2. CASE ~task["shutdown"].clean
    <3>1. task' = [task EXCEPT !["shutdown"] = Idle]
      BY <2>2 DEF ShutdownReturns
    <3> QED BY <1>1, <3>1, Rests
  <2> QED BY <2>1, <2>2
<1>3. TypeOK' /\ Takes("shutdown")
  BY <1>2 DEF Control, TypeOK, ShutdownReturns, own, wire, ids, life, told, count,
              fatal, locks, Takes
<1> QED BY <1>1, <1>2, <1>3, OneMoves

LEMMA ObserveControl == ASSUME Control, Observe PROVE Control'
<1>1. TypeOK' /\ UNCHANGED <<task, locks>>
  BY DEF Control, TypeOK, Observe, own, wire, ids, life, count, fatal, locks
<1> QED BY <1>1 DEF Control, Fits, Carries, Holding, Activating, Generates, Uses, locks

LEMMA StaysControl == ASSUME Control, UNCHANGED vars PROVE Control'
BY DEF Control, TypeOK, vars, own, wire, ids, life, told, count, fatal, locks,
       Fits, Carries, Holding, Activating, Generates, Uses

LEMMA InitControl == Init => Control
<1> SUFFICES ASSUME Init PROVE Control
  OBVIOUS
<1>1. TypeOK
  <2>1. task \in [Tasks -> Locals]
    BY IdleIsIdle DEF Init
  <2>2. /\ session \in [Sessions -> {"closed", "connecting", "open", "closing"}]
        /\ gen \in [Sessions -> Nat] /\ signals \in [Signals -> Nat]
        /\ evidence \subseteq Signals \X Nat
    BY DEF Init
  <2>3. /\ {transport, pending} \subseteq Sessions \cup {None}
        /\ retired \subseteq Sessions /\ faults \in 0..MaxFaults
    BY LimitsPositive DEF Init, None
  <2>4. {generationLock, admission, closeLock} \subseteq Tasks \cup {Free}
    BY DEF Init
  <2> QED BY <2>1, <2>2, <2>3, <2>4 DEF Init, TypeOK
<1>2. \A u \in Tasks : task[u] = Idle
  BY DEF Init
<1> QED BY <1>1, <1>2, IdleIsIdle, TaskKinds DEF Control

LEMMA NextControl == ASSUME Control, [Next]_vars PROVE Control'
<1>1. CASE StartStep
  BY <1>1, StartControl, ConnectControl, ConnectFailsControl, StartFailsControl
     DEF StartStep
<1>2. CASE Loop \/ Observe \/ BeginShutdown \/ Stopped
  BY <1>2, LoopControl, ObserveControl, BeginShutdownControl, StaysControl DEF Stopped
<1>3. CASE ShutdownStep
  BY <1>3, StopControl, JoinControl, ReturnsControl DEF ShutdownStep
<1>4. ASSUME NEW t \in Tasks, Admit(t) \/ CloseStep(t) \/ CallerCancels(t)
      PROVE  Control'
  BY <1>4, AdmitControl, CloseControl, CancelControl
<1>5. ASSUME NEW t \in Candidates, SeedStep(t) \/ CandidateCancelled(t)
      PROVE  Control'
  BY <1>5, SeedControl, CandidateCancelledControl
<1>6. CASE AttemptCancelled("start")
  BY <1>6, AttemptLeavesControl DEF Candidates
<1>7. ASSUME NEW t \in Attempters, AttemptStep(t) PROVE Control'
  BY <1>7, AttemptControl, DrainControl, DrainFailedControl, DialControl,
     DialledControl, DialFailsControl, AttemptFailsControl, AttemptLeavesControl
     DEF AttemptStep, Candidates
<1>8. ASSUME NEW t \in Operations, Submit(t) \/ OperationStep(t) PROVE Control'
  BY <1>8, SubmitControl, OvertakenControl, FatalEvidenceControl,
     DisconnectedControl, OperationCancelledControl, PollSucceedsControl,
     PollFailsControl, GenerationDiesControl, CommandEndsControl
     DEF OperationStep
<1> QED BY <1>1, <1>2, <1>3, <1>4, <1>5, <1>6, <1>7, <1>8, StaysControl
        DEF Next, Candidates

\* Every variable keeps its type: the fields of WindFreeCoordinator and the
\* locals of its tasks (coordinator.py).
THEOREM TypeCorrect == Spec => []TypeOK
<1>1. Init => Control
  BY InitControl
<1>2. Control /\ [Next]_vars => Control'
  BY NextControl
<1>3. Control => TypeOK
  BY DEF Control
<1> QED BY <1>1, <1>2, <1>3, PTL DEF Spec

-----------------------------------------------------------------------------
(* Evidence of a rejection *)

LEMMA RecordRemembered ==
  ASSUME Control, Remembered, NEW e, NEW g \in Nat, Record(e, g)
  PROVE  /\ Remembered'
         /\ Confirms(e, g) => \E p, q \in evidence' :
                                p[1] = e /\ q[1] = e /\ p[2] # q[2]
<1>1. Remembered'
  BY DEF Record, Remembered, Control, TypeOK
<1>2. ASSUME Confirms(e, g)
      PROVE  \E p, q \in evidence' : p[1] = e /\ q[1] = e /\ p[2] # q[2]
  <2>1. /\ <<e, signals[e]>> \in evidence' /\ <<e, g>> \in evidence'
        /\ signals[e] # g
    BY <1>2 DEF Confirms, Record, Remembered
  <2> QED BY <2>1
<1> QED BY <1>1, <1>2

\* A rejection rests on two generations.
Proven ==
  ~rejected /\ rejected' =>
    \E e \in Signals : \E p, q \in evidence' :
      p[1] = e /\ q[1] = e /\ p[2] # q[2]

LEMMA FailureRemembered ==
  ASSUME Control, Remembered, NEW e, NEW g \in Nat, NEW advance, Failure(e, g, advance)
  PROVE  Remembered' /\ Proven
<1>1. Record(e, g) /\ rejected' = (rejected \/ Confirms(e, g))
  BY DEF Failure
<1>2. Confirms(e, g) => e \in Signals
  BY DEF Confirms
<1> QED BY <1>1, <1>2, RecordRemembered DEF Proven

LEMMA QuietRemembered ==
  ASSUME Remembered, UNCHANGED fatal, rejected' = rejected
  PROVE  Remembered' /\ Proven
BY DEF Remembered, Proven, fatal

LEMMA NextRemembered ==
  ASSUME Control, Remembered, [Next]_vars PROVE Remembered' /\ Proven
<1> USE QuietRemembered
<1>1. CASE StartStep
  BY <1>1 DEF StartStep, Start, Connect, ConnectFails, StartFails, told
<1>2. CASE Loop \/ Observe \/ BeginShutdown \/ ShutdownStep
  BY <1>2 DEF Loop, Observe, BeginShutdown, ShutdownStep, Stop, Join,
              ShutdownReturns, told
<1>3. CASE Stopped \/ UNCHANGED vars
  BY <1>3 DEF Stopped, vars, told
<1>4. ASSUME NEW t \in Tasks, Admit(t) \/ CloseStep(t) \/ CallerCancels(t)
      PROVE  Remembered' /\ Proven
  BY <1>4 DEF Admit, Gone, CloseStep, TakeCloseLock, Closed, CloseFails, CallerCancels, told
<1>5. ASSUME NEW t \in Candidates, SeedStep(t) \/ CandidateCancelled(t)
      PROVE  Remembered' /\ Proven
  BY <1>5 DEF SeedStep, SeedActivates, SeedReplaces, ReplacementActivates,
              ReplacementFails, SeedOvertaken, SeedFails, CandidateCancelled, told
<1>6. CASE AttemptCancelled("start")
  BY <1>6 DEF AttemptCancelled, told
<1>7. ASSUME NEW t \in Attempters, AttemptStep(t) PROVE Remembered' /\ Proven
  <2>1. CASE \/ Attempt(t) \/ Drain(t) \/ Dial(t) \/ Dialled(t)
             \/ CandidateAbandoned(t) \/ AttemptCancelled(t)
    BY <2>1 DEF Attempt, Drain, Dial, Dialled, CandidateAbandoned,
                AttemptCancelled, told
  <2>2. CASE DrainFailed(t)
    BY <2>2, LargerTyped, FailureRemembered DEF DrainFailed
  <2>3. CASE DialFails(t) \/ DiscoverFails(t) \/ CandidateFailed(t)
    <3>1. task[t].pc \in {"dial", "discover", "failed"}
      BY <2>3 DEF DialFails, DiscoverFails, CandidateFailed, Runs, At
    <3>2. t \in Candidates /\ t \in Tasks /\ Carries(task[t])
      BY <3>1, TaskKinds DEF Candidates, Carries, Holding
    <3>3. gen[task[t].cand] \in Nat
      BY <3>2, Standing DEF Fits, Control, TypeOK
    <3>4. \/ \E e \in Errors : Failure(e, gen[task[t].cand], TRUE)
          \/ \E e \in Errors : Failure(e, gen[task[t].cand], FALSE)
          \/ Failure(task[t].error, gen[task[t].cand], TRUE)
      BY <2>3 DEF DialFails, DiscoverFails, CandidateFailed
    <3> QED BY <3>3, <3>4, FailureRemembered
  <2> QED BY <1>7, <2>1, <2>2, <2>3 DEF AttemptStep
<1>8. ASSUME NEW t \in Operations, Submit(t) \/ OperationStep(t)
      PROVE  Remembered' /\ Proven
  <2>1. CASE \/ Submit(t) \/ OperationOvertaken(t) \/ Disconnected(t)
             \/ OperationCancelled(t) \/ CommandEnds(t) \/ PollFails
             \/ GenerationDies
    BY <2>1 DEF Submit, OperationOvertaken, Disconnected, OperationCancelled,
                CommandEnds, PollFails, GenerationDies, told
  <2>2. CASE PollSucceeds
    <3>1. UNCHANGED fatal \/ signals' = [c \in Signals |-> 0]
      BY <2>2 DEF PollSucceeds
    <3>2. rejected' = rejected
      BY <2>2 DEF PollSucceeds
    <3> QED BY <3>1, <3>2 DEF Remembered, Proven
  <2>3. CASE FatalEvidence(t)
    <3>1. PICK e \in Signals : /\ Record(e, generation)
                               /\ rejected' = (rejected \/ Confirms(e, generation))
      BY <2>3 DEF FatalEvidence
    <3>2. generation \in Nat
      BY DEF Control, TypeOK
    <3> QED BY <3>1, <3>2, RecordRemembered DEF Proven
  <2> QED BY <1>8, <2>1, <2>2, <2>3 DEF OperationStep
<1> QED BY <1>1, <1>2, <1>3, <1>4, <1>5, <1>6, <1>7, <1>8 DEF Next, Candidates

\* Credentials are rejected only after the same signal in two generations with
\* no lasting generation between them (_record_fatal_signal and the poll that
\* clears what it remembers).
THEOREM Rejection == Spec => TwoGenerationsToReject
<1>1. Init => Control /\ Remembered
  BY InitControl DEF Init, Remembered
<1>2. Control /\ Remembered /\ [Next]_vars => (Control /\ Remembered)' /\ Proven
  BY NextControl, NextRemembered
<1>3. Proven => (~rejected /\ rejected' =>
                   \E e \in Signals : \E p, q \in evidence' :
                     p[1] = e /\ q[1] = e /\ p[2] # q[2])
  BY DEF Proven
<1> QED BY <1>1, <1>2, <1>3, PTL DEF Spec, TwoGenerationsToReject
-----------------------------------------------------------------------------
(* Edges: before start, and while shutdown closes what is left *)

\* Before async_start nothing happens.
Fresh ==
  At("start", "idle") =>
    /\ ~scheduler /\ Unclosed = {}
    /\ \A u \in Operations \cup Attempters : At(u, "idle")

\* Shutdown closes only when it has joined every other task.
Joined ==
  /\ ~At("shutdown", "idle") => down
  /\ task["shutdown"].pc \in {"closing", "swept", "done"} =>
       \A u \in Tasks \ {"shutdown"} : ~Busy(u)

Edges == Fresh /\ Joined

\* A task other than shutdown that was busy makes a step.
Worked(t) ==
  /\ Busy(t) /\ down' = down
  /\ \A u \in Tasks \ {t} : task'[u] = task[u] \/ (u = "reconnect" /\ t \in Operations)
  /\ t # "start" => scheduler' = scheduler
  /\ t = "start" => task'["start"].pc # "idle"

LEMMA WorkedEdges ==
  ASSUME Control, Edges, NEW t \in Tasks \ {"shutdown"}, Worked(t)
  PROVE  Edges'
<1>1. "shutdown" # "reconnect" /\ "start" # "reconnect" /\ {"start", "shutdown"} \subseteq Tasks
  BY TaskKinds DEF Candidates
<1>2. Fresh'
  <2>1. SUFFICES ASSUME task'["start"].pc = "idle" PROVE FALSE
    BY DEF Fresh, At
  <2>2. t # "start" /\ task["start"].pc = "idle"
    BY <1>1, <2>1 DEF Worked
  <2>3. t \in Operations \cup Attempters
    BY <2>2, TaskKinds DEF Candidates
  <2> QED BY <2>2, <2>3 DEF Edges, Fresh, At, Worked, Busy
<1>3. Joined'
  <2>1. task'["shutdown"] = task["shutdown"] /\ down' = down
    BY <1>1 DEF Worked
  <2>2. task["shutdown"].pc \notin {"closing", "swept", "done"}
    BY DEF Worked, Edges, Joined
  <2> QED BY <2>1, <2>2 DEF Edges, Joined, At
<1> QED BY <1>2, <1>3 DEF Edges

\* Only t's locals change.
LEMMA Others ==
  ASSUME Control, NEW t \in Tasks, NEW l, task' = [task EXCEPT ![t] = l]
  PROVE  Moves(t) /\ task'[t] = l
BY DEF Control, TypeOK, Moves

LEMMA StartWorks == ASSUME Control, StartStep, ~Start PROVE Worked("start")
<1>1. "start" \in Tasks
  BY TaskKinds DEF Candidates
<1>2. task \in [Tasks -> Locals] /\ "start" \notin Operations
  BY <1>1, Standing, TaskKinds
<1>3. Busy("start") /\ down' = down
  BY DEF StartStep, Connect, ConnectFails, StartFails, Runs, At, Busy, life
<1>4. Moves("start") /\ task'["start"].pc # "idle"
  <2>1. CASE Connect
    BY <1>1, <1>2, <2>1 DEF Connect, Moves, Locals
  <2>2. CASE ConnectFails
    BY <1>1, <1>2, <2>2 DEF ConnectFails, BeginClose, Moves, Locals
  <2>3. CASE StartFails
    BY <1>1, <1>2, <2>3 DEF StartFails, Moves, Idle
  <2> QED BY <2>1, <2>2, <2>3 DEF StartStep
<1> QED BY <1>2, <1>3, <1>4 DEF Worked, Moves

LEMMA SeedWorks == ASSUME Control, NEW t \in Candidates, SeedStep(t) PROVE Worked(t)
<1>1. t \in Tasks /\ task \in [Tasks -> Locals]
  BY Standing, TaskKinds
<1>2. Busy(t) /\ down' = down /\ (t # "start" => scheduler' = scheduler)
  BY DEF SeedStep, SeedActivates, SeedReplaces, ReplacementActivates,
         ReplacementFails, SeedOvertaken, SeedFails, Seeding, Runs, At, Busy, life,
         Publish
<1>3. Moves(t) /\ task'[t].pc \in {"closing", "loop", "done"}
  <2>1. CASE Publish(t)
    BY <1>1, <2>1 DEF Publish, EndAttempt, Moves, Idle
  <2>2. CASE \E S, label : BeginClose(t, S, label)
    BY <1>1, <2>2 DEF BeginClose, Moves, Locals
  <2>3. CASE SeedFails(t)
    BY <1>1, <2>3 DEF SeedFails, Moves, Locals
  <2> QED BY <2>1, <2>2, <2>3 DEF SeedStep, SeedActivates, SeedReplaces,
             ReplacementActivates, ReplacementFails, SeedOvertaken, DropCandidate
<1> QED BY <1>2, <1>3 DEF Worked, Moves

LEMMA AttemptWorks ==
  ASSUME Control, NEW t \in Attempters, AttemptStep(t), ~Attempt(t) PROVE Worked(t)
<1>1. t \in Tasks /\ task \in [Tasks -> Locals] /\ t # "start" /\ t \notin Operations
  BY Standing, TaskKinds DEF Candidates
<1>2. Busy(t) /\ down' = down /\ scheduler' = scheduler
  BY <1>1 DEF AttemptStep, Drain, DrainFailed, Dial, Dialled, DialFails, DiscoverFails,
         CandidateFailed, CandidateAbandoned, AttemptCancelled, Cancelled, Runs, At,
         Busy, life
<1>3. Moves(t)
  BY <1>1 DEF AttemptStep, Drain, DrainFailed, Dial, Dialled, DialFails, DiscoverFails,
         CandidateFailed, CandidateAbandoned, AttemptCancelled, LeaveAttempt,
         EndAttempt, BeginClose, Open, Moves
<1> QED BY <1>1, <1>2, <1>3 DEF Worked, Moves

LEMMA CancelledWorks ==
  ASSUME Control, NEW t \in Candidates,
         CandidateCancelled(t) \/ (t = "start" /\ AttemptCancelled(t))
  PROVE  Worked(t)
<1>1. t \in Tasks /\ task \in [Tasks -> Locals]
  BY Standing, TaskKinds
<1>2. Busy(t) /\ down' = down /\ scheduler' = scheduler
  BY DEF CandidateCancelled, AttemptCancelled, Cancelled, At, Busy, life
<1>3. Moves(t) /\ task'[t].pc \in {"closing", "done"}
  <2>1. CASE CandidateCancelled(t)
    BY <1>1, <2>1 DEF CandidateCancelled, Moves, Locals
  <2>2. CASE t = "start" /\ AttemptCancelled(t)
    BY <1>1, <2>2 DEF AttemptCancelled, LeaveAttempt, Moves, Idle
  <2> QED BY <2>1, <2>2
<1> QED BY <1>2, <1>3 DEF Worked, Moves

LEMMA OperationWorks ==
  ASSUME Control, NEW t \in Operations, OperationStep(t) PROVE Worked(t)
<1>1. t \in Tasks /\ task \in [Tasks -> Locals] /\ t # "start"
  BY Standing, TaskKinds DEF Candidates
<1>2. Busy(t) /\ down' = down /\ scheduler' = scheduler
  BY DEF OperationStep, OperationOvertaken, FatalEvidence, Disconnected,
         OperationCancelled, PollSucceeds, PollFails, GenerationDies, CommandEnds,
         Using, Cancelled, Runs, At, Busy, life
<1>3. CASE Disconnected(t)
  <2>1. End(t) \/ EndEnsuringReconnect(t)
    BY <1>3 DEF Disconnected
  <2>2. \A u \in Tasks \ {t} : task'[u] = task[u] \/ u = "reconnect"
    BY <1>1, <2>1, LoopStarts DEF End
  <2> QED BY <1>1, <1>2, <2>2 DEF Worked
<1>4. CASE ~Disconnected(t)
  <2>1. End(t) \/ \E S, label : BeginClose(t, S, label)
    BY <1>4 DEF OperationStep, OperationOvertaken, FatalEvidence, OperationCancelled,
            PollSucceeds, PollFails, GenerationDies, CommandEnds, Finish, Disconnect
  <2>2. Moves(t)
    BY <1>1, <2>1 DEF End, BeginClose, Moves
  <2> QED BY <1>1, <1>2, <2>2 DEF Worked, Moves
<1> QED BY <1>3, <1>4

LEMMA CommonWorks ==
  ASSUME Control, NEW t \in Tasks \ {"shutdown"},
         Admit(t) \/ CloseStep(t) \/ CallerCancels(t)
  PROVE  Worked(t)
<1>1. task \in [Tasks -> Locals]
  BY Standing
<1>2. Busy(t) /\ down' = down /\ scheduler' = scheduler
  BY DEF Admit, Gone, CloseStep, TakeCloseLock, Closed, CloseFails, CallerCancels, Runs, At,
         Busy, life
<1>3. CASE Admit(t)
  BY <1>1, <1>2, <1>3, TaskKinds DEF Worked, Admit, Gone, End, Locals
<1>4. CASE TakeCloseLock(t) \/ CallerCancels(t)
  BY <1>1, <1>2, <1>4 DEF Worked, TakeCloseLock, CallerCancels, Busy, Locals
<1>5. CASE Closed(t) \/ CloseFails(t)
  <2>1. task[t].pc = "closing" /\ \E s : \E ok \in BOOLEAN : CloseNext(t, s, ok)
    BY <1>5 DEF Closed, CloseFails, Runs, At
  <2>2. Moves(t) /\ task'[t].pc \in {task[t].after, "closing"}
    BY <2>1, NextToClose
  <2>3. t = "start" => task[t].after # "idle"
    BY <2>1, Standing, TaskKinds DEF Fits, Afters
  <2> QED BY <1>2, <2>2, <2>3 DEF Worked, Moves
<1> QED BY <1>3, <1>4, <1>5 DEF CloseStep

\* A task that is not running yet begins: start, an operation, an attempt.
LEMMA BeginsEdges ==
  ASSUME Control, Edges, NEW t \in Tasks \ {"shutdown"}, Moves(t), down' = down,
         scheduler' = scheduler, task'[t].pc # "idle",
         scheduler \/ t = "start",
         ~down \/ task'[t].pc \in {"idle", "done"}
  PROVE  Edges'
<1>1. {"start", "shutdown"} \subseteq Tasks
  BY TaskKinds DEF Candidates
<1>2. Fresh'
  BY <1>1 DEF Fresh, Edges, At, Moves
<1>3. Joined'
  <2>1. task'["shutdown"] = task["shutdown"]
    BY <1>1 DEF Moves
  <2> QED BY <2>1 DEF Joined, Edges, At, Moves, Busy
<1> QED BY <1>2, <1>3 DEF Edges

\* Only shutdown moves.
LEMMA ShutdownEdges ==
  ASSUME Control, Edges, scheduler' \in {scheduler, FALSE},
         \A u \in Tasks \ {"shutdown"} : task'[u].pc = task[u].pc,
         Unclosed' \subseteq Unclosed, down \/ At("shutdown", "idle"),
         task'["shutdown"].pc # "idle" => down', down => down',
         task'["shutdown"].pc \in {"closing", "swept", "done"} =>
           \/ task["shutdown"].pc \in {"closing", "swept", "done"}
           \/ \A u \in Tasks \ {"shutdown"} : ~Busy(u)
  PROVE  Edges'
<1>1. Fresh'
  BY TaskKinds DEF Fresh, Edges, At, Candidates
<1>2. Joined'
  BY DEF Joined, Edges, At, Busy
<1> QED BY <1>1, <1>2 DEF Edges

LEMMA NextEdges == ASSUME Control, Edges, [Next]_vars PROVE Edges'
<1>1. CASE StartStep
  <2>1. CASE Start
    <3>1. "start" \in Tasks \ {"shutdown"} /\ task \in [Tasks -> Locals]
      BY TaskKinds, Standing DEF Candidates
    <3>2. /\ task' = [task EXCEPT !["start"] =
                       [task["start"] EXCEPT !.pc = "connect", !.cand = Slot,
                                             !.seen = epoch']]
          /\ ~down /\ down' = down /\ scheduler' = scheduler
      BY <2>1 DEF Start, Open
    <3>3. Moves("start") /\ task'["start"].pc = "connect"
      BY <3>1, <3>2 DEF Moves, Locals
    <3> QED BY <3>1, <3>2, <3>3, BeginsEdges
  <2>2. CASE ~Start
    BY <1>1, <2>2, StartWorks, WorkedEdges, TaskKinds DEF Candidates
  <2> QED BY <2>1, <2>2
<1>2. CASE Loop
  <2>1. "reconnect" \in Tasks \ {"shutdown"} /\ task \in [Tasks -> Locals]
        /\ "reconnect" # "start"
    BY TaskKinds, Standing DEF Candidates, Attempters
  <2>2. Worked("reconnect")
    BY <1>2, <2>1 DEF Worked, Loop, Runs, At, Busy, life
  <2> QED BY <2>1, <2>2, WorkedEdges
<1>3. CASE Observe \/ Stopped \/ UNCHANGED vars
  <2>1. UNCHANGED <<task, session, life>>
    BY <1>3 DEF Observe, Stopped, vars, wire
  <2> QED BY <2>1 DEF Edges, Fresh, Joined, At, Busy, life, Unclosed
<1>4. CASE BeginShutdown \/ ShutdownStep
  <2>1. "shutdown" \in Tasks /\ task \in [Tasks -> Locals]
    BY TaskKinds, Standing
  <2>2. CASE BeginShutdown
    BY <2>1, <2>2, ShutdownEdges DEF BeginShutdown, wire, Unclosed, Locals, At
  <2>3. CASE Stop
    <3>1. \A u \in Tasks \ {"shutdown"} : task'[u].pc = task[u].pc
      BY <2>1, <2>3 DEF Stop, Locals
    <3>2. task'["shutdown"].pc = "join"
      BY <2>1, <2>3 DEF Stop, Locals
    <3> QED BY <2>3, <3>1, <3>2, ShutdownEdges DEF Stop, wire, Unclosed, At, Edges, Joined
  <2>4. CASE Join
    <3>1. Moves("shutdown") /\ Unclosed' = Unclosed /\ task'["shutdown"].pc # "idle"
      <4>1. CASE Collected = {}
        BY <2>1, <2>4, <4>1 DEF Join, Unclosed, Moves, Locals
      <4>2. CASE Collected # {}
        <5>1. Collected \in SUBSET Sessions /\ "swept" \in Afters("shutdown")
          BY TaskKinds DEF Collected, Owned, Control, TypeOK, Afters
        <5>2. BeginClose("shutdown", Collected, "swept") /\ "shutdown" \notin Candidates
          BY <2>4, <4>2, TaskKinds DEF Join, Candidates
        <5> QED BY <2>1, <5>1, <5>2, CloseBegins
      <4> QED BY <4>1, <4>2
    <3>2. down /\ down' = down /\ scheduler' = scheduler
      BY <2>4 DEF Join, life, Edges, Joined, At
    <3> QED BY <2>4, <3>1, <3>2, ShutdownEdges DEF Join, Moves, At
  <2>5. CASE ShutdownReturns
    <3>1. Moves("shutdown")
      BY <2>1, <2>5 DEF ShutdownReturns, Moves
    <3>2. /\ down /\ down' = down /\ scheduler' = scheduler
          /\ task["shutdown"].pc = "swept" /\ Unclosed' = Unclosed
      BY <2>5 DEF ShutdownReturns, life, Edges, Joined, At, Unclosed, wire
    <3> QED BY <3>1, <3>2, ShutdownEdges DEF Moves, At
  <2> QED BY <1>4, <2>2, <2>3, <2>4, <2>5 DEF ShutdownStep
<1>5. ASSUME NEW t \in Tasks, Admit(t) \/ CloseStep(t) \/ CallerCancels(t)
      PROVE  Edges'
  <2>1. CASE t # "shutdown"
    BY <1>5, <2>1, CommonWorks, WorkedEdges
  <2>2. CASE t = "shutdown"
    <3>1. ~Admit(t) /\ ~CallerCancels(t)
      BY <2>2, TasksDiffer, Standing, TaskKinds DEF Admit, Gone, CallerCancels, Runs, At, Places
    <3>2. task[t].pc = "closing" /\ down /\ UNCHANGED life
      BY <1>5, <2>2, <3>1 DEF CloseStep, TakeCloseLock, Closed, CloseFails, Runs, At,
                              Edges, Joined
    <3>3. Unclosed' \subseteq Unclosed
      BY <1>5, <3>1 DEF CloseStep, TakeCloseLock, Closed, CloseFails, Unclosed,
                        MarkClosing, wire, Control, TypeOK
    <3>4. Moves(t)
      <4>1. CASE TakeCloseLock(t)
        BY <4>1 DEF TakeCloseLock, Moves
      <4>2. CASE Closed(t) \/ CloseFails(t)
        <5>1. \E s : \E ok \in BOOLEAN : CloseNext(t, s, ok)
          BY <4>2 DEF Closed, CloseFails
        <5> QED BY <3>2, <5>1, NextToClose
      <4> QED BY <1>5, <3>1, <4>1, <4>2 DEF CloseStep
    <3> QED BY <2>2, <3>2, <3>3, <3>4, ShutdownEdges DEF Moves, life
  <2> QED BY <2>1, <2>2
<1>6. ASSUME NEW t \in Candidates, SeedStep(t) \/ CandidateCancelled(t) PROVE Edges'
  BY <1>6, SeedWorks, CancelledWorks, WorkedEdges, TaskKinds DEF Candidates
<1>7. CASE AttemptCancelled("start")
  BY <1>7, CancelledWorks, WorkedEdges, TaskKinds DEF Candidates
<1>8. ASSUME NEW t \in Attempters, AttemptStep(t) PROVE Edges'
  <2>1. t \in Tasks \ {"shutdown"} /\ task \in [Tasks -> Locals] /\ t # "start"
        /\ t \notin Operations
    BY TaskKinds, Standing DEF Candidates
  <2>2. CASE ~Attempt(t)
    BY <1>8, <2>1, <2>2, AttemptWorks, WorkedEdges
  <2>3. CASE Attempt(t)
    <3>1. Moves(t) /\ down' = down /\ scheduler' = scheduler
      BY <2>1, <2>3 DEF Attempt, EndAttempt, Moves, life
    <3>2. CASE Busy(t)
      BY <2>1, <3>1, <3>2, WorkedEdges DEF Worked, Moves
    <3>3. CASE ~Busy(t)
      <4>1. t \in Directs /\ scheduler /\ t # "reconnect"
        BY <2>3, <3>3, TasksDiffer DEF Attempt, Runs, At, Busy
      <4>2. task'[t].pc \in {"done", "drain"} /\ (down => task'[t].pc = "done")
        BY <2>1, <2>3, <4>1 DEF Attempt, EndAttempt, Idle, Locals
      <4> QED BY <2>1, <3>1, <4>1, <4>2, BeginsEdges
    <3> QED BY <3>2, <3>3
  <2> QED BY <2>2, <2>3
<1>9. ASSUME NEW t \in Operations, Submit(t) \/ OperationStep(t) PROVE Edges'
  <2>1. t \in Tasks \ {"shutdown"} /\ task \in [Tasks -> Locals]
    BY TaskKinds, Standing
  <2>2. CASE Submit(t)
    <3>1. Moves(t) /\ task'[t].pc = "admit"
      BY <2>1, <2>2 DEF Submit, Moves, Locals
    <3> QED BY <2>1, <2>2, <3>1, BeginsEdges DEF Submit, life
  <2>3. CASE OperationStep(t)
    BY <2>1, <2>3, OperationWorks, WorkedEdges
  <2> QED BY <1>9, <2>2, <2>3
<1> QED BY <1>1, <1>2, <1>3, <1>4, <1>5, <1>6, <1>7, <1>8, <1>9 DEF Next, Candidates

LEMMA InitEdges == ASSUME Init PROVE Edges
BY IdleIsIdle, TaskKinds DEF Init, Edges, Fresh, Joined, At, Unclosed, Candidates
-----------------------------------------------------------------------------
(* Ownership: who may close which session *)

\* The sessions that tasks other than shutdown are about to close.
Doomed == {s \in Sessions : \E u \in Tasks \ {"shutdown"} : s \in task[u].todo}

Dialling(l) == l.pc \in {"connect", "dial", "discover"}

\* A candidate is alive until its own task gives it up.
Kept(u) ==
  /\ Activating(task[u]) => transport = None
  /\ Holding(task[u]) => task[u].cand \notin {transport} \cup retired \cup Doomed
  /\ Dialling(task[u]) => session[task[u].cand] # "closed"

Ownership ==
  /\ NoOrphan /\ SessionStable
  /\ \A u \in Candidates : Kept(u)
  /\ transport # None => transport \notin {pending} \cup retired \cup Doomed

\* The sessions of candidates are real ones, and one task at a time has one.
LEMMA HeldTyped ==
  ASSUME Control, NEW u \in Candidates, Holding(task[u])
  PROVE  task[u].cand \in Sessions /\ task[u].cand # None /\ generationLock = u
<1>1. u \in Tasks /\ Carries(task[u]) /\ Generates(task[u])
  BY TaskKinds DEF Carries, Generates, Holding, Activating
<1>2. task[u].cand \in Sessions /\ generationLock = u
  BY <1>1, Standing DEF Fits
<1> QED BY <1>2, LimitsPositive DEF Sessions, None

LEMMA Alone ==
  ASSUME Control, NEW t \in Tasks, generationLock \in {t, Free},
         NEW u \in Candidates \ {t}
  PROVE  ~Holding(task[u]) /\ ~Dialling(task[u]) /\ ~Activating(task[u])
<1>1. ~Holding(task[u])
  BY HeldTyped, TaskKinds
<1> QED BY <1>1 DEF Holding, Dialling

\* Its own task leaves candidate u where it was, or is done with it.
Still(u) ==
  /\ Holding(task'[u]) => Holding(task[u]) /\ task'[u].cand = task[u].cand
  /\ Activating(task'[u]) => Activating(task[u])
  /\ Dialling(task'[u]) => Dialling(task[u])
  /\ task[u].pc \in {"dial", "discover"} =>
       task'[u].pc \in {"dial", "discover"} /\ task'[u].cand = task[u].cand

LEMMA Quiet ==
  ASSUME Control, Ownership, UNCHANGED own, Unclosed' = Unclosed, Doomed' \subseteq Doomed,
         \A u \in Candidates : Still(u),
         \A u \in Operations : task'[u].pc = "read" =>
                               task'[u].cand = transport /\ transport # None
  PROVE  Ownership'
<1>1. UNCHANGED <<transport, pending, retired>> /\ Owned' = Owned
  BY DEF own, Owned
<1>2. NoOrphan'
  <2> SUFFICES ASSUME NEW s \in Unclosed', s \notin Owned'
               PROVE  \E t \in Attempters : task'[t].cand = s
                                            /\ task'[t].pc \in {"dial", "discover"}
    BY DEF NoOrphan
  <2>1. PICK t \in Attempters : task[t].cand = s /\ task[t].pc \in {"dial", "discover"}
    BY <1>1 DEF Ownership, NoOrphan
  <2>2. Still(t)
    BY DEF Candidates
  <2> QED BY <2>1, <2>2 DEF Still
<1>3. SessionStable'
  BY <1>1 DEF SessionStable, At
<1>4. ASSUME NEW u \in Candidates PROVE Kept(u)'
  <2>1. Still(u) /\ Kept(u)
    BY DEF Ownership
  <2>2. (Activating(task[u]) => transport = None)'
    BY <1>1, <2>1 DEF Still, Kept, Activating
  <2>3. Holding(task'[u]) => task'[u].cand \notin {transport} \cup retired \cup Doomed'
    BY <2>1 DEF Still, Kept
  <2>4. Dialling(task'[u]) => session'[task'[u].cand] # "closed"
    <3> HAVE Dialling(task'[u])
    <3>1. Holding(task'[u]) /\ Dialling(task[u]) /\ Holding(task[u])
      BY <2>1 DEF Still, Dialling, Holding
    <3>2. task[u].cand \in Unclosed /\ task'[u].cand = task[u].cand
      BY <2>1, <3>1, HeldTyped DEF Still, Kept, Unclosed
    <3> QED BY <3>2 DEF Unclosed
  <2> QED BY <1>1, <2>2, <2>3, <2>4 DEF Kept, Holding, Dialling, Activating
<1>5. transport # None => transport \notin {pending} \cup retired \cup Doomed'
  BY DEF Ownership
<1> QED BY <1>1, <1>2, <1>3, <1>4, <1>5 DEF Ownership

\* What a step of one task does to what tasks are about to close.
LEMMA DoomedAfter ==
  ASSUME Control, NEW t \in Tasks, Moves(t)
  PROVE  /\ t = "shutdown" => Doomed' = Doomed
         /\ Doomed' \subseteq Doomed \cup task'[t].todo
         /\ task'[t].todo \subseteq task[t].todo => Doomed' \subseteq Doomed
BY DEF Doomed, Moves

LEMMA QuietMove ==
  ASSUME Control, Ownership, NEW t \in Tasks, Moves(t), UNCHANGED own,
         Unclosed' = Unclosed,
         t = "shutdown" \/ task'[t].todo \subseteq task[t].todo,
         t \in Candidates => Still(t),
         t \in Operations /\ task'[t].pc = "read" =>
           task'[t].cand = transport /\ transport # None
  PROVE  Ownership'
<1>1. Doomed' \subseteq Doomed
  BY DoomedAfter
<1>2. \A u \in Candidates : Still(u)
  BY TaskKinds DEF Still, Moves
<1>3. \A u \in Operations : task'[u].pc = "read" =>
                              task'[u].cand = transport /\ transport # None
  BY TaskKinds DEF Ownership, SessionStable, At, Moves
<1> QED BY <1>1, <1>2, <1>3, Quiet

\* A task is done with what it did, and did not dial.
LEMMA QuietRest ==
  ASSUME Control, Ownership, NEW t \in Tasks, Moves(t), UNCHANGED own,
         Unclosed' = Unclosed, task'[t].todo = {},
         task'[t].pc \in {"idle", "done", "loop", "attempt", "drain", "drained"},
         task[t].pc \notin {"dial", "discover"}
  PROVE  Ownership'
<1>1. Still(t)
  BY DEF Still, Holding, Dialling, Activating
<1> QED BY <1>1, QuietMove

\* A candidate is made.
LEMMA CandidateMade ==
  ASSUME Control, Ownership, NEW t \in Candidates, NEW s \in FreeSlots, Moves(t),
         task'[t].cand = s, Dialling(task'[t]), task'[t].todo = task[t].todo,
         task[t].pc \notin {"dial", "discover"}, generationLock \in {t, Free},
         session' = [session EXCEPT ![s] = "connecting"],
         UNCHANGED <<transport, retired>>,
         \/ pending' = s /\ Unclosed = {}
         \/ pending' = pending /\ t \in Attempters /\ task'[t].pc = "dial"
  PROVE  Ownership'
<1>1. /\ t \in Tasks /\ s \in Sessions /\ s \notin Unclosed /\ s \notin Owned
      /\ \A u \in Tasks : s \notin task[u].todo
  BY TaskKinds DEF FreeSlots
<1>2. s # None /\ s \notin {transport, pending} \cup retired
  BY <1>1, LimitsPositive DEF Sessions, None, Owned
<1>3. s \notin Doomed /\ Doomed' \subseteq Doomed
  BY <1>1, DoomedAfter DEF Doomed
<1>4. Unclosed' = Unclosed \cup {s} /\ session'[s] # "closed"
  BY <1>1 DEF Unclosed, Control, TypeOK
<1>5. NoOrphan'
  <2> SUFFICES ASSUME NEW x \in Unclosed', x \notin Owned'
               PROVE  \E u \in Attempters : task'[u].cand = x
                                            /\ task'[u].pc \in {"dial", "discover"}
    BY DEF NoOrphan
  <2>1. CASE x = s
    <3>1. pending' # s
      BY <1>2, <2>1 DEF Owned
    <3> QED BY <2>1, <3>1
  <2>2. CASE x # s
    <3>1. x \in Unclosed /\ pending' = pending /\ x \notin Owned
      BY <1>4, <2>2 DEF Owned
    <3>2. PICK u \in Attempters : task[u].cand = x /\ task[u].pc \in {"dial", "discover"}
      BY <3>1 DEF Ownership, NoOrphan
    <3>3. task'[u] = task[u]
      BY <3>2, TaskKinds DEF Moves, Candidates
    <3> QED BY <3>2, <3>3
  <2> QED BY <2>1, <2>2
<1>6. SessionStable'
  BY TaskKinds DEF Ownership, SessionStable, At, Moves, Candidates
<1>7. ASSUME NEW u \in Candidates PROVE Kept(u)'
  <2>1. CASE u = t
    <3>1. Holding(task'[t]) /\ ~Activating(task'[t])
      BY DEF Dialling, Holding, Activating
    <3> QED BY <1>2, <1>3, <1>4, <2>1, <3>1 DEF Kept, Activating
  <2>2. CASE u # t
    <3>1. ~Holding(task[u]) /\ ~Dialling(task[u]) /\ ~Activating(task[u])
      BY <1>1, <2>2, Alone
    <3>2. task'[u] = task[u]
      BY <2>2, TaskKinds DEF Moves
    <3> QED BY <3>1, <3>2 DEF Kept, Holding, Dialling, Activating
  <2> QED BY <2>1, <2>2
<1>8. transport # None => transport \notin {pending'} \cup retired \cup Doomed'
  BY <1>2, <1>3 DEF Ownership
<1> QED BY <1>5, <1>6, <1>7, <1>8 DEF Ownership

\* A candidate becomes the session.
LEMMA CandidatePublished ==
  ASSUME Control, Ownership, NEW t \in Candidates, task[t].pc \in {"seed", "activate"},
         transport = None, Publish(t), UNCHANGED <<retired, session>>
  PROVE  Ownership'
<1> DEFINE c == task[t].cand
<1>1. /\ admission = t /\ generationLock = t /\ t \in Tasks /\ c \in Sessions
      /\ Generates(task[t])
  BY SeedingStands
<1>2. Holding(task[t]) /\ c # None /\ c \notin retired \cup Doomed
  BY HeldTyped DEF Holding, Activating, Ownership, Kept
<1>3. Moves(t) /\ task'[t].pc \in {"loop", "done"} /\ task'[t].todo = {}
  <2>1. CASE t = "start"
    <3>1. task' = [task EXCEPT ![t] = [Idle EXCEPT !.pc = "done"]]
      BY <2>1 DEF Publish
    <3>2. "done" \in Places(t) \cap {"idle", "done", "loop"}
      BY <2>1, TaskKinds DEF Places
    <3> QED BY <1>1, <3>1, <3>2, Rests
  <2>2. CASE t \in Attempters
    <3>1. EndAttempt(t)
      BY <2>2, TaskKinds DEF Publish
    <3> QED BY <1>1, <2>2, <3>1, EndsAttempt
  <2> QED BY <2>1, <2>2 DEF Candidates
<1>4. Doomed' \subseteq Doomed
  BY <1>1, <1>3, DoomedAfter
<1>5. /\ transport' = c /\ Unclosed' = Unclosed
      /\ pending' = IF pending = c THEN None ELSE pending
  BY DEF Publish, Unclosed
<1> HIDE DEF c
<1>6. NoOrphan'
  <2> SUFFICES ASSUME NEW x \in Unclosed', x \notin Owned'
               PROVE  \E u \in Attempters : task'[u].cand = x
                                            /\ task'[u].pc \in {"dial", "discover"}
    BY DEF NoOrphan
  <2>1. x \in Unclosed /\ x \notin Owned
    BY <1>5 DEF Owned
  <2>2. PICK u \in Attempters : task[u].cand = x /\ task[u].pc \in {"dial", "discover"}
    BY <2>1 DEF Ownership, NoOrphan
  <2>3. task'[u] = task[u]
    BY <1>3, <2>2, TaskKinds DEF Moves, Candidates
  <2> QED BY <2>2, <2>3
<1>7. SessionStable'
  <2> SUFFICES ASSUME NEW u \in Operations, task'[u].pc = "read" PROVE FALSE
    BY DEF SessionStable, At
  <2>1. u \in Tasks /\ task'[u] = task[u] /\ u # t
    BY <1>1, <1>3, TaskKinds DEF Moves
  <2>2. admission = u
    BY <2>1, Standing DEF Uses
  <2> QED BY <1>1, <2>1, <2>2
<1>8. ASSUME NEW u \in Candidates PROVE Kept(u)'
  <2>1. ~Holding(task'[u]) /\ ~Dialling(task'[u]) /\ ~Activating(task'[u])
    <3>1. CASE u = t
      BY <1>3, <3>1 DEF Holding, Dialling, Activating
    <3>2. CASE u # t
      <4>1. task'[u] = task[u]
        BY <1>3, <3>2, TaskKinds DEF Moves
      <4> QED BY <1>1, <3>2, <4>1, Alone
    <3> QED BY <3>1, <3>2
  <2> QED BY <2>1 DEF Kept, Holding, Dialling, Activating
<1>9. transport' \notin {pending'} \cup retired \cup Doomed'
  BY <1>2, <1>4, <1>5
<1> QED BY <1>6, <1>7, <1>8, <1>9 DEF Ownership

\* The session is taken out of use, by a task inside the admission that
\* closes it next.
LEMMA SessionRetired ==
  ASSUME Control, Ownership, NEW t \in Tasks, Moves(t), transport # None,
         Uses(task[t]), UNCHANGED pending, transport' = None,
         retired' = retired \cup {transport}, Unclosed' = Unclosed,
         task'[t].todo = {transport}, task'[t].pc = "closing",
         t \in Candidates => Holding(task[t]) /\ task'[t].cand = task[t].cand,
         task[t].pc \notin {"dial", "discover"}
  PROVE  Ownership'
<1>1. admission = t
  BY Standing
<1>2. Doomed' \subseteq Doomed \cup {transport}
  BY DoomedAfter
<1>3. Owned' = Owned
  BY DEF Owned
<1>4. NoOrphan'
  <2> SUFFICES ASSUME NEW x \in Unclosed', x \notin Owned'
               PROVE  \E u \in Attempters : task'[u].cand = x
                                            /\ task'[u].pc \in {"dial", "discover"}
    BY DEF NoOrphan
  <2>1. PICK u \in Attempters : task[u].cand = x /\ task[u].pc \in {"dial", "discover"}
    BY <1>3 DEF Ownership, NoOrphan
  <2>2. task'[u] = task[u]
    BY <2>1, TaskKinds DEF Moves, Candidates
  <2> QED BY <2>1, <2>2
<1>5. SessionStable'
  <2> SUFFICES ASSUME NEW u \in Operations, task'[u].pc = "read" PROVE FALSE
    BY DEF SessionStable, At
  <2>1. u \in Tasks /\ task'[u] = task[u] /\ u # t
    BY TaskKinds DEF Moves
  <2>2. admission = u
    BY <2>1, Standing DEF Uses
  <2> QED BY <1>1, <2>1, <2>2
<1>6. ASSUME NEW u \in Candidates PROVE Kept(u)'
  <2>1. /\ Holding(task'[u]) => Holding(task[u]) /\ task'[u].cand = task[u].cand
        /\ Dialling(task'[u]) => Dialling(task[u])
    BY TaskKinds DEF Moves, Dialling
  <2>2. Holding(task'[u]) => task'[u].cand \notin {None} \cup retired' \cup Doomed'
    BY <1>2, <2>1, HeldTyped DEF Ownership, Kept
  <2>3. Dialling(task'[u]) => session'[task'[u].cand] # "closed"
    <3> HAVE Dialling(task'[u])
    <3>1. Dialling(task[u]) /\ Holding(task[u]) /\ task'[u].cand = task[u].cand
      BY <2>1 DEF Dialling, Holding
    <3>2. task[u].cand \in Unclosed
      BY <3>1, HeldTyped DEF Ownership, Kept, Unclosed
    <3> QED BY <3>1, <3>2 DEF Unclosed
  <2> QED BY <2>2, <2>3 DEF Kept, Holding, Dialling, Activating
<1> QED BY <1>4, <1>5, <1>6 DEF Ownership

\* A candidate that was dialled is admitted as the pending one.
LEMMA DialledOwned ==
  ASSUME Control, Ownership, NEW t \in Attempters, Dialled(t) PROVE Ownership'
<1>1. task[t].pc \in {"dial", "discover"}
  BY DEF Dialled, Runs, At
<1>2. /\ t \in Candidates /\ t \in Tasks /\ generationLock = t /\ task[t].todo = {}
      /\ task[t].cand \in Sessions
  BY <1>1, DialStands
<1> DEFINE c == task[t].cand
<1>3. /\ c # None /\ c \notin {transport} \cup retired \cup Doomed
      /\ session[c] # "closed"
  BY <1>1, <1>2, HeldTyped DEF Holding, Dialling, Ownership, Kept
<1>4. task' = [task EXCEPT ![t].pc = "admit", ![t].seen = epoch]
  BY DEF Dialled
<1>5. /\ Moves(t) /\ task'[t].pc = "admit" /\ task'[t].cand = c /\ task'[t].todo = {}
  <2>1. task \in [Tasks -> Locals]
    BY <1>2, Standing
  <2> QED BY <1>2, <1>4, <2>1 DEF Locals, Moves
<1>6. /\ UNCHANGED transport /\ pending' = c
      /\ retired' = IF pending \in {None, c} THEN retired ELSE retired \cup {pending}
      /\ session' = [session EXCEPT ![c] = "open"]
  BY DEF Dialled, Retain
<1> HIDE DEF c
<1>7. Unclosed' = Unclosed
  BY <1>3, <1>6 DEF Unclosed, Control, TypeOK
<1>8. Doomed' \subseteq Doomed
  BY <1>2, <1>5, DoomedAfter
<1>9. NoOrphan'
  <2> SUFFICES ASSUME NEW x \in Unclosed', x \notin Owned'
               PROVE  \E u \in Attempters : task'[u].cand = x
                                            /\ task'[u].pc \in {"dial", "discover"}
    BY DEF NoOrphan
  <2>1. x \in Unclosed /\ x \notin Owned /\ x # c
    BY <1>3, <1>6, <1>7 DEF Owned
  <2>2. PICK u \in Attempters : task[u].cand = x /\ task[u].pc \in {"dial", "discover"}
    BY <2>1 DEF Ownership, NoOrphan
  <2>3. task'[u] = task[u]
    BY <1>5, <2>1, <2>2, TaskKinds DEF Moves, c, Candidates
  <2> QED BY <2>2, <2>3
<1>10. SessionStable'
  BY <1>5, <1>6, TaskKinds DEF Ownership, SessionStable, At, Moves
<1>11. ASSUME NEW u \in Candidates PROVE Kept(u)'
  <2>1. CASE u = t
    <3>1. ~Activating(task'[t]) /\ ~Dialling(task'[t])
      BY <1>5 DEF Activating, Dialling
    <3>2. c \notin {transport'} \cup retired' \cup Doomed'
      BY <1>3, <1>6, <1>8
    <3> QED BY <1>5, <2>1, <3>1, <3>2 DEF Kept, Activating, Dialling
  <2>2. CASE u # t
    <3>1. ~Holding(task[u]) /\ ~Dialling(task[u]) /\ ~Activating(task[u])
      BY <1>2, <2>2, Alone
    <3>2. task'[u] = task[u]
      BY <1>5, <2>2, TaskKinds DEF Moves
    <3> QED BY <3>1, <3>2 DEF Kept, Holding, Dialling, Activating
  <2> QED BY <2>1, <2>2
<1>12. transport # None => transport \notin {pending'} \cup retired' \cup Doomed'
  BY <1>3, <1>6, <1>8 DEF Ownership
<1> QED BY <1>6, <1>9, <1>10, <1>11, <1>12 DEF Ownership

\* A transport that never answered closes itself.
LEMMA CandidateLost ==
  ASSUME Control, Ownership, NEW t \in Attempters, task[t].pc \in {"dial", "discover"},
         Moves(t), task'[t].todo = {}, UNCHANGED own,
         task'[t].pc \in {"loop", "done", "idle"},
         session' = [session EXCEPT ![task[t].cand] = "closed"]
  PROVE  Ownership'
<1>1. /\ t \in Candidates /\ t \in Tasks /\ generationLock = t /\ task[t].todo = {}
      /\ task[t].cand \in Sessions
  BY DialStands
<1>2. Doomed' \subseteq Doomed /\ UNCHANGED <<transport, pending, retired>>
  BY <1>1, DoomedAfter DEF own
<1>3. Unclosed' = Unclosed \ {task[t].cand}
  BY <1>1 DEF Unclosed, Control, TypeOK
<1>4. NoOrphan'
  <2> SUFFICES ASSUME NEW x \in Unclosed', x \notin Owned'
               PROVE  \E u \in Attempters : task'[u].cand = x
                                            /\ task'[u].pc \in {"dial", "discover"}
    BY DEF NoOrphan
  <2>1. x \in Unclosed /\ x \notin Owned /\ x # task[t].cand
    BY <1>2, <1>3 DEF Owned
  <2>2. PICK u \in Attempters : task[u].cand = x /\ task[u].pc \in {"dial", "discover"}
    BY <2>1 DEF Ownership, NoOrphan
  <2>3. task'[u] = task[u]
    BY <2>1, <2>2, TaskKinds DEF Moves, Candidates
  <2> QED BY <2>2, <2>3
<1>5. SessionStable'
  BY <1>2, TaskKinds DEF Ownership, SessionStable, At, Moves
<1>6. ASSUME NEW u \in Candidates PROVE Kept(u)'
  <2>1. ~Holding(task'[u]) /\ ~Dialling(task'[u]) /\ ~Activating(task'[u])
    <3>1. CASE u = t
      BY <3>1 DEF Holding, Dialling, Activating
    <3>2. CASE u # t
      <4>1. task'[u] = task[u]
        BY <3>2, TaskKinds DEF Moves
      <4> QED BY <1>1, <3>2, <4>1, Alone
    <3> QED BY <3>1, <3>2
  <2> QED BY <2>1 DEF Kept, Holding, Dialling, Activating
<1> QED BY <1>2, <1>4, <1>5, <1>6 DEF Ownership

\* The task of the generation lock begins to close what is not in use.
LEMMA CandidateGivenUp ==
  ASSUME Control, Ownership, NEW t \in Candidates, Generates(task[t]), Moves(t),
         UNCHANGED own, Unclosed' = Unclosed, ~Holding(task'[t]),
         task[t].pc \notin {"dial", "discover"},
         transport # None => transport \notin task'[t].todo
  PROVE  Ownership'
<1>1. t \in Tasks /\ generationLock = t /\ UNCHANGED <<transport, pending, retired>>
  BY TaskKinds, Standing DEF own
<1>2. Doomed' \subseteq Doomed \cup task'[t].todo
  BY <1>1, DoomedAfter
<1>3. NoOrphan'
  <2> SUFFICES ASSUME NEW x \in Unclosed', x \notin Owned'
               PROVE  \E u \in Attempters : task'[u].cand = x
                                            /\ task'[u].pc \in {"dial", "discover"}
    BY DEF NoOrphan
  <2>1. PICK u \in Attempters : task[u].cand = x /\ task[u].pc \in {"dial", "discover"}
    BY <1>1 DEF Ownership, NoOrphan, Owned
  <2>2. task'[u] = task[u]
    BY <2>1, TaskKinds DEF Moves, Candidates
  <2> QED BY <2>1, <2>2
<1>4. SessionStable'
  BY <1>1, TaskKinds DEF Ownership, SessionStable, At, Moves, Candidates
<1>5. ASSUME NEW u \in Candidates PROVE Kept(u)'
  <2>1. ~Holding(task'[u]) /\ ~Dialling(task'[u]) /\ ~Activating(task'[u])
    <3>1. CASE u = t
      BY <3>1 DEF Holding, Dialling
    <3>2. CASE u # t
      <4>1. task'[u] = task[u]
        BY <3>2, TaskKinds DEF Moves
      <4> QED BY <1>1, <3>2, <4>1, Alone
    <3> QED BY <3>1, <3>2
  <2> QED BY <2>1 DEF Kept, Holding, Dialling, Activating
<1>6. transport # None => transport \notin {pending} \cup retired \cup Doomed'
  BY <1>2 DEF Ownership
<1> QED BY <1>1, <1>3, <1>4, <1>5, <1>6 DEF Ownership
-----------------------------------------------------------------------------
(* Ownership: the steps *)

LEMMA GivesUpOwned ==
  ASSUME Control, Ownership, NEW t \in Candidates, NEW label \in {"failed", "abandoned"},
         Holding(task[t]), Generates(task[t]), task[t].pc \notin {"dial", "discover"},
         BeginClose(t, {task[t].cand}, label), UNCHANGED own
  PROVE  Ownership'
<1>1. /\ t \in Tasks /\ task[t].cand \in Sessions /\ task[t].cand # transport
  BY HeldTyped, TaskKinds DEF Ownership, Kept
<1> DEFINE S == {task[t].cand}
<1>2. S \in SUBSET Sessions /\ label \in Afters(t) /\ transport \notin S
  BY <1>1, TaskKinds DEF Afters, Candidates
<1>3. BeginClose(t, S, label)
  OBVIOUS
<1> HIDE DEF S
<1>4. /\ Moves(t) /\ task'[t].pc = "closing" /\ task'[t].todo = S
      /\ Unclosed' = Unclosed
  BY <1>1, <1>2, <1>3, CloseBegins
<1>5. task'[t].after = label
  <2>1. task \in [Tasks -> Locals]
    BY <1>1, Standing
  <2> QED BY <1>1, <1>3, <2>1 DEF BeginClose, Locals
<1>6. ~Holding(task'[t])
  BY <1>4, <1>5 DEF Holding, Activating
<1> QED BY <1>1, <1>2, <1>4, <1>6, CandidateGivenUp

LEMMA StartOwned ==
  ASSUME Control, Edges, Ownership, StartStep PROVE Ownership'
<1>1. /\ "start" \in Tasks /\ "start" \in Candidates /\ "start" \notin Attempters
      /\ task \in [Tasks -> Locals]
  BY TaskKinds, Standing DEF Candidates
<1>2. CASE Start
  <2>1. /\ generation + 1 \in Nat /\ "connect" \in Labels /\ epoch' \in Nat
        /\ Open("start", generation + 1, "connect") /\ task["start"].pc = "idle"
        /\ pending' = Slot /\ generationLock = Free
        /\ UNCHANGED <<transport, retired>>
    BY <1>2 DEF Control, TypeOK, Start, Labels, At
  <2>2. /\ Slot \in FreeSlots /\ Moves("start") /\ task'["start"].pc = "connect"
        /\ task'["start"].cand = Slot /\ task'["start"].todo = task["start"].todo
        /\ session' = [session EXCEPT ![Slot] = "connecting"]
    BY <1>1, <2>1, Opens
  <2>3. Unclosed = {}
    BY <2>1 DEF Edges, Fresh, At
  <2>4. Dialling(task'["start"])
    BY <2>2 DEF Dialling
  <2> HIDE DEF Slot
  <2> QED BY <1>1, <2>1, <2>2, <2>3, <2>4, CandidateMade
<1>3. CASE Connect
  <2>1. /\ "admit" \in Labels /\ task["start"].pc = "connect"
        /\ task' = [task EXCEPT !["start"].pc = "admit"]
        /\ session' = [session EXCEPT ![task["start"].cand] = "open"]
        /\ UNCHANGED own
    BY <1>3 DEF Connect, Labels, Runs, At
  <2>2. /\ Moves("start") /\ task'["start"].pc = "admit"
        /\ task'["start"].cand = task["start"].cand
        /\ task'["start"].todo = task["start"].todo
    BY <1>1, <2>1, Relabels
  <2>3. Holding(task["start"]) /\ Dialling(task["start"])
    BY <2>1 DEF Holding, Dialling
  <2>4. task["start"].cand \in Sessions /\ session[task["start"].cand] # "closed"
    BY <1>1, <2>3, HeldTyped DEF Ownership, Kept
  <2>5. Unclosed' = Unclosed
    BY <2>1, <2>4 DEF Unclosed, Control, TypeOK
  <2>6. Still("start")
    BY <2>1, <2>2, <2>3 DEF Still, Dialling, Activating
  <2> QED BY <1>1, <2>1, <2>2, <2>5, <2>6, TaskKinds, QuietMove
<1>4. CASE ConnectFails
  <2>1. /\ BeginClose("start", {task["start"].cand}, "failed") /\ UNCHANGED own
        /\ task["start"].pc = "connect"
    BY <1>4 DEF ConnectFails, Runs, At
  <2>2. Holding(task["start"]) /\ Generates(task["start"])
    BY <2>1 DEF Holding, Generates
  <2> QED BY <1>1, <2>1, <2>2, GivesUpOwned
<1>5. CASE StartFails
  <2>1. /\ task' = [task EXCEPT !["start"] = [Idle EXCEPT !.pc = "done"]]
        /\ UNCHANGED <<own, wire>> /\ task["start"].pc \in {"failed", "abandoned"}
        /\ "done" \in Places("start") \cap {"idle", "done", "loop"}
    BY <1>1, <1>5, TaskKinds DEF StartFails, Places
  <2>2. Moves("start") /\ task'["start"].pc = "done" /\ task'["start"].todo = {}
    BY <1>1, <2>1, Rests
  <2>3. Unclosed' = Unclosed
    BY <2>1 DEF Unclosed, wire
  <2> QED BY <1>1, <2>1, <2>2, <2>3, QuietRest
<1> QED BY <1>2, <1>3, <1>4, <1>5 DEF StartStep

LEMMA SeedOwned ==
  ASSUME Control, Ownership, NEW t \in Candidates, SeedStep(t) PROVE Ownership'
<1>1. task[t].pc \in {"seed", "activate"}
  BY DEF SeedStep, SeedActivates, SeedReplaces, ReplacementActivates,
         ReplacementFails, SeedOvertaken, SeedFails, Seeding, Runs, At
<1>2. /\ Carries(task[t]) /\ Generates(task[t]) /\ Uses(task[t]) /\ t \in Tasks
      /\ admission = t /\ generationLock = t /\ task[t].cand \in Sessions
  BY <1>1, SeedingStands
<1>3. /\ Holding(task[t]) /\ task[t].cand # transport
      /\ task[t].pc = "activate" => transport = None
  BY <1>1 DEF Holding, Activating, Ownership, Kept
<1>4. CASE SeedActivates(t) \/ ReplacementActivates(t)
  <2>1. Publish(t) /\ UNCHANGED <<retired, session>> /\ transport = None
    BY <1>3, <1>4 DEF SeedActivates, ReplacementActivates, wire, At
  <2> QED BY <1>1, <2>1, CandidatePublished
<1>5. CASE SeedReplaces(t)
  <2>1. /\ transport # None /\ transport' = None /\ UNCHANGED pending
        /\ retired' = retired \cup {transport} /\ task[t].pc = "seed"
        /\ BeginClose(t, {transport}, "activate")
    BY <1>5 DEF SeedReplaces, Retain, Seeding, Runs, At
  <2>2. {transport} \in SUBSET Sessions /\ "activate" \in Afters(t)
    BY <2>1, TaskKinds DEF Afters, Candidates, Control, TypeOK
  <2>3. /\ Moves(t) /\ task'[t].pc = "closing" /\ task'[t].todo = {transport}
        /\ task'[t].cand = task[t].cand /\ Unclosed' = Unclosed
    BY <1>2, <2>1, <2>2, CloseBegins
  <2> QED BY <1>2, <1>3, <2>1, <2>3, SessionRetired
<1>6. CASE ReplacementFails(t) \/ SeedOvertaken(t)
  <2>1. PICK label \in {"failed", "abandoned"} :
          BeginClose(t, {task[t].cand}, label) /\ UNCHANGED own
    BY <1>6 DEF ReplacementFails, SeedOvertaken, DropCandidate
  <2> QED BY <1>1, <1>2, <1>3, <2>1, GivesUpOwned
<1>7. CASE SeedFails(t)
  <2>1. PICK e \in Errors :
          /\ task' = [task EXCEPT ![t] =
                        [task[t] EXCEPT !.pc = "closing", !.clean = TRUE,
                           !.todo = {task[t].cand}, !.after = "failed",
                           !.error = e]]
          /\ session' = IF closeLock = Free THEN MarkClosing({task[t].cand})
                        ELSE session
    BY <1>7 DEF SeedFails
  <2>2. task \in [Tasks -> Locals] /\ task[t] \in Locals
    BY <1>2, Standing
  <2> DEFINE l == [task[t] EXCEPT !.pc = "closing", !.clean = TRUE,
                     !.todo = {task[t].cand}, !.after = "failed", !.error = e]
  <2>3. l.pc = "closing" /\ l.after = "failed" /\ l.todo = {task[t].cand}
    BY <2>2 DEF Locals
  <2> HIDE DEF l
  <2>4. task' = [task EXCEPT ![t] = l]
    BY <2>1 DEF l
  <2>5. /\ Moves(t) /\ task'[t].pc = "closing" /\ task'[t].after = "failed"
        /\ task'[t].todo = {task[t].cand}
    BY <1>2, <2>2, <2>3, <2>4 DEF Moves
  <2>6. Unclosed' = Unclosed /\ UNCHANGED own
    BY <1>7, <2>1 DEF Unclosed, MarkClosing, SeedFails, Control, TypeOK
  <2>7. ~Holding(task'[t])
    BY <2>5 DEF Holding, Activating
  <2> QED BY <1>1, <1>2, <1>3, <2>5, <2>6, <2>7, CandidateGivenUp
<1> QED BY <1>4, <1>5, <1>6, <1>7 DEF SeedStep

LEMMA AbandonedOwned ==
  ASSUME Control, Ownership, NEW t \in Candidates, CandidateCancelled(t)
  PROVE  Ownership'
<1>1. /\ t \in Tasks /\ Holding(task[t]) /\ Generates(task[t])
      /\ task[t].pc \notin {"dial", "discover"}
  BY TaskKinds DEF CandidateCancelled, Cancelled, At, Holding, Activating, Generates
<1>2. /\ task[t].cand \in Sessions /\ task[t].cand # transport
      /\ task \in [Tasks -> Locals] /\ task[t] \in Locals
  BY <1>1, HeldTyped, Standing DEF Ownership, Kept
<1> DEFINE l == [task[t] EXCEPT !.pc = "closing", !.todo = {task[t].cand},
                   !.clean = TRUE, !.after = "abandoned", !.cancel = FALSE]
<1>3. l.pc = "closing" /\ l.after = "abandoned" /\ l.todo = {task[t].cand}
  BY <1>2 DEF Locals
<1>4. task' = [task EXCEPT ![t] = l] /\ UNCHANGED <<own, wire>>
  BY DEF CandidateCancelled
<1> HIDE DEF l
<1>5. Moves(t) /\ task'[t] = l
  BY <1>1, <1>4, Others
<1>6. ~Holding(task'[t]) /\ task'[t].todo = {task[t].cand}
  BY <1>3, <1>5 DEF Holding, Activating
<1>7. Unclosed' = Unclosed
  BY <1>4 DEF Unclosed, wire
<1> QED BY <1>1, <1>2, <1>4, <1>5, <1>6, <1>7, CandidateGivenUp

LEMMA LeftOwned ==
  ASSUME Control, Ownership, NEW t \in Candidates,
         CandidateAbandoned(t) \/ AttemptCancelled(t)
  PROVE  Ownership'
<1>1. /\ t \in Tasks /\ UNCHANGED own
      /\ \E pc \in Places(t) \cap {"idle", "done"} :
           task' = [task EXCEPT ![t] = [Idle EXCEPT !.pc = pc]]
  BY TaskKinds DEF CandidateAbandoned, AttemptCancelled, LeaveAttempt, Places, Candidates
<1>2. Moves(t) /\ task'[t].pc \in {"idle", "done"} /\ task'[t].todo = {}
  BY <1>1, Rests
<1>3. CASE task[t].pc \in {"dial", "discover"}
  <2>1. t \in Attempters
    BY <1>1, <1>3, Standing, TaskKinds DEF Places, Candidates
  <2>2. session' = [session EXCEPT ![task[t].cand] = "closed"]
    BY <1>3 DEF CandidateAbandoned, AttemptCancelled, At
  <2> QED BY <1>1, <1>2, <1>3, <2>1, <2>2, CandidateLost
<1>4. CASE task[t].pc \notin {"dial", "discover"}
  <2>1. Unclosed' = Unclosed
    BY <1>4 DEF CandidateAbandoned, AttemptCancelled, Unclosed, wire
  <2> QED BY <1>1, <1>2, <1>4, <2>1, QuietRest
<1> QED BY <1>3, <1>4

LEMMA AttemptOwned ==
  ASSUME Control, Edges, Ownership, NEW t \in Attempters, AttemptStep(t)
  PROVE  Ownership'
<1>1. /\ t \in Candidates /\ t \in Tasks /\ t \notin Operations
      /\ task \in [Tasks -> Locals]
  BY TaskKinds, Standing DEF Candidates
<1>2. CASE Attempt(t)
  <2>1. /\ task[t].pc \in {"idle", "attempt"} /\ UNCHANGED <<own, wire>>
        /\ EndAttempt(t) \/ task' = [task EXCEPT ![t].pc = "drain"]
    BY <1>2 DEF Attempt, Runs, At
  <2>2. Moves(t) /\ task'[t].pc \in {"loop", "done", "drain"} /\ task'[t].todo = {}
    <3>1. CASE EndAttempt(t)
      <4>1. \E pc \in Places(t) \cap {"loop", "done"} :
              task' = [task EXCEPT ![t] = [Idle EXCEPT !.pc = pc]]
        BY <1>1, <3>1, TaskKinds DEF EndAttempt, Places
      <4> QED BY <1>1, <4>1, Rests
    <3>2. CASE task' = [task EXCEPT ![t].pc = "drain"]
      <4>1. "drain" \in Labels /\ task[t].todo = {}
        BY <1>1, <2>1, Standing DEF Labels
      <4> QED BY <1>1, <3>2, <4>1, Relabels
    <3> QED BY <2>1, <3>1, <3>2
  <2>3. Unclosed' = Unclosed
    BY <2>1 DEF Unclosed, wire
  <2> QED BY <1>1, <2>1, <2>2, <2>3, QuietRest
<1>3. CASE Drain(t)
  <2>1. task[t].pc = "drain" /\ UNCHANGED own /\ Generates(task[t])
    BY <1>3 DEF Drain, Runs, At, Generates
  <2>2. CASE Inactive = {}
    <3>1. /\ task' = [task EXCEPT ![t].pc = "drained", ![t].clean = TRUE]
          /\ UNCHANGED session /\ "drained" \in Labels /\ task[t].todo = {}
      BY <1>1, <1>3, <2>1, <2>2, Standing DEF Drain, Labels
    <3>2. Moves(t) /\ task'[t].pc = "drained" /\ task'[t].todo = {}
      BY <1>1, <3>1, NothingToClose
    <3>3. Unclosed' = Unclosed
      BY <3>1 DEF Unclosed
    <3> QED BY <1>1, <2>1, <3>2, <3>3, QuietRest
  <2>3. CASE Inactive # {}
    <3>1. /\ Inactive \in SUBSET Sessions /\ "drained" \in Afters(t)
          /\ BeginClose(t, Inactive, "drained")
      BY <1>1, <1>3, <2>3, TaskKinds DEF Inactive, Control, TypeOK, Afters, Drain
    <3>2. /\ Moves(t) /\ task'[t].pc = "closing" /\ task'[t].todo = Inactive
          /\ task'[t].after = "drained" /\ Unclosed' = Unclosed
      BY <1>1, <3>1, CloseBegins
    <3>3. ~Holding(task'[t])
      BY <3>2 DEF Holding, Activating
    <3>4. transport # None => transport \notin Inactive
      BY DEF Inactive, Ownership
    <3> QED BY <1>1, <2>1, <3>2, <3>3, <3>4, CandidateGivenUp
  <2> QED BY <2>2, <2>3
<1>4. CASE DrainFailed(t) \/ CandidateFailed(t)
  <2>1. /\ task[t].pc \in {"drained", "failed"} /\ UNCHANGED <<own, wire>>
        /\ EndAttempt(t) /\ Generates(task[t])
    BY <1>4 DEF DrainFailed, CandidateFailed, At, Generates
  <2>2. Moves(t) /\ task'[t].pc \in {"loop", "done"} /\ task'[t].todo = {}
    BY <2>1, EndsAttempt
  <2>3. Unclosed' = Unclosed
    BY <2>1 DEF Unclosed, wire
  <2> QED BY <1>1, <2>1, <2>2, <2>3, QuietRest
<1>5. CASE Dial(t)
  <2>1. /\ attempt' \in Nat /\ epoch' \in Nat /\ Open(t, attempt', "dial")
        /\ "dial" \in Labels /\ task[t].pc = "drained" /\ UNCHANGED own
    BY <1>5, LargerTyped DEF Dial, Control, TypeOK, Labels, At
  <2>2. /\ Slot \in FreeSlots /\ Moves(t) /\ task'[t].pc = "dial"
        /\ task'[t].cand = Slot /\ task'[t].todo = task[t].todo
        /\ session' = [session EXCEPT ![Slot] = "connecting"]
    BY <1>1, <2>1, Opens
  <2>3. generationLock = t
    BY <1>1, <2>1, Standing DEF Generates
  <2>4. Dialling(task'[t]) /\ UNCHANGED <<transport, pending, retired>>
    BY <2>1, <2>2 DEF Dialling, own
  <2> HIDE DEF Slot
  <2> QED BY <1>1, <2>1, <2>2, <2>3, <2>4, CandidateMade
<1>6. CASE Dialled(t)
  BY <1>6, DialledOwned
<1>7. CASE DialFails(t) \/ DiscoverFails(t)
  <2>1. task[t].pc \in {"dial", "discover"} /\ UNCHANGED own
    BY <1>7 DEF DialFails, DiscoverFails, Runs, At
  <2>2. CASE EndAttempt(t) /\ session' = [session EXCEPT ![task[t].cand] = "closed"]
    <3>1. Generates(task[t])
      BY <2>1 DEF Generates
    <3>2. Moves(t) /\ task'[t].pc \in {"loop", "done"} /\ task'[t].todo = {}
      BY <2>2, <3>1, EndsAttempt
    <3> QED BY <2>1, <2>2, <3>2, CandidateLost
  <2>3. CASE task' = [task EXCEPT ![t].pc = "discover"] /\ UNCHANGED session
    <3>1. "discover" \in Labels
      BY DEF Labels
    <3>2. /\ Moves(t) /\ task'[t].pc = "discover" /\ task'[t].todo = task[t].todo
          /\ task'[t].cand = task[t].cand
      BY <1>1, <2>3, <3>1, Relabels
    <3>3. Still(t) /\ Unclosed' = Unclosed
      BY <2>1, <2>3, <3>2 DEF Still, Holding, Dialling, Activating, Unclosed
    <3> QED BY <1>1, <2>1, <3>2, <3>3, QuietMove
  <2> QED BY <1>7, <2>2, <2>3 DEF DialFails, DiscoverFails
<1>8. CASE CandidateAbandoned(t) \/ AttemptCancelled(t)
  BY <1>1, <1>8, LeftOwned
<1> QED BY <1>2, <1>3, <1>4, <1>5, <1>6, <1>7, <1>8 DEF AttemptStep

LEMMA DisconnectOwned ==
  ASSUME Control, Ownership, NEW t \in Operations, Using(t), ~LostSession(t),
         NEW label \in {"dead", "doubted", "refused"}, Disconnect(t, label), UNCHANGED pending
  PROVE  Ownership'
<1>1. /\ t \in Tasks /\ task[t].pc = "read" /\ transport \in Sessions /\ transport # None
      /\ t \notin Candidates /\ Uses(task[t])
  BY ReadHasSession, TaskKinds DEF Candidates, Uses
<1>2. /\ {transport} \in SUBSET Sessions /\ label \in Afters(t)
      /\ BeginClose(t, {transport}, label) /\ transport' = None
      /\ retired' = retired \cup {transport}
  BY <1>1 DEF Afters, Disconnect, Retain
<1>3. /\ Moves(t) /\ task'[t].pc = "closing" /\ task'[t].todo = {transport}
      /\ Unclosed' = Unclosed
  BY <1>1, <1>2, CloseBegins
<1> QED BY <1>1, <1>2, <1>3, SessionRetired

LEMMA OperationOwned ==
  ASSUME Control, Ownership, NEW t \in Operations, Submit(t) \/ OperationStep(t)
  PROVE  Ownership'
<1>1. /\ t \in Tasks /\ t \notin Candidates /\ "idle" \in Places(t)
      /\ task \in [Tasks -> Locals] /\ task[t].pc \notin {"dial", "discover"}
  BY TaskKinds, Standing DEF Candidates, Places
<1>2. CASE Submit(t)
  <2>1. /\ task' = [task EXCEPT ![t].pc = "admit"] /\ "admit" \in Labels
        /\ UNCHANGED <<own, wire>>
    BY <1>2 DEF Submit, Labels
  <2>2. Moves(t) /\ task'[t].pc = "admit" /\ task'[t].todo = task[t].todo
    BY <1>1, <2>1, Relabels
  <2>3. Unclosed' = Unclosed
    BY <2>1 DEF Unclosed, wire
  <2> QED BY <1>1, <2>1, <2>2, <2>3, QuietMove
<1>3. CASE End(t) /\ UNCHANGED <<own, wire>>
  <2>1. Moves(t) /\ task'[t].pc = "idle" /\ task'[t].todo = {}
    BY <1>1, <1>3, Rests DEF End
  <2>2. Unclosed' = Unclosed
    BY <1>3 DEF Unclosed, wire
  <2> QED BY <1>1, <1>3, <2>1, <2>2, QuietRest
<1>4. CASE FatalEvidence(t) \/ (t = "poll" /\ GenerationDies)
  <2>1. /\ Using(t) /\ ~LostSession(t) /\ UNCHANGED pending
        /\ \E label \in {"dead", "doubted", "refused"} : Disconnect(t, label)
    BY <1>4 DEF FatalEvidence, GenerationDies
  <2> QED BY <2>1, DisconnectOwned
<1>5. CASE EndEnsuringReconnect(t) /\ UNCHANGED <<own, wire>>
  <2>1. /\ "reconnect" \in Tasks \ {t} /\ task'[t] = Idle
        /\ \A u \in Tasks \ {t, "reconnect"} : task'[u] = task[u]
        /\ \/ task'["reconnect"] = task["reconnect"]
           \/ ~Busy("reconnect") /\ task'["reconnect"] = [Idle EXCEPT !.pc = "loop"]
    BY <1>5, LoopStarts
  <2>2. [Idle EXCEPT !.pc = "loop"].pc = "loop" /\ [Idle EXCEPT !.pc = "loop"].todo = {}
    <3>1. "loop" \in Places("reconnect")
      BY TaskKinds DEF Places, Attempters
    <3> QED BY <2>1, <3>1, IdleFits
  <2>3. \A u \in Tasks : task'[u] = task[u] \/ task'[u].todo = {}
    BY <2>1, <2>2, IdleIsIdle
  <2>4. Doomed' \subseteq Doomed
    BY <2>3 DEF Doomed
  <2>5. ASSUME NEW u \in Candidates PROVE Still(u)
    <3>1. CASE task'[u] = task[u]
      BY <3>1 DEF Still
    <3>2. CASE task'[u] # task[u]
      <4>1. u = "reconnect" /\ ~Busy(u) /\ task'[u].pc = "loop"
        BY <1>1, <2>1, <2>2, <3>2, TaskKinds
      <4> QED BY <4>1 DEF Busy, Still, Holding, Dialling, Activating
    <3> QED BY <3>1, <3>2
  <2>6. ASSUME NEW u \in Operations, task'[u].pc = "read"
        PROVE  task'[u].cand = transport /\ transport # None
    <3>1. u # t /\ u # "reconnect" /\ u \in Tasks
      BY <2>1, <2>6, IdleIsIdle, TaskKinds DEF Attempters
    <3>2. task'[u] = task[u]
      BY <2>1, <3>1
    <3> QED BY <2>6, <3>2 DEF Ownership, SessionStable, At
  <2>7. Unclosed' = Unclosed
    BY <1>5 DEF Unclosed, wire
  <2> QED BY <1>5, <2>4, <2>5, <2>6, <2>7, Quiet
<1> QED BY <1>2, <1>3, <1>4, <1>5
        DEF OperationStep, OperationOvertaken, OperationCancelled, PollSucceeds,
            PollFails, CommandEnds, Disconnected, Finish

LEMMA AdmitOwned ==
  ASSUME Control, Ownership, NEW t \in Tasks, Admit(t) PROVE Ownership'
<1>1. /\ task[t].pc = "admit" /\ task[t].todo = {} /\ UNCHANGED <<own, wire>>
      /\ task \in [Tasks -> Locals] /\ Unclosed' = Unclosed
  BY Standing DEF Admit, Gone, Runs, At, Unclosed, wire
<1>2. t \in Operations \/ t \in Candidates
  BY <1>1, TaskKinds, Standing DEF Places
<1>3. CASE t \notin Operations
  <2>1. task' = [task EXCEPT ![t].pc = "seed"] /\ "seed" \in Labels
    BY <1>3 DEF Admit, Gone, Labels
  <2>2. /\ Moves(t) /\ task'[t].pc = "seed" /\ task'[t].cand = task[t].cand
        /\ task'[t].todo = task[t].todo
    BY <2>1, Relabels
  <2>3. Still(t)
    BY <1>1, <2>2 DEF Still, Holding, Dialling, Activating
  <2> QED BY <1>1, <1>3, <2>2, <2>3, QuietMove
<1>4. CASE t \in Operations /\ End(t)
  <2>1. Moves(t) /\ task'[t].pc = "idle" /\ task'[t].todo = {}
    BY <1>4, Rests DEF End, Places
  <2> QED BY <1>1, <2>1, QuietRest
<1>5. CASE /\ t \in Operations /\ transport # None
           /\ task' = [task EXCEPT ![t] = [task[t] EXCEPT !.pc = "read",
                                             !.cand = transport, !.seen = epoch]]
  <2>1. Moves(t) /\ task'[t].cand = transport /\ task'[t].todo = {}
    BY <1>1, <1>5 DEF Moves, Locals
  <2>2. t \notin Candidates
    BY <1>5, TaskKinds DEF Candidates
  <2> QED BY <1>1, <1>5, <2>1, <2>2, QuietMove
<1>6. ASSUME t \in Operations, ~Gone
      PROVE  /\ transport # None
             /\ task' = [task EXCEPT ![t] = [task[t] EXCEPT !.pc = "read",
                                               !.cand = transport, !.seen = epoch]]
  <2>1. transport # None
    BY <1>6 DEF Gone
  <2>2. task' = [task EXCEPT ![t] = [task[t] EXCEPT !.pc = "read",
                                       !.cand = transport, !.seen = epoch]]
    BY <1>6 DEF Admit
  <2> QED BY <2>1, <2>2
<1>7. t \in Operations /\ Gone => End(t)
  BY DEF Admit
<1>8. CASE t \in Operations /\ Gone
  BY <1>4, <1>7, <1>8
<1>9. CASE t \in Operations /\ ~Gone
  BY <1>5, <1>6, <1>9
<1> QED BY <1>3, <1>8, <1>9

LEMMA CloseMoves ==
  ASSUME Control, NEW t \in Tasks, NEW s, CloseNext(t, s, TRUE) \/ CloseNext(t, s, FALSE),
         task[t].pc = "closing"
  PROVE  /\ Moves(t) /\ task'[t].todo \subseteq task[t].todo
         /\ task'[t].cand = task[t].cand /\ task'[t].after = task[t].after
         /\ task'[t].pc \in {"closing", task[t].after} /\ task[t].after \in Afters(t)
<1>1. PICK ok \in BOOLEAN : CloseNext(t, s, ok)
  OBVIOUS
<1>2. /\ Moves(t) /\ task'[t].todo = task[t].todo \ {s}
      /\ task'[t].cand = task[t].cand /\ task'[t].after = task[t].after
      /\ task'[t].pc = IF task'[t].todo = {} THEN task[t].after ELSE "closing"
  BY <1>1, NextToClose
<1>3. task[t].after \in Afters(t)
  BY Standing DEF Fits
<1> QED BY <1>2, <1>3

\* A session is closed: forgotten wherever it was, and nobody's candidate.
LEMMA ClosedOwned ==
  ASSUME Control, Edges, Ownership, NEW t \in Tasks, Closed(t) PROVE Ownership'
<1>1. PICK s \in task[t].todo :
        /\ session' = [session EXCEPT ![s] = "closed"]
        /\ transport' = IF transport = s THEN None ELSE transport
        /\ pending' = IF pending = s THEN None ELSE pending
        /\ retired' = retired \ {s}
        /\ CloseNext(t, s, TRUE)
  BY DEF Closed
<1>2. task[t].pc = "closing" /\ s \in Sessions /\ s # None
  BY Standing, LimitsPositive DEF Closed, Runs, At, Locals, Sessions, None
<1>3. /\ Moves(t) /\ task'[t].todo \subseteq task[t].todo
      /\ task'[t].cand = task[t].cand /\ task'[t].after = task[t].after
      /\ task'[t].pc \in {"closing", task[t].after} /\ task[t].after \in Afters(t)
  BY <1>1, <1>2, CloseMoves
<1>4. Unclosed' = Unclosed \ {s}
  BY <1>2, <1>1 DEF Unclosed, Control, TypeOK
<1>5. Doomed' \subseteq Doomed
  BY <1>3, DoomedAfter
<1>6. t # "shutdown" => s \in Doomed
  BY <1>2 DEF Doomed
<1>7. t = "shutdown" => \A u \in Tasks \ {"shutdown"} : task[u].pc \in {"idle", "done"}
  BY <1>2 DEF Edges, Joined, Busy
<1>8. NoOrphan'
  <2> SUFFICES ASSUME NEW x \in Unclosed', x \notin Owned'
               PROVE  \E u \in Attempters : task'[u].cand = x
                                            /\ task'[u].pc \in {"dial", "discover"}
    BY DEF NoOrphan
  <2>1. x \in Unclosed /\ x # s
    BY <1>4
  <2>2. x \notin Owned
    BY <1>1, <2>1 DEF Owned
  <2>3. PICK u \in Attempters : task[u].cand = x /\ task[u].pc \in {"dial", "discover"}
    BY <2>1, <2>2 DEF Ownership, NoOrphan
  <2>4. task'[u] = task[u]
    BY <1>2, <1>3, <2>3, TaskKinds DEF Moves, Candidates
  <2> QED BY <2>3, <2>4
<1>9. ASSUME NEW u \in Candidates
      PROVE  /\ Activating(task'[u]) => Activating(task[u])
             /\ Dialling(task'[u]) => Dialling(task[u])
             /\ Holding(task'[u]) =>
                  Holding(task[u]) /\ task'[u].cand = task[u].cand /\ t # "shutdown"
  <2>1. CASE u = t
    <3>1. t # "shutdown" /\ task[t].after \in {"drained", "activate", "failed",
                                                 "abandoned"}
      BY <1>3, <2>1, TaskKinds DEF Candidates, Afters
    <3> QED BY <1>2, <1>3, <2>1, <3>1 DEF Activating, Dialling, Holding
  <2>2. CASE u # t
    <3>1. task'[u] = task[u] /\ u \in Tasks \ {"shutdown"}
      BY <1>3, <2>2, TaskKinds DEF Moves, Candidates
    <3> QED BY <1>7, <3>1 DEF Activating, Dialling, Holding
  <2> QED BY <2>1, <2>2
<1>10. SessionStable'
  <2> SUFFICES ASSUME NEW u \in Operations, task'[u].pc = "read"
               PROVE  transport' = task'[u].cand /\ transport' # None
    BY DEF SessionStable, At
  <2>1. u \in Tasks \ {"shutdown"} /\ u # t
    <3>1. t \in Operations => task'[t].pc \in {"closing", "dead", "doubted", "refused"}
      BY <1>3 DEF Afters
    <3> QED BY <3>1, TaskKinds
  <2>2. task'[u] = task[u] /\ t # "shutdown"
    BY <1>3, <1>7, <2>1 DEF Moves
  <2>3. transport = task[u].cand /\ task[u].cand \in Sessions
    BY <2>1, <2>2, Standing DEF Ownership, SessionStable, At, Fits
  <2>4. transport # None
    BY <2>3, LimitsPositive DEF Sessions, None
  <2>5. transport # s
    BY <1>6, <2>2, <2>4 DEF Ownership
  <2> QED BY <1>1, <2>2, <2>3, <2>4, <2>5
<1>11. ASSUME NEW u \in Candidates PROVE Kept(u)'
  <2>1. Activating(task'[u]) => transport' = None
    BY <1>1, <1>9 DEF Ownership, Kept
  <2>2. Holding(task'[u]) => task'[u].cand \notin {transport'} \cup retired' \cup Doomed'
    <3> HAVE Holding(task'[u])
    <3>1. Holding(task[u]) /\ task'[u].cand = task[u].cand
      BY <1>9
    <3>2. task[u].cand # None /\ task[u].cand \notin {transport} \cup retired \cup Doomed
      BY <3>1, HeldTyped DEF Ownership, Kept
    <3> QED BY <1>1, <1>5, <3>1, <3>2
  <2>3. Dialling(task'[u]) => session'[task'[u].cand] # "closed"
    <3> HAVE Dialling(task'[u])
    <3>1. /\ Dialling(task[u]) /\ Holding(task[u]) /\ task'[u].cand = task[u].cand
          /\ t # "shutdown"
      BY <1>9 DEF Dialling, Holding
    <3>2. /\ session[task[u].cand] # "closed" /\ task[u].cand \notin Doomed
      BY <3>1 DEF Ownership, Kept
    <3>3. task[u].cand # s
      BY <1>6, <3>1, <3>2
    <3> QED BY <1>1, <3>1, <3>2, <3>3 DEF Control, TypeOK
  <2> QED BY <2>1, <2>2, <2>3 DEF Kept, Holding, Dialling, Activating
<1>12. transport' # None => transport' \notin {pending'} \cup retired' \cup Doomed'
  BY <1>1, <1>5 DEF Ownership
<1> QED BY <1>8, <1>10, <1>11, <1>12 DEF Ownership

LEMMA CloseOwned ==
  ASSUME Control, Edges, Ownership, NEW t \in Tasks, CloseStep(t) PROVE Ownership'
<1>1. CASE TakeCloseLock(t)
  <2>1. UNCHANGED <<own, task>> /\ Unclosed' = Unclosed
    BY <1>1 DEF TakeCloseLock, MarkClosing, Unclosed, Control, TypeOK
  <2>2. Doomed' = Doomed
    BY <2>1 DEF Doomed
  <2>3. \A u \in Candidates : Still(u)
    BY <2>1 DEF Still
  <2>4. \A u \in Operations : task'[u].pc = "read" =>
                                task'[u].cand = transport /\ transport # None
    BY <2>1 DEF Ownership, SessionStable, At
  <2> QED BY <2>1, <2>2, <2>3, <2>4, Quiet
<1>2. CASE Closed(t)
  BY <1>2, ClosedOwned
<1>3. CASE CloseFails(t)
  <2>1. PICK s \in task[t].todo : CloseNext(t, s, FALSE)
    BY <1>3 DEF CloseFails
  <2>2. task[t].pc = "closing" /\ UNCHANGED <<own, wire>> /\ Unclosed' = Unclosed
    BY <1>3 DEF CloseFails, Runs, At, Unclosed, wire
  <2>3. /\ Moves(t) /\ task'[t].todo \subseteq task[t].todo
        /\ task'[t].cand = task[t].cand /\ task'[t].after = task[t].after
        /\ task'[t].pc \in {"closing", task[t].after} /\ task[t].after \in Afters(t)
    BY <2>1, <2>2, CloseMoves
  <2>4. ASSUME t \in Candidates PROVE Still(t)
    <3>1. task[t].after \in {"drained", "activate", "failed", "abandoned"}
      BY <2>3, <2>4, TaskKinds DEF Candidates, Afters
    <3> QED BY <2>2, <2>3, <3>1 DEF Still, Holding, Dialling, Activating
  <2>5. t \in Operations => task'[t].pc # "read"
    BY <2>3 DEF Afters
  <2> QED BY <2>2, <2>3, <2>4, <2>5, QuietMove
<1> QED BY <1>1, <1>2, <1>3 DEF CloseStep

\* Flags are raised, or shutdown moves on without closing.
LEMMA FlagsOwned ==
  ASSUME Control, Ownership, UNCHANGED own, Unclosed' = Unclosed,
         \A u \in Tasks \ {"shutdown"} :
           /\ task'[u].pc = task[u].pc /\ task'[u].cand = task[u].cand
           /\ task'[u].todo = task[u].todo /\ task'[u].after = task[u].after
  PROVE  Ownership'
<1>1. Doomed' = Doomed
  BY DEF Doomed
<1>2. \A u \in Candidates : Still(u)
  BY TaskKinds DEF Candidates, Still, Holding, Dialling, Activating
<1>3. \A u \in Operations : task'[u].pc = "read" =>
                              task'[u].cand = transport /\ transport # None
  BY TaskKinds DEF Ownership, SessionStable, At
<1> QED BY <1>1, <1>2, <1>3, Quiet

\* What shutdown does to the other tasks, and to the sessions, on its way.
LEMMA ShutdownMoves ==
  ASSUME Control, BeginShutdown \/ ShutdownStep
  PROVE  /\ UNCHANGED own /\ Unclosed' = Unclosed
         /\ \A u \in Tasks \ {"shutdown"} :
              /\ task'[u].pc = task[u].pc /\ task'[u].cand = task[u].cand
              /\ task'[u].todo = task[u].todo /\ task'[u].after = task[u].after
<1>1. "shutdown" \in Tasks /\ task \in [Tasks -> Locals] /\ "shutdown" \notin Candidates
  BY TaskKinds, Standing DEF Candidates
<1>2. CASE BeginShutdown \/ ShutdownReturns
  BY <1>1, <1>2 DEF BeginShutdown, ShutdownReturns, wire, Unclosed
<1>3. CASE Stop
  BY <1>1, <1>3 DEF Stop, wire, Unclosed, Locals
<1>4. CASE Join
  <2>1. CASE Collected = {}
    BY <1>1, <1>4, <2>1 DEF Join, Unclosed
  <2>2. CASE Collected # {}
    <3>1. Collected \in SUBSET Sessions /\ "swept" \in Afters("shutdown")
      BY TaskKinds DEF Collected, Owned, Control, TypeOK, Afters
    <3>2. BeginClose("shutdown", Collected, "swept")
      BY <1>4, <2>2 DEF Join
    <3>3. Moves("shutdown") /\ Unclosed' = Unclosed
      BY <1>1, <3>1, <3>2, CloseBegins
    <3> QED BY <1>4, <3>3 DEF Join, Moves
  <2> QED BY <2>1, <2>2
<1> QED BY <1>2, <1>3, <1>4 DEF ShutdownStep

LEMMA NextOwnership ==
  ASSUME Control, Edges, Ownership, [Next]_vars PROVE Ownership'
<1>1. CASE StartStep
  BY <1>1, StartOwned
<1>2. CASE Loop
  <2>1. /\ "reconnect" \in Tasks /\ "reconnect" \in Candidates
        /\ {"idle", "attempt"} \subseteq Places("reconnect")
        /\ task["reconnect"].pc = "loop" /\ UNCHANGED <<own, wire>>
    BY <1>2, TaskKinds DEF Candidates, Attempters, Places, Loop, Runs, At
  <2>2. /\ Moves("reconnect") /\ task'["reconnect"].pc \in {"idle", "attempt"}
        /\ task'["reconnect"].todo = {}
    <3>1. CASE task' = [task EXCEPT !["reconnect"] = Idle]
      BY <2>1, <3>1, Rests
    <3>2. CASE task' = [task EXCEPT !["reconnect"].pc = "attempt"]
      <4>1. "attempt" \in Labels /\ task["reconnect"].todo = {}
        BY <2>1, Standing DEF Labels
      <4> QED BY <2>1, <3>2, <4>1, Relabels
    <3> QED BY <1>2, <3>1, <3>2 DEF Loop
  <2>3. Unclosed' = Unclosed
    BY <2>1 DEF Unclosed, wire
  <2> QED BY <2>1, <2>2, <2>3, QuietRest
<1>3. CASE Observe \/ Stopped \/ UNCHANGED vars
  <2>1. UNCHANGED <<task, own, wire>>
    BY <1>3 DEF Observe, Stopped, vars
  <2>2. Unclosed' = Unclosed
    BY <2>1 DEF Unclosed, wire
  <2> QED BY <2>1, <2>2, FlagsOwned
<1>4. CASE BeginShutdown \/ ShutdownStep
  BY <1>4, ShutdownMoves, FlagsOwned
<1>5. ASSUME NEW t \in Tasks, Admit(t) \/ CloseStep(t) \/ CallerCancels(t)
      PROVE  Ownership'
  <2>1. CASE CallerCancels(t)
    <3>1. task' = [task EXCEPT ![t].cancel = TRUE] /\ UNCHANGED <<own, wire>>
          /\ task \in [Tasks -> Locals]
      BY <2>1, Standing DEF CallerCancels
    <3>2. \A u \in Tasks :
            /\ task'[u].pc = task[u].pc /\ task'[u].cand = task[u].cand
            /\ task'[u].todo = task[u].todo /\ task'[u].after = task[u].after
      BY <3>1 DEF Locals
    <3>3. Unclosed' = Unclosed
      BY <3>1 DEF Unclosed, wire
    <3> QED BY <3>1, <3>2, <3>3, FlagsOwned
  <2> QED BY <1>5, <2>1, AdmitOwned, CloseOwned
<1>6. ASSUME NEW t \in Candidates, SeedStep(t) \/ CandidateCancelled(t)
      PROVE  Ownership'
  BY <1>6, SeedOwned, AbandonedOwned
<1>7. CASE AttemptCancelled("start")
  BY <1>7, LeftOwned DEF Candidates
<1>8. ASSUME NEW t \in Attempters, AttemptStep(t) PROVE Ownership'
  BY <1>8, AttemptOwned
<1>9. ASSUME NEW t \in Operations, Submit(t) \/ OperationStep(t) PROVE Ownership'
  BY <1>9, OperationOwned
<1> QED BY <1>1, <1>2, <1>3, <1>4, <1>5, <1>6, <1>7, <1>8, <1>9 DEF Next, Candidates

LEMMA InitOwnership == ASSUME Init PROVE Ownership
<1>1. Unclosed = {} /\ transport = None /\ \A u \in Tasks : task[u].pc = "idle"
  BY IdleIsIdle DEF Init, Unclosed
<1>2. \A u \in Candidates : ~Holding(task[u]) /\ ~Dialling(task[u]) /\ ~Activating(task[u])
  BY <1>1, TaskKinds DEF Holding, Dialling, Activating
<1>3. \A u \in Operations : task[u].pc # "read"
  BY <1>1, TaskKinds
<1> QED BY <1>1, <1>2, <1>3 DEF Ownership, NoOrphan, SessionStable, Kept, At
-----------------------------------------------------------------------------
(* Sweeping: what a shutdown leaves *)

\* A shutdown that has been clean so far leaves nothing open.
Sweeping ==
  LET s == task["shutdown"] IN
  /\ s.pc = "closing" /\ s.clean => Unclosed \subseteq s.todo
  /\ s.pc = "swept" /\ s.clean => Unclosed = {}
  /\ s.pc = "done" => Unclosed = {}

\* Steps that leave shutdown alone, and the sessions while it closes them.
LEMMA OthersSweep ==
  ASSUME Sweeping, task'["shutdown"] = task["shutdown"],
         task["shutdown"].pc \in {"closing", "swept", "done"} => Unclosed' = Unclosed
  PROVE  Sweeping'
BY DEF Sweeping

LEMMA WorkedSweep ==
  ASSUME Edges, Sweeping, NEW t \in Tasks \ {"shutdown"}, Worked(t)
  PROVE  Sweeping'
<1>1. "shutdown" \in Tasks /\ "shutdown" # "reconnect"
  BY TaskKinds
<1>2. task'["shutdown"] = task["shutdown"]
  BY <1>1 DEF Worked
<1>3. task["shutdown"].pc \notin {"closing", "swept", "done"}
  BY DEF Edges, Joined, Worked
<1> QED BY <1>2, <1>3, OthersSweep

\* Shutdown has joined every task, so what is open is owned.
LEMMA OpenIsOwned ==
  ASSUME Ownership, \A u \in Tasks \ {"shutdown"} : ~Busy(u)
  PROVE  Unclosed \subseteq Owned
<1> SUFFICES ASSUME NEW s \in Unclosed, s \notin Owned PROVE FALSE
  OBVIOUS
<1>1. PICK u \in Attempters : task[u].pc \in {"dial", "discover"}
  BY DEF Ownership, NoOrphan
<1> QED BY <1>1, TaskKinds DEF Busy, Candidates

LEMMA SweepingMoves ==
  ASSUME Control, Edges, Ownership, Sweeping,
         BeginShutdown \/ ShutdownStep \/ CloseStep("shutdown")
  PROVE  Sweeping'
<1>1. "shutdown" \in Tasks /\ task \in [Tasks -> Locals] /\ "shutdown" \notin Candidates
  BY TaskKinds, Standing DEF Candidates
<1>2. CASE BeginShutdown
  <2>1. task'["shutdown"].pc = "stop"
    BY <1>1, <1>2 DEF BeginShutdown, Locals
  <2> QED BY <2>1 DEF Sweeping
<1>3. CASE Stop
  <2>1. task'["shutdown"].pc = "join"
    BY <1>1, <1>3 DEF Stop, Locals
  <2> QED BY <2>1 DEF Sweeping
<1>4. CASE Join
  <2>1. Unclosed \subseteq Owned
    BY <1>4, OpenIsOwned DEF Join
  <2>2. CASE Collected = {}
    <3>1. /\ "swept" \in Labels /\ UNCHANGED session
          /\ task' = [task EXCEPT !["shutdown"].pc = "swept", !["shutdown"].clean = TRUE]
      BY <1>4, <2>2 DEF Join, Labels
    <3>2. task'["shutdown"].pc = "swept"
      BY <1>1, <3>1, NothingToClose
    <3>3. Unclosed' = {}
      BY <2>1, <2>2, <3>1 DEF Collected, Unclosed
    <3> QED BY <3>2, <3>3 DEF Sweeping
  <2>3. CASE Collected # {}
    <3>1. Collected \in SUBSET Sessions /\ "swept" \in Afters("shutdown")
      BY TaskKinds DEF Collected, Owned, Control, TypeOK, Afters
    <3>2. BeginClose("shutdown", Collected, "swept")
      BY <1>4, <2>3 DEF Join
    <3>3. /\ task'["shutdown"].pc = "closing" /\ Unclosed' = Unclosed
          /\ task'["shutdown"].todo = Collected
      BY <1>1, <3>1, <3>2, CloseBegins
    <3> QED BY <2>1, <3>3 DEF Sweeping, Collected
  <2> QED BY <2>2, <2>3
<1>5. CASE ShutdownReturns
  <2>1. /\ task["shutdown"].pc = "swept" /\ Unclosed' = Unclosed
        /\ {"idle", "done"} \subseteq Places("shutdown")
    BY <1>5, TaskKinds DEF ShutdownReturns, At, wire, Unclosed, Places
  <2>2. CASE task["shutdown"].clean
    BY <2>1, <2>2 DEF Sweeping
  <2>3. CASE ~task["shutdown"].clean
    <3>1. task' = [task EXCEPT !["shutdown"] = Idle]
      BY <1>5, <2>3 DEF ShutdownReturns
    <3>2. task'["shutdown"].pc = "idle"
      BY <1>1, <2>1, <3>1, Rests
    <3> QED BY <3>2 DEF Sweeping
  <2> QED BY <2>2, <2>3
<1>6. CASE TakeCloseLock("shutdown")
  <2>1. UNCHANGED task /\ Unclosed' = Unclosed
    BY <1>6 DEF TakeCloseLock, MarkClosing, Unclosed, Control, TypeOK
  <2> QED BY <2>1, OthersSweep
<1>7. CASE Closed("shutdown")
  <2>1. PICK s \in task["shutdown"].todo :
          /\ session' = [session EXCEPT ![s] = "closed"]
          /\ CloseNext("shutdown", s, TRUE)
    BY <1>7 DEF Closed
  <2>2. task["shutdown"].pc = "closing" /\ TRUE \in BOOLEAN
    BY <1>7 DEF Closed, Runs, At
  <2>3. s \in Sessions
    BY <1>1, <2>1 DEF Locals
  <2>4. /\ task'["shutdown"].todo = task["shutdown"].todo \ {s}
        /\ task'["shutdown"].clean = (task["shutdown"].clean /\ TRUE)
        /\ task'["shutdown"].pc = IF task'["shutdown"].todo = {}
                                    THEN task["shutdown"].after ELSE "closing"
    BY <1>1, <2>1, <2>2, NextToClose
  <2>5. task["shutdown"].after = "swept"
    BY <1>1, <2>2, Standing, TaskKinds DEF Fits, Afters
  <2>6. Unclosed' = Unclosed \ {s}
    BY <2>1, <2>3 DEF Unclosed, Control, TypeOK
  <2>7. task'["shutdown"].clean => Unclosed' \subseteq task'["shutdown"].todo
    BY <2>2, <2>4, <2>6 DEF Sweeping
  <2> QED BY <2>4, <2>5, <2>7 DEF Sweeping
<1>8. CASE CloseFails("shutdown")
  <2>1. PICK s \in task["shutdown"].todo : CloseNext("shutdown", s, FALSE)
    BY <1>8 DEF CloseFails
  <2>2. task["shutdown"].pc = "closing" /\ FALSE \in BOOLEAN
    BY <1>8 DEF CloseFails, Runs, At
  <2>3. /\ task'["shutdown"].clean = (task["shutdown"].clean /\ FALSE)
        /\ task'["shutdown"].pc = IF task'["shutdown"].todo = {}
                                    THEN task["shutdown"].after ELSE "closing"
    BY <1>1, <2>1, <2>2, NextToClose
  <2>4. task["shutdown"].after = "swept"
    BY <1>1, <2>2, Standing, TaskKinds DEF Fits, Afters
  <2> QED BY <2>3, <2>4 DEF Sweeping
<1> QED BY <1>2, <1>3, <1>4, <1>5, <1>6, <1>7, <1>8 DEF ShutdownStep, CloseStep

LEMMA NextSweeping ==
  ASSUME Control, Edges, Ownership, Sweeping, [Next]_vars PROVE Sweeping'
<1> USE TaskKinds
<1>0. "shutdown" \in Tasks /\ "shutdown" \notin Candidates /\ task \in [Tasks -> Locals]
  BY Standing DEF Candidates
<1>1. CASE StartStep
  <2>1. CASE Start
    <3>1. /\ task' = [task EXCEPT !["start"] =
                       [task["start"] EXCEPT !.pc = "connect", !.cand = Slot,
                                             !.seen = epoch']]
          /\ ~down
      BY <2>1 DEF Start, Open
    <3>2. task'["shutdown"] = task["shutdown"]
      BY <1>0, <3>1
    <3>3. task["shutdown"].pc \notin {"closing", "swept", "done"}
      BY <3>1 DEF Edges, Joined, At
    <3> QED BY <3>2, <3>3, OthersSweep
  <2> QED BY <1>1, <2>1, StartWorks, WorkedSweep DEF Candidates
<1>2. CASE Loop
  <2>1. "reconnect" \in Tasks \ {"shutdown"} /\ "reconnect" # "start"
    BY DEF Candidates, Attempters
  <2>2. Worked("reconnect")
    BY <1>0, <1>2, <2>1 DEF Worked, Loop, Runs, At, Busy, life
  <2> QED BY <2>1, <2>2, WorkedSweep
<1>3. CASE Observe \/ Stopped \/ UNCHANGED vars
  <2>1. UNCHANGED <<task, session>>
    BY <1>3 DEF Observe, Stopped, vars, wire
  <2> QED BY <2>1, OthersSweep DEF Unclosed
<1>4. CASE BeginShutdown \/ ShutdownStep
  BY <1>4, SweepingMoves
<1>5. ASSUME NEW t \in Tasks, Admit(t) \/ CloseStep(t) \/ CallerCancels(t)
      PROVE  Sweeping'
  <2>1. CASE t # "shutdown"
    BY <1>5, <2>1, CommonWorks, WorkedSweep
  <2>2. CASE t = "shutdown"
    <3>1. ~Admit(t) /\ ~CallerCancels(t)
      BY <2>2, TasksDiffer, Standing DEF Admit, Gone, CallerCancels, Runs, At, Places
    <3> QED BY <1>5, <2>2, <3>1, SweepingMoves
  <2> QED BY <2>1, <2>2
<1>6. ASSUME NEW t \in Candidates, SeedStep(t) \/ CandidateCancelled(t) PROVE Sweeping'
  BY <1>6, SeedWorks, CancelledWorks, WorkedSweep DEF Candidates
<1>7. CASE AttemptCancelled("start")
  BY <1>7, CancelledWorks, WorkedSweep DEF Candidates
<1>8. ASSUME NEW t \in Attempters, AttemptStep(t) PROVE Sweeping'
  <2>1. t \in Tasks \ {"shutdown"}
    BY DEF Candidates
  <2>2. CASE ~Attempt(t)
    BY <1>8, <2>1, <2>2, AttemptWorks, WorkedSweep
  <2>3. CASE Attempt(t)
    <3>1. task'["shutdown"] = task["shutdown"] /\ UNCHANGED session
      BY <1>0, <2>1, <2>3 DEF Attempt, EndAttempt, wire
    <3> QED BY <3>1, OthersSweep DEF Unclosed
  <2> QED BY <2>2, <2>3
<1>9. ASSUME NEW t \in Operations, Submit(t) \/ OperationStep(t) PROVE Sweeping'
  <2>1. t \in Tasks \ {"shutdown"}
    OBVIOUS
  <2>2. CASE Submit(t)
    <3>1. task'["shutdown"] = task["shutdown"] /\ UNCHANGED session
      BY <1>0, <2>1, <2>2 DEF Submit, wire
    <3> QED BY <3>1, OthersSweep DEF Unclosed
  <2> QED BY <1>9, <2>1, <2>2, OperationWorks, WorkedSweep
<1> QED BY <1>1, <1>2, <1>3, <1>4, <1>5, <1>6, <1>7, <1>8, <1>9 DEF Next, Candidates

-----------------------------------------------------------------------------
(* The invariant and what follows from it *)

IInv == Control /\ Edges /\ Ownership /\ Sweeping

LEMMA Inductive == (Init => IInv) /\ (IInv /\ [Next]_vars => IInv')
<1>1. ASSUME Init PROVE IInv
  <2>1. task["shutdown"].pc = "idle"
    BY <1>1, IdleIsIdle, TaskKinds DEF Init
  <2>2. Sweeping
    BY <2>1 DEF Sweeping
  <2> QED BY <1>1, <2>2, InitControl, InitEdges, InitOwnership DEF IInv
<1>2. ASSUME IInv, [Next]_vars PROVE IInv'
  BY <1>2, NextControl, NextEdges, NextOwnership, NextSweeping DEF IInv
<1> QED BY <1>1, <1>2

\* No session is lost: _retain_retired, _pending_transport and _transport
\* between them hold whatever is not closed, or an attempt is dialling it.
THEOREM NoneLost == Spec => []NoOrphan
<1>1. IInv => NoOrphan
  BY DEF IInv, Ownership
<1> QED BY <1>1, Inductive, PTL DEF Spec

\* A session in use under the admission is not replaced or closed by another
\* task (_activate_seeded, _async_drain_inactive_transports, shutdown).
THEOREM NotTakenAway == Spec => []SessionStable
<1>1. IInv => SessionStable
  BY DEF IInv, Ownership
<1> QED BY <1>1, Inductive, PTL DEF Spec

\* async_shutdown returns without an error only when no session is open and
\* no task is running.
THEOREM Swept == Spec => []ShutdownCloses
<1>1. ASSUME IInv PROVE ShutdownCloses
  <2> SUFFICES ASSUME task["shutdown"].pc = "done"
               PROVE  Unclosed = {} /\ \A t \in Tasks : ~Busy(t)
    BY DEF ShutdownCloses, At
  <2>1. Unclosed = {}
    BY <1>1 DEF IInv, Sweeping
  <2>2. \A t \in Tasks : ~Busy(t)
    BY <1>1 DEF IInv, Edges, Joined, Busy
  <2> QED BY <2>1, <2>2
<1> QED BY <1>1, Inductive, PTL DEF Spec

-----------------------------------------------------------------------------
(* One step, seen from one task and from the sessions *)

\* Task u stays where it is; its cancellation may be asked for.
Keeps(u) ==
  /\ task'[u].pc = task[u].pc /\ task'[u].after = task[u].after
  /\ task'[u].cand = task[u].cand /\ task'[u].seen = task[u].seen
  /\ task'[u].todo = task[u].todo /\ task'[u].clean = task[u].clean
  /\ task'[u].cancel = task[u].cancel \/ Stop \/ CallerCancels(u)

\* The steps of task u itself, and the one by which an operation starts the
\* reconnect task.
Steps(u) ==
  \/ u = "start" /\ (StartStep \/ AttemptCancelled(u))
  \/ u = "reconnect" /\ Loop
  \/ Admit(u) \/ CloseStep(u)
  \/ u \in Candidates /\ (SeedStep(u) \/ CandidateCancelled(u))
  \/ u \in Attempters /\ AttemptStep(u)
  \/ u \in Operations /\ (Submit(u) \/ OperationStep(u))
Woken(u) ==
  /\ u = "reconnect" /\ ~Busy(u) /\ ~down
  /\ task'[u] = [Idle EXCEPT !.pc = "loop"]
  /\ \E t \in Operations : Disconnected(t)

LEMMA FlagRaised ==
  ASSUME Control, NEW t \in Tasks, task' = [task EXCEPT ![t].cancel = TRUE],
         NEW u \in Tasks
  PROVE  /\ task'[u].pc = task[u].pc /\ task'[u].after = task[u].after
         /\ task'[u].cand = task[u].cand /\ task'[u].seen = task[u].seen
         /\ task'[u].todo = task[u].todo /\ task'[u].clean = task[u].clean
         /\ u # t => task'[u] = task[u]
BY DEF Control, TypeOK, Locals

LEMMA StopFlags ==
  ASSUME Control, Stop, NEW u \in Tasks \ {"shutdown"}
  PROVE  Keeps(u)
<1>1. task[u] \in Locals
  BY Standing
<1>2. \/ task'[u] = [task[u] EXCEPT !.cancel = TRUE]
      \/ task'[u] = task[u]
  BY DEF Stop
<1> QED BY <1>1, <1>2 DEF Keeps, Locals

LEMMA ShutdownKeeps ==
  ASSUME Control, BeginShutdown \/ ShutdownStep, NEW u \in Tasks \ {"shutdown"}
  PROVE  Keeps(u)
<1>1. "shutdown" \in Tasks /\ task \in [Tasks -> Locals]
  BY TaskKinds, Standing
<1>2. CASE Stop
  BY <1>2, StopFlags
<1>3. CASE BeginShutdown \/ Join \/ ShutdownReturns
  <2>1. task'[u] = task[u]
    BY <1>1, <1>3 DEF BeginShutdown, Join, ShutdownReturns, BeginClose
  <2> QED BY <2>1 DEF Keeps
<1> QED BY <1>2, <1>3 DEF ShutdownStep

LEMMA CloseStepMoves == ASSUME Control, NEW t \in Tasks, CloseStep(t) PROVE Moves(t)
<1>1. CASE TakeCloseLock(t)
  BY <1>1 DEF TakeCloseLock, Moves
<1>2. CASE Closed(t) \/ CloseFails(t)
  <2>1. \E s : CloseNext(t, s, TRUE) \/ CloseNext(t, s, FALSE)
    BY <1>2 DEF Closed, CloseFails
  <2>2. task[t].pc = "closing"
    BY <1>2 DEF Closed, CloseFails, Runs, At
  <2> QED BY <2>1, <2>2, CloseMoves
<1> QED BY <1>1, <1>2 DEF CloseStep

\* A step of t leaves the other tasks alone, but for the reconnect task that
\* an operation starts.
LEMMA StepMoves ==
  ASSUME Control, NEW t \in Tasks \ {"shutdown"}, Steps(t)
  PROVE  Moves(t) \/ (t \in Operations /\ Disconnected(t) /\ EndEnsuringReconnect(t))
<1>0. /\ task \in [Tasks -> Locals] /\ "start" \notin Operations
      /\ "reconnect" \in Tasks /\ "reconnect" \notin Operations
  BY TaskKinds, Standing DEF Candidates, Attempters
<1>1. ASSUME Worked(t), t \notin Operations PROVE Moves(t)
  BY <1>1 DEF Worked, Moves
<1>2. CASE t = "start" /\ (StartStep \/ AttemptCancelled(t))
  <2>1. CASE Start
    BY <1>0, <1>2, <2>1 DEF Start, Open, Moves
  <2>2. CASE ~Start
    <3>1. Worked(t)
      BY <1>2, <2>2, StartWorks, CancelledWorks DEF Candidates
    <3> QED BY <1>0, <1>1, <1>2, <3>1
  <2> QED BY <2>1, <2>2
<1>3. CASE t = "reconnect" /\ Loop
  BY <1>0, <1>3 DEF Loop, Moves
<1>4. CASE Admit(t)
  <2>1. CASE t \notin Operations
    BY <1>0, <1>4, <2>1 DEF Admit, Gone, Moves
  <2>2. CASE t \in Operations
    BY <1>0, <1>4, <2>2 DEF Admit, Gone, End, Moves
  <2> QED BY <2>1, <2>2
<1>5. CASE CloseStep(t)
  BY <1>5, CloseStepMoves
<1>6. CASE t \in Candidates /\ (SeedStep(t) \/ CandidateCancelled(t))
  BY <1>1, <1>6, SeedWorks, CancelledWorks, TaskKinds DEF Candidates
<1>7. CASE t \in Attempters /\ AttemptStep(t)
  <2>1. CASE Attempt(t)
    BY <1>0, <2>1 DEF Attempt, EndAttempt, Moves
  <2>2. CASE ~Attempt(t)
    BY <1>1, <1>7, <2>2, AttemptWorks, TaskKinds DEF Candidates
  <2> QED BY <2>1, <2>2
<1>8. CASE t \in Operations /\ (Submit(t) \/ OperationStep(t))
  <2>1. CASE End(t) \/ Submit(t) \/ \E S, label : BeginClose(t, S, label)
    BY <1>0, <2>1 DEF End, Submit, BeginClose, Moves
  <2> QED BY <1>8, <2>1
          DEF OperationStep, OperationOvertaken, FatalEvidence, OperationCancelled,
              PollSucceeds, PollFails, GenerationDies, CommandEnds, Finish,
              Disconnect, Disconnected
<1> QED BY <1>2, <1>3, <1>4, <1>5, <1>6, <1>7, <1>8 DEF Steps

\* Every step is shutdown's, a task's, a caller's or a notification's.
LEMMA NextSteps ==
  ASSUME Control, [Next]_vars
  PROVE  \/ Observe \/ UNCHANGED vars
         \/ BeginShutdown \/ ShutdownStep \/ CloseStep("shutdown")
         \/ \E t \in Tasks \ {"shutdown"} : CallerCancels(t) \/ Steps(t)
<1>0. /\ Candidates \subseteq Tasks \ {"shutdown"} /\ Attempters \subseteq Candidates
      /\ Operations \subseteq Tasks \ {"shutdown"} /\ "start" \in Candidates
      /\ "reconnect" \in Attempters
  BY TaskKinds DEF Candidates, Attempters
<1>1. ~Admit("shutdown") /\ ~CallerCancels("shutdown")
  BY TaskKinds, TasksDiffer, Standing DEF Admit, Gone, CallerCancels, Runs, At, Places
<1>2. CASE \E t \in Tasks : Admit(t) \/ CloseStep(t) \/ CallerCancels(t)
  BY <1>1, <1>2 DEF Steps
<1>3. CASE StartStep \/ AttemptCancelled("start") \/ Loop
  BY <1>0, <1>3 DEF Steps
<1>4. CASE \E t \in Candidates : SeedStep(t) \/ CandidateCancelled(t)
  BY <1>0, <1>4 DEF Steps
<1>5. CASE \/ \E t \in Attempters : AttemptStep(t)
           \/ \E t \in Operations : Submit(t) \/ OperationStep(t)
  BY <1>0, <1>5 DEF Steps
<1>6. CASE Stopped
  BY <1>6 DEF Stopped
<1> QED BY <1>2, <1>3, <1>4, <1>5, <1>6 DEF Next, Candidates

LEMMA OneSteps ==
  ASSUME Control, [Next]_vars, NEW u \in Tasks \ {"shutdown"}
  PROVE  Keeps(u) \/ Steps(u) \/ Woken(u)
<1>1. ASSUME NEW t \in Tasks, t # u, Moves(t) PROVE Keeps(u)
  BY <1>1 DEF Moves, Keeps
<1>2. CASE Observe \/ UNCHANGED vars
  BY <1>2 DEF Observe, vars, Keeps
<1>3. CASE BeginShutdown \/ ShutdownStep
  BY <1>3, ShutdownKeeps
<1>4. CASE CloseStep("shutdown")
  BY <1>1, <1>4, CloseStepMoves, TaskKinds
<1>5. ASSUME NEW t \in Tasks, CallerCancels(t) PROVE Keeps(u)
  <2>1. task' = [task EXCEPT ![t].cancel = TRUE]
    BY <1>5 DEF CallerCancels
  <2> QED BY <1>5, <2>1, FlagRaised DEF Keeps
<1>6. ASSUME NEW t \in Tasks \ {"shutdown"}, Steps(t), t # u
      PROVE  Keeps(u) \/ Woken(u)
  <2>1. CASE Moves(t)
    BY <1>1, <1>6, <2>1
  <2>2. CASE t \in Operations /\ Disconnected(t) /\ EndEnsuringReconnect(t)
    <3>1. task'[u] = task[u] \/ Woken(u)
      BY <1>6, <2>2, LoopStarts DEF Woken
    <3> QED BY <3>1 DEF Keeps
  <2> QED BY <1>6, <2>1, <2>2, StepMoves
<1> QED BY <1>2, <1>3, <1>4, <1>5, <1>6, NextSteps

\* A session gets in use by its activation, and out of use by a replacement,
\* a disconnect or its close.
LEMMA WhoPublishes ==
  ASSUME Control, [Next]_vars, transport' # transport
  PROVE  \/ \E t \in Candidates :
              Publish(t) /\ ~down /\ Holding(task[t]) /\ Generates(task[t])
         \/ /\ transport' = None
            /\ \/ \E t \in Candidates : SeedReplaces(t)
               \/ \E t \in Tasks : Closed(t)
               \/ \E t \in Operations, label \in {"dead", "doubted", "refused"} :
                    Using(t) /\ ~LostSession(t) /\ Disconnect(t, label)
<1>1. CASE Observe \/ UNCHANGED vars \/ BeginShutdown \/ ShutdownStep
  BY <1>1 DEF Observe, vars, BeginShutdown, ShutdownStep, Stop, Join, ShutdownReturns,
              own
<1>2. ASSUME NEW t \in Tasks, CloseStep(t) \/ CallerCancels(t) \/ Admit(t)
      PROVE  transport' = None /\ Closed(t)
  BY <1>2 DEF CloseStep, TakeCloseLock, Closed, CloseFails, CallerCancels, Admit, Gone, own
<1>3. CASE StartStep \/ Loop
  BY <1>3 DEF StartStep, Start, Connect, ConnectFails, StartFails, Loop, own
<1>4. ASSUME NEW t \in Candidates, SeedStep(t)
      PROVE  \/ Publish(t) /\ ~down /\ Holding(task[t]) /\ Generates(task[t])
             \/ transport' = None /\ SeedReplaces(t)
  BY <1>4 DEF SeedStep, SeedActivates, SeedReplaces, ReplacementActivates,
              ReplacementFails, SeedOvertaken, SeedFails, Seeding, Runs, At, Holding,
              Activating, Generates, own
<1>5. ASSUME NEW t, CandidateCancelled(t) \/ AttemptCancelled(t) \/ AttemptStep(t)
      PROVE  FALSE
  BY <1>5 DEF CandidateCancelled, AttemptCancelled, AttemptStep, Attempt, Drain,
              DrainFailed, Dial, Dialled, DialFails, DiscoverFails, CandidateFailed,
              CandidateAbandoned, own
<1>6. ASSUME NEW t \in Operations, Submit(t) \/ OperationStep(t)
      PROVE  \E label \in {"dead", "doubted", "refused"} :
               Using(t) /\ ~LostSession(t) /\ Disconnect(t, label)
  BY <1>6 DEF Submit, OperationStep, OperationOvertaken, Disconnected, FatalEvidence,
              GenerationDies, OperationCancelled, CommandEnds, PollFails,
              PollSucceeds, own
<1>7. ASSUME NEW t \in Operations, NEW label, Disconnect(t, label)
      PROVE  transport' = None
  BY <1>7 DEF Disconnect
<1> QED BY <1>1, <1>2, <1>3, <1>4, <1>5, <1>6, <1>7, NextSteps, TaskKinds DEF Steps

\* Only start and an attempt that dials open a session.
LEMMA StaysClosed ==
  ASSUME Control, Ownership, [Next]_vars, NEW s \in Sessions, session[s] = "closed",
         ~Start, \A t \in Attempters : ~Dial(t)
  PROVE  session'[s] = "closed"
<1> USE DEF MarkClosing, Unclosed
<1>0. session \in [Sessions -> {"closed", "connecting", "open", "closing"}]
  BY DEF Control, TypeOK
<1>1. CASE StartStep
  <2>1. CASE Connect
    <3>1. "start" \in Candidates /\ Dialling(task["start"])
      BY <2>1 DEF Connect, Runs, At, Dialling, Candidates
    <3>2. session[task["start"].cand] # "closed"
      BY <3>1 DEF Ownership, Kept
    <3> QED BY <1>0, <2>1, <3>2 DEF Connect
  <2>2. CASE ConnectFails \/ StartFails
    BY <1>0, <2>2 DEF ConnectFails, StartFails, BeginClose, wire
  <2> QED BY <1>1, <2>1, <2>2 DEF StartStep
<1>2. CASE Loop \/ Observe \/ BeginShutdown \/ ShutdownStep
  BY <1>0, <1>2 DEF Loop, Observe, BeginShutdown, ShutdownStep, Stop, Join,
              ShutdownReturns, BeginClose, wire
<1>3. CASE Stopped \/ UNCHANGED vars
  BY <1>3 DEF Stopped, vars, wire
<1>4. ASSUME NEW t \in Tasks, Admit(t) \/ CloseStep(t) \/ CallerCancels(t)
      PROVE  session'[s] = "closed"
  BY <1>0, <1>4 DEF Admit, Gone, CloseStep, TakeCloseLock, Closed, CloseFails,
                    CallerCancels, wire
<1>5. ASSUME NEW t \in Candidates, SeedStep(t) \/ CandidateCancelled(t)
      PROVE  session'[s] = "closed"
  BY <1>0, <1>5 DEF SeedStep, SeedActivates, SeedReplaces, ReplacementActivates,
              ReplacementFails, SeedOvertaken, SeedFails, CandidateCancelled,
              DropCandidate, BeginClose, wire
<1>6. ASSUME NEW t, AttemptCancelled(t) PROVE session'[s] = "closed"
  BY <1>0, <1>6 DEF AttemptCancelled
<1>7. ASSUME NEW t \in Attempters, AttemptStep(t) PROVE session'[s] = "closed"
  <2>1. CASE Dialled(t)
    <3>1. t \in Candidates /\ Dialling(task[t])
      BY <2>1 DEF Dialled, Runs, At, Dialling, Candidates
    <3>2. session[task[t].cand] # "closed"
      BY <3>1 DEF Ownership, Kept
    <3> QED BY <1>0, <2>1, <3>2 DEF Dialled
  <2>2. CASE Drain(t)
    BY <1>0, <2>2 DEF Drain, BeginClose
  <2>3. CASE DialFails(t) \/ DiscoverFails(t)
    BY <1>0, <2>3 DEF DialFails, DiscoverFails
  <2>4. CASE Attempt(t) \/ DrainFailed(t) \/ CandidateFailed(t) \/ CandidateAbandoned(t)
    BY <2>4 DEF Attempt, DrainFailed, CandidateFailed, CandidateAbandoned, wire
  <2> QED BY <1>6, <1>7, <2>1, <2>2, <2>3, <2>4 DEF AttemptStep
<1>8. ASSUME NEW t \in Operations, Submit(t) \/ OperationStep(t)
      PROVE  session'[s] = "closed"
  <2>1. CASE GenerationDies \/ FatalEvidence(t)
    BY <1>0, <2>1 DEF GenerationDies, FatalEvidence, Disconnect, BeginClose
  <2>2. CASE ~GenerationDies /\ ~FatalEvidence(t)
    BY <1>8, <2>2 DEF Submit, OperationStep, OperationOvertaken, Disconnected,
              OperationCancelled, CommandEnds, PollFails, PollSucceeds, wire
  <2> QED BY <2>1, <2>2
<1> QED BY <1>1, <1>2, <1>3, <1>4, <1>5, <1>6, <1>7, <1>8 DEF Next, Candidates

-----------------------------------------------------------------------------
(* After shutdown began *)

LEMMA FinalAvailable ==
  ASSUME Edges, [Next]_vars, down PROVE available' => available
<1>1. CASE StartStep
  BY <1>1 DEF StartStep, Start, Connect, ConnectFails, StartFails, told
<1>2. CASE Loop \/ Observe \/ BeginShutdown \/ ShutdownStep
  BY <1>2 DEF Loop, Observe, BeginShutdown, ShutdownStep, Stop, Join,
              ShutdownReturns, told
<1>3. CASE Stopped \/ UNCHANGED vars
  BY <1>3 DEF Stopped, vars, told
<1>4. ASSUME NEW t \in Tasks, Admit(t) \/ CloseStep(t) \/ CallerCancels(t)
      PROVE  available' => available
  BY <1>4 DEF Admit, Gone, CloseStep, TakeCloseLock, Closed, CloseFails, CallerCancels, told
<1>5. ASSUME NEW t \in Candidates, SeedStep(t) \/ CandidateCancelled(t)
      PROVE  available' => available
  BY <1>5 DEF SeedStep, SeedActivates, SeedReplaces, ReplacementActivates,
              ReplacementFails, SeedOvertaken, SeedFails, CandidateCancelled, told
<1>6. CASE AttemptCancelled("start")
  BY <1>6 DEF AttemptCancelled, told
<1>7. ASSUME NEW t \in Attempters, AttemptStep(t) PROVE available' => available
  BY <1>7 DEF AttemptStep, Attempt, Drain, Dial, Dialled, CandidateAbandoned,
              AttemptCancelled, DrainFailed, DialFails, DiscoverFails,
              CandidateFailed, Failure, told
<1>8. ASSUME NEW t \in Operations, Submit(t) \/ OperationStep(t)
      PROVE  available' => available
  BY <1>8 DEF Submit, OperationStep, OperationOvertaken, Disconnected,
              OperationCancelled, CommandEnds, PollFails, PollSucceeds,
              GenerationDies, FatalEvidence, Disconnect, LostSession, LostEpoch, told
<1> QED BY <1>1, <1>2, <1>3, <1>4, <1>5, <1>6, <1>7, <1>8 DEF Next, Candidates

LEMMA FinalTransport ==
  ASSUME Control, [Next]_vars, down PROVE transport' \in {transport, None}
BY WhoPublishes

LEMMA FinalLoop ==
  ASSUME Control, [Next]_vars, down, ~Busy("reconnect") PROVE ~Busy("reconnect")'
<1> DEFINE r == "reconnect"
<1> USE TaskKinds
<1>0. r \in Tasks /\ r \in Candidates /\ r \in Attempters /\ r \notin Operations
      /\ r # "start" /\ r # "shutdown" /\ task \in [Tasks -> Locals]
      /\ task[r].pc \in {"idle", "done"}
  BY Standing DEF Candidates, Attempters, Busy
<1> SUFFICES task'[r].pc \in {"idle", "done"}
  BY DEF Busy
<1>1. CASE StartStep
  <2>1. CASE Start
    BY <1>0, <2>1 DEF Start, Open
  <2> QED BY <1>0, <1>1, <2>1, StartWorks DEF Worked
<1>2. CASE Loop
  BY <1>0, <1>2 DEF Loop, Runs, At
<1>3. CASE Observe \/ Stopped \/ UNCHANGED vars
  BY <1>0, <1>3 DEF Observe, Stopped, vars
<1>4. CASE BeginShutdown \/ ShutdownStep
  BY <1>0, <1>4, ShutdownMoves
<1>5. ASSUME NEW t \in Tasks, Admit(t) \/ CloseStep(t) \/ CallerCancels(t)
      PROVE  task'[r].pc \in {"idle", "done"}
  <2>1. CASE t = "shutdown"
    <3>1. ~Admit(t) /\ ~CallerCancels(t)
      BY <2>1, TasksDiffer, Standing DEF Admit, Gone, CallerCancels, Runs, At, Places
    <3>2. CASE TakeCloseLock(t)
      BY <1>0, <3>2 DEF TakeCloseLock
    <3>3. CASE Closed(t) \/ CloseFails(t)
      BY <1>0, <2>1, <3>3 DEF Closed, CloseFails, CloseNext
    <3> QED BY <1>5, <3>1, <3>2, <3>3 DEF CloseStep
  <2>2. CASE t # "shutdown"
    <3>1. Worked(t)
      BY <1>5, <2>2, CommonWorks
    <3>2. t # r
      BY <1>0, <3>1 DEF Worked, Busy
    <3>3. CASE t \in Operations
      <4>1. Moves(t)
        BY <1>0, <1>5, <3>3 DEF Admit, Gone, CloseStep, TakeCloseLock, Closed, CloseFails,
             CallerCancels, CloseNext, End, Moves
      <4> QED BY <1>0, <3>2, <4>1 DEF Moves
    <3>4. CASE t \notin Operations
      BY <1>0, <3>1, <3>2, <3>4 DEF Worked
    <3> QED BY <3>3, <3>4
  <2> QED BY <2>1, <2>2
<1>6. ASSUME NEW t \in Candidates, SeedStep(t) \/ CandidateCancelled(t)
      PROVE  task'[r].pc \in {"idle", "done"}
  <2>1. Worked(t) /\ t \notin Operations
    BY <1>6, SeedWorks, CancelledWorks DEF Candidates
  <2> QED BY <1>0, <2>1 DEF Worked, Busy
<1>7. CASE AttemptCancelled("start")
  <2>1. Worked("start") /\ "start" \notin Operations
    BY <1>7, CancelledWorks DEF Candidates
  <2> QED BY <1>0, <2>1 DEF Worked
<1>8. ASSUME NEW t \in Attempters, AttemptStep(t) PROVE task'[r].pc \in {"idle", "done"}
  <2>1. CASE Attempt(t)
    <3>1. t # r
      BY <1>0, <2>1, TasksDiffer DEF Attempt, Runs, At
    <3> QED BY <1>0, <2>1, <3>1 DEF Attempt, EndAttempt
  <2>2. CASE ~Attempt(t)
    <3>1. Worked(t) /\ t \notin Operations
      BY <1>8, <2>2, AttemptWorks DEF Candidates
    <3> QED BY <1>0, <3>1 DEF Worked, Busy
  <2> QED BY <2>1, <2>2
<1>9. ASSUME NEW t \in Operations, Submit(t) \/ OperationStep(t)
      PROVE  task'[r].pc \in {"idle", "done"}
  <2>1. CASE Disconnected(t) /\ EndEnsuringReconnect(t)
    <3>1. task'[r] = task[r]
      BY <2>1, LoopStarts
    <3> QED BY <1>0, <3>1
  <2>2. CASE End(t) \/ Submit(t) \/ \E S, label : BeginClose(t, S, label)
    BY <1>0, <2>2 DEF End, Submit, BeginClose
  <2> QED BY <1>9, <2>1, <2>2
          DEF OperationStep, OperationOvertaken, FatalEvidence, OperationCancelled,
              PollSucceeds, PollFails, GenerationDies, CommandEnds, Finish,
              Disconnect, Disconnected
<1> QED BY <1>1, <1>2, <1>3, <1>4, <1>5, <1>6, <1>7, <1>8, <1>9 DEF Next, Candidates

\* Nothing comes back after _begin_shutdown: no transport becomes the session,
\* no reconnect loop starts, no entity is available again.
THEOREM Final == Spec => NoResurrection
<1> DEFINE Quietly ==
      down => /\ available' => available
              /\ Busy("reconnect")' => Busy("reconnect")
              /\ transport' \in {transport, None}
<1>1. ASSUME IInv, [Next]_vars PROVE Quietly
  BY <1>1, FinalAvailable, FinalTransport, FinalLoop DEF IInv
<1>2. IInv /\ [Next]_vars => Quietly
  BY <1>1
<1> QED BY <1>2, Inductive, PTL DEF Spec, NoResurrection

-----------------------------------------------------------------------------
(* How many sessions are not closed *)

Same(S) == \A a, b \in S : a = b   \* S has at most one element

\* Locals l of an attempt that closes, or has closed, what is left behind.
Drains(l) == l.pc = "drained" \/ (l.pc = "closing" /\ l.after = "drained")

\* There are at most two, and at most one when an attempt is to dial.
Few ==
  /\ \E c \in Sessions : Same(Unclosed \ {c})
  /\ \A u \in Attempters :
       Drains(task[u]) /\ task[u].clean => Same(Unclosed \ task[u].todo)

\* A drain begins by closing whatever is not closed but the session in use.
LEMMA DrainBegins ==
  ASSUME Control, Ownership, NEW u \in Attempters, Drain(u)
  PROVE  /\ Unclosed' = Unclosed
         /\ Unclosed \ task'[u].todo \subseteq {transport}
<1>1. /\ u \in Tasks /\ u \in Candidates /\ task \in [Tasks -> Locals]
      /\ task[u].pc = "drain" /\ task[u].todo = {} /\ generationLock = u
  BY TaskKinds, Standing DEF Candidates, Drain, Runs, At, Generates
<1>2. ASSUME NEW w \in Attempters PROVE task[w].pc \notin {"dial", "discover"}
  <2>1. w \in Candidates
    BY DEF Candidates
  <2>2. CASE w = u
    BY <1>1, <2>2
  <2>3. CASE w # u
    BY <1>1, <2>1, <2>3, Alone DEF Dialling
  <2> QED BY <2>2, <2>3
<1>3. Unclosed \subseteq Owned
  BY <1>2 DEF Ownership, NoOrphan
<1>4. CASE Inactive = {}
  <2>1. /\ task' = [task EXCEPT ![u].pc = "drained", ![u].clean = TRUE]
        /\ session' = session
    BY <1>4 DEF Drain
  <2>2. task'[u].todo = {}
    BY <1>1, <2>1 DEF Locals
  <2> QED BY <1>3, <1>4, <2>1, <2>2 DEF Unclosed, Owned, Inactive
<1>5. CASE Inactive # {}
  <2>1. BeginClose(u, Inactive, "drained")
    BY <1>5 DEF Drain
  <2>2. Inactive \in SUBSET Sessions /\ "drained" \in Afters(u)
    BY TaskKinds DEF Inactive, Control, TypeOK, Afters
  <2>3. Unclosed' = Unclosed /\ task'[u].todo = Inactive
    BY <1>1, <2>1, <2>2, CloseBegins
  <2> QED BY <1>3, <2>3 DEF Owned, Inactive
<1> QED BY <1>4, <1>5

\* The other steps of an attempt lead elsewhere.
LEMMA ElsewhereThanDrained ==
  ASSUME Control, NEW u \in Attempters, Steps(u) \/ Woken(u), ~Drain(u), ~CloseStep(u)
  PROVE  ~Drains(task'[u])
<1>0. /\ u \in Tasks /\ u \in Candidates /\ u # "start" /\ u \notin Operations
      /\ task \in [Tasks -> Locals] /\ task[u] \in Locals
  BY TaskKinds, Standing DEF Candidates
<1>1. CASE Woken(u)
  BY <1>1 DEF Woken, Drains, Idle
<1>2. CASE u = "reconnect" /\ Loop
  BY <1>0, <1>2 DEF Loop, Drains, Idle, Locals
<1>3. CASE Admit(u)
  BY <1>0, <1>3 DEF Admit, Gone, Drains, Locals
<1>4. CASE SeedStep(u)
  <2>1. CASE Publish(u)
    BY <1>0, <2>1 DEF Publish, EndAttempt, Drains, Idle
  <2>2. CASE \E S : \E label \in {"activate", "failed", "abandoned"} :
                BeginClose(u, S, label)
    BY <1>0, <2>2 DEF BeginClose, Drains, Locals
  <2>3. CASE SeedFails(u)
    BY <1>0, <2>3 DEF SeedFails, Drains, Locals
  <2> QED BY <1>4, <2>1, <2>2, <2>3
          DEF SeedStep, SeedActivates, SeedReplaces, ReplacementActivates,
              ReplacementFails, SeedOvertaken, DropCandidate
<1>5. CASE CandidateCancelled(u)
  BY <1>0, <1>5 DEF CandidateCancelled, Drains, Locals
<1>6. CASE AttemptStep(u)
  <2>1. CASE EndAttempt(u) \/ LeaveAttempt(u)
    BY <1>0, <2>1 DEF EndAttempt, LeaveAttempt, Drains, Idle
  <2>2. CASE \E label \in {"drain", "discover"} : task' = [task EXCEPT ![u].pc = label]
    BY <1>0, <2>2 DEF Drains, Locals
  <2>3. CASE Dial(u)
    BY <1>0, <2>3 DEF Dial, Open, Drains, Locals
  <2>4. CASE Dialled(u)
    BY <1>0, <2>4 DEF Dialled, Drains, Locals
  <2> QED BY <1>6, <2>1, <2>2, <2>3, <2>4
          DEF AttemptStep, Attempt, DrainFailed, DialFails, DiscoverFails,
              CandidateFailed, CandidateAbandoned, AttemptCancelled
<1> QED BY <1>0, <1>1, <1>2, <1>3, <1>4, <1>5, <1>6 DEF Steps

\* While an attempt drains, no session is opened, and each that it no longer
\* has to close is closed.
LEMMA DrainGoesOn ==
  ASSUME Control, Ownership, [Next]_vars, NEW u \in Attempters,
         Drains(task'[u]), task'[u].clean, ~Drain(u)
  PROVE  /\ Drains(task[u]) /\ task[u].clean
         /\ Unclosed' \ task'[u].todo \subseteq Unclosed \ task[u].todo
<1>1. /\ u \in Tasks \ {"shutdown"} /\ u \in Candidates /\ u # "start"
      /\ task \in [Tasks -> Locals] /\ u # Free
  BY TaskKinds, Standing DEF Candidates
<1>2. Keeps(u) \/ CloseStep(u)
  BY <1>1, OneSteps, ElsewhereThanDrained
<1>3. CASE Keeps(u) \/ TakeCloseLock(u)
  <2>1. /\ task'[u].pc = task[u].pc /\ task'[u].after = task[u].after
        /\ task'[u].todo = task[u].todo /\ task'[u].clean = task[u].clean
    BY <1>3 DEF Keeps, TakeCloseLock
  <2>2. Drains(task[u]) /\ task[u].clean
    BY <2>1 DEF Drains
  <2>3. generationLock = u
    BY <1>1, <2>2, Standing DEF Drains, Generates
  <2>4. ~Start
    BY <1>1, <2>3 DEF Start
  <2>5. ASSUME NEW t \in Attempters, Dial(t) PROVE FALSE
    <3>1. t \in Tasks /\ t \in Candidates /\ task[t].pc = "drained"
      BY <2>5, TaskKinds DEF Candidates, Dial, At
    <3>2. generationLock = t
      BY <3>1, Standing DEF Generates
    <3>3. task'[u].pc = "dial"
      BY <1>1, <2>3, <2>5, <3>2 DEF Dial, Open, Locals
    <3> QED BY <3>3 DEF Drains
  <2>6. Unclosed' \subseteq Unclosed
    BY <2>4, <2>5, StaysClosed DEF Unclosed
  <2> QED BY <2>1, <2>2, <2>6
<1>4. CASE Closed(u) \/ CloseFails(u)
  <2>1. /\ task[u].pc = "closing"
        /\ \/ CloseFails(u) /\ \E s \in task[u].todo : CloseNext(u, s, FALSE)
           \/ \E s \in task[u].todo : /\ session' = [session EXCEPT ![s] = "closed"]
                                      /\ CloseNext(u, s, TRUE)
    BY <1>4 DEF Closed, CloseFails, Runs, At
  <2>2. ASSUME NEW s, CloseNext(u, s, FALSE) PROVE FALSE
    BY <1>1, <2>1, <2>2, NextToClose
  <2>3. PICK s \in task[u].todo : /\ session' = [session EXCEPT ![s] = "closed"]
                                  /\ CloseNext(u, s, TRUE)
    BY <2>1, <2>2
  <2>4. /\ task'[u].todo = task[u].todo \ {s} /\ task[u].clean
        /\ task'[u].after = task[u].after /\ task'[u].pc \in {"closing", task[u].after}
    BY <1>1, <2>1, <2>3, NextToClose
  <2>5. s \in Sessions
    BY <1>1 DEF Locals
  <2>6. Unclosed' = Unclosed \ {s}
    BY <2>3, <2>5 DEF Unclosed, Control, TypeOK
  <2> QED BY <2>1, <2>4, <2>6 DEF Drains
<1> QED BY <1>2, <1>3, <1>4 DEF CloseStep

LEMMA InitFew == ASSUME Init PROVE Few
<1>1. Unclosed = {} /\ \A u \in Attempters : task[u].pc = "idle"
  BY IdleIsIdle, TaskKinds DEF Init, Unclosed, Candidates
<1>2. 1 \in Sessions
  BY LimitsPositive DEF Sessions
<1> QED BY <1>1, <1>2 DEF Few, Same, Drains

LEMMA NextFew == ASSUME IInv, Few, [Next]_vars PROVE Few'
<1>1. Control /\ Edges /\ Ownership
  BY DEF IInv
<1>2. \E c \in Sessions : Same(Unclosed' \ {c})
  <2>1. CASE Start
    <3>1. "start" \in Tasks /\ epoch' \in Nat /\ generation + 1 \in Nat
          /\ "connect" \in Labels
      BY <1>1, <2>1, TaskKinds DEF Control, TypeOK, Start, Labels, Candidates
    <3>2. Slot \in Sessions /\ session' = [session EXCEPT ![Slot] = "connecting"]
      BY <1>1, <2>1, <3>1, Opens DEF Start
    <3>3. Unclosed = {}
      BY <1>1, <2>1 DEF Start, Edges, Fresh
    <3> HIDE DEF Slot
    <3>4. Unclosed' \subseteq {Slot}
      BY <3>2, <3>3 DEF Unclosed
    <3> QED BY <3>2, <3>4 DEF Same
  <2>2. ASSUME NEW t \in Attempters, Dial(t)
        PROVE  \E c \in Sessions : Same(Unclosed' \ {c})
    <3>1. /\ t \in Tasks /\ task[t].pc = "drained" /\ task[t].clean
          /\ task[t].todo = {}
      BY <1>1, <2>2, TaskKinds, Standing DEF Dial, At, Candidates
    <3>2. Same(Unclosed)
      BY <3>1 DEF Few, Drains
    <3>3. Slot \in Sessions /\ session' = [session EXCEPT ![Slot] = "connecting"]
      BY <2>2, SlotIsFree DEF Dial, Open
    <3> HIDE DEF Slot
    <3>4. Unclosed' \subseteq Unclosed \cup {Slot}
      BY <3>3 DEF Unclosed
    <3> QED BY <3>2, <3>3, <3>4 DEF Same
  <2>3. CASE ~Start /\ \A t \in Attempters : ~Dial(t)
    <3>1. Unclosed' \subseteq Unclosed
      BY <1>1, <2>3, StaysClosed DEF Unclosed
    <3> QED BY <3>1 DEF Few, Same
  <2> QED BY <2>1, <2>2, <2>3
<1>3. ASSUME NEW u \in Attempters, Drains(task'[u]), task'[u].clean
      PROVE  Same(Unclosed' \ task'[u].todo)
  <2>1. CASE Drain(u)
    <3>1. Unclosed' \ task'[u].todo \subseteq {transport}
      BY <1>1, <2>1, DrainBegins
    <3> QED BY <3>1 DEF Same
  <2>2. CASE ~Drain(u)
    <3>1. /\ Drains(task[u]) /\ task[u].clean
          /\ Unclosed' \ task'[u].todo \subseteq Unclosed \ task[u].todo
      BY <1>1, <1>3, <2>2, DrainGoesOn
    <3> QED BY <3>1 DEF Few, Same
  <2> QED BY <2>1, <2>2
<1> QED BY <1>2, <1>3 DEF Few, Same, Drains

\* A set of at most one element, and of at most one besides c.
LEMMA SameIsSmall ==
  ASSUME NEW S, Same(S)
  PROVE  IsFiniteSet(S) /\ Cardinality(S) \in Nat /\ Cardinality(S) <= 1
<1>1. CASE S = {}
  BY <1>1, FS_EmptySet
<1>2. CASE S # {}
  <2>1. PICK a \in S : S = {a}
    BY <1>2 DEF Same
  <2>2. IsFiniteSet({a}) /\ Cardinality({a}) = 1
    BY FS_Singleton
  <2> QED BY <2>1, <2>2
<1> QED BY <1>1, <1>2

LEMMA FewAreTwo ==
  ASSUME NEW S, NEW c, Same(S \ {c})
  PROVE  Cardinality(S) <= 2
<1> DEFINE T == S \ {c}
<1>1. IsFiniteSet(T) /\ Cardinality(T) \in Nat /\ Cardinality(T) <= 1
  BY SameIsSmall
<1>2. CASE c \in S
  <2>1. S = T \cup {c} /\ c \notin T
    BY <1>2
  <2> HIDE DEF T
  <2>2. Cardinality(T \cup {c}) = Cardinality(T) + 1
    BY <1>1, <2>1, FS_AddElement
  <2> QED BY <1>1, <2>1, <2>2
<1>3. CASE c \notin S
  <2>1. S = T
    BY <1>3
  <2> HIDE DEF T
  <2> QED BY <1>1, <2>1
<1> QED BY <1>2, <1>3

-----------------------------------------------------------------------------
(* The close lock, candidates and their generations *)

\* Who holds the close lock closes; a candidate in use is not closed; one
\* that is being dialled is of a later generation than the current one.
LockedToClose == \A u \in Tasks : closeLock = u => task[u].pc = "closing"
Alive ==
  \A u \in Candidates : Holding(task[u]) => session[task[u].cand] # "closed"
Newer ==
  \A u \in Candidates : Holding(task[u]) =>
    /\ gen[task[u].cand] > generation
    /\ At(u, "dial") => attempt >= generation

LEMMA LockMoves ==
  ASSUME LockedToClose, NEW t \in Tasks, Moves(t), closeLock' \in {closeLock, t, Free},
         closeLock' = t => task'[t].pc = "closing"
  PROVE  LockedToClose'
BY TaskKinds DEF LockedToClose, Moves

LEMMA CloseLocks ==
  ASSUME Control, NEW t \in Tasks, CloseStep(t)
  PROVE  /\ closeLock' \in {closeLock, t, Free}
         /\ closeLock' = t => task'[t].pc = "closing"
<1>0. t # Free
  BY TaskKinds
<1>1. CASE TakeCloseLock(t)
  BY <1>0, <1>1 DEF TakeCloseLock, Runs, At
<1>2. CASE Closed(t) \/ CloseFails(t)
  <2>1. \E s \in task[t].todo, ok \in BOOLEAN : CloseNext(t, s, ok)
    <3>1. CASE Closed(t)
      BY <3>1 DEF Closed
    <3>2. CASE CloseFails(t)
      BY <3>2 DEF CloseFails
    <3> QED BY <1>2, <3>1, <3>2
  <2>2. task[t].pc = "closing"
    BY <1>2 DEF Closed, CloseFails, Runs, At
  <2>3. PICK s \in task[t].todo, ok \in BOOLEAN : CloseNext(t, s, ok)
    BY <2>1
  <2>4. /\ task'[t].todo = task[t].todo \ {s}
        /\ task'[t].pc = IF task'[t].todo = {} THEN task[t].after ELSE "closing"
    BY <2>2, <2>3, NextToClose
  <2>5. closeLock' = IF task[t].todo \ {s} = {} THEN Free ELSE t
    BY <2>3 DEF CloseNext
  <2> QED BY <1>0, <2>4, <2>5
<1> QED BY <1>1, <1>2 DEF CloseStep

LEMMA StepLocks ==
  ASSUME Control, LockedToClose, NEW t \in Tasks \ {"shutdown"}, Steps(t)
  PROVE  /\ closeLock' \in {closeLock, t, Free}
         /\ closeLock' = t => task'[t].pc = "closing"
<1>0. task \in [Tasks -> Locals] /\ task[t] \in Locals /\ t # Free
  BY TaskKinds, Standing
<1>1. ASSUME closeLock' = closeLock, task[t].pc # "closing"
      PROVE  closeLock' # t /\ closeLock' \in {closeLock, t, Free}
  BY <1>1 DEF LockedToClose
<1>2. ASSUME \E S, label : BeginClose(t, S, label)
      PROVE  closeLock' \in {closeLock, t} /\ task'[t].pc = "closing"
  BY <1>0, <1>2 DEF BeginClose, Locals
<1>3. ASSUME closeLock' = CloseLockLeft(t)
      PROVE  closeLock' # t /\ closeLock' \in {closeLock, Free}
  BY <1>0, <1>3 DEF CloseLockLeft
<1>4. CASE t = "start" /\ (StartStep \/ AttemptCancelled(t))
  BY <1>1, <1>2, <1>3, <1>4 DEF StartStep, Start, Connect, ConnectFails, StartFails,
     AttemptCancelled, Runs, At, locks
<1>5. CASE (t = "reconnect" /\ Loop) \/ Admit(t)
  BY <1>1, <1>5 DEF Loop, Admit, Gone, Runs, At, locks
<1>6. CASE CloseStep(t)
  BY <1>6, CloseLocks
<1>7. CASE SeedStep(t) \/ CandidateCancelled(t)
  <2>1. CASE SeedFails(t)
    BY <1>0, <2>1 DEF SeedFails, Locals
  <2> QED BY <1>1, <1>2, <1>3, <1>7, <2>1
          DEF SeedStep, SeedActivates, SeedReplaces, ReplacementActivates,
              ReplacementFails, SeedOvertaken, DropCandidate, CandidateCancelled,
              Seeding, Runs, At
<1>8. CASE AttemptStep(t)
  <2>1. CASE Drain(t)
    BY <1>1, <1>2, <2>1 DEF Drain, Runs, At
  <2>2. CASE AttemptCancelled(t)
    BY <1>3, <2>2 DEF AttemptCancelled
  <2> QED BY <1>1, <1>8, <2>1, <2>2, TaskKinds, TasksDiffer
          DEF AttemptStep, Attempt, DrainFailed, Dial, Dialled, DialFails,
              DiscoverFails, CandidateFailed, CandidateAbandoned, Runs, At, locks
<1>9. CASE Submit(t) \/ OperationStep(t)
  <2>1. CASE FatalEvidence(t) \/ (t = "poll" /\ GenerationDies)
    BY <1>2, <2>1 DEF FatalEvidence, GenerationDies, Disconnect
  <2>2. CASE OperationCancelled(t)
    BY <1>3, <2>2 DEF OperationCancelled
  <2> QED BY <1>1, <1>9, <2>1, <2>2
          DEF Submit, OperationStep, OperationOvertaken, PollSucceeds, PollFails,
              CommandEnds, Disconnected, Using, Runs, At, locks
<1> QED BY <1>4, <1>5, <1>6, <1>7, <1>8, <1>9 DEF Steps

LEMMA NextLocks == ASSUME Control, LockedToClose, [Next]_vars PROVE LockedToClose'
<1>0. /\ task \in [Tasks -> Locals] /\ "shutdown" \in Tasks
      /\ Free \notin Tasks
  BY TaskKinds, Standing
<1>1. CASE Observe \/ UNCHANGED vars
  BY <1>1 DEF Observe, vars, locks, LockedToClose
<1>2. CASE BeginShutdown \/ ShutdownStep
  <2>1. /\ \A u \in Tasks \ {"shutdown"} : task'[u].pc = task[u].pc
        /\ task["shutdown"].pc # "closing"
    BY <1>2, ShutdownMoves DEF BeginShutdown, ShutdownStep, Stop, Join,
       ShutdownReturns, At
  <2>2. closeLock' = closeLock
        \/ (closeLock' = "shutdown" /\ task'["shutdown"].pc = "closing")
    <3>1. CASE \E S, label : BeginClose("shutdown", S, label)
      BY <1>0, <3>1 DEF BeginClose, Locals
    <3> QED BY <1>2, <3>1 DEF BeginShutdown, ShutdownStep, Stop, Join,
                              ShutdownReturns, locks
  <2> QED BY <1>0, <2>1, <2>2 DEF LockedToClose
<1>3. CASE CloseStep("shutdown")
  BY <1>0, <1>3, CloseStepMoves, CloseLocks, LockMoves
<1>4. ASSUME NEW t \in Tasks, CallerCancels(t) PROVE LockedToClose'
  <2>1. closeLock' = closeLock /\ \A u \in Tasks : task'[u].pc = task[u].pc
    BY <1>4, FlagRaised DEF CallerCancels, locks
  <2> QED BY <2>1 DEF LockedToClose
<1>5. ASSUME NEW t \in Tasks \ {"shutdown"}, Steps(t) PROVE LockedToClose'
  <2>1. CASE Moves(t)
    BY <1>5, <2>1, StepLocks, LockMoves
  <2>2. CASE t \in Operations /\ Disconnected(t) /\ EndEnsuringReconnect(t)
    <3>1. /\ closeLock' = closeLock /\ task[t].pc # "closing"
      BY <2>2 DEF Disconnected
    <3>2. \A u \in Tasks \ {t} : task'[u] = task[u] \/ ~Busy(u)
      BY <2>2, LoopStarts
    <3> QED BY <3>1, <3>2 DEF LockedToClose, Busy
  <2> QED BY <1>5, <2>1, <2>2, StepMoves
<1> QED BY <1>1, <1>2, <1>3, <1>4, <1>5, NextSteps

\* A task has the candidate it had, unless it makes one: start, or an attempt
\* that dials.
LEMMA CandidateStays ==
  ASSUME Control, NEW u \in Candidates, Keeps(u) \/ Steps(u) \/ Woken(u),
         ~Start, u \in Attempters => ~Dial(u)
  PROVE  /\ Holding(task'[u]) => Holding(task[u]) /\ task'[u].cand = task[u].cand
         /\ Dialling(task'[u]) => \/ task'[u].pc = task[u].pc
                                  \/ u \in Attempters /\ DialFails(u)
<1>0. /\ task \in [Tasks -> Locals] /\ u \in Tasks /\ u \notin Operations
      /\ task[u] \in Locals /\ Fits(u, task[u])
  BY TaskKinds, Standing DEF Candidates
<1> DEFINE l == task'[u]
           Rested == l.pc \in {"idle", "done", "loop", "attempt", "drain", "drained"}
           Given == l.pc = "closing" /\ l.after \in {"drained", "failed", "abandoned"}
           Goes == /\ l.pc \in {"admit", "seed"} /\ l.cand = task[u].cand
                   /\ Holding(task[u])
<1>1. ASSUME Rested \/ Given \/ Goes \/ l.pc \in {"failed", "abandoned"}
      PROVE  /\ Holding(l) => Holding(task[u]) /\ l.cand = task[u].cand
             /\ ~Dialling(l)
  BY <1>1 DEF Holding, Activating, Dialling
<1> HIDE DEF l
<1>2. ASSUME EndAttempt(u) \/ LeaveAttempt(u) PROVE Rested
  BY <1>0, <1>2 DEF EndAttempt, LeaveAttempt, Idle, l
<1>3. ASSUME \E S : \E label \in {"drained", "failed", "abandoned"} : BeginClose(u, S, label)
      PROVE  Given
  BY <1>0, <1>3 DEF BeginClose, Locals, l
<1>4. CASE Keeps(u) \/ TakeCloseLock(u)
  BY <1>4 DEF Keeps, TakeCloseLock, Holding, Activating, Dialling, l
<1>5. CASE Woken(u)
  <2>1. Rested
    BY <1>5 DEF Woken, Idle, l
  <2> QED BY <1>1, <2>1 DEF l
<1>6. CASE u = "start" /\ (StartStep \/ AttemptCancelled(u))
  <2>1. CASE Connect
    <3>1. Goes
      BY <1>0, <1>6, <2>1 DEF Connect, Runs, At, Holding, Locals, l
    <3> QED BY <1>1, <3>1 DEF l
  <2>2. CASE StartFails
    <3>1. Rested
      BY <1>0, <1>6, <2>2 DEF StartFails, Idle, l
    <3> QED BY <1>1, <3>1 DEF l
  <2>3. CASE ConnectFails \/ AttemptCancelled(u)
    <3>1. Given \/ Rested
      BY <1>2, <1>3, <1>6, <2>3 DEF ConnectFails, AttemptCancelled
    <3> QED BY <1>1, <3>1 DEF l
  <2> QED BY <1>6, <2>1, <2>2, <2>3 DEF StartStep
<1>7. CASE (u = "reconnect" /\ Loop) \/ Admit(u)
  <2>1. Rested \/ Goes
    BY <1>0, <1>7 DEF Loop, Admit, Gone, Runs, At, Holding, Idle, Locals, l
  <2> QED BY <1>1, <2>1 DEF l
<1>8. CASE Closed(u) \/ CloseFails(u)
  <2>1. task[u].pc = "closing"
    BY <1>8 DEF Closed, CloseFails, Runs, At
  <2>2. /\ l.cand = task[u].cand /\ l.after = task[u].after
        /\ l.pc \in {"closing", task[u].after} /\ task[u].after \in Afters(u)
    <3>1. \E s : CloseNext(u, s, TRUE) \/ CloseNext(u, s, FALSE)
      BY <1>8 DEF Closed, CloseFails
    <3> QED BY <1>0, <2>1, <3>1, CloseMoves DEF l
  <2>3. task[u].after \in {"drained", "activate", "failed", "abandoned"}
    BY <1>0, <2>2, TaskKinds DEF Afters, Candidates
  <2> QED BY <2>1, <2>2, <2>3 DEF Holding, Activating, Dialling, l
<1>9. CASE SeedStep(u)
  <2>1. CASE Publish(u)
    <3>1. Rested
      BY <1>0, <2>1 DEF Publish, EndAttempt, Idle, l
    <3> QED BY <1>1, <3>1 DEF l
  <2>2. CASE SeedReplaces(u)
    <3>1. /\ task[u].pc = "seed" /\ l.pc = "closing" /\ l.cand = task[u].cand
          /\ l.after = "activate"
      BY <1>0, <2>2 DEF SeedReplaces, Seeding, Runs, At, BeginClose, Locals, l
    <3> QED BY <3>1 DEF Holding, Dialling, l
  <2>3. CASE SeedFails(u)
    <3>1. Given
      BY <1>0, <2>3 DEF SeedFails, Locals, l
    <3> QED BY <1>1, <3>1 DEF l
  <2>4. CASE ReplacementFails(u) \/ SeedOvertaken(u)
    <3>1. Given
      BY <1>3, <2>4 DEF ReplacementFails, SeedOvertaken, DropCandidate
    <3> QED BY <1>1, <3>1 DEF l
  <2> QED BY <1>9, <2>1, <2>2, <2>3, <2>4
          DEF SeedStep, SeedActivates, ReplacementActivates
<1>10. CASE CandidateCancelled(u)
  <2>1. Given
    BY <1>0, <1>10 DEF CandidateCancelled, Locals, l
  <2> QED BY <1>1, <2>1 DEF l
<1>11. CASE u \in Attempters /\ AttemptStep(u)
  <2>1. CASE EndAttempt(u) \/ LeaveAttempt(u)
    <3>1. Rested
      BY <1>2, <2>1
    <3> QED BY <1>1, <3>1 DEF l
  <2>2. CASE Attempt(u) \/ Drain(u)
    <3>1. Rested \/ Given
      BY <1>0, <1>2, <1>3, <2>2 DEF Attempt, Drain, Locals, l
    <3> QED BY <1>1, <3>1 DEF l
  <2>3. CASE Dialled(u)
    <3>1. Goes
      BY <1>0, <2>3 DEF Dialled, Runs, At, Holding, Locals, l
    <3> QED BY <1>1, <3>1 DEF l
  <2>4. CASE DialFails(u) /\ task' = [task EXCEPT ![u].pc = "discover"]
    <3>1. /\ task[u].pc = "dial" /\ l.pc = "discover" /\ l.cand = task[u].cand
      BY <1>0, <2>4 DEF DialFails, Runs, At, Locals, l
    <3> QED BY <1>11, <2>4, <3>1 DEF Holding, l
  <2> QED BY <1>11, <2>1, <2>2, <2>3, <2>4
          DEF AttemptStep, DrainFailed, DialFails, DiscoverFails,
              CandidateFailed, CandidateAbandoned, AttemptCancelled
<1> QED BY <1>0, <1>4, <1>5, <1>6, <1>7, <1>8, <1>9, <1>10, <1>11
        DEF Steps, CloseStep

\* A session is closed by a task that closes it, or by the attempt that was
\* dialling it and ends there.
Ends(t) ==
  /\ t \in Candidates /\ Dialling(task[t]) /\ Generates(task[t])
  /\ task'[t].pc \in {"idle", "done", "loop"}

LEMMA WhoCloses ==
  ASSUME Control, [Next]_vars, NEW s \in Unclosed, s \notin Unclosed'
  PROVE  \/ \E t \in Tasks : task[t].pc = "closing" /\ s \in task[t].todo
         \/ \E t \in Candidates : Ends(t) /\ task[t].cand = s
<1>0. /\ session \in [Sessions -> {"closed", "connecting", "open", "closing"}]
      /\ task \in [Tasks -> Locals] /\ s \in Sessions /\ session[s] # "closed"
      /\ Candidates \subseteq Tasks /\ "shutdown" \in Tasks
  BY Standing, TaskKinds DEF Unclosed, Control, TypeOK
<1>1. session'[s] = "closed"
  BY <1>0 DEF Unclosed
<1>2. CASE Observe \/ UNCHANGED vars
  BY <1>0, <1>1, <1>2 DEF Observe, vars, wire
<1>3. CASE BeginShutdown \/ ShutdownStep
  BY <1>3, ShutdownMoves
<1>4. ASSUME NEW t \in Tasks, CloseStep(t)
      PROVE  task[t].pc = "closing" /\ s \in task[t].todo
  <2>1. ~TakeCloseLock(t) /\ ~CloseFails(t)
    BY <1>0, <1>1 DEF TakeCloseLock, CloseFails, MarkClosing, Unclosed, wire
  <2>2. Closed(t)
    BY <1>4, <2>1 DEF CloseStep
  <2>3. PICK r \in task[t].todo : session' = [session EXCEPT ![r] = "closed"]
    BY <2>2 DEF Closed
  <2>4. r = s
    BY <1>0, <1>1, <2>3
  <2> QED BY <2>2, <2>3, <2>4 DEF Closed, Runs, At
<1>5. ASSUME NEW t \in Tasks, CallerCancels(t) PROVE FALSE
  BY <1>0, <1>1, <1>5 DEF CallerCancels, wire
<1>6. ASSUME NEW t \in Tasks \ {"shutdown"}, Steps(t), ~CloseStep(t)
      PROVE  Ends(t) /\ task[t].cand = s
  <2>1. ASSUME NEW S, session' = session \/ session' = MarkClosing(S) PROVE FALSE
    BY <1>0, <1>1, <2>1 DEF MarkClosing, Unclosed
  <2>2. ASSUME NEW c, NEW x \in {"connecting", "open"},
               session' = [session EXCEPT ![c] = x]
        PROVE  FALSE
    BY <1>0, <1>1, <2>2
  <2>3. ASSUME \E S, label : BeginClose(t, S, label) PROVE FALSE
    BY <2>1, <2>3 DEF BeginClose
  <2>4. CASE StartStep
    <3>1. CASE Start
      BY <2>2, <3>1 DEF Start, Open
    <3>2. CASE Connect
      BY <2>2, <3>2 DEF Connect
    <3>3. CASE ConnectFails \/ StartFails
      BY <1>0, <1>1, <3>3
         DEF ConnectFails, StartFails, BeginClose, MarkClosing, Unclosed, wire
    <3> QED BY <2>4, <3>1, <3>2, <3>3 DEF StartStep
  <2>5. CASE Loop \/ Admit(t)
    BY <2>1, <2>5 DEF Loop, Admit, Gone, wire
  <2>6. CASE SeedStep(t) \/ CandidateCancelled(t)
    BY <2>1, <2>3, <2>6
       DEF SeedStep, SeedActivates, SeedReplaces, ReplacementActivates,
           ReplacementFails, SeedOvertaken, SeedFails, CandidateCancelled,
           DropCandidate, wire
  <2>7. CASE Submit(t) \/ OperationStep(t)
    BY <2>1, <2>3, <2>7
       DEF Submit, OperationStep, OperationOvertaken, Disconnected, FatalEvidence,
           GenerationDies, Disconnect, OperationCancelled, CommandEnds, PollFails,
           PollSucceeds, wire
  <2>8. CASE t \in Candidates /\ AttemptCancelled(t)
    <3>1. /\ task[t].pc \in {"dial", "discover"} /\ LeaveAttempt(t)
          /\ session' = [session EXCEPT ![task[t].cand] = "closed"]
      BY <2>1, <2>8 DEF AttemptCancelled
    <3>2. task'[t].pc \in {"idle", "done"}
      BY <1>0, <3>1 DEF LeaveAttempt, Idle
    <3> QED BY <1>0, <1>1, <2>8, <3>1, <3>2 DEF Ends, Dialling, Generates
  <2>9. CASE t \in Attempters /\ AttemptStep(t) /\ ~AttemptCancelled(t)
    <3>1. CASE DialFails(t) \/ DiscoverFails(t)
      <4>1. /\ task[t].pc \in {"dial", "discover"} /\ EndAttempt(t)
            /\ session' = [session EXCEPT ![task[t].cand] = "closed"]
        BY <2>1, <3>1 DEF DialFails, DiscoverFails, Runs, At
      <4>2. task'[t].pc \in {"loop", "done"}
        BY <1>0, <4>1 DEF EndAttempt, Idle
      <4> QED BY <1>0, <1>1, <2>9, <4>1, <4>2 DEF Ends, Dialling, Generates, Candidates
    <3>2. CASE ~DialFails(t) /\ ~DiscoverFails(t)
      BY <2>1, <2>2, <2>3, <2>9, <3>2
         DEF AttemptStep, Attempt, Drain, DrainFailed, Dial, Dialled,
             CandidateFailed, CandidateAbandoned, Open, wire
    <3> QED BY <3>1, <3>2
  <2> QED BY <1>6, <2>4, <2>5, <2>6, <2>7, <2>8, <2>9 DEF Steps, Candidates
<1> QED BY <1>0, <1>2, <1>3, <1>4, <1>5, <1>6, NextSteps DEF Ends

LEMMA NextAlive == ASSUME IInv, Alive, [Next]_vars PROVE Alive'
<1>0. Control /\ Edges /\ Ownership
  BY DEF IInv
<1> SUFFICES ASSUME NEW u \in Candidates, Holding(task'[u])
             PROVE  session'[task'[u].cand] # "closed"
  BY DEF Alive, Holding, Activating
<1>1. u \in Tasks \ {"shutdown"} /\ task \in [Tasks -> Locals] /\ task[u] \in Locals
  BY <1>0, TaskKinds, Standing DEF Candidates
<1>2. ASSUME NEW t \in Candidates, NEW g \in Nat, NEW label \in {"connect", "dial"},
             Open(t, g, label), generationLock \in {t, Free}
      PROVE  session'[task'[u].cand] # "closed"
  <2>1. /\ Slot \in Sessions /\ session' = [session EXCEPT ![Slot] = "connecting"]
        /\ task'[t].cand = Slot /\ Moves(t)
    <3>1. t \in Tasks /\ task[t] \in Locals
      BY <1>0, TaskKinds, Standing
    <3> QED BY <1>0, <1>2, <3>1, SlotIsFree, Standing DEF Open, Locals, Moves
  <2> HIDE DEF Slot
  <2>2. CASE u = t
    BY <1>0, <2>1, <2>2 DEF Control, TypeOK
  <2>3. CASE u # t
    <3>1. ~Holding(task[u])
      BY <1>0, <1>2, <2>3, Alone, TaskKinds
    <3>2. task'[u] = task[u]
      BY <1>1, <2>1, <2>3 DEF Moves
    <3> QED BY <3>1, <3>2
  <2> QED BY <2>2, <2>3
<1>3. CASE Start
  BY <1>0, <1>2, <1>3 DEF Start, Control, TypeOK, Candidates
<1>4. ASSUME NEW t \in Attempters, Dial(t) PROVE session'[task'[u].cand] # "closed"
  <2>1. t \in Candidates /\ t \in Tasks /\ Generates(task[t])
    BY <1>4, TaskKinds DEF Candidates, Dial, At, Generates
  <2>2. attempt' \in Nat
    BY <1>0, <1>4, LargerTyped DEF Dial, Control, TypeOK
  <2> QED BY <1>0, <1>2, <1>4, <2>1, <2>2, Standing DEF Dial
<1>5. CASE ~Start /\ \A t \in Attempters : ~Dial(t)
  <2>1. Holding(task[u]) /\ task'[u].cand = task[u].cand
    BY <1>0, <1>1, <1>5, OneSteps, CandidateStays
  <2> DEFINE c == task[u].cand
  <2>2. c \in Unclosed /\ generationLock = u
    BY <1>0, <2>1, HeldTyped DEF Alive, Unclosed
  <2>3. ASSUME NEW t \in Tasks, task[t].pc = "closing", c \in task[t].todo
        PROVE  FALSE
    <3>1. CASE t = "shutdown"
      <4>1. ~Busy(u)
        BY <1>0, <1>1, <2>3, <3>1 DEF Edges, Joined
      <4> QED BY <2>1, <4>1 DEF Busy, Holding, Activating
    <3>2. CASE t # "shutdown"
      <4>1. c \in Doomed
        BY <2>2, <2>3, <3>2 DEF Doomed, Unclosed
      <4> QED BY <1>0, <2>1, <4>1 DEF Ownership, Kept
    <3> QED BY <3>1, <3>2
  <2>4. ASSUME NEW t \in Candidates, Ends(t) PROVE FALSE
    <3>1. t \in Tasks
      BY TaskKinds
    <3>2. t = u
      BY <1>0, <2>2, <2>4, <3>1, Standing DEF Ends
    <3> QED BY <2>4, <3>2 DEF Ends, Holding, Activating
  <2>5. c \in Unclosed'
    BY <1>0, <2>2, <2>3, <2>4, WhoCloses
  <2> QED BY <2>1, <2>5 DEF Unclosed
<1> QED BY <1>3, <1>4, <1>5

\* Generations are made and taken under the generation lock.
LEMMA WhoGenerates ==
  ASSUME Control, [Next]_vars
  PROVE  \/ UNCHANGED <<generation, attempt, gen>>
         \/ Start
         \/ \E t \in Candidates : generationLock = t /\ Holding(task[t]) /\ Publish(t)
         \/ \E t \in Attempters : Dial(t) \/ DialFails(t)
<1>1. CASE Observe \/ UNCHANGED vars \/ BeginShutdown \/ ShutdownStep
  BY <1>1 DEF Observe, vars, BeginShutdown, ShutdownStep, Stop, Join, ShutdownReturns,
              BeginClose, wire, ids
<1>2. ASSUME NEW t, CloseStep(t) \/ CallerCancels(t) \/ Admit(t)
      PROVE  UNCHANGED <<generation, attempt, gen>>
  BY <1>2 DEF CloseStep, TakeCloseLock, Closed, CloseFails, CallerCancels, Admit, Gone,
              wire, ids
<1>3. CASE StartStep /\ ~Start
  BY <1>3 DEF StartStep, Connect, ConnectFails, StartFails, wire, ids
<1>4. CASE Loop
  BY <1>4 DEF Loop, wire, ids
<1>5. ASSUME NEW t \in Candidates, SeedStep(t)
      PROVE  \/ UNCHANGED <<generation, attempt, gen>>
             \/ generationLock = t /\ Holding(task[t]) /\ Publish(t)
  <2>1. CASE Publish(t)
    <3>1. t \in Tasks /\ Generates(task[t]) /\ Holding(task[t])
      BY <1>5, TaskKinds
         DEF SeedStep, SeedActivates, SeedReplaces, ReplacementActivates,
             ReplacementFails, SeedOvertaken, SeedFails, Seeding, Runs, At, Generates,
             Holding, Activating
    <3> QED BY <2>1, <3>1, Standing
  <2>2. CASE ~Publish(t)
    BY <1>5, <2>2 DEF SeedStep, SeedActivates, SeedReplaces, ReplacementActivates,
                      ReplacementFails, SeedOvertaken, SeedFails, ids
  <2> QED BY <2>1, <2>2
<1>6. ASSUME NEW t, CandidateCancelled(t) \/ AttemptCancelled(t)
      PROVE  UNCHANGED <<generation, attempt, gen>>
  BY <1>6 DEF CandidateCancelled, AttemptCancelled, wire, ids
<1>7. ASSUME NEW t \in Attempters, AttemptStep(t), ~Dial(t), ~DialFails(t)
      PROVE  UNCHANGED <<generation, attempt, gen>>
  BY <1>6, <1>7 DEF AttemptStep, Attempt, Drain, DrainFailed, Dialled, DiscoverFails,
                    CandidateFailed, CandidateAbandoned, wire, ids
<1>8. ASSUME NEW t, Submit(t) \/ OperationStep(t)
      PROVE  UNCHANGED <<generation, attempt, gen>>
  BY <1>8 DEF Submit, OperationStep, OperationOvertaken, Disconnected, FatalEvidence,
              GenerationDies, OperationCancelled, CommandEnds, PollFails,
              PollSucceeds, wire, ids
<1> QED BY <1>1, <1>2, <1>3, <1>4, <1>5, <1>6, <1>7, <1>8, NextSteps
        DEF Steps, Candidates

LEMMA NextNewer == ASSUME Control, Newer, [Next]_vars PROVE Newer'
<1>0. /\ task \in [Tasks -> Locals] /\ Candidates \subseteq Tasks \ {"shutdown"}
      /\ gen \in [Sessions -> Nat] /\ generation \in Nat /\ attempt \in Nat
      /\ Attempters \subseteq Candidates /\ "start" \in Candidates
      /\ "start" \notin Attempters
  BY TaskKinds, Standing DEF Control, TypeOK, Candidates
<1> DEFINE Late(u) == /\ gen'[task'[u].cand] > generation'
                      /\ task'[u].pc = "dial" => attempt' >= generation'
<1> SUFFICES ASSUME NEW u \in Candidates, Holding(task'[u]) PROVE Late(u)
  BY DEF Newer, Holding, Activating, At
<1>1. ASSUME NEW t \in Candidates, NEW g \in Nat, NEW label \in {"connect", "dial"},
             Open(t, g, label), generationLock \in {t, Free}, t # u
      PROVE  FALSE
  <2>1. task'[u] = task[u]
    BY <1>0, <1>1 DEF Open
  <2> QED BY <1>1, <2>1, Alone, <1>0
<1>2. ASSUME NEW t \in Candidates, NEW g \in Nat, NEW label \in {"connect", "dial"},
             Open(t, g, label)
      PROVE  gen'[task'[t].cand] = g /\ task'[t].pc = label
  <2>1. Slot \in Sessions
    BY <1>2, SlotIsFree DEF Open
  <2> HIDE DEF Slot
  <2> QED BY <1>0, <1>2, <2>1 DEF Open, Locals
<1>3. CASE Start
  <2>1. u = "start"
    BY <1>0, <1>1, <1>3 DEF Start
  <2>2. gen'[task'[u].cand] = generation + 1 /\ task'[u].pc = "connect"
    BY <1>0, <1>2, <1>3, <2>1 DEF Start
  <2>3. generation' = generation
    BY <1>3 DEF Start, ids
  <2> QED BY <1>0, <2>2, <2>3
<1>4. ASSUME NEW t \in Attempters, Dial(t) PROVE Late(u)
  <2>1. generationLock = t
    BY <1>0, <1>4, Standing DEF Dial, At, Generates
  <2>2. attempt' \in Nat /\ attempt' > generation
    BY <1>0, <1>4 DEF Dial, Larger
  <2>3. u = t
    BY <1>0, <1>1, <1>4, <2>1, <2>2 DEF Dial
  <2>4. gen'[task'[u].cand] = attempt' /\ generation' = generation
    BY <1>0, <1>2, <1>4, <2>2, <2>3 DEF Dial
  <2> QED BY <1>0, <2>2, <2>4
<1>5. CASE ~Start /\ \A t \in Attempters : ~Dial(t)
  <2>1. /\ Holding(task[u]) /\ task'[u].cand = task[u].cand
        /\ task'[u].pc = "dial" => task[u].pc = "dial"
    <3>1. u \in Attempters /\ DialFails(u) => task[u].pc = "dial"
      BY DEF DialFails, Runs, At
    <3> QED BY <1>0, <1>5, <3>1, OneSteps, CandidateStays DEF Dialling
  <2>2. generationLock = u /\ task[u].cand \in Sessions
    BY <2>1, HeldTyped
  <2>3. CASE u \in Attempters /\ DialFails(u)
    <3>1. ~EndAttempt(u)
      BY <1>0 DEF EndAttempt, Holding, Activating, Idle
    <3>2. /\ task[u].pc = "dial" /\ attempt' = attempt + 1 /\ generation' = generation
          /\ gen' = [gen EXCEPT ![task[u].cand] = attempt + 1]
      BY <2>3, <3>1 DEF DialFails, Runs, At
    <3>3. attempt >= generation
      BY <2>1, <3>2 DEF Newer, At
    <3> QED BY <1>0, <2>1, <2>2, <3>2, <3>3
  <2>4. CASE UNCHANGED <<generation, attempt, gen>>
    BY <2>1, <2>4 DEF Newer, At
  <2>5. ASSUME NEW t \in Candidates, generationLock = t, Publish(t) PROVE FALSE
    <3>1. t = u
      BY <2>2, <2>5
    <3>2. task'[u].pc \in {"done", "loop"}
      BY <1>0, <2>5, <3>1 DEF Publish, EndAttempt, Idle
    <3> QED BY <3>2 DEF Holding, Activating
  <2>6. ASSUME NEW t \in Attempters, DialFails(t) PROVE t = u
    BY <1>0, <2>2, <2>6, Standing DEF DialFails, Runs, At, Generates
  <2> QED BY <1>5, <2>1, <2>3, <2>4, <2>5, <2>6, WhoGenerates
<1> QED BY <1>3, <1>4, <1>5

Lively == LockedToClose /\ Alive /\ Newer

LEMMA InitLively == ASSUME Init PROVE Lively
<1>1. closeLock = Free /\ \A u \in Tasks : task[u].pc = "idle"
  BY IdleIsIdle DEF Init
<1> QED BY <1>1, TaskKinds DEF Lively, LockedToClose, Alive, Newer, Holding, Activating

LEMMA NextLively == ASSUME IInv, Lively, [Next]_vars PROVE Lively'
BY NextLocks, NextAlive, NextNewer DEF IInv, Lively

\* A task at rest begins by start, or because start succeeded.
LEMMA WhoSteps ==
  ASSUME Control, NEW t \in Tasks \ {"shutdown"}, Steps(t), ~Busy(t)
  PROVE  (t = "start" /\ Start) \/ (t # "start" /\ scheduler)
<1>0. "start" \notin Operations /\ "start" \notin Attempters /\ "reconnect" \notin Directs
  BY TaskKinds, TasksDiffer
<1>1. ~Admit(t) /\ ~CloseStep(t)
  BY CommonWorks DEF Worked
<1>2. t \in Candidates => ~SeedStep(t) /\ ~CandidateCancelled(t)
  BY SeedWorks, CancelledWorks DEF Worked
<1>3. t = "start" => (StartStep => Start) /\ ~AttemptCancelled(t)
  BY StartWorks, CancelledWorks DEF Worked, Candidates
<1>4. ~(t = "reconnect" /\ Loop)
  BY DEF Loop, Runs, At, Busy
<1>5. t \in Attempters /\ AttemptStep(t) => scheduler
  BY AttemptWorks DEF Worked, Attempt, Runs, At, Busy
<1>6. t \in Operations /\ (Submit(t) \/ OperationStep(t)) => scheduler
  BY OperationWorks DEF Worked, Submit
<1> QED BY <1>0, <1>1, <1>2, <1>3, <1>4, <1>5, <1>6 DEF Steps

-----------------------------------------------------------------------------
(* Without direct callers: one attempt at a time, and no session meanwhile *)

\* Before start is over nothing else runs and no session is in use.
Early ==
  ~At("start", "done") =>
    /\ transport = None /\ ~scheduler /\ ~available
    /\ \A u \in Operations \cup Attempters : At(u, "idle")

\* Availability shows the session, until shutdown.
Shown == AvailableHasSession /\ (transport # None /\ ~down => available)

\* The reconnect task attempts only without a session, and dials only when
\* no session is left open.
Mending == task["reconnect"].pc \notin {"idle", "loop"} => transport = None
One ==
  /\ Same(Unclosed)
  /\ Drains(task["reconnect"]) /\ task["reconnect"].clean =>
       Unclosed \subseteq task["reconnect"].todo

\* A notification that handle_observe takes comes from the session in use.
Heard == \A s \in Sessions : Hears(s) => s = transport

\* Shutdown closes with the entities unavailable.
Hidden == At("shutdown", "closing") => ~available

Sole == Early /\ Shown /\ Mending /\ One /\ Heard /\ Hidden

LEMMA InitSole == ASSUME Init PROVE Sole
<1>1. /\ Unclosed = {} /\ \A u \in Tasks : task[u].pc = "idle"
      /\ \A s \in Sessions : session[s] # "open"
      /\ "reconnect" \in Tasks /\ "shutdown" \in Tasks
      /\ Operations \cup Attempters \subseteq Tasks
  BY IdleIsIdle, TaskKinds DEF Init, Unclosed, Candidates, Attempters
<1>2. transport = None /\ ~available /\ ~scheduler
  BY DEF Init
<1> QED BY <1>1, <1>2 DEF Sole, Early, Shown, AvailableHasSession, Mending, One, Same,
                          Drains, Heard, Hears, Hidden, At

LEMMA NextHidden == ASSUME IInv, Hidden, [Next]_vars PROVE Hidden'
<1>0. /\ Control /\ Edges /\ "shutdown" \in Tasks /\ task \in [Tasks -> Locals]
      /\ "reconnect" # "shutdown"
  BY Standing, TaskKinds DEF IInv, Candidates, Attempters
<1> SUFFICES ASSUME task'["shutdown"].pc = "closing", task["shutdown"].pc # "closing"
             PROVE  ~available'
  BY <1>0, FinalAvailable DEF Hidden, At, Edges, Joined
<1>1. CASE Observe \/ UNCHANGED vars
  BY <1>1 DEF Observe, vars
<1>2. CASE BeginShutdown \/ ShutdownStep
  BY <1>0, <1>2 DEF BeginShutdown, ShutdownStep, Stop, Join, ShutdownReturns, Idle,
                    Locals
<1>3. ~CloseStep("shutdown")
  BY DEF CloseStep, TakeCloseLock, Closed, CloseFails, Runs, At
<1>4. ASSUME NEW t \in Tasks, CallerCancels(t) PROVE FALSE
  BY <1>0, <1>4, FlagRaised DEF CallerCancels
<1>5. ASSUME NEW t \in Tasks \ {"shutdown"}, Steps(t) PROVE FALSE
  <2>1. task'["shutdown"] = task["shutdown"]
    BY <1>0, <1>5, StepMoves, LoopStarts DEF Moves
  <2> QED BY <2>1
<1> QED BY <1>0, <1>1, <1>2, <1>3, <1>4, <1>5, NextSteps

\* Start runs once.
LEMMA StartOver ==
  ASSUME Control, [Next]_vars, At("start", "done") PROVE At("start", "done")'
<1>0. /\ "start" \in Tasks \ {"shutdown"} /\ "start" \notin Attempters
      /\ "start" # "reconnect"
  BY TaskKinds DEF Candidates, Attempters
<1>1. ~Steps("start") /\ ~Woken("start")
  BY <1>0, WhoSteps DEF Woken, Start, At, Busy
<1> QED BY <1>0, <1>1, OneSteps DEF Keeps, At

LEMMA NextEarly ==
  ASSUME IInv, Early, Heard, [Next]_vars PROVE Early'
<1>0. /\ Control /\ task \in [Tasks -> Locals] /\ "shutdown" \in Tasks
      /\ Operations \cup Attempters \subseteq Tasks \ {"shutdown"}
      /\ "start" \notin Operations \cup Attempters
      /\ None \notin Sessions
  <2>1. None \notin Sessions
    BY LimitsPositive DEF Sessions, None
  <2>2. Control /\ task \in [Tasks -> Locals]
    BY DEF IInv, Control, TypeOK
  <2> QED BY <2>1, <2>2, TaskKinds DEF Candidates
<1> SUFFICES ASSUME ~At("start", "done")'
             PROVE  /\ transport' = None /\ scheduler' = FALSE /\ available' = FALSE
                    /\ \A u \in Operations \cup Attempters : task'[u].pc = "idle"
  BY DEF Early, At
<1>1. /\ transport = None /\ scheduler = FALSE /\ available = FALSE
      /\ \A u \in Operations \cup Attempters : task[u].pc = "idle"
  BY <1>0, StartOver DEF Early, At, Control, TypeOK
<1>2. CASE Observe \/ UNCHANGED vars
  BY <1>0, <1>1, <1>2 DEF Observe, Heard, Hears, vars, own, life, told
<1>3. CASE BeginShutdown \/ ShutdownStep
  BY <1>0, <1>1, <1>3, ShutdownMoves
     DEF BeginShutdown, ShutdownStep, Stop, Join, ShutdownReturns, own, life, told
<1>4. CASE CloseStep("shutdown")
  <2>1. \A u \in Operations \cup Attempters : task'[u] = task[u]
    BY <1>0, <1>4, CloseStepMoves DEF Moves
  <2>2. transport' = None /\ UNCHANGED <<life, told>>
    BY <1>1, <1>4 DEF CloseStep, TakeCloseLock, Closed, CloseFails, own
  <2> QED BY <1>1, <2>1, <2>2 DEF life, told
<1>5. ASSUME NEW t \in Tasks, CallerCancels(t)
      PROVE  /\ transport' = None /\ scheduler' = FALSE /\ available' = FALSE
             /\ \A u \in Operations \cup Attempters : task'[u].pc = "idle"
  BY <1>0, <1>1, <1>5, FlagRaised DEF CallerCancels, own, life, told
<1>6. ASSUME NEW t \in Tasks \ {"shutdown"}, Steps(t)
      PROVE  /\ transport' = None /\ scheduler' = FALSE /\ available' = FALSE
             /\ \A u \in Operations \cup Attempters : task'[u].pc = "idle"
  <2>1. t = "start"
    <3>1. CASE t \in Operations \cup Attempters
      BY <1>0, <1>1, <1>6, <3>1, WhoSteps DEF Busy
    <3> QED BY <3>1, TaskKinds DEF Candidates
  <2>2. Moves(t)
    BY <1>0, <1>6, <2>1, StepMoves
  <2>3. ~Publish(t)
    <3>1. Publish(t) => task'[t].pc = "done"
      BY <1>0, <2>1 DEF Publish, Idle
    <3> QED BY <2>1, <3>1 DEF At
  <2>4. ~SeedReplaces(t)
    BY <1>1 DEF SeedReplaces
  <2>5. transport' = None /\ scheduler' = FALSE /\ available' = FALSE
    <3>1. CASE StartStep
      <4>1. CASE StartFails
        BY <1>1, <4>1 DEF StartFails, own, life
      <4> QED BY <1>1, <3>1, <4>1 DEF StartStep, Start, Connect, ConnectFails, own, life,
                                      told
    <3>2. CASE SeedStep(t)
      BY <1>1, <2>3, <2>4, <3>2
         DEF SeedStep, SeedActivates, ReplacementActivates, ReplacementFails,
             SeedOvertaken, SeedFails, own, life, told
    <3>3. CASE CandidateCancelled(t) \/ AttemptCancelled(t) \/ Admit(t)
      BY <1>1, <3>3 DEF CandidateCancelled, AttemptCancelled, Admit, Gone, own, life, told
    <3>4. CASE CloseStep(t)
      BY <1>1, <3>4 DEF CloseStep, TakeCloseLock, Closed, CloseFails, own, life, told
    <3> QED BY <1>0, <1>6, <2>1, <3>1, <3>2, <3>3, <3>4 DEF Steps, Attempters
  <2> QED BY <1>0, <1>1, <2>1, <2>2, <2>5 DEF Moves
<1> QED BY <1>0, <1>2, <1>3, <1>4, <1>5, <1>6, NextSteps

LEMMA OneAttempter == ASSUME Directs = {} PROVE Attempters = {"reconnect"}
BY DEF Attempters

\* The session in use is not replaced by the only attempt there is, and only
\* shutdown closes it while it is in use.
LEMMA NotReplaced ==
  ASSUME Directs = {}, Control, Early, Mending, NEW t \in Candidates, SeedReplaces(t)
  PROVE  FALSE
<1>1. task[t].pc = "seed" /\ transport # None
  BY DEF SeedReplaces, Seeding, Runs, At
<1> QED BY <1>1, OneAttempter DEF Early, Mending, Candidates, At

LEMMA InUseStays ==
  ASSUME Control, Ownership, NEW t \in Tasks \ {"shutdown"}, Closed(t)
  PROVE  transport' = transport
<1>1. PICK s \in task[t].todo : transport' = IF transport = s THEN None ELSE transport
  BY DEF Closed
<1>2. s \in Sessions /\ s # None /\ s \in Doomed
  <2>1. s \in Sessions
    BY Standing DEF Locals
  <2> QED BY <2>1, LimitsPositive DEF Sessions, None, Doomed
<1> QED BY <1>1, <1>2 DEF Ownership

\* What each task's steps do to the availability.
LEMMA StepShown ==
  ASSUME Directs = {}, IInv, Sole, NEW t \in Tasks \ {"shutdown"}, Steps(t)
  PROVE  /\ available' \in BOOLEAN /\ down' = down
         /\ \/ transport' = transport /\ available' = available
            \/ transport' # None /\ available' = TRUE
            \/ transport' = None /\ available' = FALSE
<1>0. /\ Control /\ Ownership /\ available \in BOOLEAN /\ None \notin Sessions
  <2>1. None \notin Sessions
    BY LimitsPositive DEF Sessions, None
  <2> QED BY <2>1 DEF IInv, Control, TypeOK
<1> DEFINE Quietly == transport' = transport /\ available' = available /\ down' = down
           Appears == transport' # None /\ available' = TRUE /\ down' = down
           Goes == transport' = None /\ available' = FALSE /\ down' = down
<1> SUFFICES Quietly \/ Appears \/ Goes
  BY <1>0
<1>1. CASE t = "start" /\ (StartStep \/ AttemptCancelled(t))
  <2>1. CASE StartFails
    <3>1. transport = None /\ ~available
      BY <2>1 DEF Sole, Early, StartFails, At
    <3> QED BY <1>0, <2>1, <3>1 DEF StartFails, own, life
  <2> QED BY <1>1, <2>1 DEF StartStep, Start, Connect, ConnectFails, AttemptCancelled,
                            own, life, told
<1>2. CASE Loop \/ Admit(t)
  BY <1>2 DEF Loop, Admit, Gone, own, life, told
<1>3. CASE CloseStep(t)
  <2>1. CASE Closed(t)
    BY <1>0, <2>1, InUseStays DEF Closed, life, told
  <2> QED BY <1>3, <2>1 DEF CloseStep, TakeCloseLock, CloseFails, own, life, told
<1>4. CASE t \in Candidates /\ (SeedStep(t) \/ CandidateCancelled(t))
  <2>1. CASE SeedReplaces(t)
    BY <1>0, <1>4, <2>1, NotReplaced DEF Sole
  <2>2. CASE SeedActivates(t) \/ ReplacementActivates(t)
    <3>1. Publish(t) /\ Carries(task[t]) /\ down' = down
      BY <2>2 DEF SeedActivates, ReplacementActivates, Seeding, Runs, At, Carries,
                  Holding, Activating
    <3>2. task[t].cand \in Sessions
      BY <1>0, <1>4, <3>1, Standing DEF Fits
    <3> QED BY <1>0, <3>1, <3>2 DEF Publish
  <2> QED BY <1>4, <2>1, <2>2
          DEF SeedStep, ReplacementFails, SeedOvertaken, SeedFails, CandidateCancelled,
              own, life, told
<1>5. CASE t \in Attempters /\ AttemptStep(t)
  <2>1. ASSUME NEW e, NEW g, NEW advance, Failure(e, g, advance), UNCHANGED <<own, life>>,
               task[t].pc \notin {"idle", "loop"}
        PROVE  Quietly \/ Goes
    <3>1. transport = None
      BY <1>5, <2>1, OneAttempter DEF Sole, Mending
    <3> QED BY <2>1, <3>1 DEF Failure, own, life
  <2>2. CASE DrainFailed(t) \/ CandidateFailed(t)
    BY <2>1, <2>2 DEF DrainFailed, CandidateFailed, At
  <2>3. CASE DialFails(t) \/ DiscoverFails(t)
    BY <2>1, <2>3 DEF DialFails, DiscoverFails, Runs, At
  <2> QED BY <1>5, <2>2, <2>3
          DEF AttemptStep, Attempt, Drain, Dial, Dialled, CandidateAbandoned,
              AttemptCancelled, own, life, told
<1>6. CASE t \in Operations /\ (Submit(t) \/ OperationStep(t))
  <2>1. CASE PollSucceeds \/ PollFails
    <3>1. /\ transport = task["poll"].cand /\ task["poll"].pc = "read"
          /\ "poll" \in Operations /\ "poll" \in Tasks
      BY <2>1, TaskKinds DEF PollSucceeds, PollFails, Using, Runs, At, LostSession,
                             Operations
    <3>2. transport \in Sessions
      BY <1>0, <3>1, Standing DEF Fits
    <3> QED BY <1>0, <2>1, <3>2 DEF PollSucceeds, PollFails, own, life
  <2>2. CASE CommandEnds(t)
    BY <2>2 DEF CommandEnds, LostEpoch, own, life
  <2>3. CASE FatalEvidence(t) \/ GenerationDies
    BY <2>3 DEF FatalEvidence, GenerationDies, Disconnect, life
  <2> QED BY <1>6, <2>1, <2>2, <2>3
          DEF Submit, OperationStep, OperationOvertaken, Disconnected,
              OperationCancelled, own, life, told
<1> QED BY <1>1, <1>2, <1>3, <1>4, <1>5, <1>6 DEF Steps

LEMMA NextShown ==
  ASSUME Directs = {}, IInv, Sole, [Next]_vars PROVE Shown'
<1>0. /\ Control /\ Edges /\ available \in BOOLEAN /\ None \notin Sessions
  <2>1. None \notin Sessions
    BY LimitsPositive DEF Sessions, None
  <2> QED BY <2>1 DEF IInv, Control, TypeOK
<1>1. CASE Observe
  BY <1>0, <1>1 DEF Sole, Heard, Observe, Shown, AvailableHasSession, own, life
<1>2. CASE UNCHANGED vars
  BY <1>2 DEF vars, own, life, told, Sole, Shown, AvailableHasSession
<1>3. CASE BeginShutdown \/ ShutdownStep
  <2>1. transport' = transport /\ (available' = available \/ available' = FALSE)
    BY <1>3, ShutdownMoves
       DEF BeginShutdown, ShutdownStep, Stop, Join, ShutdownReturns, own, told
  <2>2. down'
    BY <1>0, <1>3 DEF BeginShutdown, ShutdownStep, Stop, Join, ShutdownReturns, life,
                      Edges, Joined, At
  <2> QED BY <2>1, <2>2 DEF Sole, Shown, AvailableHasSession
<1>4. CASE CloseStep("shutdown")
  <2>1. UNCHANGED <<told, life>> /\ task["shutdown"].pc = "closing"
    BY <1>4 DEF CloseStep, TakeCloseLock, Closed, CloseFails, Runs, At
  <2>2. down /\ ~available
    BY <1>0, <2>1 DEF Edges, Joined, Sole, Hidden, At
  <2> QED BY <2>1, <2>2 DEF Shown, AvailableHasSession, told, life
<1>5. ASSUME NEW t \in Tasks, CallerCancels(t) PROVE Shown'
  BY <1>5 DEF CallerCancels, own, life, told, Sole, Shown, AvailableHasSession
<1>6. ASSUME NEW t \in Tasks \ {"shutdown"}, Steps(t) PROVE Shown'
  BY <1>6, StepShown DEF Sole, Shown, AvailableHasSession
<1> QED BY <1>0, <1>1, <1>2, <1>3, <1>4, <1>5, <1>6, NextSteps

\* A session is published only by start before it is over, or by the
\* reconnect task, which then looks at its condition again.
LEMMA PublishersRest ==
  ASSUME Directs = {}, Control, Early, NEW t \in Candidates, Publish(t),
         Holding(task[t])
  PROVE  task'["reconnect"].pc \in {"idle", "loop"}
<1>1. /\ task \in [Tasks -> Locals] /\ t \in Tasks
      /\ "reconnect" \in Attempters /\ "reconnect" \in Tasks
  BY TaskKinds, Standing DEF Candidates, Attempters
<1>2. CASE t = "start"
  <2>1. task["reconnect"].pc = "idle"
    BY <1>1, <1>2 DEF Early, At, Holding, Activating
  <2>2. task'["reconnect"] = task["reconnect"]
    BY <1>1, <1>2 DEF Publish
  <2> QED BY <2>1, <2>2
<1>3. CASE t = "reconnect"
  <2>1. t # "start"
    BY <1>3
  <2>2. EndAttempt(t)
    BY <2>1 DEF Publish
  <2> QED BY <1>1, <1>3, <2>2 DEF EndAttempt, Idle
<1> QED BY <1>2, <1>3, OneAttempter DEF Candidates

LEMMA NextMending ==
  ASSUME Directs = {}, IInv, Sole, [Next]_vars PROVE Mending'
<1> DEFINE r == "reconnect"
<1>0. /\ Control /\ task \in [Tasks -> Locals] /\ r \in Tasks \ {"shutdown"}
      /\ r \in Attempters /\ r # "start"
  BY TaskKinds, Standing DEF IInv, Candidates, Attempters
<1> SUFFICES ASSUME task'[r].pc \notin {"idle", "loop"} PROVE transport' = None
  BY DEF Mending
<1>1. transport = None
  <2>1. CASE Keeps(r)
    BY <2>1 DEF Keeps, Sole, Mending
  <2>2. CASE Woken(r)
    BY <2>2 DEF Woken, Idle
  <2>3. CASE Steps(r) /\ Loop
    <3>1. ~LoopEnds
      BY <1>0, <2>3 DEF Loop, Idle
    <3> QED BY <3>1 DEF LoopEnds, Sole, Shown
  <2>4. CASE Steps(r) /\ ~Loop
    <3>1. CASE Admit(r) \/ CloseStep(r) \/ SeedStep(r) \/ CandidateCancelled(r)
      <4>1. task[r].pc \in {"connect", "admit", "seed", "activate", "closing"}
        BY <3>1
           DEF Admit, Gone, CloseStep, TakeCloseLock, Closed, CloseFails, SeedStep,
               SeedActivates, SeedReplaces, ReplacementActivates, ReplacementFails,
               SeedOvertaken, SeedFails, Seeding, CandidateCancelled, Cancelled,
               Runs, At
      <4> QED BY <4>1 DEF Sole, Mending
    <3>2. CASE AttemptStep(r)
      <4>1. r \notin Directs
        BY TasksDiffer
      <4>2. task[r].pc \notin {"idle", "loop"} \/ AttemptCancelled(r)
        BY <3>2, <4>1
           DEF AttemptStep, Attempt, Drain, DrainFailed, Dial, Dialled, DialFails,
               DiscoverFails, CandidateFailed, CandidateAbandoned, Runs, At
      <4>3. ~AttemptCancelled(r) \/ task'[r].pc = "idle"
        BY <1>0 DEF AttemptCancelled, LeaveAttempt, Idle
      <4> QED BY <4>2, <4>3 DEF Sole, Mending
    <3> QED BY <1>0, <2>4, <3>1, <3>2, TaskKinds DEF Steps
  <2> QED BY <1>0, <2>1, <2>2, <2>3, <2>4, OneSteps
<1>2. ASSUME NEW t \in Candidates, Publish(t), Holding(task[t]) PROVE FALSE
  BY <1>0, <1>2, PublishersRest DEF Sole
<1> QED BY <1>0, <1>1, <1>2, WhoPublishes

LEMMA NextOne ==
  ASSUME Directs = {}, IInv, Sole, [Next]_vars PROVE One'
<1> DEFINE r == "reconnect"
<1>0. /\ Control /\ Edges /\ Ownership /\ r \in Attempters /\ r \in Tasks
      /\ None \notin Sessions
  <2>1. None \notin Sessions
    BY LimitsPositive DEF Sessions, None
  <2> QED BY <2>1, TaskKinds DEF IInv, Candidates, Attempters
<1>1. Same(Unclosed')
  <2>1. ASSUME Unclosed = {}, NEW t, NEW g, NEW label, Open(t, g, label)
        PROVE  Same(Unclosed')
    <3>1. session' = [session EXCEPT ![Slot] = "connecting"]
      BY <2>1 DEF Open
    <3> HIDE DEF Slot
    <3>2. Unclosed' \subseteq {Slot}
      BY <2>1, <3>1 DEF Unclosed
    <3> QED BY <3>2 DEF Same
  <2>2. CASE Start
    BY <1>0, <2>1, <2>2 DEF Start, Edges, Fresh
  <2>3. ASSUME NEW t \in Attempters, Dial(t) PROVE Same(Unclosed')
    <3>1. /\ t = r /\ task[r].pc = "drained" /\ task[r].clean
      BY <2>3, OneAttempter DEF Dial, At
    <3>2. task[r].todo = {}
      BY <1>0, <3>1, Standing
    <3>3. Unclosed = {}
      BY <3>1, <3>2 DEF Sole, One, Drains
    <3> QED BY <2>1, <2>3, <3>3 DEF Dial
  <2>4. CASE ~Start /\ \A t \in Attempters : ~Dial(t)
    <3>1. Unclosed' \subseteq Unclosed
      BY <1>0, <2>4, StaysClosed DEF Unclosed
    <3> QED BY <3>1 DEF Sole, One, Same
  <2> QED BY <2>2, <2>3, <2>4
<1>2. ASSUME Drains(task'[r]), task'[r].clean PROVE Unclosed' \subseteq task'[r].todo
  <2>1. CASE Drain(r)
    <3>1. Unclosed' = Unclosed /\ Unclosed \ task'[r].todo \subseteq {transport}
      BY <1>0, <2>1, DrainBegins
    <3>2. transport = None
      BY <2>1 DEF Sole, Mending, Drain, Runs, At
    <3> QED BY <1>0, <3>1, <3>2 DEF Unclosed
  <2>2. CASE ~Drain(r)
    <3>1. /\ Drains(task[r]) /\ task[r].clean
          /\ Unclosed' \ task'[r].todo \subseteq Unclosed \ task[r].todo
      BY <1>0, <1>2, <2>2, DrainGoesOn
    <3> QED BY <3>1 DEF Sole, One
  <2> QED BY <2>1, <2>2
<1> QED BY <1>1, <1>2 DEF One, Same, Drains

\* A session opens by the connect of its candidate.
LEMMA WhoOpens ==
  ASSUME Control, [Next]_vars, NEW s \in Sessions, session'[s] = "open",
         session[s] # "open"
  PROVE  /\ UNCHANGED <<gen, generation>>
         /\ \E t \in Candidates : Dialling(task[t]) /\ task[t].cand = s
<1> USE DEF MarkClosing, Unclosed
<1>0. session \in [Sessions -> {"closed", "connecting", "open", "closing"}]
  BY DEF Control, TypeOK
<1>1. CASE StartStep
  <2>1. CASE Connect
    BY <1>0, <2>1 DEF Connect, Runs, At, Dialling, Candidates, ids
  <2>2. CASE Start
    BY <1>0, <2>2 DEF Start, Open
  <2>3. CASE ConnectFails \/ StartFails
    BY <1>0, <2>3 DEF ConnectFails, StartFails, BeginClose, wire
  <2> QED BY <1>1, <2>1, <2>2, <2>3 DEF StartStep
<1>2. CASE Loop \/ Observe \/ BeginShutdown \/ ShutdownStep \/ UNCHANGED vars
  BY <1>0, <1>2 DEF Loop, Observe, BeginShutdown, ShutdownStep, Stop, Join,
              ShutdownReturns, BeginClose, wire, vars
<1>3. ASSUME NEW t, Admit(t) \/ CloseStep(t) \/ CallerCancels(t) PROVE FALSE
  BY <1>0, <1>3 DEF Admit, Gone, CloseStep, TakeCloseLock, Closed, CloseFails,
                    CallerCancels, wire
<1>4. ASSUME NEW t, SeedStep(t) \/ CandidateCancelled(t) PROVE FALSE
  BY <1>0, <1>4 DEF SeedStep, SeedActivates, SeedReplaces, ReplacementActivates,
              ReplacementFails, SeedOvertaken, SeedFails, CandidateCancelled,
              DropCandidate, BeginClose, wire
<1>5. ASSUME NEW t, AttemptCancelled(t) PROVE FALSE
  BY <1>0, <1>5 DEF AttemptCancelled
<1>6. ASSUME NEW t \in Attempters, AttemptStep(t)
      PROVE  UNCHANGED <<gen, generation>> /\ Dialling(task[t]) /\ task[t].cand = s
  <2>1. CASE Dialled(t)
    BY <1>0, <2>1 DEF Dialled, Runs, At, Dialling, ids
  <2>2. CASE Dial(t) \/ Drain(t)
    BY <1>0, <2>2 DEF Dial, Drain, Open, BeginClose
  <2>3. CASE DialFails(t) \/ DiscoverFails(t)
    BY <1>0, <2>3 DEF DialFails, DiscoverFails
  <2>4. CASE Attempt(t) \/ DrainFailed(t) \/ CandidateFailed(t) \/ CandidateAbandoned(t)
    BY <2>4 DEF Attempt, DrainFailed, CandidateFailed, CandidateAbandoned, wire
  <2> QED BY <1>5, <1>6, <2>1, <2>2, <2>3, <2>4 DEF AttemptStep
<1>7. ASSUME NEW t, Submit(t) \/ OperationStep(t) PROVE FALSE
  <2>1. CASE GenerationDies \/ FatalEvidence(t)
    BY <1>0, <2>1 DEF GenerationDies, FatalEvidence, Disconnect, BeginClose
  <2>2. CASE ~GenerationDies /\ ~FatalEvidence(t)
    BY <1>7, <2>2 DEF Submit, OperationStep, OperationOvertaken, Disconnected,
              OperationCancelled, CommandEnds, PollFails, PollSucceeds, wire
  <2> QED BY <2>1, <2>2
<1> QED BY <1>1, <1>2, <1>3, <1>4, <1>5, <1>6, <1>7, NextSteps DEF Steps, Candidates

\* An operation that disconnects finds the close lock free.
LEMMA FreeToClose ==
  ASSUME Directs = {}, IInv, LockedToClose, Sole, NEW t \in Operations,
         Using(t), ~LostSession(t)
  PROVE  closeLock = Free
<1>0. /\ Control /\ Edges /\ t \in Tasks /\ t # "shutdown" /\ task[t].pc = "read"
      /\ transport # None
  <2>1. Control /\ Edges /\ t \in Tasks /\ t # "shutdown" /\ task[t].pc = "read"
    BY TaskKinds DEF IInv, Using, Runs, At
  <2>2. transport \in Sessions
    BY <2>1, Standing DEF Fits, LostSession
  <2> QED BY <2>1, <2>2, LimitsPositive DEF Sessions, None
<1> SUFFICES ASSUME NEW u \in Tasks, task[u].pc = "closing" PROVE FALSE
  BY <1>0 DEF LockedToClose, Control, TypeOK
<1>1. CASE u \in Operations
  <2>1. Uses(task[u])
    BY <1>0, <1>1, Standing, TaskKinds DEF Fits, Afters, Uses
  <2>2. Uses(task[t])
    BY <1>0 DEF Uses
  <2> QED BY <1>0, <2>1, <2>2, Standing
<1>2. CASE u = "start"
  BY <1>0, <1>2 DEF Sole, Early, At
<1>3. CASE u = "reconnect"
  BY <1>0, <1>3 DEF Sole, Mending
<1>4. CASE u = "shutdown"
  <2>1. ~Busy(t)
    BY <1>0, <1>4 DEF Edges, Joined
  <2> QED BY <1>0, <2>1 DEF Busy
<1> QED BY <1>1, <1>2, <1>3, <1>4, TaskKinds, OneAttempter DEF Candidates

\* A session that goes out of use is marked as closing before it is hidden.
LEMMA LostIsClosing ==
  ASSUME Directs = {}, IInv, Lively, Sole, [Next]_vars, transport \in Sessions,
         transport' = None
  PROVE  session'[transport] # "open"
<1>0. /\ Control /\ None \notin Sessions
      /\ session \in [Sessions -> {"closed", "connecting", "open", "closing"}]
  <2>1. None \notin Sessions
    BY LimitsPositive DEF Sessions, None
  <2> QED BY <2>1 DEF IInv, Control, TypeOK
<1>1. ASSUME NEW t \in Candidates, Publish(t), Holding(task[t]) PROVE FALSE
  BY <1>0, <1>1, HeldTyped DEF Publish
<1>2. ASSUME NEW t \in Candidates, SeedReplaces(t) PROVE FALSE
  BY <1>0, <1>2, NotReplaced DEF Sole
<1>3. ASSUME NEW t \in Tasks, Closed(t) PROVE session'[transport] # "open"
  <2>1. PICK s \in task[t].todo :
          /\ session' = [session EXCEPT ![s] = "closed"]
          /\ transport' = IF transport = s THEN None ELSE transport
    BY <1>3 DEF Closed
  <2>2. transport = s
    BY <1>0, <2>1
  <2> QED BY <1>0, <2>1, <2>2
<1>4. ASSUME NEW t \in Operations, NEW label, Using(t), ~LostSession(t),
             Disconnect(t, label)
      PROVE  session'[transport] # "open"
  <2>1. closeLock = Free
    BY <1>4, FreeToClose DEF Lively
  <2> QED BY <1>0, <1>4, <2>1 DEF Disconnect, BeginClose, MarkClosing, Unclosed
<1> QED BY <1>0, <1>1, <1>2, <1>3, <1>4, WhoPublishes

LEMMA NextHeard ==
  ASSUME Directs = {}, IInv, Lively, Sole, [Next]_vars PROVE Heard'
<1>0. /\ Control /\ Edges /\ Ownership /\ None \notin Sessions /\ transport \in Sessions \cup {None}
      /\ session \in [Sessions -> {"closed", "connecting", "open", "closing"}]
      /\ gen \in [Sessions -> Nat] /\ generation \in Nat
  <2>1. None \notin Sessions
    BY LimitsPositive DEF Sessions, None
  <2> QED BY <2>1 DEF IInv, Control, TypeOK
<1> SUFFICES ASSUME NEW s \in Sessions, session'[s] = "open", gen'[s] = generation'
             PROVE  s = transport'
  BY DEF Heard, Hears
<1>1. session[s] = "open"
  <2>1. SUFFICES ASSUME session[s] # "open" PROVE FALSE
    OBVIOUS
  <2>2. UNCHANGED <<gen, generation>>
    BY <1>0, <2>1, WhoOpens
  <2>3. gen[s] > generation
    BY <1>0, <2>1, WhoOpens DEF Lively, Newer, Dialling, Holding
  <2> QED BY <1>0, <2>2, <2>3
<1>2. ASSUME NEW t \in Candidates, Publish(t), Holding(task[t]) PROVE s = transport'
  <2>1. task[t].cand \in Unclosed /\ s \in Unclosed
    BY <1>0, <1>1, <1>2, HeldTyped DEF Lively, Alive, Unclosed
  <2> QED BY <1>2, <2>1 DEF Publish, Sole, One, Same
<1>3. ASSUME gen[s] = generation PROVE s = transport'
  <2>1. s = transport
    BY <1>1, <1>3 DEF Sole, Heard, Hears
  <2>2. transport' # None
    BY <2>1, LostIsClosing
  <2> QED BY <1>0, <1>2, <2>1, <2>2, WhoPublishes
<1>4. CASE Start
  BY <1>0, <1>1, <1>4 DEF Start, Edges, Fresh, Unclosed
<1>5. ASSUME NEW t \in Attempters, Dial(t) PROVE gen[s] = generation
  <2>1. generation' = generation /\ Slot \in Sessions
        /\ session' = [session EXCEPT ![Slot] = "connecting"]
        /\ \E g : gen' = [gen EXCEPT ![Slot] = g]
    BY <1>5, SlotIsFree DEF Dial, Open
  <2> HIDE DEF Slot
  <2>2. s # Slot
    BY <1>0, <2>1
  <2> QED BY <1>0, <2>1, <2>2
<1>6. ASSUME NEW t \in Attempters, DialFails(t) PROVE gen[s] = generation
  <2>1. /\ task[t].pc = "dial" /\ t \in Candidates /\ generation' = generation
        /\ attempt \in Nat
    BY <1>0, <1>6 DEF DialFails, Runs, At, Candidates, Control, TypeOK
  <2>2. attempt >= generation /\ task[t].cand \in Sessions
    BY <1>0, <2>1, HeldTyped DEF Lively, Newer, Holding, At
  <2>3. CASE EndAttempt(t) /\ UNCHANGED gen
    BY <2>1, <2>3
  <2>4. CASE gen' = [gen EXCEPT ![task[t].cand] = attempt + 1]
    BY <1>0, <2>1, <2>2, <2>4
  <2> QED BY <1>6, <2>3, <2>4 DEF DialFails
<1>7. CASE UNCHANGED <<generation, attempt, gen>>
  BY <1>3, <1>7
<1> QED BY <1>0, <1>2, <1>3, <1>4, <1>5, <1>6, <1>7, WhoGenerates

LEMMA NextSole ==
  ASSUME Directs = {}, IInv, Lively, Sole, [Next]_vars PROVE Sole'
<1>1. Early /\ Heard /\ Hidden
  BY DEF Sole
<1> QED BY <1>1, NextEarly, NextShown, NextMending, NextOne, NextHeard, NextHidden
        DEF Sole

-----------------------------------------------------------------------------
(* The sessions there are, and what the entities show *)

\* The device speaks to one client: a reconnect drains before it dials, and
\* only a direct caller of async_run_reconnect_attempt, which may run while a
\* session is in use, adds a second one.
THEOREM Bounded == Spec => []SessionsBounded
<1>1. CASE Directs = {}
  <2> DEFINE Inv == IInv /\ Lively /\ Sole
  <2>1. Init => Inv
    BY Inductive, InitLively, InitSole
  <2>2. Inv /\ [Next]_vars => Inv'
    BY <1>1, Inductive, NextLively, NextSole
  <2>3. Inv => SessionsBounded
    BY <1>1, SameIsSmall DEF Sole, One, SessionsBounded
  <2> QED BY <2>1, <2>2, <2>3, PTL DEF Spec
<1>2. CASE Directs # {}
  <2> DEFINE Inv == IInv /\ Few
  <2>1. Init => Inv
    BY Inductive, InitFew
  <2>2. Inv /\ [Next]_vars => Inv'
    BY Inductive, NextFew
  <2>3. Inv => SessionsBounded
    BY <1>2, FewAreTwo DEF Few, SessionsBounded
  <2> QED BY <2>1, <2>2, <2>3, PTL DEF Spec
<1> QED BY <1>1, <1>2

\* Entities are available only with a session behind them: a notification of
\* a session that is being closed, or of an older generation, is ignored.  (A
\* direct attempt may replace the session in use, and hides it before the new
\* one is there; the loop is the only caller there is outside the tests.)
THEOREM Shows == ASSUME Directs = {} PROVE Spec => []AvailableHasSession
<1> DEFINE Inv == IInv /\ Lively /\ Sole
<1>1. Init => Inv
  BY Inductive, InitLively, InitSole
<1>2. Inv /\ [Next]_vars => Inv'
  BY Inductive, NextLively, NextSole
<1>3. Inv => AvailableHasSession
  BY DEF Sole, Shown
<1> QED BY <1>1, <1>2, <1>3, PTL DEF Spec

-----------------------------------------------------------------------------
(* Without direct callers and with commands nobody cancels: an outage is    *)
(* being worked on                                                          *)

\* Only shutdown cancels an operation or an attempt.
Patient == \A u \in Operations \cup Attempters : task[u].cancel => down

\* The reconnect task is overtaken, and gives a candidate up, only by shutdown.
Steady ==
  /\ task["reconnect"].pc \in {"admit", "seed"} => down \/ task["reconnect"].seen = epoch
  /\ \/ task["reconnect"].pc = "abandoned"
     \/ task["reconnect"].pc = "closing" /\ task["reconnect"].after = "abandoned"
     => down

\* An operation that ends without starting the reconnect task was refused.
Refused ==
  \A u \in Operations :
    task[u].pc = "refused" \/ (task[u].pc = "closing" /\ task[u].after = "refused")
      => rejected

Retried == Patient /\ Steady /\ Refused /\ OutageIsRetried

LEMMA InitRetried == ASSUME Init PROVE Retried
<1>1. /\ \A u \in Tasks : task[u].pc = "idle" /\ ~task[u].cancel
      /\ Operations \cup Attempters \subseteq Tasks /\ "reconnect" \in Tasks /\ ~scheduler
  BY TaskKinds DEF Init, Idle, Candidates, Attempters
<1> QED BY <1>1 DEF Retried, Patient, Steady, Refused, OutageIsRetried

\* Shutdown and a rejection are final, and the epoch counts starts and
\* shutdowns.
LEMMA LifeMoves ==
  ASSUME Control, [Next]_vars
  PROVE  /\ down => down'
         /\ rejected => rejected'
         /\ epoch' = epoch \/ Start \/ down'
<1>1. CASE Observe \/ UNCHANGED vars \/ BeginShutdown \/ ShutdownStep
  BY <1>1 DEF Observe, vars, BeginShutdown, ShutdownStep, Stop, Join, ShutdownReturns,
              life, told
<1>2. ASSUME NEW t, CloseStep(t) \/ CallerCancels(t) \/ Admit(t) \/ CandidateCancelled(t)
                    \/ AttemptCancelled(t) \/ Loop
      PROVE  UNCHANGED <<down, rejected, epoch>>
  BY <1>2 DEF CloseStep, TakeCloseLock, Closed, CloseFails, CallerCancels, Admit, Gone,
              CandidateCancelled, AttemptCancelled, Loop, life, told
<1>3. CASE StartStep
  BY <1>3 DEF StartStep, Start, Connect, ConnectFails, StartFails, life, told
<1>4. ASSUME NEW t, SeedStep(t) PROVE UNCHANGED <<down, rejected, epoch>>
  BY <1>4 DEF SeedStep, SeedActivates, SeedReplaces, ReplacementActivates,
              ReplacementFails, SeedOvertaken, SeedFails, life, told
<1>5. ASSUME NEW t, AttemptStep(t)
      PROVE  UNCHANGED <<down, epoch>> /\ (rejected => rejected')
  BY <1>2, <1>5 DEF AttemptStep, Attempt, Drain, DrainFailed, Dial, Dialled, DialFails,
                    DiscoverFails, CandidateFailed, CandidateAbandoned, Failure, life,
                    told
<1>6. ASSUME NEW t, Submit(t) \/ OperationStep(t)
      PROVE  UNCHANGED <<down, epoch>> /\ (rejected => rejected')
  <2>1. CASE FatalEvidence(t)
    BY <2>1 DEF FatalEvidence, life
  <2>2. CASE Submit(t) \/ OperationOvertaken(t) \/ Disconnected(t) \/ OperationCancelled(t)
    <3>1. UNCHANGED <<life, told>>
      BY <2>2 DEF Submit, OperationOvertaken, Disconnected, OperationCancelled
    <3> QED BY <3>1 DEF life, told
  <2>3. CASE GenerationDies \/ PollFails \/ PollSucceeds \/ CommandEnds(t)
    <3>1. UNCHANGED life /\ UNCHANGED rejected
      BY <2>3 DEF GenerationDies, PollFails, PollSucceeds, CommandEnds
    <3> QED BY <3>1 DEF life
  <2> QED BY <1>6, <2>1, <2>2, <2>3 DEF OperationStep
<1> QED BY <1>1, <1>2, <1>3, <1>4, <1>5, <1>6, NextSteps DEF Steps

\* A task's own steps ask for no cancellation.
LEMMA StepsUncancelled ==
  ASSUME Control, NEW t \in Operations \cup Attempters, Steps(t),
         task[t].cancel = FALSE
  PROVE  task'[t].cancel = FALSE
<1>0. task \in [Tasks -> Locals] /\ task[t] \in Locals /\ t \in Tasks /\ t # "start"
  BY TaskKinds, Standing DEF Candidates
<1>1. ASSUME NEW p, task'[t] = [Idle EXCEPT !.pc = p] \/ task'[t] = Idle
      PROVE  task'[t].cancel = FALSE
  BY <1>1 DEF Idle
<1>2. ASSUME NEW S, NEW label, BeginClose(t, S, label) PROVE task'[t].cancel = FALSE
  <2>1. task'[t] = [task[t] EXCEPT !.pc = "closing", !.todo = S, !.clean = TRUE,
                                   !.after = label]
    BY <1>0, <1>2 DEF BeginClose
  <2> QED BY <1>0, <2>1 DEF Locals
<1>3. CASE (t = "reconnect" /\ Loop) \/ Submit(t)
  <2>1. task'[t] = Idle \/ \E p : task'[t] = [task[t] EXCEPT !.pc = p]
    BY <1>0, <1>3 DEF Loop, Submit
  <2> QED BY <1>0, <1>1, <2>1 DEF Locals
<1>4. CASE Admit(t)
  <2>1. \/ task'[t] = Idle \/ task'[t] = [task[t] EXCEPT !.pc = "seed"]
        \/ task'[t] = [task[t] EXCEPT !.pc = "read", !.cand = transport, !.seen = epoch]
    BY <1>0, <1>4 DEF Admit, Gone, End
  <2> QED BY <1>0, <1>1, <2>1 DEF Locals
<1>5. CASE CloseStep(t)
  <2>1. CASE TakeCloseLock(t)
    BY <1>0, <2>1 DEF TakeCloseLock
  <2>2. CASE Closed(t) \/ CloseFails(t)
    <3>1. PICK s \in task[t].todo, ok \in BOOLEAN : CloseNext(t, s, ok)
      BY <2>2 DEF Closed, CloseFails
    <3>2. task[t].pc = "closing"
      BY <2>2 DEF Closed, CloseFails, Runs, At
    <3> QED BY <1>0, <3>1, <3>2, NextToClose
  <2> QED BY <1>5, <2>1, <2>2 DEF CloseStep
<1>6. CASE SeedStep(t)
  <2>1. CASE SeedFails(t)
    <3>1. \E e : task'[t] = [task[t] EXCEPT !.pc = "closing", !.clean = TRUE,
                               !.todo = {task[t].cand}, !.after = "failed", !.error = e]
      BY <1>0, <2>1 DEF SeedFails
    <3> QED BY <1>0, <3>1 DEF Locals
  <2>2. CASE SeedActivates(t) \/ ReplacementActivates(t)
    <3>1. EndAttempt(t)
      BY <1>0, <2>2 DEF SeedActivates, ReplacementActivates, Publish
    <3> QED BY <1>0, <1>1, <3>1 DEF EndAttempt
  <2>3. CASE SeedReplaces(t) \/ ReplacementFails(t) \/ SeedOvertaken(t)
    BY <1>2, <2>3 DEF SeedReplaces, ReplacementFails, SeedOvertaken, DropCandidate
  <2> QED BY <1>6, <2>1, <2>2, <2>3 DEF SeedStep
<1>7. CASE CandidateCancelled(t)
  <2>1. task'[t] = [task[t] EXCEPT !.pc = "closing", !.todo = {task[t].cand},
                      !.clean = TRUE, !.after = "abandoned", !.cancel = FALSE]
    BY <1>0, <1>7 DEF CandidateCancelled
  <2> QED BY <1>0, <2>1 DEF Locals
<1>8. CASE AttemptStep(t) \/ AttemptCancelled(t)
  <2>1. CASE EndAttempt(t) \/ LeaveAttempt(t)
    BY <1>0, <1>1, <2>1 DEF EndAttempt, LeaveAttempt
  <2>2. CASE Dial(t) \/ Dialled(t)
    <3>1. \/ task'[t] = [task[t] EXCEPT !.pc = "dial", !.cand = Slot, !.seen = epoch']
          \/ task'[t] = [task[t] EXCEPT !.pc = "admit", !.seen = epoch]
      BY <1>0, <2>2 DEF Dial, Open, Dialled
    <3> HIDE DEF Slot
    <3> QED BY <1>0, <3>1 DEF Locals
  <2>3. CASE Drain(t)
    <3>1. CASE Inactive = {}
      <4>1. task'[t] = [task[t] EXCEPT !.pc = "drained", !.clean = TRUE]
        BY <1>0, <2>3, <3>1 DEF Drain
      <4> QED BY <1>0, <4>1 DEF Locals
    <3> QED BY <1>2, <2>3, <3>1 DEF Drain
  <2>4. CASE \E p : task' = [task EXCEPT ![t].pc = p]
    <3>1. \E p : task'[t] = [task[t] EXCEPT !.pc = p]
      BY <1>0, <2>4
    <3> QED BY <1>0, <3>1 DEF Locals
  <2>5. Attempt(t) \/ DialFails(t) => \/ EndAttempt(t)
                                      \/ \E p : task' = [task EXCEPT ![t].pc = p]
    BY DEF Attempt, DialFails
  <2> QED BY <1>8, <2>1, <2>2, <2>3, <2>4, <2>5
          DEF AttemptStep, DrainFailed, DiscoverFails, CandidateFailed,
              CandidateAbandoned, AttemptCancelled
<1>9. CASE OperationStep(t) /\ t \in Operations
  <2>1. CASE EndEnsuringReconnect(t)
    BY <1>1, <1>9, <2>1, LoopStarts
  <2>2. CASE End(t)
    BY <1>0, <1>1, <2>2 DEF End
  <2> QED BY <1>2, <1>9, <2>1, <2>2
          DEF OperationStep, OperationOvertaken, FatalEvidence, Disconnected,
              OperationCancelled, PollSucceeds, PollFails, GenerationDies,
              CommandEnds, Finish, Disconnect
<1> QED BY <1>0, <1>3, <1>4, <1>5, <1>6, <1>7, <1>8, <1>9 DEF Steps

LEMMA NextPatient ==
  ASSUME Cancellable \subseteq {"start"}, Control, Edges, Patient, [Next]_vars
  PROVE  Patient'
<1>1. (down => down') /\ Operations \cup Attempters \subseteq Tasks \ {"start", "shutdown"}
  BY LifeMoves, TaskKinds DEF Candidates
<1> SUFFICES ASSUME NEW u \in Operations \cup Attempters, task'[u].cancel, ~down
             PROVE  FALSE
  BY <1>1 DEF Patient
<1>2. task[u].cancel = FALSE
  BY <1>1, Standing DEF Patient, Locals
<1>3. ~Stop /\ ~CallerCancels(u)
  BY <1>1 DEF Stop, CallerCancels, Edges, Joined, At
<1>4. ~Keeps(u)
  BY <1>2, <1>3 DEF Keeps
<1>5. ~Woken(u)
  BY DEF Woken, Idle
<1> QED BY <1>1, <1>2, <1>4, <1>5, OneSteps, StepsUncancelled

LEMMA NextSteady ==
  ASSUME Directs = {}, IInv, Early, Patient, Steady, [Next]_vars PROVE Steady'
<1> DEFINE r == "reconnect"
           Gives(l) == l.pc = "abandoned" \/ (l.pc = "closing" /\ l.after = "abandoned")
<1>0. /\ Control /\ task \in [Tasks -> Locals] /\ r \in Attempters
      /\ r \in Tasks \ {"start", "shutdown"} /\ r \notin Operations
  BY TaskKinds, Standing DEF IInv, Candidates, Attempters
<1> SUFFICES ASSUME down' = FALSE
             PROVE  /\ task'[r].pc \in {"admit", "seed"} => task'[r].seen = epoch'
                    /\ ~Gives(task'[r])
  <2>1. down' \in BOOLEAN
    BY <1>0, NextControl DEF Control, TypeOK
  <2> QED BY <2>1 DEF Steady
<1>1. /\ ~down /\ (epoch' = epoch \/ Start) /\ ~Gives(task[r])
      /\ task[r].pc \in {"admit", "seed"} => task[r].seen = epoch
  BY <1>0, LifeMoves DEF Steady
<1>2. CASE Start
  <2>1. task[r].pc = "idle"
    BY <1>0, <1>2 DEF Early, Start, At
  <2>2. task'[r] = task[r]
    BY <1>0, <1>2 DEF Start, Open
  <2> QED BY <2>1, <2>2
<1>3. CASE Keeps(r) /\ ~Start
  BY <1>1, <1>3 DEF Keeps
<1>4. CASE Woken(r)
  BY <1>4 DEF Woken, Idle
<1>5. CASE Steps(r) /\ ~Start
  <2>1. CASE Loop
    BY <1>0, <2>1 DEF Loop, Idle, Locals
  <2>2. CASE Admit(r)
    <3>1. task'[r] = [task[r] EXCEPT !.pc = "seed"] /\ task[r].pc = "admit"
      BY <1>0, <2>2 DEF Admit, Gone, Runs, At
    <3>2. task'[r].pc = "seed" /\ task'[r].seen = task[r].seen
      BY <1>0, <3>1 DEF Locals
    <3> QED BY <1>1, <1>5, <3>1, <3>2
  <2>3. CASE CloseStep(r)
    <3>1. CASE TakeCloseLock(r)
      BY <1>1, <1>5, <3>1 DEF TakeCloseLock
    <3>2. CASE Closed(r) \/ CloseFails(r)
      <4>1. task[r].pc = "closing" /\ \E s : CloseNext(r, s, TRUE) \/ CloseNext(r, s, FALSE)
        BY <3>2 DEF Closed, CloseFails, Runs, At
      <4>2. /\ task'[r].after = task[r].after /\ task'[r].pc \in {"closing", task[r].after}
            /\ task[r].after \in Afters(r)
        BY <1>0, <4>1, CloseMoves
      <4> QED BY <1>0, <1>1, <4>1, <4>2 DEF Afters
    <3> QED BY <2>3, <3>1, <3>2 DEF CloseStep
  <2>4. CASE SeedStep(r)
    <3>1. CASE SeedOvertaken(r)
      BY <1>1, <3>1 DEF SeedOvertaken, Seeding, Runs, At
    <3>2. CASE SeedActivates(r) \/ ReplacementActivates(r)
      <4>1. EndAttempt(r)
        BY <3>2 DEF SeedActivates, ReplacementActivates, Publish
      <4> QED BY <1>0, <4>1 DEF EndAttempt, Idle
    <3>3. ASSUME NEW S, NEW label \in {"failed", "activate"}, BeginClose(r, S, label)
          PROVE  task'[r].pc = "closing" /\ task'[r].after = label
      <4>1. task'[r] = [task[r] EXCEPT !.pc = "closing", !.todo = S, !.clean = TRUE,
                                       !.after = label]
        BY <1>0, <3>3 DEF BeginClose
      <4> QED BY <1>0, <4>1 DEF Locals
    <3>4. CASE SeedFails(r)
      <4>1. \E e : task'[r] = [task[r] EXCEPT !.pc = "closing", !.clean = TRUE,
                                 !.todo = {task[r].cand}, !.after = "failed", !.error = e]
        BY <1>0, <3>4 DEF SeedFails
      <4> QED BY <1>0, <4>1 DEF Locals
    <3>5. CASE SeedReplaces(r) \/ ReplacementFails(r)
      BY <1>1, <3>3, <3>5 DEF SeedReplaces, ReplacementFails, DropCandidate
    <3> QED BY <2>4, <3>1, <3>2, <3>4, <3>5 DEF SeedStep
  <2>5. ~CandidateCancelled(r) /\ ~AttemptCancelled(r)
    BY <1>0, <1>1 DEF Patient, CandidateCancelled, AttemptCancelled, Cancelled
  <2>6. CASE AttemptStep(r)
    <3>1. ASSUME EndAttempt(r) \/ LeaveAttempt(r) PROVE task'[r].pc \in {"loop", "idle"}
      BY <1>0, <3>1 DEF EndAttempt, LeaveAttempt, Idle
    <3>2. CASE Dialled(r)
      <4>1. task'[r] = [task[r] EXCEPT !.pc = "admit", !.seen = epoch]
        BY <1>0, <3>2 DEF Dialled
      <4>2. task'[r].pc = "admit" /\ task'[r].seen = epoch
        BY <1>0, <4>1 DEF Locals
      <4> QED BY <1>1, <1>5, <4>2
    <3>3. CASE Dial(r)
      <4>1. task'[r] = [task[r] EXCEPT !.pc = "dial", !.cand = Slot, !.seen = epoch']
        BY <1>0, <3>3 DEF Dial, Open
      <4> HIDE DEF Slot
      <4> QED BY <1>0, <4>1 DEF Locals
    <3>4. CASE Drain(r)
      <4>1. \/ task'[r] = [task[r] EXCEPT !.pc = "drained", !.clean = TRUE]
            \/ task'[r] = [task[r] EXCEPT !.pc = "closing", !.todo = Inactive,
                                          !.clean = TRUE, !.after = "drained"]
        BY <1>0, <3>4 DEF Drain, BeginClose
      <4>2. CASE task'[r] = [task[r] EXCEPT !.pc = "drained", !.clean = TRUE]
        BY <1>0, <4>2 DEF Locals
      <4>3. ASSUME NEW S, task'[r] = [task[r] EXCEPT !.pc = "closing", !.todo = S,
                                                     !.clean = TRUE, !.after = "drained"]
            PROVE  task'[r].pc = "closing" /\ task'[r].after = "drained"
        BY <1>0, <4>3 DEF Locals
      <4> QED BY <4>1, <4>2, <4>3
    <3>5. CASE Attempt(r) \/ DialFails(r)
      <4>1. \/ EndAttempt(r) \/ task' = [task EXCEPT ![r].pc = "drain"]
            \/ task' = [task EXCEPT ![r].pc = "discover"]
        BY <3>5 DEF Attempt, DialFails
      <4>2. ASSUME NEW p, task' = [task EXCEPT ![r].pc = p] PROVE task'[r].pc = p
        BY <1>0, <4>2 DEF Locals
      <4> QED BY <3>1, <4>1, <4>2
    <3> QED BY <2>5, <2>6, <3>1, <3>2, <3>3, <3>4, <3>5
            DEF AttemptStep, DrainFailed, DiscoverFails, CandidateFailed,
                CandidateAbandoned
  <2> QED BY <1>0, <1>5, <2>1, <2>2, <2>3, <2>4, <2>5, <2>6 DEF Steps
<1> QED BY <1>0, <1>1, <1>2, <1>3, <1>4, <1>5, OneSteps

LEMMA NextRefused ==
  ASSUME Control, Refused, [Next]_vars PROVE Refused'
<1> SUFFICES ASSUME NEW u \in Operations,
                    \/ task'[u].pc = "refused"
                    \/ task'[u].pc = "closing" /\ task'[u].after = "refused"
             PROVE  rejected'
  BY DEF Refused
<1>0. /\ task \in [Tasks -> Locals] /\ task[u] \in Locals /\ u \in Tasks \ {"shutdown"}
      /\ u \notin Candidates /\ u # "start" /\ u # "reconnect" /\ u \notin Attempters
      /\ rejected => rejected'
  BY TaskKinds, Standing, LifeMoves DEF Candidates, Attempters
<1>1. CASE task[u].pc = "refused" \/ (task[u].pc = "closing" /\ task[u].after = "refused")
  BY <1>0, <1>1 DEF Refused
<1>2. CASE Keeps(u)
  BY <1>1, <1>2 DEF Keeps
<1>3. CASE CloseStep(u)
  <2>1. CASE TakeCloseLock(u)
    BY <1>1, <2>1 DEF TakeCloseLock
  <2>2. CASE Closed(u) \/ CloseFails(u)
    <3>1. task[u].pc = "closing" /\ \E s : CloseNext(u, s, TRUE) \/ CloseNext(u, s, FALSE)
      BY <2>2 DEF Closed, CloseFails, Runs, At
    <3> QED BY <1>0, <1>1, <3>1, CloseMoves
  <2> QED BY <1>3, <2>1, <2>2 DEF CloseStep
<1>4. ASSUME task'[u] = Idle PROVE FALSE
  BY <1>4 DEF Idle
<1>5. CASE Admit(u)
  <2>1. \/ task'[u] = Idle
        \/ task'[u] = [task[u] EXCEPT !.pc = "read", !.cand = transport, !.seen = epoch]
    BY <1>0, <1>5 DEF Admit, Gone, End
  <2> QED BY <1>0, <1>4, <2>1 DEF Locals
<1>6. CASE Submit(u)
  BY <1>0, <1>6 DEF Submit, Locals
<1>7. CASE OperationStep(u)
  <2>1. ASSUME NEW label, NEW S, BeginClose(u, S, label) PROVE task'[u].after = label
    <3>1. task'[u] = [task[u] EXCEPT !.pc = "closing", !.todo = S, !.clean = TRUE,
                                     !.after = label]
      BY <1>0, <2>1 DEF BeginClose
    <3> QED BY <1>0, <3>1 DEF Locals
  <2>2. ASSUME NEW label, NEW S, BeginClose(u, S, label) PROVE task'[u].pc = "closing"
    <3>1. task'[u] = [task[u] EXCEPT !.pc = "closing", !.todo = S, !.clean = TRUE,
                                     !.after = label]
      BY <1>0, <2>2 DEF BeginClose
    <3> QED BY <1>0, <3>1 DEF Locals
  <2>3. CASE FatalEvidence(u)
    <3>1. PICK e \in Signals :
            /\ rejected' = (rejected \/ Confirms(e, generation))
            /\ Disconnect(u, IF Confirms(e, generation) THEN "refused" ELSE "doubted")
      BY <2>3 DEF FatalEvidence
    <3> QED BY <2>1, <2>2, <3>1 DEF Disconnect
  <2>4. CASE u = "poll" /\ GenerationDies
    BY <2>1, <2>2, <2>4 DEF GenerationDies, Disconnect
  <2>5. CASE End(u) \/ EndEnsuringReconnect(u)
    BY <1>0, <1>4, <2>5, LoopStarts DEF End
  <2> QED BY <1>7, <2>3, <2>4, <2>5
          DEF OperationStep, OperationOvertaken, Disconnected, OperationCancelled,
              PollSucceeds, PollFails, CommandEnds, Finish
<1> QED BY <1>0, <1>2, <1>3, <1>5, <1>6, <1>7, OneSteps DEF Steps, Woken

\* A step that hides the session leaves its operation to close it.
LEMMA WhoHides ==
  ASSUME Directs = {}, IInv, Sole, NEW t \in Tasks \ {"shutdown"}, Steps(t), available,
         ~available'
  PROVE  t \in Operations /\ task'[t].pc = "closing"
<1>0. /\ Control /\ task \in [Tasks -> Locals] /\ available = TRUE /\ transport # None
  BY Standing DEF IInv, Control, TypeOK, Sole, Shown, AvailableHasSession
<1>1. CASE t = "start" /\ (StartStep \/ AttemptCancelled(t))
  <2>1. CASE StartFails
    BY <1>0, <2>1 DEF Sole, Early, StartFails, At
  <2> QED BY <1>0, <1>1, <2>1
          DEF StartStep, Start, Connect, ConnectFails, AttemptCancelled, told
<1>2. CASE Loop \/ Admit(t) \/ CloseStep(t)
  BY <1>0, <1>2 DEF Loop, Admit, Gone, CloseStep, TakeCloseLock, Closed, CloseFails, told
<1>3. CASE SeedStep(t) \/ CandidateCancelled(t)
  <2>1. CASE SeedActivates(t) \/ ReplacementActivates(t)
    BY <2>1 DEF SeedActivates, ReplacementActivates, Publish
  <2> QED BY <1>0, <1>3, <2>1
          DEF SeedStep, SeedReplaces, ReplacementFails, SeedOvertaken, SeedFails,
              CandidateCancelled, told
<1>4. CASE t \in Attempters /\ AttemptStep(t)
  <2>1. task[t].pc \in {"idle", "loop"}
    BY <1>0, <1>4, OneAttempter DEF Sole, Mending
  <2>2. ~DrainFailed(t) /\ ~DialFails(t) /\ ~DiscoverFails(t) /\ ~CandidateFailed(t)
    BY <2>1 DEF DrainFailed, DialFails, DiscoverFails, CandidateFailed, Runs, At
  <2> QED BY <1>0, <1>4, <2>2
          DEF AttemptStep, Attempt, Drain, Dial, Dialled, CandidateAbandoned,
              AttemptCancelled, told
<1>5. CASE t \in Operations /\ (Submit(t) \/ OperationStep(t))
  <2>1. ASSUME NEW label, Disconnect(t, label) PROVE task'[t].pc = "closing"
    <3>1. \E S : task'[t] = [task[t] EXCEPT !.pc = "closing", !.todo = S,
                                            !.clean = TRUE, !.after = label]
      BY <1>0, <2>1 DEF Disconnect, BeginClose
    <3> QED BY <1>0, <3>1 DEF Locals
  <2>2. CASE FatalEvidence(t) \/ (t = "poll" /\ GenerationDies)
    BY <1>5, <2>1, <2>2 DEF FatalEvidence, GenerationDies
  <2>3. CASE PollSucceeds \/ PollFails \/ CommandEnds(t)
    BY <1>0, <2>3 DEF PollSucceeds, PollFails, CommandEnds
  <2>4. CASE Submit(t) \/ OperationOvertaken(t) \/ Disconnected(t) \/ OperationCancelled(t)
    <3>1. UNCHANGED told
      BY <2>4 DEF Submit, OperationOvertaken, Disconnected, OperationCancelled
    <3> QED BY <1>0, <3>1 DEF told
  <2> QED BY <1>5, <2>2, <2>3, <2>4 DEF OperationStep
<1> QED BY <1>1, <1>2, <1>3, <1>4, <1>5 DEF Steps

\* A task that works on an outage goes on, or hands over to the reconnect
\* task.
LEMMA StillRetried ==
  ASSUME Directs = {}, IInv, Patient, Steady, Refused, ~down, ~rejected, ~available,
         NEW t \in Tasks \ {"shutdown"}, Steps(t),
         \/ Busy("reconnect")
         \/ \E u \in Operations : task[u].pc \in {"dead", "doubted", "closing"}
  PROVE  \/ task'["reconnect"].pc \notin {"idle", "done"}
         \/ \E u \in Operations : task'[u].pc \in {"dead", "doubted", "closing"}
<1> DEFINE r == "reconnect"
           Goal == \/ task'[r].pc \notin {"idle", "done"}
                   \/ \E u \in Operations : task'[u].pc \in {"dead", "doubted", "closing"}
<1>0. /\ Control /\ task \in [Tasks -> Locals] /\ r \in Attempters
      /\ r \in Tasks \ {"start", "shutdown"} /\ r \notin Operations
      /\ Operations \subseteq Tasks /\ r \notin Directs
  BY TaskKinds, TasksDiffer, Standing DEF IInv, Candidates, Attempters
<1>1. ASSUME NEW u \in Tasks \ {t, r} PROVE task'[u] = task[u]
  <2>1. CASE Moves(t)
    BY <1>1, <2>1 DEF Moves
  <2>2. CASE t \in Operations /\ EndEnsuringReconnect(t)
    BY <1>0, <1>1, <2>2, LoopStarts
  <2> QED BY <1>0, <2>1, <2>2, StepMoves
<1>2. ASSUME Busy(r), t # r PROVE Goal
  <2>1. task'[r] = task[r]
    <3>1. CASE Moves(t)
      BY <1>0, <1>2, <3>1 DEF Moves
    <3>2. CASE t \in Operations /\ EndEnsuringReconnect(t)
      BY <1>0, <1>2, <3>2, LoopStarts
    <3> QED BY <1>0, <3>1, <3>2, StepMoves
  <2> QED BY <1>2, <2>1 DEF Busy
<1>3. ASSUME Busy(r), t = r PROVE Goal
  <2> USE <1>0, <1>3
  <2>1. ASSUME EndAttempt(r) PROVE Goal
    BY <2>1 DEF EndAttempt, Idle
  <2>2. ASSUME NEW p \in {"attempt", "drain", "discover", "closing", "drained", "seed",
                          "dial", "admit"}, task'[r].pc = p
        PROVE  Goal
    BY <2>2
  <2>3. ASSUME NEW S, NEW label, BeginClose(r, S, label) PROVE Goal
    <3>1. task'[r] = [task[r] EXCEPT !.pc = "closing", !.todo = S, !.clean = TRUE,
                                     !.after = label]
      BY <2>3 DEF BeginClose
    <3> QED BY <2>2, <3>1 DEF Locals
  <2>4. ~CandidateCancelled(r) /\ ~AttemptCancelled(r) /\ ~CandidateAbandoned(r)
    BY DEF Patient, Steady, CandidateCancelled, AttemptCancelled, Cancelled,
           CandidateAbandoned, At
  <2>5. CASE Loop
    <3>1. task' = [task EXCEPT ![r].pc = "attempt"]
      BY <2>5 DEF Loop, LoopEnds
    <3> QED BY <2>2, <3>1 DEF Locals
  <2>6. CASE Admit(r)
    <3>1. task' = [task EXCEPT ![r].pc = "seed"]
      BY <2>6 DEF Admit, Gone
    <3> QED BY <2>2, <3>1 DEF Locals
  <2>7. CASE CloseStep(r)
    <3>1. CASE TakeCloseLock(r)
      BY <3>1 DEF TakeCloseLock, Busy
    <3>2. CASE Closed(r) \/ CloseFails(r)
      <4>1. task[r].pc = "closing" /\ \E s : CloseNext(r, s, TRUE) \/ CloseNext(r, s, FALSE)
        BY <3>2 DEF Closed, CloseFails, Runs, At
      <4>2. task'[r].pc \in {"closing", task[r].after} /\ task[r].after \in Afters(r)
        BY <4>1, CloseMoves
      <4> QED BY <4>2 DEF Afters
    <3> QED BY <2>7, <3>1, <3>2 DEF CloseStep
  <2>8. CASE SeedStep(r)
    <3>1. CASE SeedActivates(r) \/ ReplacementActivates(r)
      BY <2>1, <3>1 DEF SeedActivates, ReplacementActivates, Publish
    <3>2. CASE SeedFails(r)
      <4>1. \E e : task'[r] = [task[r] EXCEPT !.pc = "closing", !.clean = TRUE,
                                 !.todo = {task[r].cand}, !.after = "failed", !.error = e]
        BY <3>2 DEF SeedFails
      <4>2. task'[r].pc = "closing"
        BY <4>1 DEF Locals
      <4> QED BY <2>2, <4>2
    <3> QED BY <2>3, <2>8, <3>1, <3>2
            DEF SeedStep, SeedReplaces, ReplacementFails, SeedOvertaken, DropCandidate
  <2>9. CASE AttemptStep(r)
    <3>1. CASE Attempt(r) \/ DialFails(r)
      <4>1. \/ EndAttempt(r) \/ task' = [task EXCEPT ![r].pc = "drain"]
            \/ task' = [task EXCEPT ![r].pc = "discover"]
        BY <3>1 DEF Attempt, DialFails
      <4>2. ASSUME NEW p, task' = [task EXCEPT ![r].pc = p] PROVE task'[r].pc = p
        BY <4>2 DEF Locals
      <4> QED BY <2>1, <2>2, <4>1, <4>2
    <3>2. CASE Drain(r)
      <4>1. CASE task'[r] = [task[r] EXCEPT !.pc = "drained", !.clean = TRUE]
        BY <2>2, <4>1 DEF Locals
      <4>2. CASE task' = [task EXCEPT ![r].pc = "drained", ![r].clean = TRUE]
        BY <4>1, <4>2
      <4> QED BY <2>3, <3>2, <4>2 DEF Drain
    <3>3. CASE Dial(r) \/ Dialled(r)
      <4>1. \/ task'[r] = [task[r] EXCEPT !.pc = "dial", !.cand = Slot, !.seen = epoch']
            \/ task'[r] = [task[r] EXCEPT !.pc = "admit", !.seen = epoch]
        BY <3>3 DEF Dial, Open, Dialled
      <4> HIDE DEF Slot
      <4>2. task'[r].pc \in {"dial", "admit"}
        BY <4>1 DEF Locals
      <4> QED BY <2>2, <4>2
    <3> QED BY <2>1, <2>4, <2>9, <3>1, <3>2, <3>3
            DEF AttemptStep, DrainFailed, DiscoverFails, CandidateFailed
  <2> QED BY <2>4, <2>5, <2>6, <2>7, <2>8, <2>9 DEF Steps
<1>4. ASSUME NEW u \in Operations,
             task[u].pc \in {"dead", "doubted", "closing"}, t # u PROVE Goal
  BY <1>0, <1>1, <1>4 DEF At
<1>5. ASSUME NEW u \in Operations, task[u].pc \in {"dead", "doubted", "closing"}, t = u PROVE Goal
  <2>1. u \notin Candidates /\ u \notin Attempters /\ u # "start" /\ u # r
    BY <1>0, TaskKinds DEF Candidates
  <2>2. ~OperationCancelled(u)
    BY DEF Patient, OperationCancelled, Cancelled
  <2>3. CASE CloseStep(u)
    <3>1. CASE TakeCloseLock(u)
      BY <1>5, <3>1 DEF TakeCloseLock
    <3>2. CASE Closed(u) \/ CloseFails(u)
      <4>1. task[u].pc = "closing" /\ \E s : CloseNext(u, s, TRUE) \/ CloseNext(u, s, FALSE)
        BY <3>2 DEF Closed, CloseFails, Runs, At
      <4>2. task'[u].pc \in {"closing", task[u].after} /\ task[u].after \in Afters(u)
        BY <1>0, <4>1, CloseMoves
      <4> QED BY <1>5, <4>1, <4>2 DEF Afters, Refused
    <3> QED BY <2>3, <3>1, <3>2 DEF CloseStep
  <2>4. CASE Disconnected(u)
    <3>1. EndEnsuringReconnect(u)
      BY <1>5, <2>4 DEF Disconnected, At
    <3>2. task' = [task EXCEPT ![u] = Idle,
                     ![r] = IF Busy(r) THEN @ ELSE [Idle EXCEPT !.pc = "loop"]]
      BY <3>1 DEF EndEnsuringReconnect
    <3>3. task'[r] = IF Busy(r) THEN task[r] ELSE [Idle EXCEPT !.pc = "loop"]
      BY <1>0, <2>1, <3>2
    <3> QED BY <3>3 DEF Busy, Idle
  <2> QED BY <1>0, <1>5, <2>1, <2>2, <2>3, <2>4
          DEF Steps, Admit, Gone, Submit, OperationStep, OperationOvertaken, FatalEvidence,
              PollSucceeds, PollFails, GenerationDies, CommandEnds, Using, Runs, At
<1> QED BY <1>2, <1>3, <1>4, <1>5 DEF At

\* Only a session that start publishes begins the scheduler.
LEMMA SchedulerStarts ==
  ASSUME Control, NEW t \in Tasks \ {"shutdown"}, Steps(t), scheduler', ~available'
  PROVE  scheduler
<1>1. CASE StartStep \/ Loop \/ Admit(t) \/ CloseStep(t) \/ CandidateCancelled(t)
            \/ AttemptCancelled(t)
  <2>1. scheduler' = scheduler
    BY <1>1 DEF StartStep, Start, Connect, ConnectFails, StartFails, Loop, Admit, Gone, CloseStep,
                TakeCloseLock, Closed, CloseFails, CandidateCancelled, AttemptCancelled,
                life
  <2> QED BY <2>1
<1>2. CASE SeedStep(t)
  <2>1. ~SeedActivates(t) /\ ~ReplacementActivates(t)
    BY DEF SeedActivates, ReplacementActivates, Publish
  <2>2. scheduler' = scheduler
    BY <1>2, <2>1 DEF SeedStep, SeedReplaces, ReplacementFails, SeedOvertaken, SeedFails,
                      life
  <2> QED BY <2>2
<1>3. CASE AttemptStep(t)
  <2>1. scheduler' = scheduler
    BY <1>1, <1>3 DEF AttemptStep, Attempt, Drain, DrainFailed, Dial, Dialled, DialFails,
                      DiscoverFails, CandidateFailed, CandidateAbandoned,
                      AttemptCancelled, life
  <2> QED BY <2>1
<1>4. CASE Submit(t) \/ OperationStep(t)
  <2>1. UNCHANGED life
    BY <1>4 DEF Submit, OperationStep, OperationOvertaken, Disconnected, FatalEvidence,
                GenerationDies, OperationCancelled, CommandEnds, PollFails,
                PollSucceeds
  <2> QED BY <2>1 DEF life
<1> QED BY <1>1, <1>2, <1>3, <1>4 DEF Steps

LEMMA NextOutage ==
  ASSUME Directs = {}, IInv, Sole, Retried, [Next]_vars PROVE OutageIsRetried'
<1> DEFINE Attended_to == \/ Busy("reconnect")
                        \/ \E u \in Operations : task[u].pc \in {"dead", "doubted", "closing"}
           Goal == \/ task'["reconnect"].pc \notin {"idle", "done"}
                   \/ \E u \in Operations : task'[u].pc \in {"dead", "doubted", "closing"}
<1>0. Control /\ Edges /\ "reconnect" \in Tasks \ {"shutdown"}
      /\ Operations \subseteq Tasks \ {"shutdown"}
  BY TaskKinds DEF IInv, Candidates, Attempters
<1> SUFFICES ASSUME scheduler', ~down', ~available', ~rejected' PROVE Goal
  BY DEF OutageIsRetried, Busy, At
<1>1. ~down /\ ~rejected
  BY <1>0, LifeMoves
<1>2. ASSUME UNCHANGED <<scheduler, available>> PROVE Attended_to
  BY <1>1, <1>2 DEF Retried, OutageIsRetried
<1>3. ASSUME UNCHANGED <<scheduler, available>>, NEW t \in Tasks,
             task' = [task EXCEPT ![t].cancel = TRUE]
      PROVE  Goal
  <2>1. \A u \in Tasks : task'[u].pc = task[u].pc
    BY <1>0, <1>3, FlagRaised
  <2> QED BY <1>0, <1>2, <1>3, <2>1 DEF Busy, At
<1>4. CASE UNCHANGED vars
  <2>1. UNCHANGED <<scheduler, available, task>>
    BY <1>4 DEF vars, life, told
  <2> QED BY <1>2, <2>1 DEF Busy, At
<1>5. ~Observe /\ ~BeginShutdown
  BY DEF Observe, BeginShutdown
<1>6. ~ShutdownStep /\ ~CloseStep("shutdown")
  BY <1>0, <1>1 DEF ShutdownStep, Stop, Join, ShutdownReturns, CloseStep, TakeCloseLock,
                    Closed, CloseFails, Runs, At, Edges, Joined
<1>7. ASSUME NEW t \in Tasks, CallerCancels(t) PROVE Goal
  <2>1. UNCHANGED <<scheduler, available>>
    BY <1>7 DEF CallerCancels, life, told
  <2> QED BY <1>3, <1>7, <2>1 DEF CallerCancels
<1>8. ASSUME NEW t \in Tasks \ {"shutdown"}, Steps(t) PROVE Goal
  <2>1. CASE available
    <3>1. t \in Operations /\ task'[t].pc = "closing"
      BY <1>8, <2>1, WhoHides
    <3> QED BY <3>1
  <2>2. CASE ~available
    <3>1. scheduler
      BY <1>0, <1>8, SchedulerStarts
    <3>2. Attended_to
      BY <1>1, <2>2, <3>1 DEF Retried, OutageIsRetried
    <3> QED BY <1>1, <1>8, <2>2, <3>2, StillRetried DEF Retried
  <2> QED BY <2>1, <2>2
<1> QED BY <1>4, <1>5, <1>6, <1>7, <1>8, <1>0, NextSteps

LEMMA NextRetried ==
  ASSUME Directs = {}, Cancellable \subseteq {"start"}, IInv, Sole, Retried, [Next]_vars
  PROVE  Retried'
<1>1. Control /\ Edges /\ Early /\ Patient /\ Steady /\ Refused
  BY DEF IInv, Sole, Retried
<1> QED BY <1>1, NextPatient, NextSteady, NextRefused, NextOutage DEF Retried

\* An outage of a set-up entry is being worked on: the operation that found
\* it has not left its disconnect yet, or a reconnect task exists.  It holds
\* as long as nobody cancels the operation in between.
THEOREM Attended ==
  ASSUME Directs = {}, Cancellable \subseteq {"start"}
  PROVE  Spec => []OutageIsRetried
<1> DEFINE Inv == IInv /\ Lively /\ Sole /\ Retried
<1>1. Init => Inv
  BY Inductive, InitLively, InitSole, InitRetried
<1>2. Inv /\ [Next]_vars => Inv'
  BY Inductive, NextLively, NextSole, NextRetried
<1>3. Inv => OutageIsRetried
  BY DEF Retried
<1> QED BY <1>1, <1>2, <1>3, PTL DEF Spec

-----------------------------------------------------------------------------
(* Generations, notifications and the admission *)

\* Every session that comes in use has a later generation than all before it,
\* for any tasks: its notifications are told from theirs, and the same signal
\* seen again by a new session counts as that of another generation.
THEOREM Generations ==
  Spec => [][transport' \notin {transport, None} => generation' > generation]_vars
<1> DEFINE Inv == IInv /\ Lively
           Grows == transport' \notin {transport, None} => generation' > generation
<1>1. Init => Inv
  BY Inductive, InitLively
<1>2. Inv /\ [Next]_vars => Inv'
  BY Inductive, NextLively
<1>3. Inv /\ [Next]_vars => Grows
  <2> SUFFICES ASSUME Inv, [Next]_vars, transport' \notin {transport, None}
               PROVE  generation' > generation
    OBVIOUS
  <2>1. PICK t \in Candidates : Publish(t) /\ Holding(task[t])
    BY WhoPublishes DEF IInv
  <2>2. gen[task[t].cand] > generation
    BY <2>1 DEF Lively, Newer
  <2> QED BY <2>1, <2>2 DEF Publish, Taken
<1> QED BY <1>1, <1>2, <1>3, PTL DEF Spec

\* handle_observe takes no notification but of the session in use: those of a
\* session that is being closed or was replaced are ignored.
THEOREM Heeded == ASSUME Directs = {} PROVE Spec => []Heard
<1> DEFINE Inv == IInv /\ Lively /\ Sole
<1>1. Init => Inv
  BY Inductive, InitLively, InitSole
<1>2. Inv /\ [Next]_vars => Inv'
  BY Inductive, NextLively, NextSole
<1>3. Inv => Heard
  BY DEF Sole
<1> QED BY <1>1, <1>2, <1>3, PTL DEF Spec

\* The admission as the tasks of the coordinator use it: a task asks in the
\* step in which it enters; how those that wait are served PriorityAdmission
\* says.
Mutex == INSTANCE AdmissionMutex
           WITH NoTask <- Free, owner <- admission, asking <- {admission} \ {Free}

\* A task's own steps enter or leave the admission, and nobody else's.
LEMMA WhoAdmits ==
  ASSUME Control, [Next]_vars
  PROVE  \/ admission' = admission
         \/ \E t \in Tasks : \/ admission = Free /\ admission' = t
                             \/ admission = t /\ admission' = Free
<1> DEFINE Unmoved == admission' = admission
           Left(t) == admission \in {t, Free} /\ admission' = Free
<1>1. CASE Observe \/ UNCHANGED vars \/ BeginShutdown \/ ShutdownStep
  BY <1>1 DEF Observe, vars, BeginShutdown, ShutdownStep, Stop, Join, ShutdownReturns,
              locks
<1>2. ASSUME NEW t, CloseStep(t) \/ CallerCancels(t) \/ Loop PROVE Unmoved
  BY <1>2 DEF CloseStep, TakeCloseLock, Closed, CloseFails, CallerCancels, Loop, locks
<1>3. ASSUME NEW t, Admit(t) PROVE Unmoved \/ (admission = Free /\ admission' = t)
  BY <1>3 DEF Admit, Gone, Admissible
<1>4. ASSUME StartStep PROVE Unmoved
  BY <1>4 DEF StartStep, Start, Connect, ConnectFails, StartFails, locks
<1>5. ASSUME NEW t \in Candidates, SeedStep(t) PROVE Unmoved \/ Left(t)
  <2>1. CASE SeedActivates(t) \/ SeedOvertaken(t) \/ SeedFails(t)
    BY <2>1 DEF SeedActivates, SeedOvertaken, SeedFails, Seeding, Publish, DropCandidate
  <2>2. CASE ReplacementActivates(t) \/ ReplacementFails(t)
    <3>1. t \in Tasks /\ Uses(task[t])
      BY <1>5, <2>2, TaskKinds DEF ReplacementActivates, ReplacementFails, At, Uses
    <3>2. admission = t
      BY <3>1, Standing
    <3> QED BY <2>2, <3>2 DEF ReplacementActivates, ReplacementFails, Publish,
                              DropCandidate
  <2>3. CASE SeedReplaces(t)
    BY <2>3 DEF SeedReplaces
  <2> QED BY <1>5, <2>1, <2>2, <2>3 DEF SeedStep
<1>6. ASSUME NEW t, CandidateCancelled(t) \/ AttemptCancelled(t) PROVE Unmoved \/ Left(t)
  BY <1>6 DEF CandidateCancelled, AttemptCancelled
<1>7. ASSUME NEW t, AttemptStep(t), ~AttemptCancelled(t) PROVE Unmoved
  BY <1>7 DEF AttemptStep, Attempt, Drain, DrainFailed, Dial, Dialled, DialFails,
              DiscoverFails, CandidateFailed, CandidateAbandoned, locks
<1>8. ASSUME NEW t \in Operations, Submit(t) \/ OperationStep(t) PROVE Unmoved \/ Left(t)
  <2>1. CASE Disconnected(t)
    <3>1. t \in Tasks /\ Uses(task[t])
      BY <2>1, TaskKinds DEF Disconnected, Uses
    <3> QED BY <2>1, <3>1, Standing DEF Disconnected
  <2>2. CASE Submit(t) \/ OperationCancelled(t) \/ FatalEvidence(t) \/ GenerationDies
    BY <2>2 DEF Submit, OperationCancelled, FatalEvidence, GenerationDies, locks
  <2>3. CASE OperationOvertaken(t) \/ CommandEnds(t)
    BY <2>3 DEF OperationOvertaken, CommandEnds, Using, Finish
  <2>4. CASE t = "poll" /\ (PollSucceeds \/ PollFails)
    BY <2>4 DEF PollSucceeds, PollFails, Using, Finish
  <2> QED BY <1>8, <2>1, <2>2, <2>3, <2>4 DEF OperationStep
<1>9. ASSUME NEW t \in Tasks \ {"shutdown"}, Steps(t)
      PROVE  Unmoved \/ Left(t) \/ (admission = Free /\ admission' = t)
  BY <1>2, <1>3, <1>4, <1>5, <1>6, <1>7, <1>8, <1>9 DEF Steps
<1> QED BY <1>1, <1>2, <1>9, NextSteps

\* The coordinator uses its admission as the mutex that PriorityAdmission
\* implements: a task enters it when nobody is inside, and only the task that
\* is inside leaves it, also where it is cancelled or its close fails.
THEOREM Admits == Spec => Mutex!MutexSpec
<1>1. Init => Mutex!MutexInit
  BY DEF Init, Mutex!MutexInit
<1>2. Control /\ [Next]_vars => [Mutex!MutexNext]_(Mutex!mutexVars)
  <2> SUFFICES ASSUME Control, [Next]_vars
               PROVE  \/ \E t \in Tasks : Mutex!Ask(t) \/ Mutex!Leave(t)
                      \/ admission' = admission
    BY DEF Mutex!MutexNext, Mutex!mutexVars
  <2>1. ASSUME NEW t \in Tasks, admission = Free, admission' = t PROVE Mutex!Ask(t)
    BY <2>1, TaskKinds DEF Mutex!Ask
  <2>2. ASSUME NEW t \in Tasks, admission = t, admission' = Free PROVE Mutex!Leave(t)
    BY <2>2, TaskKinds DEF Mutex!Leave
  <2> QED BY <2>1, <2>2, WhoAdmits
<1>3. Init => Control
  BY InitControl
<1>4. Control /\ [Next]_vars => Control'
  BY NextControl
<1> QED BY <1>1, <1>2, <1>3, <1>4, PTL DEF Spec, Mutex!MutexSpec
=============================================================================
