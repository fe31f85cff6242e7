----------------------- MODULE CommandProtocolProofs -----------------------
(***************************************************************************)
(* A command that reports success was told every requested value by the    *)
(* device, no write is sent while a mode settles, and the commands keep    *)
(* the contract of CommandContract: for any modes, speeds and number of    *)
(* notifications on their way.                                             *)
(***************************************************************************)
EXTENDS CommandProtocol, TLAPS

\* Each operation works on its own resource, and is in the reads that follow
\* it only when they follow.
WorksOn ==
  /\ cmd.op \in {"mode", "fan"} => cmd.path = cmd.op
  /\ cmd.op \in {"off", "on"} => cmd.path = "power"
  /\ cmd.op = "set" => cmd.path \in {"mode", "power"}
  /\ cmd.pc = "related" => cmd.path = "mode"
  /\ cmd.pc = "again" => cmd.path = "power" /\ cmd.op \in {"set", "on"}

\* The reports s contain one of the requested value of p.
Told(s, p) == \E m \in s : m[1] = p

\* The wait ends early only with the value the device reported, and each later
\* position has the reports of the earlier ones behind it.
ToldSoFar ==
  /\ cmd.pc \in {"settle", "post", "posted", "wait"} /\ cmd.event
       /\ Verifies(resources) => Told(said, cmd.path)
  /\ cmd.pc = "related" => Told(said, "mode")
  /\ cmd.op = "set" /\ cmd.path = "power" => Told(said, "mode")
  /\ cmd.pc = "again" => Told(said, "power")

IInv == TypeOK /\ (recent => settling) /\ WorksOn /\ ToldSoFar

-----------------------------------------------------------------------------
(* Records *)

\* A state with one of its values replaced by another state's.
LEMMA Replaced ==
  ASSUME NEW s \in State, NEW t \in State, NEW p \in Paths
  PROVE  [s EXCEPT ![p] = t[p]] \in State
<1>1. CASE p = "power" BY <1>1 DEF State
<1>2. CASE p = "mode" BY <1>2 DEF State
<1>3. CASE p = "fan" BY <1>3 DEF State
<1> QED BY <1>1, <1>2, <1>3 DEF Paths

LEMMA Notified ==
  ASSUME NEW s \in State, NEW p \in Paths
  PROVE  [path |-> p, value |-> s[p]] \in Notification
BY DEF Notification

\* What a notification does to what is known.
LEMMA Noted ==
  ASSUME NEW s \in State, NEW n \in Notification
  PROVE  n.path \in Paths /\ [s EXCEPT ![n.path] = n.value] \in State
<1>1. PICK p \in Paths : n \in [path : {p}, value : {t[p] : t \in State}]
  BY DEF Notification
<1>2. PICK t \in State : n.path = p /\ n.value = t[p]
  BY <1>1
<1> QED BY <1>2, Replaced


LEMMA IdleTyped ==
  ASSUME NEW s \in State, NEW o \in {None, "done", "rejected", "aborted"}
  PROVE  /\ Idle(o) \in Command
         /\ Idle(o).pc = "idle" /\ Idle(o).op = "off" /\ Idle(o).path = "power"
         /\ Idle(o).outcome = o
<1>1. (CHOOSE t \in State : TRUE) \in State
  OBVIOUS
<1> QED BY <1>1 DEF Idle, Command, Positions, Operations, Paths

\* Nothing is said twice over: what was told stays told.
LEMMA HeardMore ==
  ASSUME said \subseteq Paths \X {"before", "after"}, NEW p \in Paths, NEW v
  PROVE  /\ Heard(p, v) \subseteq Paths \X {"before", "after"}
         /\ said \subseteq Heard(p, v)
         /\ cmd.pc # "idle" /\ p \in Goals /\ cmd.want[p] = v
              => <<p, "after">> \in Heard(p, v)
BY DEF Heard

LEMMA InitIInv == Init => IInv
<1> SUFFICES ASSUME Init PROVE IInv
  OBVIOUS
<1>1. /\ cmd \in Command /\ cmd.pc = "idle" /\ cmd.op = "off"
      /\ cmd.path = "power"
  BY IdleTyped DEF Init
<1>2. <<>> \in Seq(Notification)
  OBVIOUS
<1>3. TypeOK
  BY <1>1, <1>2 DEF Init, TypeOK
<1>4. ~recent
  BY DEF Init
<1>5. WorksOn
  BY <1>1 DEF WorksOn
<1>6. ToldSoFar
  BY <1>1 DEF ToldSoFar
<1> QED BY <1>3, <1>4, <1>5, <1>6 DEF IInv

-----------------------------------------------------------------------------
(* The device and its notifications *)

LEMMA BecomesTyped ==
  ASSUME TypeOK, NEW s \in State, Becomes(s)
  PROVE  device' \in State /\ inbox' \in Seq(Notification)
<1>1. CASE inbox' = inbox
  BY <1>1 DEF TypeOK, Becomes
<1>2. ASSUME NEW p \in Paths, inbox' = Append(inbox, [path |-> p, value |-> s[p]])
      PROVE  inbox' \in Seq(Notification)
  BY <1>2, Notified DEF TypeOK
<1> QED BY <1>1, <1>2 DEF Becomes

LEMMA RemoteKeeps == ASSUME IInv, Remote PROVE IInv'
<1>1. PICK p \in Paths, v \in Value :
        [device EXCEPT ![p] = v] \in State /\ Becomes([device EXCEPT ![p] = v])
  BY DEF Remote
<1>2. TypeOK'
  BY <1>1, BecomesTyped DEF IInv, TypeOK, Remote
<1> QED BY <1>2 DEF IInv, Remote, WorksOn, ToldSoFar, Told, Verifies

\* A notification that wakes the command is one of its own resource: if the
\* value is the requested one, the device has reported it.
LEMMA DeliverKeeps == ASSUME IInv, Deliver PROVE IInv'
<1> DEFINE n == Head(inbox)
<1>1. n \in Notification /\ inbox' \in Seq(Notification)
  BY DEF IInv, TypeOK, Deliver
<1>2. n.path \in Paths /\ resources' \in State
  BY <1>1, Noted DEF IInv, TypeOK, Deliver
<1>3. /\ said' \subseteq Paths \X {"before", "after"} /\ said \subseteq said'
      /\ cmd.pc # "idle" /\ n.path \in Goals /\ cmd.want[n.path] = n.value
           => <<n.path, "after">> \in said'
  BY <1>2, HeardMore DEF IInv, TypeOK, Deliver
<1>4. /\ cmd' \in Command
      /\ cmd'.pc = cmd.pc /\ cmd'.op = cmd.op /\ cmd'.path = cmd.path
      /\ cmd'.want = cmd.want
      /\ cmd'.event =>
           \/ cmd.event
           \/ n.path = cmd.path
  BY DEF IInv, TypeOK, Deliver, Command
<1>5. TypeOK'
  BY <1>1, <1>2, <1>3, <1>4 DEF IInv, TypeOK, Deliver
<1>6. WorksOn'
  BY <1>4 DEF IInv, WorksOn
<1>7. \A p : Told(said, p) => Told(said, p)'
  BY <1>3 DEF Told
<1>8. ASSUME cmd.pc \in {"settle", "post", "posted", "wait"},
             cmd'.event, Verifies(resources)'
      PROVE  Told(said, cmd.path)'
  <2>1. CASE n.path = cmd.path
    <3>1. resources' = [resources EXCEPT ![n.path] = n.value]
      BY DEF Deliver
    <3>2. resources'[cmd.path] = n.value
      BY <1>2, <2>1, <3>1 DEF IInv, TypeOK, State, Paths
    <3>3. cmd.want[n.path] = n.value
      BY <1>4, <1>8, <2>1, <3>2 DEF Verifies
    <3>4. n.path \in Goals
      BY <2>1 DEF Goals, IInv, WorksOn, TypeOK, Command, Operations
    <3>5. <<n.path, "after">> \in said'
      BY <1>3, <1>8, <3>3, <3>4
    <3> QED BY <1>4, <2>1, <3>5 DEF Told
  <2>2. CASE n.path # cmd.path
    <3>1. resources'[cmd.path] = resources[cmd.path]
      BY <1>2, <2>2 DEF Deliver, IInv, TypeOK, State, Paths, Command
    <3>2. cmd.event /\ Verifies(resources)
      BY <1>4, <1>8, <2>2, <3>1 DEF Verifies
    <3> QED BY <1>4, <1>7, <1>8, <3>2 DEF IInv, ToldSoFar
  <2> QED BY <2>1, <2>2
<1>9. ToldSoFar'
  BY <1>4, <1>7, <1>8 DEF IInv, ToldSoFar
<1> QED BY <1>5, <1>6, <1>9 DEF IInv, Deliver

LEMMA PollKeeps == ASSUME IInv, NEW p \in Paths, Poll(p) PROVE IInv'
<1>1. resources' \in State
  BY Replaced DEF IInv, TypeOK, Poll
<1>2. TypeOK'
  BY <1>1 DEF IInv, TypeOK, Poll
<1> QED BY <1>2 DEF IInv, Poll, WorksOn, ToldSoFar, Told

LEMMA SettlesKeeps == ASSUME IInv, Settles PROVE IInv'
BY DEF IInv, TypeOK, Settles, WorksOn, ToldSoFar, Told, Verifies

-----------------------------------------------------------------------------
(* The command *)

LEMMA BeginKeeps ==
  ASSUME IInv, NEW op \in Operations, NEW want \in State, Begin(op, want)
  PROVE  IInv'
<1>1. Idle(None) \in Command
  BY IdleTyped
<1>2. /\ cmd' \in Command /\ cmd'.pc = "settle" /\ cmd'.op = op /\ ~cmd'.event
      /\ cmd'.path = IF op \in {"mode", "set"} THEN "mode"
                     ELSE IF op = "fan" THEN "fan" ELSE "power"
  BY <1>1 DEF Begin, Command, Positions, Paths, Idle
<1>3. TypeOK'
  BY <1>2 DEF Begin, IInv, TypeOK
<1>4. WorksOn' /\ ToldSoFar'
  BY <1>2 DEF WorksOn, ToldSoFar, Operations
<1> QED BY <1>3, <1>4 DEF Begin, IInv

LEMMA BeginningsKeep ==
  ASSUME IInv,
         \/ \E m \in Modes : SetMode(m)
         \/ \E f \in Speeds : SetFan(f)
         \/ TurnOn \/ TurnOff
  PROVE  IInv'
<1>1. data \in State
  BY DEF IInv, TypeOK
<1>2. ASSUME NEW m \in Modes, SetMode(m) PROVE IInv'
  <2>1. /\ [data EXCEPT !.mode = m] \in State
        /\ [data EXCEPT !.power = "On", !.mode = m] \in State
    BY <1>1 DEF State, Power
  <2> QED BY <1>2, <2>1, BeginKeeps DEF SetMode, Operations
<1>3. ASSUME NEW f \in Speeds, SetFan(f) PROVE IInv'
  <2>1. [data EXCEPT !.fan = f] \in State
    BY <1>1 DEF State
  <2> QED BY <1>3, <2>1, BeginKeeps DEF SetFan, Operations
<1>4. /\ [data EXCEPT !.power = "On"] \in State
      /\ [data EXCEPT !.power = "Off"] \in State
  BY <1>1 DEF State, Power
<1>5. ASSUME TurnOn \/ TurnOff PROVE IInv'
  BY <1>4, <1>5, BeginKeeps DEF TurnOn, TurnOff, Operations
<1> QED BY <1>2, <1>3, <1>5

LEMMA SendKeeps == ASSUME IInv, Send PROVE IInv'
<1>1. /\ cmd' \in Command /\ cmd'.pc = "post" /\ cmd'.op = cmd.op
      /\ cmd'.path = cmd.path /\ cmd'.want = cmd.want /\ cmd'.event = cmd.event
  BY DEF IInv, TypeOK, Send, Command, Positions
<1>2. /\ said' \subseteq Paths \X {"before", "after"}
      /\ \A p : Told(said, p) => Told(said, p)'
  <2>1. \A m \in said : m[1] \in Paths /\ <<m[1], "before">>[1] = m[1]
    BY DEF IInv, TypeOK
  <2>2. said' = {<<m[1], "before">> : m \in said}
    BY DEF Send
  <2>3. said' \subseteq Paths \X {"before", "after"}
    BY <2>1, <2>2
  <2>4. \A p : Told(said, p) => Told(said, p)'
    BY <2>1, <2>2 DEF Told
  <2> QED BY <2>3, <2>4
<1>3. TypeOK'
  BY <1>1, <1>2 DEF IInv, TypeOK, Send
<1>4. WorksOn' /\ ToldSoFar'
  BY <1>1, <1>2 DEF IInv, WorksOn, ToldSoFar, Send, Verifies
<1> QED BY <1>3, <1>4 DEF IInv, Send

\* The steps of a write: to the device and back, and the wait.
LEMMA WritingKeeps ==
  ASSUME IInv, Receive \/ Answered \/ Mismatch \/ Timeout
  PROVE  IInv'
<1>1. /\ cmd' \in Command /\ cmd'.pc \in {"posted", "wait", "read"}
      /\ cmd'.op = cmd.op /\ cmd'.path = cmd.path /\ cmd'.want = cmd.want
      /\ cmd'.event => cmd.event
      /\ cmd.pc \in {"post", "posted", "wait"}
  BY DEF IInv, TypeOK, Receive, Answered, Mismatch, Timeout, Command, Positions,
         Reads
<1>2. device' \in State /\ inbox' \in Seq(Notification)
  <2>1. ASSUME Receive PROVE device' \in State /\ inbox' \in Seq(Notification)
    <3>1. Outcomes \subseteq State
      <4>1. cmd.path \in Paths /\ cmd.want \in State /\ device \in State
        BY DEF IInv, TypeOK, Command
      <4>2. [device EXCEPT ![cmd.path] = cmd.want[cmd.path]] \in State
        BY <4>1, Replaced
      <4>3. \A s \in State : /\ \A f \in Speeds : [s EXCEPT !.fan = f] \in State
                            /\ \A m \in Modes : [s EXCEPT !.mode = m] \in State
        BY DEF State
      <4> QED BY <4>1, <4>2, <4>3 DEF Outcomes
    <3> QED BY <2>1, <3>1, BecomesTyped DEF Receive, IInv
  <2> QED BY <2>1 DEF Answered, Mismatch, Timeout, IInv, TypeOK
<1>3. /\ settling' \in BOOLEAN /\ recent' \in BOOLEAN
      /\ recent' => settling'
  <2>1. CASE Answered
    BY <2>1 DEF IInv, TypeOK, Answered, PostEnds, SettlesAfter
  <2>2. CASE UNCHANGED <<settling, recent>>
    BY <2>2 DEF IInv, TypeOK
  <2> QED BY <2>1, <2>2 DEF Receive, Mismatch, Timeout
<1>4. UNCHANGED <<resources, data, said>>
  BY DEF Receive, Answered, Mismatch, Timeout
<1>5. TypeOK'
  BY <1>1, <1>2, <1>3, <1>4 DEF IInv, TypeOK
<1>6. WorksOn' /\ ToldSoFar'
  BY <1>1, <1>4 DEF IInv, WorksOn, ToldSoFar, Told, Verifies
<1> QED BY <1>3, <1>5, <1>6 DEF IInv

LEMMA EndKeeps ==
  ASSUME IInv, NEW o \in {None, "done", "rejected", "aborted"},
         NEW res \in State, NEW shown \in State, End(o, res, shown),
         UNCHANGED <<device, inbox>>,
         said' \subseteq Paths \X {"before", "after"},
         settling' \in BOOLEAN, recent' \in BOOLEAN, recent' => settling'
  PROVE  IInv'
<1>1. /\ cmd' \in Command /\ cmd'.pc = "idle" /\ cmd'.op = "off"
      /\ cmd'.path = "power"
  BY IdleTyped DEF End
<1>2. TypeOK'
  BY <1>1 DEF IInv, TypeOK, End
<1>3. WorksOn' /\ ToldSoFar'
  BY <1>1 DEF WorksOn, ToldSoFar
<1> QED BY <1>2, <1>3 DEF IInv

\* The end of a write whose value the device has reported.
LEMMA LockedKeeps ==
  ASSUME IInv, NEW res \in State, Locked(res), UNCHANGED <<device, inbox>>,
         said' \subseteq Paths \X {"before", "after"}, said \subseteq said',
         cmd.pc \in {"wait", "read", "related"}, Told(said', cmd.path)
  PROVE  IInv'
<1>1. /\ settling' \in BOOLEAN /\ recent' \in BOOLEAN
      /\ recent' => settling'
  BY DEF IInv, TypeOK, Locked
<1>2. CASE cmd.op \in {"mode", "off", "fan"}
  BY <1>1, <1>2, EndKeeps DEF Locked
<1>3. CASE cmd.op \notin {"mode", "off", "fan"}
  <2>1. cmd.op \in {"set", "on"}
    BY <1>3 DEF IInv, TypeOK, Command, Operations
  <2>2. /\ cmd' \in Command /\ cmd'.op = cmd.op /\ cmd'.path = "power"
        /\ ~cmd'.event
        /\ cmd'.pc = IF cmd.path = "mode" THEN "settle" ELSE "again"
        /\ resources' = res /\ data' = data
    BY <1>3 DEF IInv, TypeOK, Command, Locked, Positions, Paths, Reads
  <2>3. TypeOK'
    BY <1>1, <2>2 DEF IInv, TypeOK
  <2>4. cmd.path \in {"mode", "power"} /\ (cmd.op = "on" => cmd.path = "power")
    BY <2>1 DEF IInv, WorksOn
  <2>5. WorksOn'
    BY <2>1, <2>2 DEF WorksOn
  <2>6. \A p : Told(said, p) => Told(said', p)
    BY DEF Told
  <2>7. ToldSoFar'
    BY <2>1, <2>2, <2>4, <2>6 DEF IInv, ToldSoFar
  <2> QED BY <1>1, <2>3, <2>5, <2>7 DEF IInv
<1> QED BY <1>2, <1>3

LEMMA ConfirmedKeeps ==
  ASSUME IInv, NEW res \in State, Confirmed(res), UNCHANGED <<device, inbox>>,
         said' \subseteq Paths \X {"before", "after"}, said \subseteq said',
         cmd.pc \in {"wait", "read"}, Told(said', cmd.path)
  PROVE  IInv'
<1>1. CASE cmd.path = "mode"
  <2>1. /\ cmd' \in Command /\ cmd'.op = cmd.op /\ cmd'.path = "mode"
        /\ cmd'.pc = "related" /\ resources' = res
        /\ UNCHANGED <<data, settling, recent>>
    BY <1>1 DEF IInv, TypeOK, Command, Confirmed, Positions, Reads
  <2>2. TypeOK'
    BY <2>1 DEF IInv, TypeOK
  <2>3. WorksOn' /\ ToldSoFar'
    BY <1>1, <2>1 DEF IInv, WorksOn, ToldSoFar
  <2> QED BY <2>1, <2>2, <2>3 DEF IInv
<1>2. CASE cmd.path # "mode"
  BY <1>2, LockedKeeps DEF Confirmed
<1> QED BY <1>1, <1>2

\* What a read returns is a state, and the device reported it.
LEMMA ReadReports ==
  ASSUME IInv, NEW pc \in Reads, Returns(pc)
  PROVE  /\ Target \in Paths /\ Known \in State
         /\ Known[Target] = device[Target]
         /\ said' \subseteq Paths \X {"before", "after"} /\ said \subseteq said'
         /\ Target \in Goals /\ cmd.want[Target] = device[Target]
              => <<Target, "after">> \in said'
         /\ UNCHANGED <<device, inbox>> /\ cmd.pc = pc
<1>1. Target \in Paths
  BY DEF IInv, TypeOK, Command, Target, Paths
<1>2. Known \in State
  BY <1>1, Replaced DEF IInv, TypeOK, Known
<1>3. Known[Target] = device[Target]
  BY <1>1 DEF IInv, TypeOK, Known, State, Paths
<1>4. cmd.pc # "idle" /\ UNCHANGED <<device, inbox>> /\ cmd.pc = pc
  BY DEF Returns, Reads
<1> QED BY <1>1, <1>2, <1>3, <1>4, HeardMore DEF IInv, TypeOK, Returns

LEMMA WaitEndsKeeps == ASSUME IInv, Observed PROVE IInv'
<1>1. Told(said, cmd.path)
  BY DEF Observed, Matches, IInv, ToldSoFar
<1> QED BY <1>1, ConfirmedKeeps DEF Observed, IInv, TypeOK

LEMMA ReadBackKeeps == ASSUME IInv, ReadBack PROVE IInv'
<1>1. /\ Target = cmd.path /\ cmd.pc = "read" /\ Returns("read")
      /\ "read" \in Reads
  BY DEF ReadBack, Returns, Target, Reads
<1>2. cmd.path \in Goals
  BY DEF Goals, IInv, WorksOn, TypeOK, Command, Operations
<1>3. CASE Verifies(Known)
  <2>1. Told(said', cmd.path)
    BY <1>1, <1>2, <1>3, ReadReports DEF Verifies, Told
  <2> QED BY <1>1, <1>3, <2>1, ReadReports, ConfirmedKeeps DEF ReadBack
<1>4. CASE ~Verifies(Known)
  <2>1. AfterRejection(Known) \in State
    BY <1>1, ReadReports DEF IInv, TypeOK, AfterRejection
  <2> QED BY <1>1, <1>4, <2>1, ReadReports, EndKeeps DEF ReadBack, IInv, TypeOK
<1> QED BY <1>3, <1>4

LEMMA RelatedReadKeeps == ASSUME IInv, RelatedRead PROVE IInv'
<1>1. Told(said, cmd.path) /\ "related" \in Reads /\ Returns("related")
  BY DEF RelatedRead, Returns, IInv, ToldSoFar, WorksOn, Reads
<1>2. Told(said', cmd.path)
  BY <1>1, ReadReports DEF Told
<1> QED BY <1>1, <1>2, ReadReports, LockedKeeps DEF RelatedRead

LEMMA ModeReadsKeep == ASSUME IInv, ModeRead \/ CoercedRead PROVE IInv'
<1>1. PICK pc \in {"again", "coerced"} : Returns(pc)
  BY DEF ModeRead, CoercedRead
<1>2. pc \in Reads
  BY DEF Reads
<1>3. AfterRejection(Known) \in State
  BY <1>1, <1>2, ReadReports DEF IInv, TypeOK, AfterRejection
<1>4. CASE \E o \in {"done", "rejected"}, shown \in State : End(o, Known, shown)
  BY <1>1, <1>2, <1>4, ReadReports, EndKeeps
     DEF ModeRead, CoercedRead, IInv, TypeOK
<1>5. CASE ModeRead /\ ~Kept(Known)
  <2>1. /\ cmd' \in Command /\ cmd'.pc = "coerced" /\ cmd'.op = cmd.op
        /\ cmd'.path = cmd.path /\ resources' = Known
        /\ UNCHANGED <<data, settling, recent>>
    BY <1>5 DEF ModeRead, IInv, TypeOK, Command, Positions, Reads
  <2>2. /\ said' \subseteq Paths \X {"before", "after"} /\ said \subseteq said'
        /\ Known \in State /\ UNCHANGED <<device, inbox>>
    BY <1>1, <1>2, ReadReports
  <2>3. TypeOK'
    BY <2>1, <2>2 DEF IInv, TypeOK
  <2>4. WorksOn' /\ ToldSoFar'
    BY <2>1, <2>2 DEF IInv, WorksOn, ToldSoFar, Told
  <2> QED BY <2>1, <2>3, <2>4 DEF IInv
<1> QED BY <1>1, <1>2, <1>3, <1>4, <1>5, ReadReports DEF ModeRead, CoercedRead

LEMMA AbortKeeps == ASSUME IInv, Abort PROVE IInv'
<1>1. AfterFailure(resources) \in State
  BY DEF IInv, TypeOK, AfterFailure
<1>2. settling' \in BOOLEAN /\ recent' \in BOOLEAN
  BY DEF IInv, TypeOK, Abort, PostEnds, SettlesAfter
<1>3. recent' => settling'
  BY DEF IInv, TypeOK, Abort, PostEnds, SettlesAfter
<1> QED BY <1>1, <1>2, <1>3, EndKeeps DEF Abort, IInv, TypeOK

LEMMA NextIInv == IInv /\ [Next]_vars => IInv'
<1> SUFFICES ASSUME IInv, [Next]_vars PROVE IInv'
  OBVIOUS
<1>1. CASE UNCHANGED vars
  BY <1>1 DEF vars, IInv, TypeOK, WorksOn, ToldSoFar, Told, Verifies
<1>2. CASE Next
  BY <1>2, RemoteKeeps, DeliverKeeps, SettlesKeeps, PollKeeps, BeginningsKeep,
     SendKeeps, WritingKeeps, WaitEndsKeeps, ReadBackKeeps, RelatedReadKeeps,
     ModeReadsKeep, AbortKeeps DEF Next
<1> QED BY <1>1, <1>2

LEMMA Invariance == Spec => []IInv
<1> QED BY InitIInv, NextIInv, PTL DEF Spec

-----------------------------------------------------------------------------
\* No other step brings a write to its POST.
LEMMA StaysOff ==
  ASSUME IInv, Next, ~Send, cmd.pc # "post"
  PROVE  cmd'.pc # "post"
<1>1. cmd \in Command
  BY DEF IInv, TypeOK
<1>2. \A o \in {None, "done", "rejected", "aborted"} : Idle(o).pc = "idle"
  BY DEF Idle
<1>3. ASSUME NEW op, NEW want, Begin(op, want) PROVE cmd'.pc = "settle"
  BY <1>3 DEF Begin, Idle
<1>4. CASE \/ \E m \in Modes : SetMode(m)
           \/ \E f \in Speeds : SetFan(f)
           \/ TurnOn \/ TurnOff
  BY <1>3, <1>4 DEF SetMode, SetFan, TurnOn, TurnOff
<1>5. ASSUME NEW o \in {None, "done", "rejected", "aborted"}, NEW r, NEW d,
             End(o, r, d)
      PROVE  cmd'.pc = "idle"
  BY <1>2, <1>5 DEF End
<1>6. ASSUME NEW r, Locked(r) PROVE cmd'.pc \in {"idle", "settle", "again"}
  BY <1>1, <1>5, <1>6 DEF Locked, Command
<1>7. ASSUME NEW r, Confirmed(r) PROVE cmd'.pc # "post"
  BY <1>1, <1>6, <1>7 DEF Confirmed, Command
<1>8. CASE ReadBack \/ RelatedRead \/ ModeRead \/ CoercedRead \/ Abort
  BY <1>1, <1>5, <1>6, <1>7, <1>8
     DEF ReadBack, RelatedRead, ModeRead, CoercedRead, Abort, Command
<1>9. CASE Observed
  BY <1>7, <1>9 DEF Observed
<1>10. CASE Receive \/ Answered \/ Mismatch \/ Timeout
  BY <1>1, <1>10 DEF Receive, Answered, Mismatch, Timeout, Command
<1>11. CASE Deliver
  BY <1>1, <1>11 DEF Deliver, Command
<1> QED BY <1>4, <1>8, <1>9, <1>10, <1>11 DEF Next, Remote, Settles, Poll

-----------------------------------------------------------------------------
\* What the device is, what is known of it and the command keep their types.
THEOREM TypeCorrect == Spec => []TypeOK
<1>1. IInv => TypeOK
  BY DEF IInv
<1> QED BY <1>1, Invariance, PTL

\* A write waits for _mode_settle_until, which every end of a mode's POST
\* pushes back.
THEOREM Settled == Spec => SettledBeforePost
<1>1. IInv /\ [Next]_vars =>
        [cmd.pc # "post" /\ cmd'.pc = "post" => ~recent]_vars
  <2> SUFFICES ASSUME IInv, Next, cmd.pc # "post", cmd'.pc = "post"
               PROVE  ~recent
    BY DEF vars
  <2>1. CASE Send
    BY <2>1 DEF Send, IInv
  <2>2. CASE ~Send
    BY <2>2, StaysOff
  <2> QED BY <2>1, <2>2
<1> QED BY <1>1, Invariance, PTL DEF Spec, SettledBeforePost

-----------------------------------------------------------------------------
(* Success *)

Success == /\ Goals \subseteq {m[1] : m \in said'}
           /\ cmd.op \in {"set", "on"} => <<"mode", "after">> \in said'

\* The end of a command of one write answers for that write.
LEMMA LockedSucceeds ==
  ASSUME IInv, NEW res, Locked(res), cmd'.pc = "idle", Told(said', cmd.path)
  PROVE  Success
<1>1. cmd.op \in {"mode", "off", "fan"}
  BY DEF Locked, IInv, TypeOK, Command
<1>2. Goals = {cmd.path}
  BY <1>1 DEF Goals, IInv, WorksOn
<1> QED BY <1>1, <1>2 DEF Success, Told

LEMMA ConfirmedSucceeds ==
  ASSUME IInv, NEW res, Confirmed(res), cmd'.pc = "idle", Told(said', cmd.path)
  PROVE  Success
<1>1. Locked(res)
  BY DEF Confirmed, IInv, TypeOK, Command
<1> QED BY <1>1, LockedSucceeds

\* The steps that end no command with success.
LEMMA NoSuccess ==
  ASSUME IInv, Next, Ends("done")
  PROVE  Observed \/ ReadBack \/ RelatedRead \/ ModeRead
<1>1. cmd \in Command /\ cmd.pc # "idle"
  BY DEF IInv, TypeOK, Ends
<1>2. ~\E op, want : Begin(op, want)
  BY <1>1 DEF Begin
<1>3. /\ ~\E m \in Modes : SetMode(m)
      /\ ~\E f \in Speeds : SetFan(f)
      /\ ~TurnOn /\ ~TurnOff
  BY <1>2 DEF SetMode, SetFan, TurnOn, TurnOff
<1>4. ~CoercedRead /\ ~Abort
  BY DEF CoercedRead, Abort, End, Ends, Idle
<1>5. ~Receive /\ ~Answered /\ ~Mismatch /\ ~Timeout /\ ~Deliver /\ ~Send
  BY <1>1 DEF Receive, Answered, Mismatch, Timeout, Deliver, Send, Ends, Command
<1>6. ~Remote /\ ~Settles /\ \A p \in Paths : ~Poll(p)
  BY <1>1 DEF Remote, Settles, Poll, Ends
<1> QED BY <1>3, <1>4, <1>5, <1>6 DEF Next

\* _async_command_locked returns only past a notification or an answer with
\* the requested value, and _async_turn_on_locked past a read of the mode.
THEOREM Confirmation == Spec => SuccessWasConfirmed
<1>1. IInv /\ [Next]_vars => [Ends("done") => Success]_vars
  <2> SUFFICES ASSUME IInv, Next, Ends("done") PROVE Success
    BY DEF vars
  <2>1. cmd'.pc = "idle"
    BY DEF Ends
  <2>2. CASE Observed
    <3>1. Told(said', cmd.path)
      BY <2>2 DEF Observed, Matches, IInv, ToldSoFar
    <3> QED BY <2>1, <2>2, <3>1, ConfirmedSucceeds DEF Observed
  <2>3. CASE ReadBack
    <3>1. /\ Target = cmd.path /\ cmd.pc = "read" /\ Returns("read")
          /\ "read" \in Reads
      BY <2>3 DEF ReadBack, Returns, Target, Reads
    <3>2. cmd.path \in Goals
      BY DEF Goals, IInv, WorksOn, TypeOK, Command, Operations
    <3>3. Verifies(Known)
      BY <2>3 DEF ReadBack, End, Ends, Idle
    <3>4. Told(said', cmd.path)
      BY <3>1, <3>2, <3>3, ReadReports DEF Verifies, Told
    <3> QED BY <2>1, <2>3, <3>3, <3>4, ConfirmedSucceeds DEF ReadBack
  <2>4. CASE RelatedRead
    <3>1. Told(said, cmd.path) /\ "related" \in Reads /\ Returns("related")
      BY <2>4 DEF RelatedRead, Returns, IInv, ToldSoFar, WorksOn, Reads
    <3>2. Told(said', cmd.path)
      BY <3>1, ReadReports DEF Told
    <3> QED BY <2>1, <2>4, <3>2, LockedSucceeds DEF RelatedRead
  <2>5. CASE ModeRead
    <3>1. Returns("again") /\ cmd.pc = "again" /\ Target = "mode"
          /\ "again" \in Reads
      BY <2>5 DEF ModeRead, Returns, Target, Reads
    <3>2. Kept(Known)
      BY <2>1, <2>5 DEF ModeRead, IInv, TypeOK, Command
    <3>3. Goals = {"power", "mode"}
      BY <3>1 DEF Goals, IInv, WorksOn
    <3>4. cmd.want["mode"] = device["mode"]
      BY <3>1, <3>2, ReadReports DEF Kept, IInv, TypeOK, Command, State
    <3>5. <<"mode", "after">> \in said' /\ said \subseteq said'
      BY <3>1, <3>3, <3>4, ReadReports
    <3>6. PICK m \in said : m[1] = "power"
      BY <3>1 DEF IInv, ToldSoFar, Told
    <3> QED BY <3>3, <3>5, <3>6 DEF Success
  <2> QED BY <2>2, <2>3, <2>4, <2>5, NoSuccess
<1>2. SuccessWasConfirmed <=> [][Ends("done") => Success]_vars
  BY DEF SuccessWasConfirmed, Success
<1> QED BY <1>1, <1>2, Invariance, PTL DEF Spec

-----------------------------------------------------------------------------
(* The contract *)

\* A command that goes on shows nothing, and one that ends shows what is known
\* or nothing new.
LEMMA Shows ==
  ASSUME IInv, Next, cmd.pc # "idle"
  PROVE  /\ cmd'.pc # "idle" => UNCHANGED data
         /\ cmd'.pc = "idle" => data' \in {data, resources'}
<1>1. cmd \in Command
  BY DEF IInv, TypeOK
<1>2. ~\E op, want : Begin(op, want)
  BY DEF Begin
<1>3. /\ ~\E m \in Modes : SetMode(m)
      /\ ~\E f \in Speeds : SetFan(f)
      /\ ~TurnOn /\ ~TurnOff
  BY <1>2 DEF SetMode, SetFan, TurnOn, TurnOff
<1>4. ASSUME NEW o, NEW r, NEW d \in {data, r}, End(o, r, d)
      PROVE  cmd'.pc = "idle" /\ data' \in {data, resources'}
  BY <1>4 DEF End, Idle
<1>5. \A r : Locked(r) => UNCHANGED data \/ (cmd'.pc = "idle" /\ data' = resources')
  BY <1>4 DEF Locked
<1>6. \A r : Confirmed(r) =>
        UNCHANGED data \/ (cmd'.pc = "idle" /\ data' = resources')
  BY <1>5 DEF Confirmed
<1>7. CASE ReadBack \/ RelatedRead \/ ModeRead \/ CoercedRead \/ Abort
  <2>1. \A r : AfterRejection(r) \in {data, r} /\ AfterFailure(r) \in {data, r}
    BY DEF AfterRejection, AfterFailure
  <2> QED BY <1>4, <1>5, <1>6, <1>7, <2>1
             DEF ReadBack, RelatedRead, ModeRead, CoercedRead, Abort
<1>8. CASE Observed
  BY <1>6, <1>8 DEF Observed
<1>9. CASE Deliver
  BY <1>9 DEF Deliver, Publishes
<1>10. CASE Remote \/ Settles \/ Send \/ Receive \/ Answered \/ Mismatch \/ Timeout
  BY <1>10 DEF Remote, Settles, Send, Receive, Answered, Mismatch, Timeout
<1>11. \A p \in Paths : ~Poll(p)
  BY DEF Poll
<1> QED BY <1>3, <1>7, <1>8, <1>9, <1>10, <1>11 DEF Next

\* Between two commands, what is learnt is shown; a command begins quietly.
LEMMA Between ==
  ASSUME IInv, Next, cmd.pc = "idle"
  PROVE  /\ cmd'.pc = "idle" => data' = resources' \/ UNCHANGED <<resources, data>>
         /\ cmd'.pc # "idle" => UNCHANGED <<resources, data>>
<1>1. cmd \in Command
  BY DEF IInv, TypeOK
<1>2. \A op, want : Begin(op, want) => UNCHANGED <<resources, data>>
  BY DEF Begin
<1>3. CASE \/ \E m \in Modes : SetMode(m)
           \/ \E f \in Speeds : SetFan(f)
           \/ TurnOn \/ TurnOff
  BY <1>2, <1>3 DEF SetMode, SetFan, TurnOn, TurnOff
<1>4. CASE Deliver
  <2>1. cmd' = cmd /\ data' = resources'
    BY <1>4 DEF Deliver, Publishes
  <2> QED BY <2>1
<1>5. CASE \E p \in Paths : Poll(p)
  BY <1>5 DEF Poll
<1>6. CASE Remote \/ Settles
  BY <1>6 DEF Remote, Settles
<1>7. /\ ~Send /\ ~Receive /\ ~Answered /\ ~Observed /\ ~Mismatch /\ ~Timeout
      /\ ~ReadBack /\ ~RelatedRead /\ ~ModeRead /\ ~CoercedRead /\ ~Abort
  BY DEF Send, Receive, Answered, Observed, Mismatch, Timeout, ReadBack,
         RelatedRead, ModeRead, CoercedRead, Abort, Returns
<1> QED BY <1>3, <1>4, <1>5, <1>6, <1>7 DEF Next

\* Whoever looks at the coordinator's data sees what CommandContract promises.
THEOREM Implements == Spec => FollowsContract
<1> DEFINE busy == cmd.pc # "idle"
<1>1. Init => Contract!ContractInit
  <2> SUFFICES ASSUME Init PROVE resources = data /\ ~(cmd.pc # "idle")
    BY DEF Contract!ContractInit
  <2>1. cmd.pc = "idle"
    BY InitIInv, IdleTyped DEF Init
  <2> QED BY <2>1 DEF Init
<1>2. IInv /\ [Next]_vars => [Contract!ContractNext]_(Contract!contract)
  <2> SUFFICES ASSUME IInv, [Next]_vars
               PROVE  \/ Contract!ContractNext
                      \/ UNCHANGED <<resources, data, busy>>
    BY DEF Contract!contract
  <2>1. CASE UNCHANGED vars
    BY <2>1 DEF vars
  <2>2. CASE Next /\ cmd.pc = "idle"
    BY <2>2, Between
       DEF Contract!ContractNext, Contract!Tell, Contract!BeginCommand
  <2>3. CASE Next /\ cmd.pc # "idle"
    BY <2>3, Shows
       DEF Contract!ContractNext, Contract!Learn, Contract!EndCommand
  <2> QED BY <2>1, <2>2, <2>3
<1> QED BY <1>1, <1>2, Invariance, PTL
        DEF Spec, FollowsContract, Contract!ContractSpec
=============================================================================
