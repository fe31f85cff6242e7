-------------------------- MODULE CommandProtocol --------------------------
(***************************************************************************)
(* The commands of WindFreeCoordinator (coordinator.py): a write is sent,  *)
(* confirmed by a notification or by reading it back, what depends on it   *)
(* is read, and only then is anything published to Home Assistant.         *)
(* Turning on with a mode is two writes and one command; turning on        *)
(* checks that the device kept the mode it had.                            *)
(*                                                                         *)
(* A command holds the admission, so it is the only one, and no poll runs  *)
(* beside it.  Beside it run the device, which other controllers also      *)
(* command, and the notifications.  A step of the command is what it does  *)
(* from one await to the next.                                             *)
(*                                                                         *)
(* Power, mode and fan speed stand for the eight writable resources: the   *)
(* mode has resources that depend on it, the others have none that matter. *)
(* The fatal errors of a session, and shutdown, are in SessionSupervisor.  *)
(***************************************************************************)
EXTENDS Naturals, Sequences

CONSTANTS Modes, Speeds,   \* HvacMode and FanMode
          FanModes,        \* the modes whose mode_controls allow a fan speed
          MaxInbox         \* bound: notifications on their way

ASSUME ModesAssumption == FanModes \subseteq Modes /\ Speeds # {}
ASSUME InboxAssumption == MaxInbox \in Nat

Paths == {"power", "mode", "fan"}
Power == {"On", "Off"}
State == [power : Power, mode : Modes, fan : Speeds]
Value == Power \cup Modes \cup Speeds
None  == "none"

VARIABLES
  device,      \* what the device is set to
  inbox,       \* its notifications on their way to handle_observe
  resources,   \* _resources
  data,        \* the published snapshot
  settling,    \* _mode_settle_until lies ahead
  cmd,         \* the command that holds the admission
  said,        \* history: the requested values the device has reported since
               \* the command began, before or after its last POST
  recent       \* history: a mode was written, or its command completed, less
               \* than the settling time ago

vars == <<device, inbox, resources, data, settling, cmd, said, recent>>

\* Positions: waiting for the mode to settle, for the POST to reach the device
\* and to be answered, for a notification, and for the reads: of the command's
\* resource, of what depends on the mode, of the mode after the power was
\* switched on, and of what depends on it when it is not the expected one.
Reads == {"read", "related", "again", "coerced"}
Positions == {"idle", "settle", "post", "posted", "wait"} \cup Reads

\* _async_command_locked of HVAC_MODE with the power on, of POWER off and of
\* FAN; _async_set_hvac_mode_locked with the power off; _async_turn_on_locked.
Operations == {"mode", "off", "fan", "set", "on"}

\* No command; the last one told its caller the outcome o.
Idle(o) == [pc |-> "idle", op |-> "off", path |-> "power",
            want |-> CHOOSE s \in State : TRUE, event |-> FALSE,
            outcome |-> o]

Command == [pc : Positions, op : Operations, path : Paths, want : State,
            event : BOOLEAN, outcome : {None, "done", "rejected", "aborted"}]
Notification == UNION {[path : {p}, value : {s[p] : s \in State}] : p \in Paths}

TypeOK ==
  /\ device \in State /\ resources \in State /\ data \in State
  /\ inbox \in Seq(Notification)
  /\ settling \in BOOLEAN /\ recent \in BOOLEAN
  /\ cmd \in Command
  /\ said \subseteq Paths \X {"before", "after"}

Init ==
  /\ device \in State
  /\ inbox = <<>>
  /\ resources = device /\ data = device      \* _activate_seeded
  /\ settling = FALSE /\ recent = FALSE
  /\ cmd = Idle(None)
  /\ said = {}

-----------------------------------------------------------------------------
(* The device *)

\* The device is set to s, and notifies a change of p or does not.
Becomes(s) ==
  /\ device' = s
  /\ \/ inbox' = inbox
     \/ \E p \in Paths :
          /\ s[p] # device[p] /\ Len(inbox) < MaxInbox
          /\ inbox' = Append(inbox, [path |-> p, value |-> s[p]])

\* It is commanded by somebody else, or switches itself.
Remote ==
  /\ \E p \in Paths, v \in Value :
       /\ v # device[p] /\ [device EXCEPT ![p] = v] \in State
       /\ Becomes([device EXCEPT ![p] = v])
  /\ UNCHANGED <<resources, data, settling, cmd, said, recent>>

\* The resources whose values a command answers for.
Goals == CASE cmd.op = "mode" -> {"mode"}
           [] cmd.op = "fan"  -> {"fan"}
           [] cmd.op = "off"  -> {"power"}
           [] OTHER           -> {"power", "mode"}

\* The history after the device reported v for p.
Heard(p, v) ==
  IF cmd.pc # "idle" /\ p \in Goals /\ cmd.want[p] = v
    THEN said \cup {<<p, "after">>} ELSE said

\* A seeded fault:
PublishesAlways == TRUE

\* publish=not self._command_active
Publishes == cmd.pc = "idle"

\* handle_observe
Deliver ==
  /\ inbox # <<>>
  /\ inbox' = Tail(inbox)
  /\ LET n == Head(inbox)
     IN /\ resources' = [resources EXCEPT ![n.path] = n.value]
        /\ cmd' = IF /\ cmd.pc \in {"settle", "post", "posted", "wait"}
                     /\ n.path = cmd.path
                    THEN [cmd EXCEPT !.event = TRUE] ELSE cmd
        /\ said' = Heard(n.path, n.value)
  /\ data' = IF Publishes THEN resources' ELSE data
  /\ UNCHANGED <<device, settling, recent>>

\* A poll between two commands.
Poll(p) ==
  /\ cmd.pc = "idle"
  /\ resources' = [resources EXCEPT ![p] = device[p]]
  /\ data' = resources'
  /\ UNCHANGED <<device, inbox, settling, cmd, said, recent>>

\* The settling time passes.
Settles ==
  /\ settling \/ recent
  /\ settling' = FALSE /\ recent' = FALSE
  /\ UNCHANGED <<device, inbox, resources, data, cmd, said>>

-----------------------------------------------------------------------------
(* The command *)

\* It is admitted, and its first write prepared: the event exists before the
\* mode has settled.
Begin(op, want) ==
  /\ cmd.pc = "idle"
  /\ cmd' = [Idle(None) EXCEPT !.pc = "settle", !.op = op, !.want = want,
               !.path = IF op \in {"mode", "set"} THEN "mode"
                        ELSE IF op = "fan" THEN "fan" ELSE "power"]
  /\ said' = {}
  /\ UNCHANGED <<device, inbox, resources, data, settling, recent>>

SetMode(m) ==
  IF data.power = "On" THEN Begin("mode", [data EXCEPT !.mode = m])
                ELSE Begin("set", [data EXCEPT !.power = "On", !.mode = m])
TurnOn == Begin("on", [data EXCEPT !.power = "On"])
TurnOff == Begin("off", [data EXCEPT !.power = "Off"])

SetFan(f) == data.mode \in FanModes /\ Begin("fan", [data EXCEPT !.fan = f])

\* What the device does with a POST of the command's resource: take it, ignore
\* it, or take it and change what goes with it.
Outcomes ==
  LET taken == [device EXCEPT ![cmd.path] = cmd.want[cmd.path]]
  IN {device, taken}
     \cup (IF cmd.path = "mode" THEN {[taken EXCEPT !.fan = f] : f \in Speeds}
           ELSE IF cmd.path = "power"
             THEN {[taken EXCEPT !.mode = m] : m \in Modes}
           ELSE {})

\* The mode has settled: the POST is sent.
Send ==
  /\ cmd.pc = "settle" /\ ~settling
  /\ cmd' = [cmd EXCEPT !.pc = "post"]
  /\ said' = {<<m[1], "before">> : m \in said}
  /\ UNCHANGED <<device, inbox, resources, data, settling, recent>>

\* It reaches the device, or is lost.
Receive ==
  /\ cmd.pc = "post"
  /\ \E s \in Outcomes : Becomes(s)
  /\ cmd' = [cmd EXCEPT !.pc = "posted"]
  /\ UNCHANGED <<resources, data, settling, said, recent>>

\* A seeded fault: only a POST that was answered starts the settling time.
SettlesAnswered(how) == settling \/ (cmd.path = "mode" /\ how = "answered")

\* The `finally` of the POST.
SettlesAfter(how) == settling \/ cmd.path = "mode"

PostEnds(how) ==
  /\ settling' = SettlesAfter(how)
  /\ recent' = (recent \/ cmd.path = "mode")

Answered ==
  /\ cmd.pc = "posted" /\ PostEnds("answered")
  /\ cmd' = [cmd EXCEPT !.pc = "wait"]
  /\ UNCHANGED <<device, inbox, resources, data, said>>

\* verify_command
Verifies(res) == res[cmd.path] = cmd.want[cmd.path]

\* The command ends.  Data is published, or stays.
End(outcome, res, shown) ==
  /\ resources' = res /\ data' = shown
  /\ cmd' = Idle(outcome)

\* The `except` of _async_set_hvac_mode_locked publishes what is known, and
\* so does a rejected command by itself; only turning on says nothing when its
\* power is rejected.
AfterFailure(res) == IF cmd.op = "set" THEN res ELSE data
AfterRejection(res) == IF cmd.op = "on" /\ cmd.pc # "coerced" THEN data ELSE res

\* The end of _async_command_locked: of the whole command, or of its first
\* write, or of its power.
Locked(res) ==
  /\ settling' = (settling \/ cmd.path = "mode")
  /\ recent' = (recent \/ cmd.path = "mode")
  /\ IF cmd.op \in {"mode", "off", "fan"} THEN End("done", res, res)
     ELSE /\ resources' = res /\ UNCHANGED data
          /\ cmd' = [cmd EXCEPT
                       !.pc = IF cmd.path = "mode" THEN "settle" ELSE "again",
                       !.path = "power", !.event = FALSE]

\* The write is confirmed: what depends on it is read.
Confirmed(res) ==
  IF cmd.path = "mode"
    THEN /\ cmd' = [cmd EXCEPT !.pc = "related", !.event = FALSE]
         /\ resources' = res /\ UNCHANGED <<data, settling, recent>>
    ELSE Locked(res)

\* A seeded fault: any notification of the resource will do.
MatchesAnything == cmd.event

\* _wait_for_observe: the notification confirms the write.
Matches == cmd.event /\ Verifies(resources)

Observed ==
  /\ cmd.pc = "wait" /\ Matches
  /\ Confirmed(resources)
  /\ UNCHANGED <<device, inbox, said>>

\* Another notification of it came: wait on.
Mismatch ==
  /\ cmd.pc = "wait" /\ cmd.event /\ ~Verifies(resources)
  /\ cmd' = [cmd EXCEPT !.event = FALSE]
  /\ UNCHANGED <<device, inbox, resources, data, settling, said, recent>>

\* The wait ends, be it with a notification that has just come.
Timeout ==
  /\ cmd.pc = "wait"
  /\ cmd' = [cmd EXCEPT !.pc = "read"]
  /\ UNCHANGED <<device, inbox, resources, data, settling, said, recent>>

\* The resource each read is of.
Target == CASE cmd.pc = "read" -> cmd.path
            [] cmd.pc = "again" -> "mode"
            [] OTHER -> "fan"

\* A read returns: what the command now knows.  (An answer that a newer
\* notification overtook is a notification that was lost.)
Returns(pc) ==
  /\ cmd.pc = pc
  /\ said' = Heard(Target, device[Target])
  /\ UNCHANGED <<device, inbox>>
Known == [resources EXCEPT ![Target] = device[Target]]

ReadBack ==
  /\ Returns("read")
  /\ IF Verifies(Known) THEN Confirmed(Known)
     ELSE /\ End("rejected", Known, AfterRejection(Known))
          /\ UNCHANGED <<settling, recent>>

RelatedRead == Returns("related") /\ Locked(Known)

Kept(res) == res.mode = cmd.want.mode

\* The mode was read again after the power was switched on.
ModeRead ==
  /\ Returns("again")
  /\ IF Kept(Known) THEN End("done", Known, Known)
     ELSE /\ resources' = Known /\ UNCHANGED data
          /\ cmd' = [cmd EXCEPT !.pc = "coerced"]
  /\ UNCHANGED <<settling, recent>>

CoercedRead ==
  /\ Returns("coerced")
  /\ End("rejected", Known, AfterRejection(Known))
  /\ UNCHANGED <<settling, recent>>

\* A request fails, or the caller is cancelled, at any await; a POST that
\* reached the device still counts.
Abort ==
  /\ cmd.pc \notin {"idle", "post"}
  /\ IF cmd.pc = "posted" THEN PostEnds("failed")
                          ELSE UNCHANGED <<settling, recent>>
  /\ End("aborted", resources, AfterFailure(resources))
  /\ UNCHANGED <<device, inbox, said>>

-----------------------------------------------------------------------------
Next ==
  \/ Remote \/ Deliver \/ Settles
  \/ \E p \in Paths : Poll(p)
  \/ \E m \in Modes : SetMode(m)
  \/ \E f \in Speeds : SetFan(f)
  \/ TurnOn \/ TurnOff
  \/ Send \/ Receive \/ Answered \/ Observed \/ Mismatch \/ Timeout
  \/ ReadBack \/ RelatedRead \/ ModeRead \/ CoercedRead \/ Abort

Spec == Init /\ [][Next]_vars

-----------------------------------------------------------------------------
(* Properties *)

Ends(outcome) ==
  cmd.pc # "idle" /\ cmd'.pc = "idle" /\ cmd'.outcome = outcome

\* A command that reports success was told every requested value by the
\* device while it ran, and the mode once more after the power was switched on
\* (not: what it asked for, or what was known before).
SuccessWasConfirmed ==
  [][ Ends("done") =>
        /\ Goals \subseteq {m[1] : m \in said'}
        /\ cmd.op \in {"set", "on"} => <<"mode", "after">> \in said' ]_vars

\* No write is sent within the settling time of a mode, whether the command
\* that wrote the mode succeeded, failed or was cancelled.
SettledBeforePost ==
  [][ cmd.pc # "post" /\ cmd'.pc = "post" => ~recent ]_vars

\* Home Assistant sees what the device reported, and of a command nothing
\* but its end.
Contract == INSTANCE CommandContract
              WITH known <- resources, shown <- data, busy <- cmd.pc # "idle"
FollowsContract == Contract!ContractSpec
=============================================================================
