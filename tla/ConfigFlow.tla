----------------------------- MODULE ConfigFlow -----------------------------
(***************************************************************************)
(* config_flow.py: the flows that add an entry, give it a new address      *)
(* (reconfigure) and a new credential (reauth).  Each asks, then validates *)
(* in a task of its own, with a session that it opens and closes, and then *)
(* writes the entry in one step.  Flows overlap at every await: the        *)
(* unpacking of the uploads, the search for the port, the reads of the     *)
(* identity, and the close.                                                *)
(*                                                                         *)
(* Home Assistant is external: it shows one reauth flow at a time, removes *)
(* it with its entry, cancels the task of a flow that is removed (but not  *)
(* the handler that unpacks its uploads, which then starts a task nobody   *)
(* cancels), and takes a flow on when its task is done.  What the air      *)
(* conditioner that answers at an address is, stands for parse_identity    *)
(* and validate_contract.                                                  *)
(***************************************************************************)
CONSTANTS Flows, Hosts, Devices, Credentials,
          None          \* no entry, no address, no credential, no result

Entries == [host : Hosts, device : Devices, cred : Credentials]

Failed == "failed"

ASSUME NoneAssumption ==
  /\ None \notin Hosts \cup Devices \cup Credentials \cup Entries \cup {Failed}
  /\ Failed \notin Devices

VARIABLES
  data,      \* entry.data of the one entry that is followed
  latest,    \* history: the credential its owner last gave it
  at,        \* the air conditioner that answers at each address
  flow       \* the flows

vars == <<data, latest, at, flow>>

\* Waiting for its owner; with its task; and when the task is done.
Asking     == {"host", "upload"}
Validating == {"unpacking", "dialling", "identifying", "closing"}

FlowStates ==
  [op    : {"user", "reconfigure", "reauth", "orphan", "gone"},
   step  : {"off", "done", "dropped"} \cup Asking \cup Validating,
   host  : Hosts \cup {None},
   cred  : Credentials \cup {None},
   found : Devices \cup {None, Failed},   \* the validated device, or _error
   probe : {"none", "open", "left"}]      \* the session of its validation, and
                                          \* "left", until its owner answers,
                                          \* when its close failed

\* An air conditioner has one address.
Networks == {n \in [Hosts -> Devices] :
               \A g, h \in Hosts : n[g] = n[h] => g = h}

TypeOK ==
  /\ data \in Entries \cup {None}
  /\ latest \in Credentials \cup {None}
  /\ at \in Networks
  /\ flow \in [Flows -> FlowStates]

Unused == [op |-> "user", step |-> "off", host |-> None, cred |-> None,
           found |-> None, probe |-> "none"]

Init ==
  /\ data = None /\ latest = None
  /\ at \in Networks
  /\ flow = [f \in Flows |-> Unused]

-----------------------------------------------------------------------------
(* Asking *)

Become(f, r) == flow' = [flow EXCEPT ![f] = r]

Start(f, op, step) ==
  /\ flow[f].step = "off"
  /\ Become(f, [Unused EXCEPT !.op = op, !.step = step])
  /\ UNCHANGED <<data, latest, at>>

StartUser(f) == Start(f, "user", "host")

StartReconfigure(f) == data # None /\ Start(f, "reconfigure", "host")

StartReauth(f) ==
  /\ data # None
  /\ \A g \in Flows : flow[g].step = "off" \/ flow[g].op # "reauth"
  /\ Start(f, "reauth", "upload")

\* async_step_user: the uploads come next.
AskUpload(f) ==
  /\ flow[f].step = "host" /\ flow[f].op = "user"
  /\ \E h \in Hosts : Become(f, [flow[f] EXCEPT !.host = h, !.step = "upload"])
  /\ UNCHANGED <<data, latest, at>>

\* async_step_reconfigure: validated with the credential stored now.
Reconfigure(f) ==
  /\ flow[f].step = "host" /\ flow[f].op = "reconfigure"
  /\ \E h \in Hosts :
       Become(f, [flow[f] EXCEPT !.host = h, !.cred = data.cred,
                                 !.step = "dialling", !.probe = "none"])
  /\ UNCHANGED <<data, latest, at>>

\* async_step_credentials and async_step_reauth_confirm: the uploads are
\* consumed by the executor.  A reauth takes the address stored now.
Upload(f) ==
  /\ flow[f].step = "upload"
  /\ \/ flow[f].op = "user"
        /\ Become(f, [flow[f] EXCEPT !.step = "unpacking", !.probe = "none"])
     \/ flow[f].op = "reauth"
        /\ Become(f, [flow[f] EXCEPT !.step = "unpacking", !.probe = "none",
                                     !.host = data.host])
  /\ UNCHANGED <<data, latest, at>>

-----------------------------------------------------------------------------
(* Validating *)

UploadRefused(f) ==
  /\ flow[f].step = "unpacking" /\ flow[f].op # "gone"
  /\ Become(f, [flow[f] EXCEPT !.step = "upload"])
  /\ UNCHANGED <<data, latest, at>>

\* _start_validation, of a flow that is gone too.
Unpacked(f) ==
  /\ flow[f].step = "unpacking"
  /\ \E c \in IF flow[f].op = "gone" THEN {None} ELSE Credentials :
       Become(f, [flow[f] EXCEPT !.step = "dialling", !.cred = c])
  /\ UNCHANGED <<data, latest, at>>

\* The address resolves and one of the ports answers.
Dialled(f) ==
  /\ flow[f].step = "dialling"
  /\ Become(f, [flow[f] EXCEPT !.step = "identifying", !.probe = "open"])
  /\ UNCHANGED <<data, latest, at>>

\* A validation that failed: its credential is dropped, and its address unless
\* the owner is to be asked for a credential only.  (The code drops them when the
\* flow asks again; nothing reads them in between.)
Fail(r) == [r EXCEPT !.found = Failed, !.cred = None,
                     !.host = IF r.op = "user" THEN @ ELSE None]

\* Nothing answers in time; the search closed what it tried.
DialFails(f) ==
  /\ flow[f].step = "dialling"
  /\ Become(f, [Fail(flow[f]) EXCEPT !.step = "done"])
  /\ UNCHANGED <<data, latest, at>>

Identified(f) ==
  /\ flow[f].step = "identifying" /\ flow[f].op # "gone"
  /\ Become(f, [flow[f] EXCEPT !.step = "closing", !.found = at[flow[f].host]])
  /\ UNCHANGED <<data, latest, at>>

\* A seeded fault: the flow goes on before its session is closed.
GoOnOpen(r) == [r EXCEPT !.step = "done"]

\* What ended the reads, the session is closed before anything else is done.
CloseFirst(r) == [r EXCEPT !.step = "closing"]

\* A read fails or takes too long, it is another kind of device, or what it is
\* does not matter any more.
IdentifyFails(f) ==
  /\ flow[f].step = "identifying"
  /\ Become(f, CloseFirst(Fail(flow[f])))
  /\ UNCHANGED <<data, latest, at>>

\* SETUP_TIMEOUT passes while the session is closed.
Overtime(f) ==
  /\ flow[f].step = "closing" /\ flow[f].found # Failed
  /\ Become(f, Fail(flow[f]))
  /\ UNCHANGED <<data, latest, at>>

Closed(f) ==
  /\ flow[f].step = "closing" /\ flow[f].probe = "open"
  /\ Become(f, [flow[f] EXCEPT !.step = "done", !.probe = "none"])
  /\ UNCHANGED <<data, latest, at>>

\* A seeded fault: what the close raises ends the task unseen.
LostInClose(r) == [r EXCEPT !.probe = "left"]

\* A seeded fault: what matters is that the device was validated.
CloseIgnored(r) == [r EXCEPT !.step = "done", !.probe = "left"]

\* A close that failed is a failed validation.  Nobody tries again, and the
\* session may be open still.
FailedInClose(r) == [Fail(r) EXCEPT !.step = "done", !.probe = "left"]

CloseFails(f) ==
  /\ flow[f].step = "closing" /\ flow[f].probe = "open"
  /\ Become(f, FailedInClose(flow[f]))
  /\ UNCHANGED <<data, latest, at>>

-----------------------------------------------------------------------------
(* async_step_validate and async_step_finish *)

\* The owner is asked again.
Asked(r) ==
  [r EXCEPT !.step = IF r.op \in {"user", "reauth"} THEN "upload" ELSE "host",
            !.found = None]

Retry(f) ==
  /\ flow[f].step = "done" /\ flow[f].found = Failed /\ flow[f].op # "gone"
  /\ Become(f, Asked(flow[f]))
  /\ UNCHANGED <<data, latest, at>>

Validated(f) == flow[f].step = "done" /\ flow[f].found \in Devices

EntryData(f) == [host |-> flow[f].host, device |-> flow[f].found,
                 cred |-> flow[f].cred]

\* A seeded fault: any air conditioner of the right kind will do.
AnyDevice(f) == TRUE

\* Not _abort_if_unique_id_mismatch.
SameDevice(f) == flow[f].found = data.device

\* The device has an entry already, or is not the one of the entry, or the entry
\* is gone: nothing is written.  (A new entry of another device is not followed.)
Abort(f) ==
  /\ Validated(f)
  /\ \/ flow[f].op = "user" /\ data # None
     \/ flow[f].op = "orphan"
     \/ flow[f].op \in {"reconfigure", "reauth"} /\ ~SameDevice(f)
  /\ Become(f, Unused)
  /\ UNCHANGED <<data, latest, at>>

Create(f) ==
  /\ Validated(f) /\ flow[f].op = "user" /\ data = None
  /\ data' = EntryData(f) /\ latest' = flow[f].cred
  /\ Become(f, Unused)
  /\ UNCHANGED at

\* A seeded fault: the whole entry is written.
WholeEntry(f) == EntryData(f)

\* Everything but the credential.
AddressOf(f) == [EntryData(f) EXCEPT !.cred = data.cred]

FinishReconfigure(f) ==
  /\ Validated(f) /\ flow[f].op = "reconfigure" /\ SameDevice(f)
  /\ data' = AddressOf(f)
  /\ Become(f, Unused)
  /\ UNCHANGED <<latest, at>>

\* The whole entry, with the address that was stored when it began.
FinishReauth(f) ==
  /\ Validated(f) /\ flow[f].op = "reauth" /\ SameDevice(f)
  /\ data' = EntryData(f) /\ latest' = flow[f].cred
  /\ Become(f, Unused)
  /\ UNCHANGED at

-----------------------------------------------------------------------------
(* Home Assistant, and the network *)

\* A flow that is removed: its task is cancelled, and closes the session that it
\* has open.  One that unpacks its uploads goes on by itself; whom it reaches
\* and with what does not matter any more.
Removed(r) ==
  CASE r.probe = "open"     -> [Unused EXCEPT !.step = "dropped", !.probe = "open"]
    [] r.step = "unpacking" -> [Unused EXCEPT !.step = "unpacking", !.op = "gone"]
    [] OTHER                -> Unused

Remove(f) ==
  /\ flow[f].step \in Asking \cup Validating \cup {"done"}
  /\ flow[f].op # "gone"
  /\ Become(f, Removed(flow[f]))
  /\ UNCHANGED <<data, latest, at>>

\* What a flow that was removed found out, or its refused uploads, are for nobody.
Vanish(f) ==
  /\ flow[f].op = "gone" /\ flow[f].step \in {"unpacking", "done"}
  /\ Become(f, Unused)
  /\ UNCHANGED <<data, latest, at>>

DroppedCloses(f) ==
  /\ flow[f].step = "dropped"
  /\ Become(f, Unused)
  /\ UNCHANGED <<data, latest, at>>

\* A flow whose entry is removed: Home Assistant removes a reauth flow, and a
\* reconfigure flow does not find its entry any more.
Orphaned(r) ==
  CASE r.op = "reauth"      -> Removed(r)
    [] r.op = "reconfigure" -> [r EXCEPT !.op = "orphan"]
    [] OTHER                -> r

RemoveEntry ==
  /\ data # None /\ data' = None /\ latest' = None
  /\ flow' = [f \in Flows |-> Orphaned(flow[f])]
  /\ UNCHANGED at

\* The router gives out its addresses anew.
Readdress ==
  /\ at' \in Networks /\ at' # at
  /\ UNCHANGED <<data, latest, flow>>

-----------------------------------------------------------------------------
\* What goes on without the owner.
Works(f) == \/ UploadRefused(f) \/ Unpacked(f) \/ Dialled(f) \/ DialFails(f)
            \/ Identified(f) \/ IdentifyFails(f) \/ Closed(f) \/ CloseFails(f)
            \/ Retry(f) \/ Abort(f) \/ Create(f) \/ FinishReconfigure(f)
            \/ FinishReauth(f) \/ Vanish(f) \/ DroppedCloses(f)

Next == \/ \E f \in Flows :
             \/ StartUser(f) \/ StartReconfigure(f) \/ StartReauth(f)
             \/ AskUpload(f) \/ Reconfigure(f) \/ Upload(f)
             \/ Works(f) \/ Overtime(f) \/ Remove(f)
        \/ RemoveEntry \/ Readdress

Spec == Init /\ [][Next]_vars

\* Every phase of a validation has a timeout, a close ends, and Home Assistant
\* takes a flow whose task is done to its last step.
FairSpec == Spec /\ \A f \in Flows : WF_vars(Works(f))

-----------------------------------------------------------------------------
(* Safety *)

\* Whatever ends a validation, a close of its session was tried to the end before
\* the flow asks again, writes the entry or is gone, and no entry is written
\* beside a session whose close failed: the coordinator that a reload sets up
\* does not compete with it for the device's sessions.  (A flow that asks again
\* after a close that failed may leave that session open.)
ProbeClosedFirst ==
  \A f \in Flows :
    /\ flow[f].probe = "open" => flow[f].step \in {"identifying", "closing", "dropped"}
    /\ Validated(f) => flow[f].probe = "none"

\* An entry stays with its air conditioner, although addresses change while a
\* flow validates.
EntryKeepsDevice ==
  [][(data # None /\ data' # None) => data'.device = data.device]_vars

\* A flow never brings back a credential that its owner replaced, although it
\* began with it before.
CredentialStands == data # None => data.cred = latest

-----------------------------------------------------------------------------
(* Liveness *)

\* A validation comes to an end, and its session with it, also when the flow
\* was removed meanwhile.
ValidationEnds ==
  \A f \in Flows : flow[f].step \in Validating \cup {"dropped"}
                     ~> flow[f].step \in {"off"} \cup Asking
=============================================================================
