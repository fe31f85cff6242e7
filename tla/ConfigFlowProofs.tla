-------------------------- MODULE ConfigFlowProofs --------------------------
(***************************************************************************)
(* However many flows overlap: each tries to close its session before it   *)
(* goes on, and writes the entry only if that succeeded; the entry stays   *)
(* with its air conditioner, and the credential in it is the last its      *)
(* owner gave.                                                             *)
(***************************************************************************)
EXTENDS ConfigFlow, TLAPS

\* A flow that validates, or has, and did not fail knows the address and the
\* credential; one that is about to ask for the credential alone, or unpacks it,
\* knows the address.  One that is gone knows, and will know, nothing.
Filled(r) ==
  /\ r.op # "gone" /\ r.step = "unpacking" => r.host \in Hosts
  /\ r.op = "user" /\ (r.step = "upload" \/ r.found = Failed) => r.host \in Hosts
  /\ /\ r.op # "gone" /\ r.step \in {"dialling", "identifying", "closing", "done"}
     /\ r.found # Failed
     => r.host \in Hosts /\ r.cred \in Credentials
  /\ r.op = "gone" => r.found \in {None, Failed}
  /\ r.step \in {"host", "upload", "unpacking", "dialling", "identifying"}
       => r.found = None

\* A flow of an entry is not there without it.
OfAnEntry(r) == r.op \in {"reconfigure", "reauth"} => data # None

Good(r) ==
  /\ r \in FlowStates /\ Filled(r) /\ OfAnEntry(r)
  /\ r.probe = "open" => r.step \in {"identifying", "closing", "dropped"}
  /\ r.step = "done" /\ r.found \in Devices => r.probe = "none"

IInv == TypeOK /\ CredentialStands /\ \A f \in Flows : Good(flow[f])

\* No result is taken for another.
LEMMA Apart == /\ None \notin Devices /\ None # Failed /\ Failed \notin Devices
BY NoneAssumption

\* A flow that has not begun is good.
LEMMA UnusedGood == Good(Unused)
BY Apart DEF Good, Unused, FlowStates, Filled, OfAnEntry

\* No flow has begun, and there is no entry.
LEMMA InitIInv == Init => IInv
BY UnusedGood
   DEF Init, IInv, TypeOK, CredentialStands, Good, Filled, OfAnEntry

\* A flow that becomes good keeps the invariant, if the entry stays.
LEMMA OneFlow ==
  ASSUME IInv, NEW f \in Flows, NEW r, Good(r), Become(f, r), data' = data,
         latest' = latest, at' = at
  PROVE  IInv'
BY DEF IInv, TypeOK, CredentialStands, Good, Filled, OfAnEntry, Become

\* So does one that ends with the entry and its credential written.
LEMMA Written ==
  ASSUME IInv, NEW f \in Flows, Become(f, Unused), at' = at,
         data' \in Entries, latest' = data'.cred
  PROVE  IInv'
<1>1. data' # None
  BY NoneAssumption
<1>2. latest' \in Credentials
  BY DEF Entries
<1>3. Good(Unused)'
  BY UnusedGood, <1>1 DEF Good, Filled, OfAnEntry, Unused
<1>4. \A g \in Flows : Good(flow[g])'
  BY <1>1, <1>3 DEF IInv, TypeOK, Good, Filled, OfAnEntry, Become
<1> QED BY <1>1, <1>2, <1>3, <1>4
       DEF IInv, TypeOK, CredentialStands, Become, Good

\* The steps of the owner before a validation.
LEMMA AskingKeeps ==
  ASSUME IInv, NEW f \in Flows,
         StartUser(f) \/ StartReconfigure(f) \/ StartReauth(f) \/ AskUpload(f)
           \/ Reconfigure(f) \/ Upload(f)
  PROVE  IInv'
<1> USE Apart DEF IInv, TypeOK, Good, Filled, OfAnEntry, FlowStates,
                           Entries
<1>1. CASE StartUser(f) \/ StartReconfigure(f) \/ StartReauth(f)
  <2>1. PICK op \in {"user", "reconfigure", "reauth"},
             step \in {"host", "upload"} :
          /\ Become(f, [Unused EXCEPT !.op = op, !.step = step])
          /\ op # "user" => data # None
          /\ step = "upload" => op = "reauth"
    BY <1>1 DEF StartUser, StartReconfigure, StartReauth, Start
  <2>2. Good([Unused EXCEPT !.op = op, !.step = step])
    BY <2>1 DEF Unused, Asking
  <2> HIDE DEF IInv, TypeOK, Good, Filled, OfAnEntry, FlowStates
  <2> QED BY <1>1, <2>1, <2>2, OneFlow
         DEF StartUser, StartReconfigure, StartReauth, Start
<1>2. CASE AskUpload(f)
  <2>1. PICK h \in Hosts :
          Become(f, [flow[f] EXCEPT !.host = h, !.step = "upload"])
    BY <1>2 DEF AskUpload
  <2>2. Good([flow[f] EXCEPT !.host = h, !.step = "upload"])
    BY <1>2 DEF AskUpload, Asking
  <2> HIDE DEF IInv, TypeOK, Good, Filled, OfAnEntry, FlowStates
  <2> QED BY <1>2, <2>1, <2>2, OneFlow DEF AskUpload
<1>3. CASE Reconfigure(f)
  <2>1. PICK h \in Hosts :
          Become(f, [flow[f] EXCEPT !.host = h, !.cred = data.cred,
                                    !.step = "dialling", !.probe = "none"])
    BY <1>3 DEF Reconfigure
  <2>2. data.cred \in Credentials
    BY <1>3 DEF Reconfigure
  <2>3. Good([flow[f] EXCEPT !.host = h, !.cred = data.cred,
                             !.step = "dialling", !.probe = "none"])
    BY <1>3, <2>2 DEF Reconfigure, Validating
  <2> HIDE DEF IInv, TypeOK, Good, Filled, OfAnEntry, FlowStates
  <2> QED BY <1>3, <2>1, <2>3, OneFlow DEF Reconfigure
<1>4. CASE Upload(f)
  <2>1. CASE flow[f].op = "user"
    <3>1. Good([flow[f] EXCEPT !.step = "unpacking", !.probe = "none"])
      BY <1>4, <2>1 DEF Upload, Validating
    <3> HIDE DEF IInv, TypeOK, Good, Filled, OfAnEntry, FlowStates
    <3> QED BY <1>4, <2>1, <3>1, OneFlow DEF Upload
  <2>2. CASE flow[f].op = "reauth"
    <3>1. Good([flow[f] EXCEPT !.step = "unpacking", !.probe = "none",
                               !.host = data.host])
      BY <1>4, <2>2 DEF Upload, Validating
    <3> HIDE DEF IInv, TypeOK, Good, Filled, OfAnEntry, FlowStates
    <3> QED BY <1>4, <2>2, <3>1, OneFlow DEF Upload
  <2> QED BY <1>4, <2>1, <2>2 DEF Upload
<1> QED BY <1>1, <1>2, <1>3, <1>4

\* A flow that failed and asks again is good.
LEMMA AskedGood ==
  ASSUME NEW r, Good(r), r.step = "done", r.found = Failed, r.op # "gone"
  PROVE  Good(Asked(r))
<1>1. r \in FlowStates /\ r.probe # "open" /\ (r.op = "user" => r.host \in Hosts)
  BY DEF Good, Filled
<1>2. CASE r.op \in {"user", "reauth"}
  <2>1. Asked(r) = [r EXCEPT !.step = "upload", !.found = None]
    BY <1>2 DEF Asked
  <2> QED BY <1>1, <1>2, <2>1, Apart
         DEF Good, Filled, OfAnEntry, FlowStates, Asking
<1>3. CASE r.op \notin {"user", "reauth"}
  <2>1. Asked(r) = [r EXCEPT !.step = "host", !.found = None]
    BY <1>3 DEF Asked
  <2> QED BY <1>1, <1>3, <2>1, Apart
         DEF Good, Filled, OfAnEntry, FlowStates, Asking
<1> QED BY <1>2, <1>3

\* A failed validation keeps its step, its session and, of a new entry, its
\* address.
LEMMA FailParts ==
  ASSUME NEW r, Good(r), r.step \in Validating
  PROVE  /\ Fail(r) \in FlowStates /\ Fail(r).found = Failed
         /\ Fail(r).op = r.op /\ Fail(r).step = r.step
         /\ Fail(r).probe = r.probe
         /\ r.op = "user" => Fail(r).host \in Hosts
<1>1. r \in FlowStates
  BY DEF Good
<1>2. r.op = "user" => r.host \in Hosts
  BY DEF Good, Filled, Validating
<1> QED BY <1>1, <1>2 DEF Fail, FlowStates

\* The steps of a validation, and of a retry.
LEMMA ValidatingKeeps ==
  ASSUME IInv, NEW f \in Flows,
         UploadRefused(f) \/ Unpacked(f) \/ Dialled(f) \/ DialFails(f)
           \/ Identified(f) \/ IdentifyFails(f) \/ Overtime(f) \/ Closed(f)
           \/ CloseFails(f) \/ Retry(f)
  PROVE  IInv'
<1> USE Apart DEF IInv, TypeOK, Good, Filled, OfAnEntry, FlowStates,
                           Asking, Validating
<1>1. CASE UploadRefused(f)
  <2>1. Good([flow[f] EXCEPT !.step = "upload"])
    BY <1>1 DEF UploadRefused
  <2> HIDE DEF IInv, TypeOK, Good, Filled, OfAnEntry, FlowStates
  <2> QED BY <1>1, <2>1, OneFlow DEF UploadRefused
<1>2. CASE Unpacked(f)
  <2>1. PICK c \in IF flow[f].op = "gone" THEN {None} ELSE Credentials :
          Become(f, [flow[f] EXCEPT !.step = "dialling", !.cred = c])
    BY <1>2 DEF Unpacked
  <2>2. Good([flow[f] EXCEPT !.step = "dialling", !.cred = c])
    BY <1>2 DEF Unpacked
  <2> HIDE DEF IInv, TypeOK, Good, Filled, OfAnEntry, FlowStates
  <2> QED BY <1>2, <2>1, <2>2, OneFlow DEF Unpacked
<1>3. CASE Dialled(f)
  <2>1. Good([flow[f] EXCEPT !.step = "identifying", !.probe = "open"])
    BY <1>3 DEF Dialled
  <2> HIDE DEF IInv, TypeOK, Good, Filled, OfAnEntry, FlowStates
  <2> QED BY <1>3, <2>1, OneFlow DEF Dialled
<1>4. CASE DialFails(f)
  <2>1. Good([Fail(flow[f]) EXCEPT !.step = "done"])
    <3>1. Good(flow[f]) /\ flow[f].step \in Validating
      BY <1>4 DEF DialFails
    <3> HIDE DEF IInv, TypeOK, CredentialStands
    <3> QED BY <1>4, <3>1, FailParts DEF DialFails
  <2> HIDE DEF IInv, TypeOK, Good, Filled, OfAnEntry, FlowStates
  <2> QED BY <1>4, <2>1, OneFlow DEF DialFails
<1>5. CASE Identified(f)
  <2>1. at[flow[f].host] \in Devices
    BY <1>5 DEF Identified, Networks
  <2>2. Good([flow[f] EXCEPT !.step = "closing", !.found = at[flow[f].host]])
    BY <1>5, <2>1 DEF Identified
  <2> HIDE DEF IInv, TypeOK, Good, Filled, OfAnEntry, FlowStates
  <2> QED BY <1>5, <2>2, OneFlow DEF Identified
<1>6. CASE IdentifyFails(f)
  <2>1. Good(CloseFirst(Fail(flow[f])))
    <3>1. Good(flow[f]) /\ flow[f].step \in Validating
      BY <1>6 DEF IdentifyFails
    <3> HIDE DEF IInv, TypeOK, CredentialStands
    <3> QED BY <1>6, <3>1, FailParts DEF IdentifyFails, CloseFirst
  <2> HIDE DEF IInv, TypeOK, Good, Filled, OfAnEntry, FlowStates
  <2> QED BY <1>6, <2>1, OneFlow DEF IdentifyFails
<1>7. CASE Overtime(f)
  <2>1. Good(Fail(flow[f]))
    <3>1. Good(flow[f]) /\ flow[f].step \in Validating
      BY <1>7 DEF Overtime
    <3> HIDE DEF IInv, TypeOK, CredentialStands
    <3> QED BY <1>7, <3>1, FailParts DEF Overtime
  <2> HIDE DEF IInv, TypeOK, Good, Filled, OfAnEntry, FlowStates
  <2> QED BY <1>7, <2>1, OneFlow DEF Overtime
<1>8. CASE Closed(f)
  <2>1. Good([flow[f] EXCEPT !.step = "done", !.probe = "none"])
    BY <1>8 DEF Closed
  <2> HIDE DEF IInv, TypeOK, Good, Filled, OfAnEntry, FlowStates
  <2> QED BY <1>8, <2>1, OneFlow DEF Closed
<1>9. CASE CloseFails(f)
  <2>1. Good(FailedInClose(flow[f]))
    <3>1. Good(flow[f]) /\ flow[f].step \in Validating
      BY <1>9 DEF CloseFails
    <3> HIDE DEF IInv, TypeOK, CredentialStands
    <3> QED BY <1>9, <3>1, FailParts DEF CloseFails, FailedInClose
  <2> HIDE DEF IInv, TypeOK, Good, Filled, OfAnEntry, FlowStates
  <2> QED BY <1>9, <2>1, OneFlow DEF CloseFails
<1>10. CASE Retry(f)
  <2> HIDE DEF IInv, TypeOK, Good, Filled, OfAnEntry, FlowStates
  <2>1. Good(Asked(flow[f]))
    BY <1>10, AskedGood DEF Retry, IInv
  <2> QED BY <1>10, <2>1, OneFlow DEF Retry
<1> QED BY <1>1, <1>2, <1>3, <1>4, <1>5, <1>6, <1>7, <1>8, <1>9, <1>10

\* The last step of a flow: what it writes is a whole entry.
LEMMA FinishKeeps ==
  ASSUME IInv, NEW f \in Flows,
         Abort(f) \/ Create(f) \/ FinishReconfigure(f) \/ FinishReauth(f)
  PROVE  IInv'
<1>1. CASE Abort(f)
  BY <1>1, UnusedGood, OneFlow DEF Abort
<1>2. Validated(f) => EntryData(f) \in Entries
  BY Apart DEF Validated, EntryData, Entries, IInv, Good, Filled
<1>3. CASE Create(f)
  <2>1. data' \in Entries /\ latest' = data'.cred
    BY <1>2, <1>3 DEF Create, EntryData
  <2> QED BY <1>3, <2>1, Written DEF Create
<1>4. CASE FinishReconfigure(f)
  <2>1. data \in Entries /\ latest = data.cred
    BY <1>4 DEF FinishReconfigure, IInv, TypeOK, CredentialStands, Good,
                OfAnEntry
  <2>2. data' \in Entries /\ data'.cred = data.cred
    BY <1>2, <1>4, <2>1 DEF FinishReconfigure, AddressOf, Entries
  <2>3. latest' = data'.cred
    BY <1>4, <2>1, <2>2 DEF FinishReconfigure
  <2> QED BY <1>4, <2>2, <2>3, Written DEF FinishReconfigure
<1>5. CASE FinishReauth(f)
  <2>1. data' \in Entries /\ latest' = data'.cred
    BY <1>2, <1>5 DEF FinishReauth, EntryData
  <2> QED BY <1>5, <2>1, Written DEF FinishReauth
<1> QED BY <1>1, <1>3, <1>4, <1>5

\* A flow that is removed is good still, and belongs to no entry.
LEMMA RemovedGood ==
  ASSUME NEW r, Good(r)
  PROVE  Good(Removed(r)) /\ Removed(r).op \in {"user", "gone"}
<1>1. Unused.op = "user" /\ Good(Unused)
  BY UnusedGood DEF Unused
<1>2. Good([Unused EXCEPT !.step = "dropped", !.probe = "open"])
  BY Apart DEF Good, Unused, FlowStates, Filled, OfAnEntry
<1>3. Good([Unused EXCEPT !.step = "unpacking", !.op = "gone"])
  BY Apart DEF Good, Unused, FlowStates, Filled, OfAnEntry, Validating
<1> QED BY <1>1, <1>2, <1>3 DEF Removed, Unused

\* Flows end, the entry is removed, and the network changes.
LEMMA OthersKeep ==
  ASSUME IInv,
         (\E f \in Flows : Remove(f) \/ Vanish(f) \/ DroppedCloses(f))
           \/ RemoveEntry
           \/ Readdress
  PROVE  IInv'
<1>1. CASE \E f \in Flows : Remove(f) \/ Vanish(f) \/ DroppedCloses(f)
  <2>1. PICK f \in Flows : Remove(f) \/ Vanish(f) \/ DroppedCloses(f)
    BY <1>1
  <2>2. Good(Removed(flow[f]))
    BY RemovedGood DEF IInv
  <2> QED BY <2>1, <2>2, UnusedGood, OneFlow DEF Remove, Vanish, DroppedCloses
<1>2. CASE RemoveEntry
  <2>1. ASSUME NEW f \in Flows
        PROVE  Good(flow[f])' /\ flow'[f] \in FlowStates
    <3>1. Good(Removed(flow[f])) /\ Removed(flow[f]).op \in {"user", "gone"}
      BY RemovedGood DEF IInv
    <3> QED BY <1>2, <3>1
           DEF RemoveEntry, Orphaned, IInv, Good, Filled, OfAnEntry, FlowStates
  <2> QED BY <1>2, <2>1 DEF RemoveEntry, IInv, TypeOK, CredentialStands
<1>3. CASE Readdress
  BY <1>3 DEF Readdress, IInv, TypeOK, CredentialStands, Good, Filled, OfAnEntry
<1> QED BY <1>1, <1>2, <1>3

\* Every step keeps the invariant.
LEMMA NextIInv == IInv /\ [Next]_vars => IInv'
<1> SUFFICES ASSUME IInv, [Next]_vars PROVE IInv'
  OBVIOUS
<1>1. CASE UNCHANGED vars
  BY <1>1 DEF vars, IInv, TypeOK, CredentialStands, Good, Filled, OfAnEntry
<1>2. CASE Next
  BY <1>2, AskingKeeps, ValidatingKeeps, FinishKeeps, OthersKeep
     DEF Next, Works
<1> QED BY <1>1, <1>2

\* It holds in every reachable state.
LEMMA Invariance == Spec => []IInv
BY InitIInv, NextIInv, PTL DEF Spec

\* The variables keep their types: no flow validates without an address and a
\* credential, or writes an entry that misses one.
THEOREM TypeCorrect == Spec => []TypeOK
<1>1. IInv => TypeOK
  BY DEF IInv
<1> QED BY <1>1, Invariance, PTL

\* Whatever ends a validation (_async_validate_pipeline), a close of its session
\* has ended before its flow goes on, and has succeeded before an entry is written.
THEOREM ClosedFirst == Spec => []ProbeClosedFirst
<1>1. IInv => ProbeClosedFirst
  BY DEF IInv, Good, ProbeClosedFirst, Validated
<1> QED BY <1>1, Invariance, PTL

\* The narrow update of async_step_finish leaves a credential alone that was
\* replaced while a reconfiguration validated with the earlier one.
THEOREM OwnersCredential == Spec => []CredentialStands
<1>1. IInv => CredentialStands
  BY DEF IInv
<1> QED BY <1>1, Invariance, PTL

\* _abort_if_unique_id_mismatch keeps an entry with its air conditioner, though
\* another may answer at its address.
THEOREM DeviceKept == Spec => EntryKeepsDevice
<1>1. Next => [(data # None /\ data' # None) => data'.device = data.device]_vars
  <2> SUFFICES ASSUME Next, data # None, data' # None, data' # data
               PROVE  data'.device = data.device
    BY DEF vars
  <2>1. PICK f \in Flows : FinishReconfigure(f) \/ FinishReauth(f)
    BY DEF Next, Works, StartUser, StartReconfigure, StartReauth, Start,
           AskUpload, Reconfigure, Upload, UploadRefused, Unpacked, Dialled,
           DialFails, Identified, IdentifyFails, Overtime, Closed, CloseFails,
           Retry, Abort, Create, Remove, Vanish, DroppedCloses, RemoveEntry,
           Readdress
  <2> QED BY <2>1
         DEF FinishReconfigure, FinishReauth, AddressOf, EntryData, SameDevice
<1> QED BY <1>1, PTL DEF Spec, EntryKeepsDevice
=============================================================================
