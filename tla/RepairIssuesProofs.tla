------------------------- MODULE RepairIssuesProofs -------------------------
(***************************************************************************)
(* For any number of entries: the shared issues follow the store, nothing  *)
(* but a premature authentication flow takes away an issue some entry has, *)
(* and an entry that was removed is forgotten.                             *)
(***************************************************************************)
EXTENDS RepairIssues, TLAPS

\* Every entry with an open finding is in the store with it, or is waited for
\* and was not evaluated since the restart.
HoldsOpen(s, o) ==
  \A k \in Kinds : \A e \in o[k] :
    \/ e \in s.known /\ s.value[k][e] = "bad"
    \/ e \in s.pending[k] /\ s.value[k][e] = "unknown"

\* The issues in i follow the store s.
Follow(i, s) ==
  \A k \in Kinds : /\ Raises(s, k) => k \in i
                   /\ Relevant(s) # {} /\ Clears(s, k) => k \notin i

\* The entries the store may know.
Known == Configured \cup Ghosts

\* An entry with an open finding is enabled.
OpenIsEnabled == \A k \in Kinds : open[k] \subseteq Enabled

IInv ==
  /\ TypeOK
  /\ OpenIsEnabled
  /\ kept => HoldsOpen(store, open)
  /\ RemovedIsForgotten
  /\ IssuesFollowStore

\* An issue of kind k that stood, or is found by the step, may not go.
MustStand(k) ==
  open'[k] # {} /\ (k \in issues \/ ~(open'[k] \subseteq open[k]))

\* Each that may not go stands.
StepStands == \A k \in Kinds : MustStand(k) => k \in issues'

\* Nothing is raised, and there is no store.
LEMMA InitIInv == Init => IInv
<1> SUFFICES ASSUME Init PROVE IInv
  OBVIOUS
<1>1. NoFindings \in [Kinds -> [Entries -> Findings]]
  BY DEF NoFindings, Findings
<1>2. TypeOK
  BY <1>1 DEF Init, TypeOK, Stores, Statuses
<1> QED BY <1>2 DEF Init, IInv, OpenIsEnabled, RemovedIsForgotten,
                    IssuesFollowStore

-----------------------------------------------------------------------------
(* The store *)

\* Bringing the issues up to date makes them follow the store...
LEMMA SyncedFollow == ASSUME NEW s PROVE Follow(Synced(s), s)
BY DEF Follow, Synced, Raises, Clears

\* ...and keeps those an entry has, if they stood or are found now.
LEMMA SyncedStands ==
  ASSUME NEW s, NEW o, HoldsOpen(s, o), NEW k \in Kinds, NEW e \in o[k],
         k \in issues \/ (e \in s.known /\ s.value[k][e] = "bad")
  PROVE  k \in Synced(s)
<1>1. e \in Relevant(s) /\ (s.value[k][e] = "bad" \/ e \in s.pending[k])
  BY DEF HoldsOpen, Relevant
<1>2. CASE s.value[k][e] = "bad"
  BY <1>1, <1>2 DEF Synced, Raises
<1>3. CASE s.value[k][e] # "bad"
  BY <1>1, <1>3 DEF Synced, Clears
<1> QED BY <1>2, <1>3

\* The store that is used, kept or made anew, has what the invariant says.
LEMMA OpenedFits ==
  ASSUME IInv
  PROVE  /\ Opened \in Stores
         /\ HoldsOpen(Opened, open)
         /\ Relevant(Opened) \subseteq Known
         /\ Ghosts = {} => Follow(issues, Opened)
<1>1. CASE kept
  BY <1>1 DEF IInv, TypeOK, Opened, RemovedIsForgotten, Known,
              IssuesFollowStore, Follow
<1>2. CASE ~kept
  <2>1. Opened = Fresh
    BY <1>2 DEF Opened
  <2>2. Enabled \subseteq Entries /\ Enabled \subseteq Configured
    BY DEF Enabled, Configured
  <2>3. Fresh \in Stores
    BY <2>2 DEF Fresh, Stores, NoFindings, Findings
  <2>4. HoldsOpen(Fresh, open)
    BY <2>2 DEF HoldsOpen, Fresh, NoFindings, IInv, OpenIsEnabled
  <2>5. Relevant(Fresh) = Enabled
    BY DEF Relevant, Fresh, Kinds, RuntimeKinds
  <2>6. Follow(issues, Fresh)
    BY <2>2, <2>5 DEF Follow, Raises, Clears, Fresh, NoFindings
  <2> QED BY <2>1, <2>2, <2>3, <2>4, <2>5, <2>6 DEF Known
<1> QED BY <1>1, <1>2

\* A store whose issues were brought up to date keeps the invariant, if it
\* holds what is open then, and what is open now stood before or is found.
LEMMA SyncKeeps ==
  ASSUME IInv, NEW s \in Stores, Keep(s), issues' = Synced(s),
         status' \in [Entries -> Statuses], disabled' \subseteq Entries,
         open' \in [Kinds -> SUBSET Entries], OpenIsEnabled',
         HoldsOpen(s, open'), Relevant(s) \subseteq Known',
         \A k \in Kinds : \A e \in open'[k] :
           e \in open[k] \/ (e \in s.known /\ s.value[k][e] = "bad")
  PROVE  IInv' /\ StepStands
<1>1. TypeOK'
  BY DEF TypeOK, Keep, Synced
<1>2. StepStands
  <2> SUFFICES ASSUME NEW k \in Kinds, MustStand(k) PROVE k \in Synced(s)
    BY DEF StepStands
  <2>1. CASE k \in issues
    <3>1. PICK e \in open'[k] : TRUE
      BY DEF MustStand
    <3> QED BY <2>1, <3>1, SyncedStands
  <2>2. CASE ~(open'[k] \subseteq open[k])
    <3>1. PICK e \in open'[k] : e \notin open[k]
      BY <2>2
    <3>2. e \in s.known /\ s.value[k][e] = "bad"
      BY <3>1
    <3> QED BY <3>1, <3>2, SyncedStands
  <2> QED BY <2>1, <2>2 DEF MustStand
<1>3. IssuesFollowStore'
  BY SyncedFollow DEF IssuesFollowStore, Follow, Keep, Relevant, Raises, Clears
<1>4. RemovedIsForgotten'
  BY DEF RemovedIsForgotten, Keep, Known, Relevant
<1>5. HoldsOpen(store, open)'
  BY DEF HoldsOpen, Keep
<1> QED BY <1>1, <1>2, <1>3, <1>4, <1>5 DEF IInv

-----------------------------------------------------------------------------
(* The steps *)

\* What the evaluation of an entry makes of a store.
Evaluates(s, t, e, ks, bad) ==
  /\ t \in Stores
  /\ t.known = s.known \cup {e}
  /\ Relevant(t) \subseteq Relevant(s) \cup {e}
  /\ \A k \in Kinds, f \in Entries :
       (f # e \/ k \notin ks) =>
         /\ t.value[k][f] = s.value[k][f]
         /\ f \in t.pending[k] <=> f \in s.pending[k]
  /\ \A k \in bad : t.value[k][e] = "bad"

\* Nothing but the kinds of the entry that are evaluated changes.
LEMMA EvaluatedFits ==
  ASSUME NEW s \in Stores, NEW e \in Entries, NEW ks \in SUBSET Kinds,
         NEW bad \in SUBSET ks
  PROVE  Evaluates(s, Evaluated(s, e, ks, bad), e, ks, bad)
<1> DEFINE t == Evaluated(s, e, ks, bad)
<1>1. t \in Stores
  BY DEF Evaluated, Stores, Findings
<1>2. Relevant(t) \subseteq Relevant(s) \cup {e}
  BY DEF Evaluated, Relevant, Stores
<1>3. ASSUME NEW k \in Kinds, NEW f \in Entries, f # e \/ k \notin ks
      PROVE  /\ t.value[k][f] = s.value[k][f]
             /\ f \in t.pending[k] <=> f \in s.pending[k]
  BY <1>3 DEF Evaluated, Stores
<1>4. ASSUME NEW k \in bad PROVE t.value[k][e] = "bad"
  BY <1>4 DEF Evaluated, Stores
<1>5. t.known = s.known \cup {e}
  BY DEF Evaluated
<1> HIDE DEF t
<1>6. Evaluates(s, t, e, ks, bad)
  BY <1>1, <1>2, <1>3, <1>4, <1>5 DEF Evaluates
<1> QED BY <1>6 DEF t

\* An entry that is there is evaluated, and its state changes or does not.
LEMMA ReportKeeps ==
  ASSUME IInv, NEW e \in Entries, NEW st \in Statuses \ {"absent"},
         e \in Known, st = "ghost" <=> status[e] = "ghost",
         status' = [status EXCEPT ![e] = st], disabled' = disabled,
         NEW ks \in SUBSET Kinds, NEW bad \in SUBSET ks, Report(e, ks, bad)
  PROVE  IInv' /\ StepStands
<1> DEFINE s == Opened
           t == Evaluated(s, e, ks, bad)
<1>1. /\ s \in Stores /\ HoldsOpen(s, open) /\ Relevant(s) \subseteq Known
  BY OpenedFits
<1> HIDE DEF s
<1>2. Evaluates(s, t, e, ks, bad)
  BY <1>1, EvaluatedFits
<1>3. status' \in [Entries -> Statuses] /\ Enabled' = Enabled /\ Known' = Known
  BY DEF IInv, TypeOK, Enabled, Configured, Ghosts, Known
<1>4. Keep(t) /\ issues' = Synced(t) /\ Found(e, ks, bad)
  BY DEF Report, s
<1> HIDE DEF t
<1>5. open' \in [Kinds -> SUBSET Entries] /\ OpenIsEnabled'
  BY <1>3, <1>4 DEF Found, IInv, TypeOK, OpenIsEnabled
<1>6. ASSUME NEW k \in Kinds, NEW f \in open'[k]
      PROVE  \/ f \in open[k] /\ (f # e \/ k \notin ks)
             \/ f = e /\ k \in bad
  BY <1>4, <1>6 DEF Found, IInv, TypeOK
<1>7. ASSUME NEW k \in Kinds, NEW f \in open'[k]
      PROVE  /\ \/ f \in t.known /\ t.value[k][f] = "bad"
                \/ f \in t.pending[k] /\ t.value[k][f] = "unknown"
             /\ f \in open[k] \/ (f \in t.known /\ t.value[k][f] = "bad")
  <2>1. k \in Kinds /\ f \in Entries
    BY <1>5
  <2>3. CASE f = e /\ k \in bad
    BY <1>2, <2>3 DEF Evaluates
  <2>4. CASE f \in open[k] /\ (f # e \/ k \notin ks)
    <3>1. \/ f \in s.known /\ s.value[k][f] = "bad"
          \/ f \in s.pending[k] /\ s.value[k][f] = "unknown"
      BY <1>1, <2>4 DEF HoldsOpen
    <3> QED BY <1>2, <2>1, <2>4, <3>1 DEF Evaluates
  <2> QED BY <1>6, <2>3, <2>4
<1>8. HoldsOpen(t, open')
  BY <1>7 DEF HoldsOpen
<1>9. Relevant(t) \subseteq Known'
  BY <1>1, <1>2, <1>3 DEF Evaluates
<1>10. disabled' \subseteq Entries
  BY DEF IInv, TypeOK
<1>11. t \in Stores
  BY <1>2 DEF Evaluates
<1> QED BY <1>3, <1>4, <1>5, <1>7, <1>8, <1>9, <1>10, <1>11, SyncKeeps

\* A step that leaves the store and the issues alone.
LEMMA QuietKeeps ==
  ASSUME IInv, UNCHANGED <<kept, store, issues>>,
         status' \in [Entries -> Statuses], disabled' \subseteq Entries,
         Known \subseteq Known', Ghosts' = Ghosts,
         open' \in [Kinds -> SUBSET Entries], OpenIsEnabled',
         \A k \in Kinds : open'[k] \subseteq open[k]
  PROVE  IInv' /\ StepStands
<1>1. TypeOK'
  BY DEF IInv, TypeOK
<1>2. HoldsOpen(store, open) => HoldsOpen(store', open')
  BY DEF HoldsOpen
<1>3. StepStands
  BY DEF StepStands, MustStand
<1>4. RemovedIsForgotten'
  BY DEF IInv, RemovedIsForgotten, Known, Relevant
<1>5. IssuesFollowStore'
  BY DEF IInv, IssuesFollowStore, Raises, Clears, Relevant
<1> QED BY <1>1, <1>2, <1>3, <1>4, <1>5 DEF IInv

LEMMA QuietSteps ==
  ASSUME IInv, NEW e \in Entries,
         Add(e) \/ SetUpFails(e) \/ UnloadFails(e) \/ DisableIdle(e) \/ Enable(e)
  PROVE  IInv' /\ StepStands
<1>1. /\ status' \in [Entries -> Statuses] /\ disabled' \subseteq Entries
      /\ Known \subseteq Known' /\ Ghosts' = Ghosts
  BY DEF IInv, TypeOK, Add, SetUpFails, UnloadFails, DisableIdle, Enable, Enter,
         Statuses, Known, Ghosts, Configured
<1>2. CASE DisableIdle(e)
  <2>1. Enabled \ {e} \subseteq Enabled'
    BY <1>2 DEF DisableIdle, Enabled, Configured
  <2>2. /\ open' \in [Kinds -> SUBSET Entries] /\ OpenIsEnabled'
        /\ \A k \in Kinds : open'[k] \subseteq open[k]
    BY <1>2, <2>1 DEF DisableIdle, Forget, IInv, TypeOK, OpenIsEnabled
  <2> QED BY <1>1, <1>2, <2>2, QuietKeeps DEF DisableIdle
<1>3. CASE Add(e) \/ SetUpFails(e) \/ UnloadFails(e) \/ Enable(e)
  <2>1. UNCHANGED <<kept, store, issues, open>>
    BY <1>3 DEF Add, SetUpFails, UnloadFails, Enable
  <2>2. Enabled \subseteq Enabled'
    BY <1>3 DEF Add, SetUpFails, UnloadFails, Enable, Enter, Enabled,
                Configured, IInv, TypeOK, Statuses
  <2>3. /\ open' \in [Kinds -> SUBSET Entries] /\ OpenIsEnabled'
        /\ \A k \in Kinds : open'[k] \subseteq open[k]
    BY <2>1, <2>2 DEF IInv, TypeOK, OpenIsEnabled
  <2> QED BY <1>1, <2>1, <2>3, QuietKeeps
<1> QED BY <1>2, <1>3

\* Set-ups, updates and refused unloads evaluate the entry.
LEMMA ReportSteps ==
  ASSUME IInv, NEW e \in Entries,
         SetUp(e) \/ ForwardFails(e) \/ SetUpRejected(e) \/ SetUpSucceeds(e)
           \/ Update(e) \/ UnloadRefused(e)
  PROVE  IInv' /\ StepStands
<1>1. status[e] \in Statuses /\ status = [status EXCEPT ![e] = status[e]]
  BY DEF IInv, TypeOK
<1>2. /\ {"certificate_expiring"} \in SUBSET Kinds
      /\ RuntimeKinds \in SUBSET Kinds
  BY DEF Kinds
<1>3. PICK st \in Statuses \ {"absent"}, ks \in SUBSET Kinds,
           bad \in SUBSET Kinds :
        /\ bad \subseteq ks /\ status' = [status EXCEPT ![e] = st]
        /\ disabled' = disabled
        /\ st = "ghost" <=> status[e] = "ghost"
        /\ status[e] # "absent"
        /\ Report(e, ks, bad)
  <2>1. CASE Update(e)
    BY <1>1, <1>2, <2>1 DEF Update
  <2>2. CASE SetUp(e)
    BY <1>2, <2>2 DEF SetUp, Enter, Statuses
  <2>3. CASE ForwardFails(e) \/ SetUpRejected(e)
    BY <1>2, <2>3 DEF ForwardFails, SetUpRejected, Enter, Statuses
  <2>4. CASE SetUpSucceeds(e) \/ UnloadRefused(e)
    BY <1>2, <2>4 DEF SetUpSucceeds, UnloadRefused, Enter, Statuses
  <2> QED BY <2>1, <2>2, <2>3, <2>4
<1>4. e \in Known
  BY <1>3 DEF Known, Configured, Ghosts
<1> QED BY <1>3, <1>4, ReportKeeps

\* A reload begins: what the entry said is kept, and it is waited for.
LEMMA UnloadStep ==
  ASSUME IInv, NEW e \in Entries, Unload(e)
  PROVE  IInv' /\ StepStands
<1> DEFINE s == Opened
           t == Awaited(s, e)
<1>1. /\ s \in Stores /\ HoldsOpen(s, open) /\ Relevant(s) \subseteq Known
  BY OpenedFits
<1>2. Keep(t) /\ issues' = Synced(t)
  BY DEF Unload
<1> HIDE DEF s
<1>3. t \in Stores
  BY <1>1 DEF Awaited, Stores
<1>4. Relevant(t) \subseteq Relevant(s) \cup {e}
  BY <1>1 DEF Awaited, Relevant
<1>5. HoldsOpen(t, open)
  BY <1>1 DEF HoldsOpen, Awaited
<1> HIDE DEF t
<1>6. /\ status' \in [Entries -> Statuses] /\ disabled' = disabled /\ open' = open
      /\ Enabled' = Enabled /\ Known' = Known /\ e \in Known
  BY DEF Unload, Enter, IInv, TypeOK, Statuses, Enabled, Configured, Known,
         Ghosts
<1>7. open' \in [Kinds -> SUBSET Entries] /\ OpenIsEnabled'
      /\ disabled' \subseteq Entries
  BY <1>6 DEF IInv, TypeOK, OpenIsEnabled
<1>8. HoldsOpen(t, open') /\ Relevant(t) \subseteq Known'
  BY <1>1, <1>4, <1>5, <1>6
<1> QED BY <1>2, <1>3, <1>6, <1>7, <1>8, SyncKeeps

\* What the purge of entries makes of a store.
LEMMA PurgedFits ==
  ASSUME NEW s \in Stores, NEW es
  PROVE  /\ Purged(s, es) \in Stores
         /\ Relevant(Purged(s, es)) = Relevant(s) \ es
         /\ \A k \in Kinds : \A f \in Entries \ es :
              Purged(s, es).value[k][f] = s.value[k][f]
         /\ \A o : (HoldsOpen(s, o) /\ \A k \in Kinds : o[k] \subseteq Entries \ es)
                     => HoldsOpen(Purged(s, es), o)
<1>1. Purged(s, es) \in Stores
  BY DEF Purged, Stores, Findings
<1>2. Relevant(Purged(s, es)) = Relevant(s) \ es
  BY DEF Purged, Relevant
<1>3. \A k \in Kinds : \A f \in Entries \ es :
        Purged(s, es).value[k][f] = s.value[k][f]
  BY DEF Purged
<1>4. \A k \in Kinds : Purged(s, es).pending[k] = s.pending[k] \ es
  BY DEF Purged
<1>5. Purged(s, es).known = s.known \ es
  BY DEF Purged
<1>6. ASSUME NEW o, HoldsOpen(s, o), \A k \in Kinds : o[k] \subseteq Entries \ es
      PROVE  HoldsOpen(Purged(s, es), o)
  BY <1>3, <1>4, <1>5, <1>6 DEF HoldsOpen
<1> QED BY <1>1, <1>2, <1>3, <1>6

\* An entry is disabled, or removed: it is purged.
LEMMA PurgeSteps ==
  ASSUME IInv, NEW e \in Entries, Disable(e) \/ Remove(e)
  PROVE  IInv' /\ StepStands
<1> DEFINE s == Opened
           t == Purged(s, {e})
<1>1. /\ s \in Stores /\ HoldsOpen(s, open) /\ Relevant(s) \subseteq Known
  BY OpenedFits
<1>2. Keep(t) /\ issues' = Synced(t) /\ Forget(e)
  BY DEF Disable, Remove
<1> HIDE DEF s
<1>3. /\ status' \in [Entries -> Statuses] /\ disabled' \subseteq Entries
      /\ Known \ {e} \subseteq Known' /\ Enabled \ {e} \subseteq Enabled'
  BY DEF Disable, Remove, Enter, IInv, TypeOK, Statuses, Enabled, Configured,
         Known, Ghosts
<1>4. /\ open' \in [Kinds -> SUBSET Entries]
      /\ \A k \in Kinds : open'[k] = open[k] \ {e}
  BY <1>2 DEF Forget, IInv, TypeOK
<1>5. OpenIsEnabled'
  BY <1>3, <1>4 DEF IInv, OpenIsEnabled
<1>6. HoldsOpen(s, open') /\ \A k \in Kinds : open'[k] \subseteq Entries \ {e}
  BY <1>1, <1>4 DEF HoldsOpen
<1>7. t \in Stores /\ Relevant(t) = Relevant(s) \ {e} /\ HoldsOpen(t, open')
  BY <1>1, <1>6, PurgedFits
<1> HIDE DEF t
<1>8. Relevant(t) \subseteq Known'
  BY <1>1, <1>3, <1>7
<1>9. \A k \in Kinds : \A f \in open'[k] : f \in open[k]
  BY <1>4
<1> QED BY <1>2, <1>3, <1>4, <1>5, <1>7, <1>8, <1>9, SyncKeeps

\* Home Assistant restarts: the store is gone, and what stood stands.
LEMMA RestartStep == ASSUME IInv, Restart PROVE IInv' /\ StepStands
<1>1. Enabled' = Enabled
  BY DEF Restart, IInv, TypeOK, Enabled, Configured, Statuses
<1>2. NoFindings \in [Kinds -> [Entries -> Findings]]
  BY DEF NoFindings, Findings
<1>3. TypeOK'
  BY <1>2 DEF Restart, IInv, TypeOK, Stores, Statuses
<1>4. OpenIsEnabled'
  BY <1>1 DEF Restart, IInv, OpenIsEnabled
<1> QED BY <1>3, <1>4
       DEF Restart, IInv, StepStands, MustStand, RemovedIsForgotten,
           IssuesFollowStore

\* The fix flows drop what disabled entries left in the store, and bring the
\* issues up to date if there was something.
LEMMA TidiedFits ==
  ASSUME IInv
  PROVE  /\ Tidied \in Stores
         /\ HoldsOpen(Tidied, open)
         /\ Relevant(Tidied) \subseteq Known
         /\ Ghosts = {} => Relevant(Tidied) \subseteq Enabled
         /\ TidiedIssues \subseteq Kinds
         /\ \A k \in issues : open[k] # {} => k \in TidiedIssues
         /\ \A k \in Kinds : \A e \in open[k] :
              \/ Tidied.value[k][e] = "bad"
              \/ Opened.value[k][e] = "unknown"
         /\ Ghosts = {} => Follow(TidiedIssues, Tidied)
<1> DEFINE es == Configured \cap disabled
<1>1. /\ Opened \in Stores /\ HoldsOpen(Opened, open)
      /\ Relevant(Opened) \subseteq Known
      /\ Ghosts = {} => Follow(issues, Opened)
  BY OpenedFits
<1>2. \A k \in Kinds : open[k] \subseteq Entries \ es
  BY DEF IInv, TypeOK, OpenIsEnabled, Enabled
<1>3. /\ Tidied \in Stores /\ Relevant(Tidied) = Relevant(Opened) \ es
      /\ HoldsOpen(Tidied, open)
      /\ \A k \in Kinds : \A f \in Entries \ es :
           Tidied.value[k][f] = Opened.value[k][f]
  BY <1>1, <1>2, PurgedFits DEF Tidied
<1>4. Ghosts = {} => Relevant(Tidied) \subseteq Enabled
  BY <1>1, <1>3 DEF Known, Enabled
<1>5. TidiedIssues \subseteq Kinds
  BY DEF TidiedIssues, Synced, IInv, TypeOK
<1>6. ASSUME NEW k \in issues, NEW e \in open[k] PROVE k \in TidiedIssues
  <2>1. k \in Kinds
    BY DEF IInv, TypeOK
  <2>2. k \in Synced(Tidied)
    BY <1>3, <1>6, <2>1, SyncedStands
  <2> QED BY <1>6, <2>2 DEF TidiedIssues
<1>8. ASSUME NEW k \in Kinds, NEW e \in open[k]
      PROVE  Tidied.value[k][e] = "bad" \/ Opened.value[k][e] = "unknown"
  <2>1. Opened.value[k][e] \in {"bad", "unknown"}
    BY <1>1 DEF HoldsOpen
  <2>2. Tidied.value[k][e] = Opened.value[k][e]
    BY <1>2, <1>3
  <2> QED BY <2>1, <2>2
<1>7. ASSUME Ghosts = {} PROVE Follow(TidiedIssues, Tidied)
  <2>1. CASE Relevant(Opened) \cap Configured \cap disabled # {}
    BY <2>1, SyncedFollow DEF TidiedIssues
  <2>2. CASE Relevant(Opened) \cap Configured \cap disabled = {}
    <3>1. TidiedIssues = issues /\ Relevant(Tidied) = Relevant(Opened)
      BY <1>3, <2>2 DEF TidiedIssues
    <3>2. \A f \in Relevant(Opened) : f \in Entries \ es
      BY <1>1, <2>2 DEF Known, Configured, Ghosts
    <3>3. \A k \in Kinds : /\ Raises(Tidied, k) => Raises(Opened, k)
                           /\ Clears(Tidied, k) => Clears(Opened, k)
      <4>1. \A k \in Kinds : Tidied.pending[k] = Opened.pending[k] \ es
        BY DEF Tidied, Purged
      <4> QED BY <1>3, <3>1, <3>2, <4>1 DEF Raises, Clears
    <3> QED BY <1>1, <1>7, <3>1, <3>3 DEF Follow
  <2> QED BY <2>1, <2>2
<1> QED BY <1>1, <1>3, <1>4, <1>5, <1>6, <1>7, <1>8

\* The authentication flow deletes its issue when no enabled entry is known to
\* be rejected: then none that is relevant is, and those that were are not
\* evaluated yet.
LEMMA FixAuthenticationStep ==
  ASSUME IInv, FixAuthentication
  PROVE  /\ IInv'
         /\ \A k \in Kinds : MustStand(k) => k \in issues' \/ DeletedUnevaluated(k)
<1>1. /\ Tidied \in Stores /\ HoldsOpen(Tidied, open)
      /\ Relevant(Tidied) \subseteq Known
      /\ Ghosts = {} => Relevant(Tidied) \subseteq Enabled
      /\ TidiedIssues \subseteq Kinds
      /\ \A k \in issues : open[k] # {} => k \in TidiedIssues
      /\ \A k \in Kinds : \A e \in open[k] :
           Tidied.value[k][e] = "bad" \/ Opened.value[k][e] = "unknown"
      /\ Ghosts = {} => Follow(TidiedIssues, Tidied)
  BY TidiedFits
<1>2. Keep(Tidied) /\ UNCHANGED <<status, disabled, open>>
  BY DEF FixAuthentication
<1>3. /\ issues' \subseteq TidiedIssues
      /\ TidiedIssues \ {"authentication_rejected"} \subseteq issues'
      /\ "authentication_rejected" \in TidiedIssues \ issues' =>
           ~ \E e \in Enabled :
               Tidied.value["authentication_rejected"][e] = "bad"
  BY DEF FixAuthentication, Rejected
<1>4. TypeOK'
  BY <1>1, <1>2, <1>3 DEF IInv, TypeOK, Keep
<1>5. ASSUME NEW k \in Kinds, MustStand(k), k \notin issues'
      PROVE  DeletedUnevaluated(k)
  <2>1. k \in issues /\ open[k] # {}
    BY <1>2, <1>5 DEF MustStand
  <2>2. k = "authentication_rejected" /\ k \in TidiedIssues \ issues'
    BY <1>1, <1>3, <1>5, <2>1
  <2>3. open[k] \subseteq Enabled
    BY DEF IInv, OpenIsEnabled
  <2>4. \A e \in open[k] : Opened.value[k][e] = "unknown"
    BY <1>1, <1>3, <2>2, <2>3
  <2> QED BY <2>2, <2>4 DEF DeletedUnevaluated
<1>6. RemovedIsForgotten' /\ (kept => HoldsOpen(store, open))' /\ OpenIsEnabled'
  BY <1>1, <1>2
     DEF RemovedIsForgotten, Keep, Known, Relevant, Ghosts, Configured,
         HoldsOpen, IInv, OpenIsEnabled, Enabled
<1>7. Ghosts = {} => Follow(issues', Tidied)
  BY <1>1, <1>3 DEF Follow, Raises
<1>8. IssuesFollowStore'
  BY <1>2, <1>7
     DEF IssuesFollowStore, Follow, Keep, Relevant, Raises, Clears, Ghosts
<1> QED BY <1>4, <1>5, <1>6, <1>8 DEF IInv

\* The certificate flow evaluates every enabled entry.
LEMMA CertificatesFit ==
  ASSUME IInv, NEW bad \in SUBSET Enabled
  PROVE  /\ Certificates(bad) \in Stores
         /\ Relevant(Certificates(bad)) \subseteq Relevant(Tidied) \cup Enabled
         /\ HoldsOpen(Certificates(bad),
              [open EXCEPT !["certificate_expiring"] = (@ \ Enabled) \cup bad])
         /\ bad \subseteq Certificates(bad).known
         /\ \A e \in Enabled :
              Certificates(bad).value["certificate_expiring"][e] =
                IF e \in bad THEN "bad" ELSE "good"
<1> DEFINE s == Certificates(bad)
           k0 == "certificate_expiring"
<1>1. Tidied \in Stores /\ HoldsOpen(Tidied, open)
  BY TidiedFits
<1>2. Enabled \subseteq Entries /\ k0 \in Kinds
  BY DEF Enabled, Configured, Kinds
<1>3. s \in Stores
  BY <1>1, <1>2 DEF Certificates, Stores, Findings
<1>4. s.known = Tidied.known \cup Enabled
  BY DEF Certificates
<1>5. \A k \in Kinds : s.pending[k] \subseteq Tidied.pending[k]
  BY <1>1 DEF Certificates, Stores
<1>6. \A e \in Enabled : s.value[k0][e] = IF e \in bad THEN "bad" ELSE "good"
  BY <1>1, <1>2 DEF Certificates, Stores
<1>7. \A k \in Kinds \ {k0} : /\ s.value[k] = Tidied.value[k]
                              /\ s.pending[k] = Tidied.pending[k]
  BY <1>1 DEF Certificates, Stores
<1> HIDE DEF s
<1>8. Relevant(s) \subseteq Relevant(Tidied) \cup Enabled
  BY <1>4, <1>5 DEF Relevant
<1>9. HoldsOpen(s, [open EXCEPT ![k0] = (@ \ Enabled) \cup bad])
  <2>1. open[k0] \subseteq Enabled /\ open \in [Kinds -> SUBSET Entries]
    BY <1>2 DEF IInv, OpenIsEnabled, TypeOK
  <2>2. ASSUME NEW e \in bad PROVE e \in s.known /\ s.value[k0][e] = "bad"
    BY <1>4, <1>6
  <2>3. ASSUME NEW k \in Kinds \ {k0}, NEW e \in open[k]
        PROVE  \/ e \in s.known /\ s.value[k][e] = "bad"
               \/ e \in s.pending[k] /\ s.value[k][e] = "unknown"
    BY <1>1, <1>4, <1>7 DEF HoldsOpen
  <2> QED BY <1>2, <2>1, <2>2, <2>3 DEF HoldsOpen
<1>10. bad \subseteq s.known
  BY <1>4
<1> QED BY <1>3, <1>6, <1>8, <1>9, <1>10 DEF s

\* It raises what it finds, and clears what is known to be well.
LEMMA FixCertificateStep ==
  ASSUME IInv, FixCertificate
  PROVE  IInv' /\ StepStands
<1> DEFINE k0 == "certificate_expiring"
<1>1. PICK bad \in SUBSET Enabled :
        LET s == Certificates(bad)
        IN /\ Keep(s)
           /\ issues' = (IF Enabled = {} THEN TidiedIssues
                         ELSE {k \in Kinds :
                                 \/ Raises(s, k)
                                 \/ k \in TidiedIssues /\ ~Clears(s, k)})
                        \ (IF bad = {} THEN {k0} ELSE {})
           /\ open' = [open EXCEPT ![k0] = (@ \ Enabled) \cup bad]
  BY DEF FixCertificate
<1> DEFINE s == Certificates(bad)
<1>2. UNCHANGED <<status, disabled>> /\ Enabled' = Enabled /\ Ghosts' = Ghosts
  BY DEF FixCertificate, Enabled, Configured, Ghosts
<1>3. /\ Relevant(Tidied) \subseteq Known
      /\ Ghosts = {} => Relevant(Tidied) \subseteq Enabled
      /\ TidiedIssues \subseteq Kinds
      /\ \A k \in issues : open[k] # {} => k \in TidiedIssues
  BY TidiedFits
<1>4. /\ s \in Stores /\ Relevant(s) \subseteq Relevant(Tidied) \cup Enabled
      /\ HoldsOpen(s, open')
      /\ bad \subseteq s.known
      /\ \A e \in Enabled : s.value[k0][e] = IF e \in bad THEN "bad" ELSE "good"
  BY <1>1, CertificatesFit
<1>5. /\ Keep(s) /\ open' = [open EXCEPT ![k0] = (@ \ Enabled) \cup bad]
      /\ Enabled = {} => issues' = TidiedIssues \ {k0}
      /\ Enabled # {} =>
           issues' = {k \in Kinds : \/ Raises(s, k)
                                    \/ k \in TidiedIssues /\ ~Clears(s, k)}
                     \ (IF bad = {} THEN {k0} ELSE {})
      /\ issues' = (IF Enabled = {} THEN TidiedIssues
                    ELSE {k \in Kinds :
                            \/ Raises(s, k)
                            \/ k \in TidiedIssues /\ ~Clears(s, k)})
                   \ (IF bad = {} THEN {k0} ELSE {})
  BY <1>1
<1> HIDE DEF s
<1>6. k0 \in Kinds /\ Enabled \subseteq Entries
  BY DEF Kinds, Enabled, Configured
<1>7. /\ open' \in [Kinds -> SUBSET Entries]
      /\ open'[k0] = bad /\ \A k \in Kinds \ {k0} : open'[k] = open[k]
  BY <1>5, <1>6 DEF IInv, TypeOK, OpenIsEnabled
<1>8. TypeOK'
  BY <1>2, <1>3, <1>4, <1>5, <1>7 DEF IInv, TypeOK, Keep
<1>9. OpenIsEnabled' /\ (kept => HoldsOpen(store, open))'
  BY <1>2, <1>4, <1>5, <1>7 DEF IInv, OpenIsEnabled, Keep, HoldsOpen
<1>10. StepStands
  <2> SUFFICES ASSUME NEW k \in Kinds, MustStand(k) PROVE k \in issues'
    BY DEF StepStands
  <2>0. PICK e \in open'[k] : TRUE
    BY DEF MustStand
  <2>1. e \in Enabled /\ Enabled # {}
    BY <1>2, <1>9, <2>0 DEF OpenIsEnabled
  <2>2. CASE k = k0
    <3>1. e \in Relevant(s) /\ s.value[k][e] = "bad" /\ bad # {}
      BY <1>4, <1>7, <2>0, <2>2 DEF Relevant
    <3> QED BY <1>5, <2>1, <3>1 DEF Raises
  <2>3. CASE k # k0
    <3>1. k \in issues /\ open[k] # {}
      BY <1>7, <2>0, <2>3 DEF MustStand
    <3>2. k \in TidiedIssues
      BY <1>3, <3>1
    <3>3. e \in Relevant(s) /\ (s.value[k][e] = "bad" \/ e \in s.pending[k])
      BY <1>4, <2>0 DEF HoldsOpen, Relevant
    <3>4. Raises(s, k) \/ (k \in TidiedIssues /\ ~Clears(s, k))
      BY <3>2, <3>3 DEF Raises, Clears
    <3> QED BY <1>5, <2>1, <2>3, <3>4
  <2> QED BY <2>2, <2>3
<1>11. RemovedIsForgotten'
  <2>1. Relevant(s) \subseteq Known /\ Known' = Known
    BY <1>2, <1>3, <1>4 DEF Known, Enabled, Configured, Ghosts
  <2> QED BY <1>5, <2>1 DEF RemovedIsForgotten, Keep, Known, Relevant
<1>12. Ghosts = {} => Follow(issues', s)
  <2>1. CASE Enabled = {}
    <3>1. Ghosts = {} => Relevant(s) = {}
      BY <1>3, <1>4, <2>1
    <3> QED BY <3>1 DEF Follow, Raises
  <2>2. CASE Enabled # {}
    <3>1. ASSUME Ghosts = {}, bad = {} PROVE ~Raises(s, k0)
      BY <1>3, <1>4, <3>1 DEF Raises
    <3> QED BY <1>5, <2>2, <3>1 DEF Follow, Raises, Clears
  <2> QED BY <2>1, <2>2
<1>13. IssuesFollowStore'
  BY <1>2, <1>5, <1>12
     DEF IssuesFollowStore, Follow, Keep, Relevant, Raises, Clears
<1> QED BY <1>8, <1>9, <1>10, <1>11, <1>13 DEF IInv

\* Every step keeps the invariant, and every issue that may not go.
LEMMA NextIInv ==
  ASSUME IInv, [Next]_vars
  PROVE  /\ IInv'
         /\ \A k \in Kinds : MustStand(k) => k \in issues' \/ DeletedUnevaluated(k)
<1>1. CASE UNCHANGED vars
  <2>1. IInv'
    BY <1>1 DEF vars, IInv, TypeOK, OpenIsEnabled, HoldsOpen, RemovedIsForgotten,
                IssuesFollowStore, Relevant, Raises, Clears, Enabled, Configured,
                Ghosts
  <2>2. \A k \in Kinds : MustStand(k) => k \in issues'
    BY <1>1 DEF vars, MustStand
  <2> QED BY <2>1, <2>2
<1>2. CASE FixAuthentication
  BY <1>2, FixAuthenticationStep
<1>3. CASE Next /\ ~FixAuthentication
  <2>1. IInv' /\ StepStands
    BY <1>3, QuietSteps, ReportSteps, UnloadStep, PurgeSteps, RestartStep,
       FixCertificateStep DEF Next
  <2> QED BY <2>1 DEF StepStands
<1> QED BY <1>1, <1>2, <1>3

\* It holds in every reachable state.
LEMMA Invariance == Spec => []IInv
<1>1. IInv /\ [Next]_vars => IInv'
  BY NextIInv
<1> QED BY <1>1, InitIInv, PTL DEF Spec

\* The fields of the store and the registry keep their types.
THEOREM TypeCorrect == Spec => []TypeOK
<1>1. IInv => TypeOK
  BY DEF IInv
<1> QED BY <1>1, Invariance, PTL

\* _sync_entry_aggregates, called by whatever changes the store, keeps the
\* issues in step with it for any number of entries.
THEOREM Followed == Spec => []IssuesFollowStore
<1>1. IInv => IssuesFollowStore
  BY DEF IInv
<1> QED BY <1>1, Invariance, PTL

\* Nothing but the authentication flow, confirmed before the entries that were
\* rejected are evaluated after a restart, takes away an issue an entry has.
THEOREM Standing == Spec => StandsUntilEvaluated
<1>1. ASSUME IInv, [Next]_vars
      PROVE  [\A k \in Kinds :
                /\ open'[k] # {}
                /\ k \in issues \/ ~(open'[k] \subseteq open[k])
                => k \in issues' \/ DeletedUnevaluated(k)]_vars
  BY <1>1, NextIInv DEF MustStand
<1> QED BY <1>1, Invariance, PTL DEF Spec, StandsUntilEvaluated

\* async_purge_entry_issues leaves nothing of an entry that was removed.
THEOREM Forgotten == Spec => []RemovedIsForgotten
<1>1. IInv => RemovedIsForgotten
  BY DEF IInv
<1> QED BY <1>1, Invariance, PTL
=============================================================================
