---------------------------- MODULE RepairIssues ----------------------------
(***************************************************************************)
(* repairs.py: the Repairs issues the integration shares between all its   *)
(* config entries.  An issue is one for the whole integration, so that no  *)
(* entry is named in it; a private store remembers per entry what was last *)
(* evaluated and which entries are still to be.  The issues are persistent *)
(* and survive a restart, the store does not.                              *)
(*                                                                         *)
(* What Home Assistant does to an entry is external: it sets entries up,   *)
(* retries those that fail, unloads only those that are loaded, and may    *)
(* disable, enable and remove them.  The four runtime issues are evaluated *)
(* together; two of them stand for the four, one with a fix flow.          *)
(***************************************************************************)
CONSTANT Entries     \* the config entries there may be

RuntimeKinds == {"authentication_rejected", "resource_contract_changed"}
Kinds == RuntimeKinds \cup {"certificate_expiring"}

VARIABLES
  status,    \* what became of each entry; one whose platforms would not
             \* unload is "kept": it runs on in Home Assistant's FAILED_UNLOAD,
             \* and is a "ghost" once it has been removed
  disabled,  \* the entries with disabled_by set
  kept,      \* the store is in hass.data
  store,     \* _RepairStateStore
  issues,    \* the issues in the registry
  open       \* history: the entries whose last evaluation found the issue,
             \* unless they were disabled or removed since

vars == <<status, disabled, kept, store, issues, open>>

Statuses ==
  {"absent", "idle", "setting up", "loaded", "kept", "failed unload", "ghost"}
Findings == {"unknown", "good", "bad"}

Stores == [known   : SUBSET Entries,              \* the keys of `entries`
           value   : [Kinds -> [Entries -> Findings]],
           pending : [Kinds -> SUBSET Entries]]   \* per kind; the runtime
                                                  \* kinds share one set

TypeOK ==
  /\ status \in [Entries -> Statuses]
  /\ disabled \subseteq Entries
  /\ kept \in BOOLEAN
  /\ store \in Stores
  /\ issues \subseteq Kinds
  /\ open \in [Kinds -> SUBSET Entries]

Ghosts == {e \in Entries : status[e] = "ghost"}
Configured == {e \in Entries : status[e] \notin {"absent", "ghost"}}
Enabled == Configured \ disabled

-----------------------------------------------------------------------------
(* The store *)

NoFindings == [k \in Kinds |-> [e \in Entries |-> "unknown"]]

\* A seeded fault: a new store waits for nobody.
FreshWithoutPending ==
  [known |-> {}, value |-> NoFindings, pending |-> [k \in Kinds |-> {}]]

\* A new store waits for every entry that is enabled.
Fresh == [known |-> {}, value |-> NoFindings,
          pending |-> [k \in Kinds |-> Enabled]]

\* _store
Opened == IF kept THEN store ELSE Fresh

\* The store s, once the kinds ks of entry e have been evaluated: the issues
\* in `bad` were found.
Evaluated(s, e, ks, bad) ==
  [known   |-> s.known \cup {e},
   value   |-> [k \in Kinds |->
                 IF k \in ks
                   THEN [s.value[k] EXCEPT
                           ![e] = IF k \in bad THEN "bad" ELSE "good"]
                   ELSE s.value[k]],
   pending |-> [k \in Kinds |-> IF k \in ks THEN s.pending[k] \ {e}
                                            ELSE s.pending[k]]]

\* An enabled entry was unloaded: it keeps what it last said, and is to be
\* evaluated again.
Awaited(s, e) ==
  [known   |-> s.known \cup {e},
   value   |-> s.value,
   pending |-> [k \in Kinds |-> s.pending[k] \cup {e}]]

\* A seeded fault: a purged entry's certificate is still waited for.
PurgedRuntime(s, es) ==
  [known   |-> s.known \ es,
   value   |-> [k \in Kinds |-> [e \in Entries |->
                 IF e \in es THEN "unknown" ELSE s.value[k][e]]],
   pending |-> [k \in Kinds |-> IF k \in RuntimeKinds
                                  THEN s.pending[k] \ es ELSE s.pending[k]]]

Purged(s, es) ==
  [known   |-> s.known \ es,
   value   |-> [k \in Kinds |-> [e \in Entries |->
                 IF e \in es THEN "unknown" ELSE s.value[k][e]]],
   pending |-> [k \in Kinds |-> s.pending[k] \ es]]

\* _relevant_entry_ids
Relevant(s) == s.known \cup UNION {s.pending[k] : k \in Kinds}

Raises(s, k) == \E e \in Relevant(s) : s.value[k][e] = "bad"

\* Every relevant entry is known to be well; with no entry at all, too.
Clears(s, k) ==
  \A e \in Relevant(s) : s.value[k][e] = "good" /\ e \notin s.pending[k]

\* _sync_entry_aggregates: raise, clear, or leave alone what is not known.
Synced(s) ==
  {k \in Kinds : Raises(s, k) \/ (k \in issues /\ ~Clears(s, k))}

Keep(s) == kept' = TRUE /\ store' = s

\* The history after the kinds ks of e were evaluated.
Found(e, ks, bad) ==
  open' = [k \in Kinds |-> IF k \notin ks THEN open[k]
                           ELSE IF k \in bad /\ e \in Enabled
                             THEN open[k] \cup {e}
                           ELSE open[k] \ {e}]

Forget(e) == open' = [k \in Kinds |-> open[k] \ {e}]

-----------------------------------------------------------------------------
Init ==
  /\ status \in [Entries -> {"absent", "idle"}]
  /\ disabled = {}
  /\ kept = FALSE
  /\ store = [known |-> {}, value |-> NoFindings,
              pending |-> [k \in Kinds |-> {}]]
  /\ issues = {}
  /\ open = [k \in Kinds |-> {}]

Enter(e, s) == status' = [status EXCEPT ![e] = s]

\* A config flow made an entry.
Add(e) ==
  /\ status[e] = "absent" /\ Enter(e, "idle")
  /\ UNCHANGED <<disabled, kept, store, issues, open>>

Report(e, ks, bad) ==
  LET s == Evaluated(Opened, e, ks, bad)
  IN Keep(s) /\ issues' = Synced(s) /\ Found(e, ks, bad)

\* async_setup_entry up to the coordinator: the stored certificate is
\* evaluated.  (Stored data that cannot be read fails before that and changes
\* nothing.)
SetUp(e) ==
  /\ status[e] = "idle" /\ e \notin disabled
  /\ Enter(e, "setting up")
  /\ \E bad \in SUBSET {"certificate_expiring"} :
       Report(e, {"certificate_expiring"}, bad)
  /\ UNCHANGED disabled

\* Not ready, expired, unsupported or cancelled: the runtime was not evaluated.
SetUpFails(e) ==
  /\ status[e] = "setting up" /\ Enter(e, "idle")
  /\ UNCHANGED <<disabled, kept, store, issues, open>>

\* The coordinator started and was evaluated, and a platform then failed.
ForwardFails(e) ==
  /\ status[e] = "setting up" /\ Enter(e, "idle")
  /\ \E bad \in SUBSET RuntimeKinds :
       "authentication_rejected" \notin bad /\ Report(e, RuntimeKinds, bad)
  /\ UNCHANGED disabled

SetUpRejected(e) ==
  /\ status[e] = "setting up" /\ Enter(e, "idle")
  /\ \E bad \in SUBSET RuntimeKinds :
       "authentication_rejected" \in bad /\ Report(e, RuntimeKinds, bad)
  /\ UNCHANGED disabled

SetUpSucceeds(e) ==
  /\ status[e] = "setting up" /\ Enter(e, "loaded")
  /\ \E bad \in SUBSET RuntimeKinds :
       "authentication_rejected" \notin bad /\ Report(e, RuntimeKinds, bad)
  /\ UNCHANGED disabled

\* A listener of the coordinator: handle_update.
Update(e) ==
  /\ status[e] \in {"loaded", "kept", "ghost"}
  /\ \E bad \in SUBSET RuntimeKinds : Report(e, RuntimeKinds, bad)
  /\ UNCHANGED <<status, disabled>>

\* async_unload_entry of an enabled entry: a reload begins.
Unload(e) ==
  /\ status[e] = "loaded" /\ Enter(e, "idle")
  /\ LET s == Awaited(Opened, e) IN Keep(s) /\ issues' = Synced(s)
  /\ UNCHANGED <<disabled, open>>

\* The platforms do not unload: the listener is attached again, which reports.
UnloadRefused(e) ==
  /\ status[e] = "loaded" /\ Enter(e, "kept")
  /\ \E bad \in SUBSET RuntimeKinds : Report(e, RuntimeKinds, bad)
  /\ UNCHANGED disabled

\* The coordinator's shutdown failed: nothing is recorded.
UnloadFails(e) ==
  /\ status[e] = "loaded" /\ Enter(e, "failed unload")
  /\ UNCHANGED <<disabled, kept, store, issues, open>>

\* A loaded entry is disabled: Home Assistant unloads it.
Disable(e) ==
  /\ status[e] = "loaded" /\ e \notin disabled
  /\ disabled' = disabled \cup {e} /\ Enter(e, "idle")
  /\ LET s == Purged(Opened, {e}) IN Keep(s) /\ issues' = Synced(s)
  /\ Forget(e)

\* An entry that is not loaded, or could not be unloaded, is disabled: the
\* integration is not called.
DisableIdle(e) ==
  /\ status[e] \in {"idle", "kept", "failed unload"} /\ e \notin disabled
  /\ disabled' = disabled \cup {e} /\ Forget(e)
  /\ UNCHANGED <<status, kept, store, issues>>

Enable(e) ==
  /\ e \in disabled /\ disabled' = disabled \ {e}
  /\ UNCHANGED <<status, kept, store, issues, open>>

\* async_remove_entry, after a loaded entry was unloaded, or would not unload.
Remove(e) ==
  /\ \/ status[e] \in {"idle", "loaded", "failed unload"} /\ Enter(e, "absent")
     \/ status[e] \in {"loaded", "kept"} /\ Enter(e, "ghost")
  /\ LET s == Purged(Opened, {e}) IN Keep(s) /\ issues' = Synced(s)
  /\ disabled' = disabled \ {e} /\ Forget(e)

\* Home Assistant stops and starts again.
Restart ==
  /\ status' = [e \in Entries |-> IF e \in Configured THEN "idle" ELSE "absent"]
  /\ kept' = FALSE
  /\ store' = [known |-> {}, value |-> NoFindings,
               pending |-> [k \in Kinds |-> {}]]
  /\ UNCHANGED <<disabled, issues, open>>

-----------------------------------------------------------------------------
(* Fix flows, confirmed by the user *)

\* _enabled_configured_entries: what disabled entries left in the store goes.
Tidied == Purged(Opened, Configured \cap disabled)

\* A seeded fault: the issues are not brought up to date with it.
UntidiedIssues == issues

TidiedIssues ==
  IF Relevant(Opened) \cap Configured \cap disabled # {}
    THEN Synced(Tidied) ELSE issues

\* A seeded fault: only entries that are set up are looked at.
RejectedLoaded ==
  {e \in Enabled : /\ status[e] = "loaded"
                   /\ Tidied.value["authentication_rejected"][e] = "bad"}

Rejected == {e \in Enabled : Tidied.value["authentication_rejected"][e] = "bad"}

\* Reauthentication is started for the enabled entries known to be rejected;
\* when there is none, the issue is taken to be resolved and deleted.
FixAuthentication ==
  /\ "authentication_rejected" \in issues
  /\ Keep(Tidied)
  /\ issues' = TidiedIssues \
                 (IF Rejected = {} THEN {"authentication_rejected"} ELSE {})
  /\ UNCHANGED <<status, disabled, open>>

\* Every enabled entry's certificate is evaluated once more.
Certificates(bad) ==
  [known   |-> Tidied.known \cup Enabled,
   value   |-> [Tidied.value EXCEPT !["certificate_expiring"] =
                  [e \in Entries |->
                    IF e \notin Enabled THEN @[e]
                    ELSE IF e \in bad THEN "bad" ELSE "good"]],
   pending |-> [Tidied.pending EXCEPT !["certificate_expiring"] =
                  @ \ Enabled]]

\* Enabled entries whose certificate expires are reauthenticated; with none, the
\* issue is deleted, a removed entry's too.  Evaluating them one after the other
\* and together comes to the same issues, because no entry's evaluation clears
\* what a later one raises.
FixCertificate ==
  /\ "certificate_expiring" \in issues
  /\ \E bad \in SUBSET Enabled :
       LET s == Certificates(bad)
       IN /\ Keep(s)
          /\ issues' = (IF Enabled = {}
                          THEN TidiedIssues
                          ELSE {k \in Kinds :
                                  \/ Raises(s, k)
                                  \/ k \in TidiedIssues /\ ~Clears(s, k)})
                       \ (IF bad = {} THEN {"certificate_expiring"} ELSE {})
          /\ open' = [open EXCEPT !["certificate_expiring"] =
                        (@ \ Enabled) \cup bad]
  /\ UNCHANGED <<status, disabled>>

-----------------------------------------------------------------------------
Next ==
  \/ \E e \in Entries :
       \/ Add(e) \/ SetUp(e) \/ SetUpFails(e) \/ ForwardFails(e)
       \/ SetUpRejected(e) \/ SetUpSucceeds(e) \/ Update(e)
       \/ Unload(e) \/ UnloadRefused(e) \/ UnloadFails(e)
       \/ Disable(e) \/ DisableIdle(e) \/ Enable(e) \/ Remove(e)
  \/ Restart \/ FixAuthentication \/ FixCertificate

Spec == Init /\ [][Next]_vars

-----------------------------------------------------------------------------
(* Safety *)

\* While the store is kept, an issue some entry is known to have is raised,
\* and one that every relevant entry is known not to have is not.  (A removed
\* entry that would not unload is in the store and not in the fix flow.)
IssuesFollowStore ==
  kept /\ Ghosts = {} =>
    \A k \in Kinds :
      /\ Raises(store, k) => k \in issues
      /\ Relevant(store) # {} /\ Clears(store, k) => k \notin issues

\* The authentication flow finds the issue but no entry in the store that has
\* it: those that do were not evaluated since Home Assistant started.
DeletedUnevaluated(k) ==
  /\ k = "authentication_rejected" /\ FixAuthentication
  /\ \A e \in open[k] : Opened.value[k][e] = "unknown"

\* An issue that is raised, or is found by the step, still stands after it if an
\* enabled entry's last evaluation found it: no report of another entry, reload,
\* failing set-up, restart or fix flow takes it away.  There is one exception,
\* and it is the code's: the authentication flow deletes its issue when it is
\* confirmed before any entry that was rejected is evaluated after a restart.
StandsUntilEvaluated ==
  [][\A k \in Kinds :
       /\ open'[k] # {}
       /\ k \in issues \/ ~(open'[k] \subseteq open[k])
       => k \in issues' \/ DeletedUnevaluated(k)]_vars

\* An entry that was removed is not waited for and holds no issue, unless its
\* platforms would not unload.
RemovedIsForgotten == kept => Relevant(store) \subseteq Configured \cup Ghosts
=============================================================================
