-------------------------- MODULE RestoreRegistry --------------------------
(***************************************************************************)
(* Restore composed with the registry bridge.  In Restore the exit point   *)
(* NewerRegistryVersion is one atomic step that brings the registry client *)
(* to the version the replayed registry canister holds in the latest       *)
(* state.  Here it runs the bridge itself, as the code does:               *)
(* update_registry_local_store reads the client's latest version, queries  *)
(* get_changes_since against the latest state, sorts and folds the records *)
(* into a changelog and stores it one version at a time; then poll_once,   *)
(* then the assert.  The bridge's steps are those of RegistryLocalStore,   *)
(* instantiated with the canister the latest state holds.                  *)
(*                                                                         *)
(* The canister's history is a constant: CanisterHistory[v] is the set of  *)
(* keys version v mutated; the state at height h holds its first           *)
(* versionsAt[h] versions.  The local store starts as the prefix of that   *)
(* history the client was polled from.                                     *)
(*                                                                         *)
(* The composition is shown to implement Restore: while the bridge runs,   *)
(* the player is, abstractly, still at the exit point and the client       *)
(* still at the version it had.                                            *)
(***************************************************************************)
EXTENDS Restore

CONSTANTS
    Keys,            \* registry keys
    CanisterHistory  \* the replayed registry canister's versions, in order

VARIABLES
    store,           \* the registry local store on disk: version |-> keys
    pending,         \* the changelog entries still to be stored
    busy,            \* write_records_to_local_store is storing
    latestVersion    \* update_registry_local_store's latest_version

regVars == <<store, pending, busy, latestVersion>>
allVars == <<vars, regVars>>

\* The replayed registry canister in the state get_changes_since queries:
\* get_latest_state(), the state at latest_state_height.
CanisterAt(h) == SubSeq(CanisterHistory, 1, versionsAt[h])

Reg == INSTANCE RegistryLocalStore
         WITH canister <- CanisterAt(stateHeight), MaxVersion <- Len(CanisterHistory)

RegistryPcs == {"StoreChangelog", "PollRegistry", "RegistryAssert"}

\* new_for_backup: the client is polled once from the local store, which
\* holds a prefix of the canister's history (all of the genesis registry
\* after the bootstrap at start height 0).
ComposedInit ==
    /\ Init
    /\ store = [v \in 1..clientVer |-> CanisterHistory[v]]
    /\ pending = << >>
    /\ busy = FALSE
    /\ latestVersion = 0

-----------------------------------------------------------------------------
(* NewerRegistryVersion, step by step.                                     *)

\* update_registry_local_store: latest_version = get_latest_version(), the
\* records since it, the sorted and folded changelog.
UpdateRegistryLocalStore ==
    /\ pc = "OnNewerRegistryVersion"
    /\ latestVersion' = clientVer
    /\ pc' = "StoreChangelog"
    /\ UNCHANGED <<stack, waitH, deliverCeil, lastBatch, verdict, params, result>>
    /\ UNCHANGED <<execVars, poolVars, restoreVars>>
    /\ Reg!UpdateLocalStore

\* local_store.store(v, entry) for the next changelog entry.
StoreChangelogEntry ==
    /\ pc = "StoreChangelog"
    /\ UNCHANGED <<latestVersion, execVars, poolVars, playerVars, restoreVars>>
    /\ Reg!StoreEntry

StoreChangelogDone ==
    /\ pc = "StoreChangelog"
    /\ pc' = "PollRegistry"
    /\ UNCHANGED <<stack, waitH, deliverCeil, lastBatch, verdict, params, result>>
    /\ UNCHANGED <<latestVersion, execVars, poolVars, restoreVars>>
    /\ Reg!StoreDone

\* registry.poll_once(): the client learns the stored versions, and with
\* them the keys that verify the CUPs of those versions.
RegistryPollOnce ==
    /\ pc = "PollRegistry"
    /\ pc' = "RegistryAssert"
    /\ UNCHANGED <<stack, waitH, deliverCeil, lastBatch, verdict, params, result>>
    /\ UNCHANGED <<latestVersion, execVars>>
    /\ UNCHANGED <<start, certOf, regOf, versionsAt, exit, purgedBelow>>
    /\ UNCHANGED <<hasPool, finalized, cupHeight, divergedFrom, upgradeAt, target>>
    /\ Reg!PollOnce
    /\ sigVerifies' = SignedUnder(clientVer')

\* assert!(get_latest_version() >= new_version).
RegistryAssert ==
    /\ pc = "RegistryAssert"
    /\ IF clientVer >= exit.arg
       THEN pc' = "Deserialize" /\ UNCHANGED result
       ELSE Panic("RegistryNotUpdated")
    /\ UNCHANGED <<stack, waitH, deliverCeil, lastBatch, verdict, params>>
    /\ UNCHANGED <<regVars, execVars, poolVars, restoreVars>>

-----------------------------------------------------------------------------

\* Restore's steps, except that NewerRegistryVersion is the bridge above.
ComposedPlayerStep ==
    \/ PlayerStep /\ pc # "OnNewerRegistryVersion" /\ UNCHANGED regVars
    \/ UpdateRegistryLocalStore \/ StoreChangelogEntry \/ StoreChangelogDone
    \/ RegistryPollOnce \/ RegistryAssert

ComposedWorkerStep == WorkerStep /\ UNCHANGED regVars

ComposedNext == ComposedPlayerStep \/ ComposedWorkerStep

ComposedFairness ==
    /\ WF_allVars(ComposedPlayerStep)
    /\ WF_allVars(ExecuteBatch /\ Working /\ UNCHANGED regVars)
    /\ WF_allVars(ComputeHash /\ Working /\ UNCHANGED regVars)

ComposedSpec == ComposedInit /\ [][ComposedNext]_allVars /\ ComposedFairness

-----------------------------------------------------------------------------
(* Properties.                                                             *)

ComposedTypeOK ==
    /\ TypeOK
    /\ DOMAIN store \subseteq 1..Len(CanisterHistory)
    /\ \A v \in DOMAIN store : store[v] \subseteq Keys
    /\ busy \in BOOLEAN
    /\ latestVersion \in {0} \cup Versions

\* The refinement mapping: while the bridge runs, restore is at the exit
\* point and the client at latest_version.
AbsPc == IF pc \in RegistryPcs THEN "OnNewerRegistryVersion" ELSE pc
AbsClientVer == IF pc \in RegistryPcs THEN latestVersion ELSE clientVer
AbsSigVerifies == IF pc \in RegistryPcs THEN SignedUnder(latestVersion) ELSE sigVerifies

Abstract == INSTANCE Restore
              WITH pc <- AbsPc, clientVer <- AbsClientVer, sigVerifies <- AbsSigVerifies

\* Restore with the real registry bridge implements Restore with the atomic
\* registry step: update_registry_local_store, whatever order
\* get_changes_since returns the records in, followed by poll_once, brings
\* the client exactly to the newest version the canister holds in the
\* latest state (or keeps it where it was), and restore's every other step
\* and its progress are unaffected.
ComposedImplementsRestore == Abstract!Spec

=============================================================================
