------------------------- MODULE RegistryLocalStore -------------------------
(***************************************************************************)
(* The registry bridge of player.rs: update_registry_local_store fetches   *)
(* the records changed since the registry client's latest version from the *)
(* registry canister (get_changes_since) and write_records_to_local_store  *)
(* sorts them by version, folds them into a changelog of one entry per     *)
(* version and stores entry i at version latest + i.  The registry client  *)
(* picks the new versions up with poll_once, which reads the local store   *)
(* version after version until one is missing.                             *)
(*                                                                         *)
(* The canister's records are the keys mutated at each version; the        *)
(* canister never skips a version (every version has a mutation).  The     *)
(* records arrive in any order (the deltas are grouped by key).  The       *)
(* process may crash between two store calls; on restart the client is     *)
(* rebuilt from the local store.  The genesis bootstrap of new_for_backup  *)
(* is the same function called with version 0 on an empty store.           *)
(***************************************************************************)
EXTENDS Naturals, Sequences, SequencesExt, TLC

CONSTANTS
    Keys,        \* registry keys
    MaxVersion   \* the canister's versions stop here

VARIABLES
    canister,    \* canister[v]: the keys mutated at registry version v
    store,       \* the local store: version |-> keys of its changelog entry
    clientVer,   \* the registry client's get_latest_version()
    pending,     \* the changelog entries still to be stored, in order
    busy         \* update_registry_local_store is writing

vars == <<canister, store, clientVer, pending, busy>>

Record == [version : 1..MaxVersion, key : Keys]

\* get_changes_since(version): every record of a later version.
ChangesSince(v) ==
    {r \in Record : r.version > v /\ r.version <= Len(canister)
                    /\ r.key \in canister[r.version]}

ByVersion(a, b) == a.version < b.version

\* The fold of write_records_to_local_store: a record one version past the
\* entries so far opens a new entry, every record goes into the last entry.
\* (A record at the latest version itself would find no entry and panic on
\* last_mut().unwrap(); get_changes_since never returns one.)
AddRecord(latest, cl, r) ==
    LET opened == IF Len(cl) < r.version - latest THEN Append(cl, {}) ELSE cl
    IN [opened EXCEPT ![Len(opened)] = @ \cup {r.key}]

\* Mutation: the records are folded in the order they arrived.
WriteChangelogUnsorted(latest, records) ==
    FoldLeft(LAMBDA cl, r : AddRecord(latest, cl, r), << >>, records)

\* records.sort_by_key(version), then the fold.
WriteChangelog(latest, records) ==
    FoldLeft(LAMBDA cl, r : AddRecord(latest, cl, r), << >>, SortSeq(records, ByVersion))

\* Mutation: the enumerate index used without its + 1.
StoreCallsOffByOne(latest, cl) ==
    [i \in 1..Len(cl) |-> [version |-> latest + i - 1, keys |-> cl[i]]]

\* The versions the store calls write: entry i at latest + i.
StoreCalls(latest, cl) ==
    [i \in 1..Len(cl) |-> [version |-> latest + i, keys |-> cl[i]]]

\* The reference: one entry per version, holding that version's records.
ReferenceChangelog(latest, records) ==
    LET vs == {records[i].version : i \in 1..Len(records)}
        top == IF vs = {} THEN latest ELSE Max(vs)
    IN [i \in 1..(top - latest) |->
          {records[j].key : j \in {k \in 1..Len(records) : records[k].version = latest + i}}]

\* poll_once: the highest version reachable from v without a missing entry.
RECURSIVE Contiguous(_)
Contiguous(v) == IF v + 1 \in DOMAIN store THEN Contiguous(v + 1) ELSE v

-----------------------------------------------------------------------------

Init ==
    /\ canister \in {<<e>> : e \in SUBSET Keys \ {{}}}
    /\ store = << >>
    /\ clientVer = 0
    /\ pending = << >>
    /\ busy = FALSE

\* Execution of the replayed registry canister creates a new version.
CanisterMutates ==
    /\ Len(canister) < MaxVersion
    /\ \E e \in SUBSET Keys \ {{}} : canister' = Append(canister, e)
    /\ UNCHANGED <<store, clientVer, pending, busy>>

\* update_registry_local_store: fetch since the client's version, build the
\* changelog.  The records come in any order.
UpdateLocalStore ==
    /\ ~busy
    /\ \E records \in SetToSeqs(ChangesSince(clientVer)) :
         pending' = StoreCalls(clientVer, WriteChangelog(clientVer, records))
    /\ busy' = TRUE
    /\ UNCHANGED <<canister, store, clientVer>>

\* Mutation: the changelog stored newest entry first.
StoreEntryLastFirst ==
    /\ busy
    /\ pending # << >>
    /\ store' = (Last(pending).version :> Last(pending).keys) @@ store
    /\ pending' = Front(pending)
    /\ UNCHANGED <<canister, clientVer, busy>>

\* local_store.store(v, entry), one version at a time; try_for_each stops
\* at the first failure and the expect panics (a crash, below).
StoreEntry ==
    /\ busy
    /\ pending # << >>
    /\ store' = (Head(pending).version :> Head(pending).keys) @@ store
    /\ pending' = Tail(pending)
    /\ UNCHANGED <<canister, clientVer, busy>>

StoreDone ==
    /\ busy
    /\ pending = << >>
    /\ busy' = FALSE
    /\ UNCHANGED <<canister, store, clientVer, pending>>

\* registry.poll_once()
PollOnce ==
    /\ ~busy
    /\ clientVer' = Contiguous(clientVer)
    /\ UNCHANGED <<canister, store, pending, busy>>

\* The process dies while writing; a new one rebuilds its client from disk.
Crash ==
    /\ busy
    /\ pending' = << >>
    /\ busy' = FALSE
    /\ clientVer' = Contiguous(0)
    /\ UNCHANGED <<canister, store>>

Next ==
    \/ CanisterMutates \/ UpdateLocalStore \/ StoreEntry \/ StoreDone
    \/ PollOnce \/ Crash

Spec == Init /\ [][Next]_vars

-----------------------------------------------------------------------------
(* Properties.                                                             *)

TypeOK ==
    /\ canister \in Seq(SUBSET Keys) /\ Len(canister) <= MaxVersion
    /\ DOMAIN store \subseteq 1..MaxVersion
    /\ \A v \in DOMAIN store : store[v] \subseteq Keys
    /\ clientVer \in 0..MaxVersion
    /\ busy \in BOOLEAN

\* The local store is always a gap-free prefix of the canister's history:
\* versions 1..n are stored, each with exactly the records of that
\* version, whatever order get_changes_since returned them in and wherever
\* a crash cut the writing off.  This is what poll_once relies on.
StoreIsCanisterPrefix ==
    /\ DOMAIN store = 1..Contiguous(0)
    /\ \A v \in DOMAIN store : v <= Len(canister) /\ store[v] = canister[v]

\* write_records_to_local_store agrees with the reference changelog on
\* every input get_changes_since can produce, in every order.
ChangelogMatchesReference ==
    \A v \in 0..Len(canister) :
        \A records \in SetToSeqs(ChangesSince(v)) :
            WriteChangelog(v, records) = ReferenceChangelog(v, records)

=============================================================================
