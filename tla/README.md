# TLA+ models of ic-replay's Player

This directory holds TLA+ models of `src/rs/replay/src/player.rs`, the replay
and recovery engine of the Internet Computer's `ic-replay` tool, and the TLC
configurations that check them. `PROJECT.json` lists the components, the runs,
the mutants, the map from every modelled definition to its source lines, the
findings and the hazards.

## 1. The system

`Player` is a single thread. Everything asynchronous happens in collaborators
that run their own workers:

| Component | State it keeps | Operations (player.rs) |
|---|---|---|
| State Hash Waiter | none of its own; reads the state manager | `wait_for_state` (415-439), `get_state_hash` (959-981) |
| Batch Delivery Loop | none; message routing keeps the expected batch height | `deliver_batches` (478-511), `deliver_extra_batch` (513-583) |
| Checkpoint Verifier | reads the pool's cached CUP | `verify_latest_cup` (841-900), `get_latest_cup` (830-837) |
| Registry Bridge | the on-disk registry local store, the registry client's cached version | `update_registry_local_store` (462-475), `get_changes_since` (658-685), `write_records_to_local_store` (903-936), the read-only queries (587-721) |
| Backup Restorer | the temporary consensus pool fed from the backup spool | `restore` (724-806), `assert_consistency_and_clean_up` (811-828) |
| Player | consensus pool and certification pool (both optional), registry client, replica version, `replay_target_height` | `new`, `new_for_backup`, `new_with_params` (111-329), `replay` (346-412), `get_latest_state_height_and_hash` (443-458) |

Collaborators outside `src/` (spec.md section 6): message routing
(`expected_batch_height`, `deliver_batch` into a bounded channel drained by
the execution thread), the state manager (`latest_state_height`,
`get_state_hash_at` with transient and permanent errors, `remove_states_below`,
`deliver_state_certification`), consensus' `deliver_batches`, the backup
module (`deserialize_consensus_artifacts` and its exit points), the registry
client and the registry canister reached through the query handler.

How they interact: the player calls message routing to enqueue batches; the
execution thread executes them and commits states; a hashing worker computes
the full hash of checkpoint states later. The player learns about progress
only by polling (`WAIT_DURATION`, 500 ms, no deadline). In restore, the backup
module fills the pool and reports an exit point; the player reacts by
inserting a CUP and purging, by fetching registry records from the replayed
registry canister into the local store, or by pruning states.

What is hard:
- the poll loops against the execution and hashing workers, and the
  `assert_eq!` after them (interleaving, liveness);
- `QueueIsFull` back-pressure in the middle of a delivery run (retry);
- the clamping of the delivery ceiling to `min(finalized, target)` and the
  extra batch one height past it (numeric edges);
- which hashes get compared: the CUP only when it is not below the state,
  certifications only for states the state manager still holds (divergence detection);
- the order of steps: wait before prune, verify before purge, target check
  before exit-point handling (ordering);
- in restore, exit points that depend on what the backup, the registry and the
  state manager have reached (protocol sequence), and the registry changelog
  fold, which numbers entries by position and is right only because the
  canister's versions have no gaps (numeric edge); a crash between two
  `store` calls (crash recovery).

What makes each correct:
- Delivery: batches go out one per height, ascending, never past the clamped
  ceiling; the returned height is the last one delivered.
- Waiter: it returns only when the state is exactly at the height waited for.
- Verifier: `StateDivergence` exactly when a compared hash differs; genesis
  accepted unchecked; no purge before a successful verification.
- Replay: returns `Ok` only with the state at its goal and with every compared
  hash agreeing; panics only for causes outside the player.
- Restore: terminates at `Done` or at the target; every CUP it inserts is
  verified before anything below it is purged; the registry never goes back.
- Registry bridge: N consecutive versions produce N changelog entries in
  order, each record stored at its own version.

## 2. Modules

| Module | Models | Key correspondence |
|---|---|---|
| `Execution` | message routing and state manager (spec-modelled) | `queue` is the batch channel, `lastSeen + 1` is `expected_batch_height`, `stateHeight` is `latest_state_height`, `checkpointed`/`hashed` decide `get_state_hash_at`'s answer (`HashResult`), `ExecuteBatch` and `ComputeHash` are the two workers |
| `Player` (EXTENDS Execution) | the shared procedures of player.rs | `pc` is the player's position; procedures called from several places (`DeliverBatches`, `WaitForState`, `LatestState`, `VerifyCup`) return through `stack`; `verdict`, `lastBatch`, `params` are their return values; `sigVerifies` is the outcome of the CUP signature check (the CUP heights whose signature verifies under the registry versions the client knows) |
| `Replay` (EXTENDS Player) | `Player::replay` | one action per step of `replay` and `deliver_extra_batch` |
| `ReplayContract` | what replay promises | abstract: the state height moves one step at a time to a goal, `ok` only there, and the call ends |
| `MCReplay` | TLC instance of Replay | bounds below |
| `Restore` (EXTENDS Player) | `Player::restore`, `assert_consistency_and_clean_up`, and `new_for_backup` as its initial states | the archive (`certOf`, `regOf` per block, a CUP at every summary height) and the replayed registry canister's versions per state height (`versionsAt`) are chosen in `Init` and frozen; `Ingest` is the backup module's `deserialize_consensus_artifacts` (spec-modelled, a RECURSIVE operator returning the exit point and the last ingested height, which becomes the pool's finalized height); one action per step of the loop (`RestoreIngest`, `RestoreDelivered`, `TargetCheck`) and per exit point (`On<ExitPoint>`), `CleanUp`/`Purge` for `assert_consistency_and_clean_up`; `clientVer` is the registry client's version, `purgedBelow` the pool's purge height |
| `MCRestore` | TLC instance of Restore | bounds below |
| `MCReplayLarge`, `MCRestoreLarge` | larger TLC instances | bounds below |
| `RestoreRegistry` (EXTENDS Restore) | restore composed with the registry bridge | `Reg` is an INSTANCE of `RegistryLocalStore` whose canister is the replayed registry canister in the latest state (`CanisterAt(stateHeight)`, a prefix of the constant `CanisterHistory`); the exit point NewerRegistryVersion becomes `UpdateRegistryLocalStore`, `StoreChangelogEntry`/`StoreChangelogDone`, `RegistryPollOnce`, `RegistryAssert`; `Abstract` is Restore under a mapping that keeps the player at the exit point and the client at `latest_version` while the bridge runs |
| `MCRestoreRegistry` | TLC instance of RestoreRegistry | bounds below |
| `RestoreRestart` (EXTENDS Restore) | a crash or return of the ic-replay process and a rerun: `new_for_backup` then `restore` | `Restart` keeps what is on disk (the checkpoints not removed, and always the latest one: `PersistedCheckpoints`; the removal height; the registry local store, hence `clientVer`; the archive) and rebuilds the rest: the state manager reloads the latest checkpoint (`LoadedHeight`, spec-modelled) with its manifest to be computed again, the batch channel is empty, the pool holds only the CUP at a new `start` of the operator's choice, with a new target; at genesis the store is bootstrapped again. History variables: `restarts` (bounded by `MaxRestarts`), `origin` (the first start height), `resumedAt` (the state height the current process found on disk) |
| `MCRestoreRestart` | TLC instance of RestoreRestart | bounds below |
| `RegistryLocalStore` | the registry bridge | `canister[v]` is the set of keys the replayed registry canister mutated at version v; `ChangesSince` is `get_changes_since`; `WriteChangelog` is the sort and fold of `write_records_to_local_store` (the fold step is `AddRecord`, over SequencesExt's `FoldLeft`), `StoreCalls` its enumerate; `store` is the on-disk local store, `clientVer` the registry client's latest version, `pending` the `store` calls still to make; `Contiguous` is what `poll_once` reads (spec-modelled: the registry client is not under src/) |

Conventions:
- A poll loop (sleep and retry) is an action whose guard is the polled
  condition; while it is false the player takes no step. The delivery loop's
  `QueueIsFull` backoff is a real control path (the consensus call returns an
  error and is called again) and has its own actions.
- A panic (`panic!`, `expect`, `assert!`, `unreachable!`) moves the player to
  `Panicked` and records the reason in `result`. The workers stop with the
  process.
- Hashes are values: `NetHash(h)` is what the subnet attested for height h
  (CUPs, certifications); the replaying node computes the same value below
  `divergedFrom` and a different one from there on.
- The environment's configuration (pool present, finalized height, CUP
  height, certified heights, target, divergence, whether the closure returns
  messages, whether the start checkpoint's hash is computed) is chosen in
  `Init` and never changes, so one run covers all combinations.

## 3. Runs

### `replay` (MCReplay.cfg, expect pass)
Bounds: finalized heights 0..3, DKG summaries (checkpoints) at 0 and 2, a
batch channel with one slot, divergence from height 1, 2 or never, targets
1 (below some finalized heights) and 3 (above them), certified heights any
subset of 1..finalized. One slot is enough to make `QueueIsFull` happen after
every accepted batch; three finalized heights give runs that cross a
checkpoint, stop below the tip, start above the tip, and put the extra batch
on a checkpoint or not. The pool's CUP may fail its signature check (a
corrupted pool, or a local store without the CUP's registry version).
About 55,000 distinct states, ten seconds.

Properties:
- `ReplayImplementsContract`: replay refines `ReplayContract` under the
  mapping height = `latest_state_height`, goal = max(start, min(finalized,
  target)) plus one for an extra batch, status from `result`. This checks the
  clamp, the height `deliver_batches` returns, that `wait_for_state` waits
  for exactly that height, and (through the contract's fairness) that replay
  ends.
- `ReplayDetectsDivergence`: an `Ok` result implies agreement at the CUP
  (unless genesis or below the start state) and at the height replay
  replayed to, if it is certified. `deliver_state_certification` can only
  compare a certification with a state the state manager holds (`Held`:
  from the start checkpoint to the latest state, less what
  `remove_states_below` removed), so after the prune that is the last
  delivered height alone. A certification below the start state is never
  compared: from a start state at 2 with the CUP at 0 and height 1
  certified and diverged, replay returns `Ok`, as the code does. The
  mutant that prunes without waiting (the redelivery then finds no state)
  is caught.
- `PanicsHaveExternalCause`: each reachable panic has its external cause (a
  CUP that fails its signature check, a CUP above the state, no pool at the
  empty genesis state, a diverged certified height); the `assert_eq!` of
  `wait_for_state` never fires, whatever the execution lag and however
  often the channel is full.
- `PruneOnlyCommitted`: `remove_states_below` never goes above the committed
  state height.

### `registry_local_store` (MCRegistryLocalStore.cfg, expect pass)
Bounds: two registry keys, up to three canister versions (each a nonempty
set of mutated keys), the records of `get_changes_since` in every order (up
to 720 permutations of six records). Three versions let an update write
several entries, let a crash cut it after the first, and let the canister
grow between two updates. The store starts empty and the client at version
0, which is also the genesis bootstrap of `new_for_backup`. About 1,400
distinct states, a few seconds.

Properties:
- `StoreIsCanisterPrefix`: the local store holds versions 1..n and nothing
  else, each with exactly the keys of that canister version, after any
  sequence of updates, polls, canister mutations and crashes.
- `ChangelogMatchesReference`: for every version the client can be at and
  every order of the records above it, the sort-and-fold gives one entry per
  version with exactly that version's records (the reference builds entry i
  directly from the records of version latest + i).

The fold numbers entries by position (`cl.len() < rel_version` pushes at
most one entry per record), so a version with no records would shift all
later records down by one. The registry canister has no such versions, so
the model generates none; the property shows that the fold is correct on
everything it can be given.

### `restore` (MCRestore.cfg, expect pass)
Bounds: an archive of blocks 1..3 with CUPs at 0 and 2 (start at either),
every non-decreasing assignment of certified heights (each below its block)
and of two registry versions to the blocks and to the canister's states,
targets 1 and 2 or none, divergence from 1, 2 or never, an upgrade at a
summary height or none, a one-slot channel. Three blocks are the fewest in
which every exit point occurs, a CUP lies inside the archive, a block is
certified at a height ingested in the same call (StateBehind), a target
falls before the CUP and a target falls on it. About 93,000 distinct
states, fifteen seconds.

The registry bridge enters through its guarantee: an update followed by
`poll_once` brings the client to the canister's latest version in the
latest state (`registry_local_store` checks that the local store is a
gap-free prefix of the canister's versions).

Properties:
- `RestoreImplementsContract`: restore refines `ReplayContract` with goal =
  max(start, min(target, end of archive)): the state advances one height at
  a time to the goal, `Ok` only there, errors and panics allowed, and
  restore ends (contract fairness). Covers the target check placed before
  the exit point, progress of every exit point, the ceiling passed to
  `deliver_batches`.
- `PurgeOnlyAtAgreedCup`: the pool and the states are purged below a CUP
  only if the state restored at the CUP's height has the CUP's hash and no
  upgrade is recorded there.
- `RestorePanicsHaveExternalCause`: restore panics only with
  `RegistryNotUpdated`, and only when the block that needed the newer
  version referenced one the canister did not hold at the block's certified
  height, or with `CupSignatureInvalid` for the start CUP when the local
  store lacks its registry version. The StateBehind assertion, the waiter's
  `assert_eq!` and `get_state_hash` never fail (the exit point is acted on
  after the wait), and no CUP inserted on the way fails its signature
  check: its block was ingested only once its registry version was known.
- `RestoreOkAgreesWithCups`: when restore returns `Ok`, every archived CUP
  above the start and at or below the restored state agrees with it (same
  hash, no upgrade), except a CUP exactly at the target: restore stops on
  `last_batch_height >= target` before acting on that exit point, so the
  CUP there is never inserted or checked. Breaks if
  `assert_consistency_and_clean_up` accepted a diverged CUP.

### `replay_large` (MCReplayLarge.cfg, expect pass)
The replay run's properties except the type invariant on a larger instance:
finalized heights 0..4 in three DKG intervals (summaries 0, 2, 4), a
two-slot channel, divergence from 1, 2, 4 or never. Two slots let
`QueueIsFull` come after two accepted batches and let the executor lag two
heights behind `wait_for_state`; three intervals put a second checkpoint
between start and tip. About 395,000 distinct states, half a minute.

### `restore_large` (MCRestoreLarge.cfg, expect pass)
The restore run's properties except the type invariant over every archive of
four blocks with CUPs at 0, 2 and 4 and a two-slot channel, targets 2 (on a
CUP) and 3 (between CUPs). One restore call now inserts, verifies and purges
at two successive CUPs, with NewerRegistryVersion and StateBehind exits
between them. About 1.1 million distinct states, under two minutes.

### `restore_registry` (MCRestoreRegistry.cfg, expect pass)
Restore with the registry bridge composed in, checked to implement Restore
(`ComposedImplementsRestore`, Restore's whole specification with its
fairness, under the refinement mapping of `RestoreRegistry`). This replaces
the assumption behind restore's atomic registry step with the code that
provides it: `update_registry_local_store` with the records of several
versions in every order, the changelog stored one version at a time,
`poll_once`, then the assert. The client's new version is exactly the newest
version the canister holds in the latest state, the signature check learns
the new keys at `poll_once`, and restore's progress is unaffected.

Bounds: the archive of `restore` (blocks 1..3, CUPs at 0 and 2, one-slot
channel) with divergence from 2 or never and target 2 or none; a canister
history of three versions mutating {k1}, {k1, k2}, {k2}, so that one update
fetches two records of version 2 and one of version 3 in any of six orders.
About 390,000 distinct states, about a minute. The `WriteChangelog` mutant
that folds the records unsorted is caught as a refinement violation.

### `restore_restart` (MCRestoreRestart.cfg, expect pass)
Restore under crashes and reruns: at any step, or after it returned, the
process may be killed and started again from any CUP with any target (at
most twice). Checks:
- `ResumedOkAgreesWithCups`: an `Ok` result agrees with every archived CUP
  above the first start height and at or below the returned state (a CUP
  exactly at the target and the state excepted), whenever the rerun's target
  is not below the state it found on disk. It holds because within one run
  the state never passes a CUP before `assert_consistency_and_clean_up`
  checks it (except at the target, where the state stops), so the state on
  disk is never above an unchecked CUP, and `verify_latest_cup` compares a
  CUP exactly at the state. The mutant that also skips the comparison at the
  state height (`<=` for `<`) is caught.
- `RestartPanicsHaveExternalCause`: a rerun panics only for the causes of a
  single run or because its start height lies above the state on disk (the
  pool's CUP then has no state to be compared with).
Bounds: the archive of `restore` (blocks 1..3, CUPs at 0 and 2), two
reruns, so that a run can crash between delivering to a CUP and checking
it, and the next one resume with another start and target. About 1.4
million distinct states, half a minute.

### `restore_restart_genesis` (MCRestoreRestartGenesis.cfg, expect violation)
Checks `GenesisRerunChecksEveryCup`, what the comment in `new_for_backup`
says of a start from genesis ("clean up the execution state before"): a
rerun from genesis replays from the empty state and so checks every CUP.
The code only bootstraps the registry store. TLC: the first run, from 0
without a target, delivers heights 1 and 2 (CUP 2 ingested), and the
process dies before the CUP is checked; the rerun from 0 with target 1
finds the state at 2 on disk, has nothing to deliver, passes the target
check at once and returns `Ok` at height 2, a state that diverged from
height 1 and was never compared with CUP 2. See `findings`.

### `restore_returned_height` (MCRestore_RestoreReturnsReachedHeight.cfg, expect violation)
spec.md 8: a restore over a CUP at 0 and K heights returns height K. The
code returns `get_latest_state_height_and_hash`, which falls back to the
latest CUP's height and hash when the reached state is not a checkpoint.
TLC returns height 0 with the state at height 1.

### `restore_prune` (MCRestore_RestorePrunesDelivered.cfg, expect violation)
spec.md 8: after replay or restore returns, no state below the last
delivered height is retained. Restore prunes only at CUPs and at
StateBehind, never after the final wait. TLC returns `Ok` after delivering
height 1 with nothing pruned.

### `replay_extra_batch` (MCReplayExtraBatch.cfg, expect violation)
Checks `ExtraBatchBeyondFinalized`, the claim of spec.md 4.2 that the extra
batch is one synthetic batch beyond the last finalized height.
`deliver_extra_batch` numbers it `expected_batch_height()` of message
routing, while its registry version, time and randomness come from the
finalized tip. When `replay_target_height` is below the finalized height,
delivery stops early and the extra batch takes the number of a finalized
block that was never delivered: TLC starts from the state at 2 (the pool's CUP at 0) with height 3
finalized and target 1, delivers nothing, and the extra batch gets height 3.

### `replay_cert_order` (MCReplayCertOrder.cfg, expect violation)
Checks `CertificationsAscending`, the claim of spec.md 4.6 and 5 that
certifications are redelivered in ascending height order. The code iterates
`certified_heights()`, a `HashSet<Height>`, so the order is unspecified; TLC
finds a run that redelivers height 2 before height 1. See `findings`.

## 4. Fairness

The player thread is never descheduled for good: `WF` on all its steps. The
execution thread and the hashing worker belong to collaborators whose
liveness the code relies on (spec.md 5: the poll loops have no deadline and
depend on "external liveness of the collaborator services"): `WF` on
`ExecuteBatch` and on `ComputeHash`. No fairness is assumed for anything the
code does not wait for.

`RestoreRestart` puts no fairness on `Restart`: a crash is never forced.
Within a process the fairness is restore's.

The registry run checks safety only and assumes no fairness: a crash may
recur for ever, so catching up is not something the code guarantees.

Restore uses the same fairness as replay: the same player thread and the
same workers. `RestoreRegistry` keeps it: the bridge's steps are steps of
the player thread (`WF` on all of them), and the store calls and the poll
block on nothing.

`CHECK_DEADLOCK FALSE` in the replay and restore configs: replay really returns (or
panics) and the process ends. A poll loop stuck for ever would show as a
violation of the contract's liveness, not as a deadlock.

## 5. Not modelled, and why

- The cryptography of the CUP's threshold signature check: only its outcome
  is modelled (`sigVerifies`). In restore the archive's signatures are taken
  as genuine, so the check fails only for want of the CUP block's registry
  version (`SignedUnder`).
- The registry-version query at the end of replay, `get_blessed_replica_versions`,
  `get_subnet_record`: read-only, print only.
- Consensus' `deliver_batches` stopping early for a missing random tape or a
  replica-version change inside the delivered range: spec.md does not give
  this behaviour; the model delivers every finalized height up to the ceiling.
- The extra batch's `QueueIsFull` retry: modelled as a wait for room; the
  channel is always empty at that point (drained by the preceding
  `wait_for_state`, or never filled without a pool), so the retry never runs.
- The backup module (`deserialize_consensus_artifacts`, `insert_cup_at_height`,
  `heights_to_artifacts_metadata`): not under `src/`; its exit-point
  classification is modelled from spec.md 4.5 and 6 as `Ingest`. The order
  of its checks within one block (registry version, then certified height,
  then CUP) is an assumption of the model. File-scanning failures panic and
  are I/O.
- In `Restore` the registry local store is not instantiated: its guarantee
  is used, which keeps the state space small. `RestoreRegistry` composes
  the two and shows the guarantee holds. A crash between two store calls
  ends restore and is checked only in `registry_local_store`.
- Crashes of `replay` (the live mode): it writes nothing the player reads
  back except states, and a rerun is a new `replay` from the states on disk,
  which the initial states of `Replay` already cover.
- In `RestoreRestart`, the state manager's recovery is reduced to loading
  its latest persisted checkpoint; a torn checkpoint is the state manager's
  concern (out of scope in spec.md 1). Crashes inside the registry bridge
  are checked in `registry_local_store`, not combined with reruns.
- Logging, metrics, configuration, temporary directories.

## 6. Plan

Order (most important behaviour first):
1. **Done (sitting 1)**: `Execution`, `Player`, `Replay`, `ReplayContract`,
   `MCReplay`; runs `replay` and `replay_cert_order`.
2. **Done (sitting 1)**: `RegistryLocalStore` with run
   `registry_local_store`. (No violation run for a version gap: the canister
   cannot produce one.)
3. **Done (sitting 2)**: `Restore` (restore loop, all four exit points,
   `assert_consistency_and_clean_up`, target check) refining
   `ReplayContract`; runs `restore`, `restore_returned_height`,
   `restore_prune`. The registry bridge enters through its checked
   guarantee rather than an INSTANCE of `RegistryLocalStore`.
4. **Done (sitting 2)**: `new_for_backup`, including the genesis bootstrap,
   as `Restore`'s initial states.
5. **Done (sitting 3)**: `RestoreOkAgreesWithCups` (target on a CUP
   added to the restore bounds) and the `replay_extra_batch` finding.
6. **Done (sitting 3)**: larger instances `replay_large` and
   `restore_large` (channel of two slots, four heights, three DKG
   intervals); the CUP signature check in `verify_latest_cup`.
7. **Done (sitting 3)**: `RestoreRegistry`, restore with the registry store
   composed in, refining `Restore`; run `restore_registry`.
8. **Done (sitting 4)**: `RestoreRestart`, restore killed and rerun from
   the state, store and archive left on disk; runs `restore_restart` and
   `restore_restart_genesis`.
