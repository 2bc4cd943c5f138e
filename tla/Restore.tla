------------------------------ MODULE Restore ------------------------------
(***************************************************************************)
(* Player::restore (player.rs), the backup mode of ic-replay: verify the   *)
(* CUP the pool was built from, then loop: ingest archived artifacts into  *)
(* the pool until the backup module reports an exit point, deliver the     *)
(* batches now finalized, wait for their state, return if the target is    *)
(* reached, and otherwise act on the exit point: insert and check a new    *)
(* CUP and purge below it (assert_consistency_and_clean_up), bring the     *)
(* registry local store up to a newer version, prune below a certified     *)
(* height, or return at the end of the archive.                            *)
(*                                                                         *)
(* The archive is the environment, chosen in Init and frozen: block h      *)
(* (1..MaxHeight) carries the certified height certOf[h] < h and the       *)
(* registry version regOf[h] of its context, both non-decreasing in h; a   *)
(* CUP is archived at every summary height.  versionsAt[h] is the highest  *)
(* registry version the replayed registry canister holds in the state at   *)
(* height h.  The registry bridge is used through what run                *)
(* registry_local_store checks of it: an update followed by poll_once      *)
(* brings the client to the canister's latest version in the latest state. *)
(***************************************************************************)
EXTENDS Player, Sequences

CONSTANTS
    DivergenceHeights,  \* choices for the first height whose local state differs
    TargetHeights,      \* choices for replay_target_height other than None
    Versions            \* registry versions 1..n

VARIABLES
    start,        \* start_height of restore (and of new_for_backup)
    certOf,       \* archive: certified height in the context of block h
    regOf,        \* archive: registry version in the context of block h
    versionsAt,   \* the replayed registry canister's latest version at state height h
    clientVer,    \* the registry client's get_latest_version()
    exit,         \* the exit point deserialize_consensus_artifacts returned last
    purgedBelow   \* the consensus pool's validated artifacts are purged below this

restoreVars == <<start, certOf, regOf, versionsAt, clientVer, exit, purgedBelow>>
vars == <<execVars, poolVars, playerVars, restoreVars>>

Terminated == pc \in {"Done", "Panicked"}

Blocks == 1..MaxHeight

NonDecreasing(f) == \A a, b \in DOMAIN f : a <= b => f[a] <= f[b]

ExitKinds == {"CUPHeightWasFinalized", "NewerRegistryVersion", "StateBehind", "Done"}

\* arg: the CUP height, the newer version or the certified height; at: the
\* block the backup module stopped at; upto: the last height it ingested.
ExitPoint(kind, arg, at, upto) == [kind |-> kind, arg |-> arg, at |-> at, upto |-> upto]

(***************************************************************************)
(* backup::deserialize_consensus_artifacts, from the last ingested height  *)
(* h: the next block is not ingested if its registry version is unknown to *)
(* the client or it is certified above the state height read before the   *)
(* call; it is ingested otherwise, and a CUP not yet in the pool stops the  *)
(* ingestion right after its height.  The backup module is not under src/; *)
(* this follows spec.md 4.5 and 6.                                         *)
(***************************************************************************)
RECURSIVE Ingest(_, _)
Ingest(h, stateH) ==
    LET n == h + 1 IN
    CASE n > MaxHeight        -> ExitPoint("Done", 0, n, h)
      [] regOf[n] > clientVer -> ExitPoint("NewerRegistryVersion", regOf[n], n, h)
      [] certOf[n] > stateH   -> ExitPoint("StateBehind", certOf[n], n, h)
      [] n \in Summaries /\ n > cupHeight
                              -> ExitPoint("CUPHeightWasFinalized", n, n, n)
      [] OTHER                -> Ingest(n, stateH)

\* The CUPs whose signature verify_combined_threshold_sig_by_public_key
\* accepts when the client knows registry versions up to v: the archive's
\* signatures are genuine, the check needs the CUP block's registry version.
SignedUnder(v) == {s \in Summaries : s = 0 \/ regOf[s] <= v}

-----------------------------------------------------------------------------
(* new_for_backup: a fresh pool holding only the CUP read at start_height,  *)
(* the state manager at the checkpoint of that height (the empty state at  *)
(* genesis), the registry client polled once from the local store, which  *)
(* holds some prefix of the versions the start state's canister has (all  *)
(* of them after the genesis bootstrap).                                   *)

Init ==
    /\ start \in Summaries
    /\ queue = << >>
    /\ lastSeen = start
    /\ stateHeight = start
    /\ checkpointed = {start} \ {0}
    /\ hashed \in {{}, checkpointed}
    /\ removedBelow = 0
    /\ delivered = << >>
    /\ replied = FALSE
    /\ hasPool = TRUE
    /\ finalized = start
    /\ cupHeight = start
    /\ upgradeAt \in {{}} \cup {{s} : s \in Summaries}
    /\ divergedFrom \in DivergenceHeights
    /\ target \in {NoTarget} \cup TargetHeights
    /\ certOf \in {f \in [Blocks -> 0..MaxHeight] :
                     NonDecreasing(f) /\ \A h \in Blocks : f[h] < h}
    /\ versionsAt \in {f \in [0..MaxHeight -> Versions] : NonDecreasing(f)}
    /\ regOf \in {f \in [Blocks -> Versions] : NonDecreasing(f)}
    /\ clientVer \in IF start = 0 THEN {versionsAt[0]} ELSE 1..versionsAt[start]
    /\ sigVerifies = SignedUnder(clientVer)
    /\ exit = ExitPoint("Done", 0, 0, 0)
    /\ purgedBelow = 0
    /\ pc = "Restore"
    /\ stack = << >>
    /\ waitH = 0
    /\ deliverCeil = NoTarget
    /\ lastBatch = 0
    /\ verdict = NoValue
    /\ params = NoValue
    /\ result = NoValue

-----------------------------------------------------------------------------
(* restore: assert a consistent initial state (both errors returned).      *)

RestoreStart ==
    /\ pc = "Restore"
    /\ Call("VerifyCup", "RestoreVerified")
    /\ UNCHANGED <<waitH, deliverCeil, lastBatch, verdict, params, result>>
    /\ UNCHANGED <<execVars, poolVars, restoreVars>>

RestoreVerified ==
    /\ pc = "RestoreVerified"
    /\ IF verdict = NoValue
       THEN pc' = "Deserialize" /\ UNCHANGED result
       ELSE result' = verdict /\ pc' = "Done"
    /\ UNCHANGED <<stack, waitH, deliverCeil, lastBatch, verdict, params>>
    /\ UNCHANGED <<execVars, poolVars, restoreVars>>

\* Mutation: deliver_batches called without the target as its ceiling.
RestoreIngestNoCeiling ==
    /\ pc = "Deserialize"
    /\ LET e == Ingest(finalized, stateHeight) IN
         /\ exit' = e
         /\ finalized' = e.upto
    /\ deliverCeil' = NoTarget
    /\ Call("DeliverBatches", "RestoreDelivered")
    /\ UNCHANGED <<waitH, lastBatch, verdict, params, result>>
    /\ UNCHANGED <<execVars, hasPool, cupHeight, divergedFrom, upgradeAt, sigVerifies, target>>
    /\ UNCHANGED <<start, certOf, regOf, versionsAt, clientVer, purgedBelow>>

\* One turn of the loop: deserialize (latest_state_height read before the
\* call), then deliver_batches up to replay_target_height.
RestoreIngest ==
    /\ pc = "Deserialize"
    /\ LET e == Ingest(finalized, stateHeight) IN
         /\ exit' = e
         /\ finalized' = e.upto
    /\ deliverCeil' = target
    /\ Call("DeliverBatches", "RestoreDelivered")
    /\ UNCHANGED <<waitH, lastBatch, verdict, params, result>>
    /\ UNCHANGED <<execVars, hasPool, cupHeight, divergedFrom, upgradeAt, sigVerifies, target>>
    /\ UNCHANGED <<start, certOf, regOf, versionsAt, clientVer, purgedBelow>>

\* Mutation: the exit point is acted on without waiting for the state.
RestoreDeliveredNoWait ==
    /\ pc = "RestoreDelivered"
    /\ pc' = "TargetCheck"
    /\ UNCHANGED <<stack, waitH, deliverCeil, lastBatch, verdict, params, result>>
    /\ UNCHANGED <<execVars, poolVars, restoreVars>>

RestoreDelivered ==
    /\ pc = "RestoreDelivered"
    /\ waitH' = lastBatch
    /\ Call("WaitForState", "TargetCheck")
    /\ UNCHANGED <<deliverCeil, lastBatch, verdict, params, result>>
    /\ UNCHANGED <<execVars, poolVars, restoreVars>>

\* The target check comes before the exit point is acted on.
TargetCheck ==
    /\ pc = "TargetCheck"
    /\ IF target # NoTarget /\ lastBatch >= target
       THEN Call("LatestState", "RestoreReturnOk")
       ELSE pc' = "On" \o exit.kind /\ UNCHANGED stack
    /\ UNCHANGED <<waitH, deliverCeil, lastBatch, verdict, params, result>>
    /\ UNCHANGED <<execVars, poolVars, restoreVars>>

-----------------------------------------------------------------------------
(* The exit points.                                                        *)

\* CUPHeightWasFinalized: insert the CUP into the pool, then
\* assert_consistency_and_clean_up: verify_latest_cup()?, then
\* get_latest_state_height_and_hash, then purge states and the pool below it.
OnCUPHeightWasFinalized ==
    /\ pc = "OnCUPHeightWasFinalized"
    /\ cupHeight' = exit.arg
    /\ Call("VerifyCup", "CleanUp")
    /\ UNCHANGED <<waitH, deliverCeil, lastBatch, verdict, params, result>>
    /\ UNCHANGED <<execVars, hasPool, finalized, divergedFrom, upgradeAt, sigVerifies, target>>
    /\ UNCHANGED restoreVars

\* Mutation: the error of verify_latest_cup is dropped instead of returned.
CleanUpIgnoreVerdict ==
    /\ pc = "CleanUp"
    /\ Call("LatestState", "Purge")
    /\ UNCHANGED <<waitH, deliverCeil, lastBatch, verdict, params, result>>
    /\ UNCHANGED <<execVars, poolVars, restoreVars>>

CleanUp ==
    /\ pc = "CleanUp"
    /\ IF verdict = NoValue
       THEN Call("LatestState", "Purge") /\ UNCHANGED result
       ELSE result' = verdict /\ pc' = "Done" /\ UNCHANGED stack
    /\ UNCHANGED <<waitH, deliverCeil, lastBatch, verdict, params>>
    /\ UNCHANGED <<execVars, poolVars, restoreVars>>

Purge ==
    /\ pc = "Purge"
    /\ RemoveStatesBelow(cupHeight)
    /\ purgedBelow' = cupHeight
    /\ pc' = "Deserialize"
    /\ UNCHANGED <<queue, lastSeen, stateHeight, checkpointed, hashed, delivered, replied>>
    /\ UNCHANGED <<stack, waitH, deliverCeil, lastBatch, verdict, params, result>>
    /\ UNCHANGED <<poolVars, start, certOf, regOf, versionsAt, clientVer, exit>>

\* NewerRegistryVersion: update_registry_local_store (the records the
\* canister holds in the latest state), poll_once, then assert that the
\* client reached the version the block referenced.
OnNewerRegistryVersion ==
    /\ pc = "OnNewerRegistryVersion"
    /\ clientVer' = IF versionsAt[stateHeight] > clientVer
                    THEN versionsAt[stateHeight] ELSE clientVer
    /\ sigVerifies' = SignedUnder(clientVer')
    /\ IF clientVer' >= exit.arg
       THEN pc' = "Deserialize" /\ UNCHANGED result
       ELSE Panic("RegistryNotUpdated")
    /\ UNCHANGED <<stack, waitH, deliverCeil, lastBatch, verdict, params>>
    /\ UNCHANGED <<execVars, hasPool, finalized, cupHeight, divergedFrom, upgradeAt, target>>
    /\ UNCHANGED <<start, certOf, regOf, versionsAt, exit, purgedBelow>>

\* StateBehind: assert the state caught up with the certified height, then
\* prune below it.
OnStateBehind ==
    /\ pc = "OnStateBehind"
    /\ IF exit.arg <= stateHeight
       THEN RemoveStatesBelow(exit.arg) /\ pc' = "Deserialize" /\ UNCHANGED result
       ELSE Panic("StateBehind") /\ UNCHANGED removedBelow
    /\ UNCHANGED <<queue, lastSeen, stateHeight, checkpointed, hashed, delivered, replied>>
    /\ UNCHANGED <<stack, waitH, deliverCeil, lastBatch, verdict, params>>
    /\ UNCHANGED <<poolVars, restoreVars>>

\* Done: the archive is exhausted.
OnDone ==
    /\ pc = "OnDone"
    /\ Call("LatestState", "RestoreReturnOk")
    /\ UNCHANGED <<waitH, deliverCeil, lastBatch, verdict, params, result>>
    /\ UNCHANGED <<execVars, poolVars, restoreVars>>

RestoreReturnOk ==
    /\ pc = "RestoreReturnOk"
    /\ result' = [kind |-> "Ok", h |-> params.h, hash |-> params.hash]
    /\ pc' = "Done"
    /\ UNCHANGED <<stack, waitH, deliverCeil, lastBatch, verdict, params>>
    /\ UNCHANGED <<execVars, poolVars, restoreVars>>

-----------------------------------------------------------------------------

PlayerStep ==
    \/ DeliverNextBatch /\ UNCHANGED restoreVars
    \/ DeliverQueueFull /\ UNCHANGED restoreVars
    \/ DeliverRetry /\ UNCHANGED restoreVars
    \/ DeliverReturn /\ UNCHANGED restoreVars
    \/ WaitReached /\ UNCHANGED restoreVars
    \/ WaitAssert /\ UNCHANGED restoreVars
    \/ LatestStateStart /\ UNCHANGED restoreVars
    \/ LatestStateHash /\ UNCHANGED restoreVars
    \/ VerifyLatestCup /\ UNCHANGED restoreVars
    \/ RestoreStart \/ RestoreVerified \/ RestoreIngest \/ RestoreDelivered
    \/ TargetCheck \/ OnCUPHeightWasFinalized \/ CleanUp \/ Purge
    \/ OnNewerRegistryVersion \/ OnStateBehind \/ OnDone \/ RestoreReturnOk

\* The workers belong to the process: they stop when restore has returned.
Working == ~Terminated /\ UNCHANGED <<poolVars, playerVars, restoreVars>>

WorkerStep ==
    \/ ExecuteBatch /\ Working
    \/ ComputeHash /\ Working

Next == PlayerStep \/ WorkerStep

\* As in Replay: the player runs unless blocked in a poll loop, and the
\* execution and hashing workers keep working while there is work.
Fairness ==
    /\ WF_vars(PlayerStep)
    /\ WF_vars(ExecuteBatch /\ Working)
    /\ WF_vars(ComputeHash /\ Working)

Spec == Init /\ [][Next]_vars /\ Fairness

-----------------------------------------------------------------------------
(* Properties.                                                             *)

ResultIs(k) == result # NoValue /\ result.kind = k
PanickedWith(why) == ResultIs("panic") /\ result.why = why

TypeOK ==
    /\ queue \in Seq(Batch) /\ Len(queue) <= QueueCap
    /\ lastSeen \in Heights /\ stateHeight \in Heights
    /\ checkpointed \subseteq Heights /\ hashed \subseteq checkpointed
    /\ removedBelow \in Heights /\ delivered \in Seq(Batch)
    /\ finalized \in 0..MaxHeight /\ cupHeight \in Summaries
    /\ pc \in STRING /\ stack \in Seq(STRING)
    /\ waitH \in Heights /\ lastBatch \in Heights
    /\ verdict \in Results /\ result \in Results
    /\ params \in {NoValue} \cup [h : Heights, hash : Hashes]
    /\ start \in Summaries /\ clientVer \in Versions
    /\ exit \in [kind : ExitKinds, arg : Heights \cup Versions,
                 at : 0..(MaxHeight + 1), upto : 0..MaxHeight]
    /\ purgedBelow \in {0} \cup Summaries
    /\ sigVerifies \subseteq Summaries

\* What restore promises, in the terms of ReplayContract: the state
\* advances one height at a time from start_height to the target, or to
\* the end of the archive if there is no target or it lies beyond, never
\* further; restore returns Ok only there, and it returns or panics.  It
\* covers the exit-point loop, the target check placed before the exit
\* point is acted on, and every exit point making progress.
Goal ==
    LET clamp == IF target = NoTarget \/ target > MaxHeight THEN MaxHeight ELSE target
    IN IF clamp > start THEN clamp ELSE start

Status ==
    CASE result = NoValue  -> "running"
      [] ResultIs("Ok")    -> "ok"
      [] ResultIs("panic") -> "panic"
      [] OTHER             -> "error"

Contract == INSTANCE ReplayContract
              WITH height <- stateHeight, goal <- Goal, status <- Status

RestoreImplementsContract == Contract!Spec

\* The pool and the states are purged below a CUP only when the CUP is
\* consistent: assert_consistency_and_clean_up purges after
\* verify_latest_cup has compared the CUP's hash with the state restored at
\* its height and found neither a divergence nor an upgrade.  Never a purge
\* on a false boundary.
PurgeOnlyAtAgreedCup ==
    purgedBelow # 0 =>
        /\ LocalHash(purgedBelow) = NetHash(purgedBelow)
        /\ purgedBelow \notin upgradeAt

\* restore panics only for a cause outside it: the archive references a
\* registry version that the replayed registry canister did not hold at
\* the block's certified height, or the local store lacks the registry
\* version of the CUP restore starts from.  The StateBehind and registry
\* assertions hold because the exit point is acted on after
\* wait_for_state, the waiter's assert_eq! holds, get_state_hash never
\* meets a missing state, and the signature of every CUP inserted on the
\* way verifies: its block was ingested only once its registry version
\* was known.
RestorePanicsHaveExternalCause ==
    ResultIs("panic") =>
        \/ /\ result.why = "RegistryNotUpdated"
           /\ exit.arg > versionsAt[certOf[exit.at]]
        \/ /\ result.why = "CupSignatureInvalid"
           /\ cupHeight = start /\ start # 0
           /\ regOf[start] > clientVer

\* restore returns Ok only over CUPs that agree with the restored state:
\* every archived CUP above start_height and at or below the state was
\* inserted and checked by assert_consistency_and_clean_up (no divergence,
\* no upgrade) -- except a CUP exactly at the target, where restore returns
\* before acting on the exit point and the CUP is never checked.
RestoreOkAgreesWithCups ==
    ResultIs("Ok") =>
        \A s \in Summaries :
            start < s /\ s <= stateHeight =>
                \/ LocalHash(s) = NetHash(s) /\ s \notin upgradeAt
                \/ s = target /\ s = stateHeight /\ cupHeight < s

\* spec.md 8: a restore of an archive with a CUP at 0 and K later heights
\* returns height K.
RestoreReturnsReachedHeight ==
    ResultIs("Ok") => result.h = stateHeight

\* spec.md 8: after restore returns successfully, no state below the last
\* delivered height is retained (checked where restore delivered a batch).
RestorePrunesDelivered ==
    ResultIs("Ok") /\ lastBatch > start => removedBelow >= lastBatch

=============================================================================
