--------------------------- MODULE RestoreRestart ---------------------------
(***************************************************************************)
(* Restore across crashes and reruns.  The ic-replay process may die at    *)
(* any step of restore, or return, and be started again with a start      *)
(* height and a target of the operator's choice.  What survives is what is *)
(* on disk: the state manager's checkpoints not yet removed (the latest    *)
(* one is always kept), the registry local store (so the client's version) *)
(* and the archive.  What is lost is the process: the player, the batches  *)
(* in the channel, the states above the latest checkpoint, and the         *)
(* temporary consensus pool, which new_for_backup builds afresh from the   *)
(* CUP read at the new start height.  The state manager reloads the latest *)
(* checkpoint, so message routing expects the height after it; its         *)
(* manifests are computed again.                                           *)
(*                                                                         *)
(* new_for_backup does nothing about a state that is ahead of the start    *)
(* height: restore goes on from the persisted state, and verify_latest_cup *)
(* accepts a CUP below it without comparing hashes.                        *)
(***************************************************************************)
EXTENDS Restore

CONSTANTS
    MaxRestarts   \* bound on crashes and reruns

VARIABLES
    restarts,     \* how many times the process has been started again
    origin,       \* start_height of the first restore
    resumedAt     \* state height the current process found on disk

restartVars == <<restarts, origin, resumedAt>>
allVars == <<vars, restartVars>>

\* The checkpoints on disk: those at or above the removal height, and the
\* latest one, which remove_states_below never removes.  The state manager
\* is out of scope (spec.md 1); this follows its interface in spec.md 6.
PersistedCheckpoints ==
    {h \in checkpointed : h >= removedBelow \/ \A k \in checkpointed : k <= h}

\* The height of the state the state manager loads: the latest persisted
\* checkpoint, or the empty state at 0 if there is none.
LoadedHeight ==
    IF PersistedCheckpoints = {} THEN 0
    ELSE CHOOSE h \in PersistedCheckpoints : \A k \in PersistedCheckpoints : k <= h

RestartInit ==
    /\ Init
    /\ restarts = 0
    /\ origin = start
    /\ resumedAt = start

(***************************************************************************)
(* A crash (or a return) and a new process: new_for_backup(start_height)   *)
(* then restore(start_height).  At genesis the local store is first        *)
(* bootstrapped with the genesis registry, which the store may already     *)
(* exceed; the client is polled once; the pool holds only the CUP at       *)
(* start_height.                                                           *)
(***************************************************************************)
Restart ==
    /\ restarts < MaxRestarts
    /\ restarts' = restarts + 1
    /\ LET c == LoadedHeight IN
         /\ stateHeight' = c
         /\ lastSeen' = c
         /\ checkpointed' = PersistedCheckpoints
         /\ removedBelow' = min(removedBelow, c)
         /\ resumedAt' = c
    /\ queue' = << >>
    /\ hashed' = {}
    /\ \E s \in Summaries :
         /\ start' = s
         /\ finalized' = s
         /\ cupHeight' = s
         /\ clientVer' = IF s = 0 /\ versionsAt[0] > clientVer
                         THEN versionsAt[0] ELSE clientVer
    /\ sigVerifies' = SignedUnder(clientVer')
    /\ target' \in {NoTarget} \cup TargetHeights
    /\ exit' = ExitPoint("Done", 0, 0, 0)
    /\ purgedBelow' = 0
    /\ pc' = "Restore"
    /\ stack' = << >>
    /\ waitH' = 0
    /\ deliverCeil' = NoTarget
    /\ lastBatch' = 0
    /\ verdict' = NoValue
    /\ params' = NoValue
    /\ result' = NoValue
    /\ UNCHANGED <<delivered, replied, hasPool, divergedFrom, upgradeAt>>
    /\ UNCHANGED <<certOf, regOf, versionsAt, origin>>

RestartNext ==
    \/ Next /\ UNCHANGED restartVars
    \/ Restart

\* A crash is never forced: no fairness on Restart.  Within a process, the
\* fairness of Restore.
RestartSpec ==
    /\ RestartInit
    /\ [][RestartNext]_allVars
    /\ WF_allVars(PlayerStep /\ UNCHANGED restartVars)
    /\ WF_allVars(ExecuteBatch /\ Working /\ UNCHANGED restartVars)
    /\ WF_allVars(ComputeHash /\ Working /\ UNCHANGED restartVars)

-----------------------------------------------------------------------------
(* Properties.                                                             *)

RestartTypeOK ==
    /\ TypeOK
    /\ restarts \in 0..MaxRestarts
    /\ origin \in Summaries
    /\ resumedAt \in Heights

\* Agreement of an Ok result with every archived CUP above the first start
\* height and at or below the returned state, a CUP exactly at the target
\* and the state excepted (restore returns there before checking it).
OkAgreesWithCupsSince(h) ==
    ResultIs("Ok") =>
        \A s \in Summaries :
            h < s /\ s <= stateHeight =>
                \/ LocalHash(s) = NetHash(s) /\ s \notin upgradeAt
                \/ s = target /\ s = stateHeight

\* restore, rerun after crashes and returns, returns Ok only over CUPs that
\* agree with the restored state, provided the rerun's target does not lie
\* below the state it found on disk: every CUP a crash interrupted before
\* assert_consistency_and_clean_up checked it is checked by a later run,
\* because the state on disk never passes an unchecked CUP, and
\* verify_latest_cup compares the hash of a CUP exactly at the state.
ResumedOkAgreesWithCups ==
    target = NoTarget \/ target >= resumedAt => OkAgreesWithCupsSince(origin)

\* new_for_backup's comment: starting from genesis, the execution state is
\* cleaned up first.  Then a rerun from genesis replays and checks every
\* CUP, whatever the target.
GenesisRerunChecksEveryCup ==
    start = 0 => OkAgreesWithCupsSince(origin)

\* A rerun panics only for a cause outside restore: those of a single run,
\* or a start height above the state on disk, whose CUP has no state to
\* be compared with.
RestartPanicsHaveExternalCause ==
    ResultIs("panic") =>
        \/ /\ result.why = "RegistryNotUpdated"
           /\ exit.arg > versionsAt[certOf[exit.at]]
        \/ /\ result.why = "CupSignatureInvalid"
           /\ cupHeight = start /\ start # 0
           /\ regOf[start] > clientVer
        \/ /\ result.why = "StateComputationFailed"
           /\ cupHeight = start /\ start > resumedAt

====
