------------------------------ MODULE Replay ------------------------------
(***************************************************************************)
(* Player::replay (player.rs), the live mode of ic-replay: verify the      *)
(* pool's CUP, deliver the finalized batches up to min(finalized, target), *)
(* wait for their state and prune below it, redeliver the certifications,  *)
(* then deliver one extra batch of caller-supplied messages and check that *)
(* each got a reply, and return get_latest_state_height_and_hash.          *)
(*                                                                         *)
(* The execution workers of module Execution run beside the player; the    *)
(* process, and with it those workers, ends when replay returns or panics. *)
(***************************************************************************)
EXTENDS Player

CONSTANTS
    DivergenceHeights,  \* choices for the first height whose local state differs
    TargetHeights       \* choices for replay_target_height other than None

VARIABLES
    start,        \* latest_state_height when replay was called
    certified,    \* certification_pool.certified_heights()
    extraMsgs,    \* the extra closure returns a message
    certsLeft,    \* certified heights the redelivery loop has not visited yet
    certLog,      \* history: heights whose certification was redelivered, in order
    extraH        \* batch number of the extra batch

replayVars == <<start, certified, extraMsgs, certsLeft, certLog, extraH>>
vars == <<execVars, poolVars, playerVars, replayVars>>

Terminated == pc \in {"Done", "Panicked"}

-----------------------------------------------------------------------------
(* The states replay can be called in.  The state manager starts from the  *)
(* latest checkpoint on disk (or the empty state at height 0), whose hash  *)
(* may still be in computation; the pool's CUP is at a summary height at   *)
(* or below its finalized height.                                          *)

Init ==
    /\ start \in Summaries
    /\ queue = << >>
    /\ lastSeen = start
    /\ stateHeight = start
    /\ checkpointed = {start} \ {0}
    /\ hashed \in {{}, checkpointed}
    /\ removedBelow = 0
    /\ delivered = << >>
    /\ replied = FALSE
    /\ hasPool \in BOOLEAN
    /\ finalized \in IF hasPool THEN 0..MaxHeight ELSE {0}
    /\ cupHeight \in Summaries \cap 0..finalized
    /\ certified \in IF hasPool THEN SUBSET (1..finalized) ELSE {{}}
    /\ upgradeAt \in {{}, {cupHeight}}
    /\ sigVerifies \in IF hasPool /\ cupHeight # 0
                       THEN {Summaries, Summaries \ {cupHeight}}
                       ELSE {Summaries}
    /\ divergedFrom \in DivergenceHeights
    /\ target \in {NoTarget} \cup TargetHeights
    /\ extraMsgs \in BOOLEAN
    /\ pc = "Replay"
    /\ stack = << >>
    /\ waitH = 0
    /\ deliverCeil = NoTarget
    /\ lastBatch = 0
    /\ verdict = NoValue
    /\ params = NoValue
    /\ result = NoValue
    /\ certsLeft = {}
    /\ certLog = << >>
    /\ extraH = 0

-----------------------------------------------------------------------------
(* replay: with a pool, verify the latest CUP first.  UpgradeDetected is   *)
(* tolerated at this point; StateDivergence is returned.                   *)

ReplayStart ==
    /\ pc = "Replay"
    /\ IF hasPool
       THEN Call("VerifyCup", "AfterVerify")
       ELSE pc' = "ExtraBatch" /\ UNCHANGED stack
    /\ UNCHANGED <<waitH, deliverCeil, lastBatch, verdict, params, result>>
    /\ UNCHANGED <<execVars, poolVars, replayVars>>

\* Mutation: replay_target_height is ignored.
ReplayCeilingNoTarget == finalized

\* target_height = min(finalized, replay_target_height or finalized)
ReplayCeiling ==
    IF target = NoTarget THEN finalized ELSE min(finalized, target)

AfterVerify ==
    /\ pc = "AfterVerify"
    /\ IF verdict = NoValue \/ verdict.kind = "UpgradeDetected"
       THEN /\ deliverCeil' = ReplayCeiling
            /\ Call("DeliverBatches", "AfterDeliver")
            /\ UNCHANGED result
       ELSE /\ result' = verdict
            /\ pc' = "Done"
            /\ UNCHANGED <<deliverCeil, stack>>
    /\ UNCHANGED <<waitH, lastBatch, verdict, params>>
    /\ UNCHANGED <<execVars, poolVars, replayVars>>

\* Mutation: prune without waiting for the delivered state.
AfterDeliverNoWait ==
    /\ pc = "AfterDeliver"
    /\ pc' = "PruneDelivered"
    /\ UNCHANGED <<stack, waitH, deliverCeil, lastBatch, verdict, params, result>>
    /\ UNCHANGED <<execVars, poolVars, replayVars>>

AfterDeliver ==
    /\ pc = "AfterDeliver"
    /\ waitH' = lastBatch
    /\ Call("WaitForState", "PruneDelivered")
    /\ UNCHANGED <<deliverCeil, lastBatch, verdict, params, result>>
    /\ UNCHANGED <<execVars, poolVars, replayVars>>

PruneDelivered ==
    /\ pc = "PruneDelivered"
    /\ RemoveStatesBelow(lastBatch)
    /\ certsLeft' = certified
    /\ pc' = "RedeliverCerts"
    /\ UNCHANGED <<queue, lastSeen, stateHeight, checkpointed, hashed, delivered, replied>>
    /\ UNCHANGED <<stack, waitH, deliverCeil, lastBatch, verdict, params, result>>
    /\ UNCHANGED <<poolVars, start, certified, extraMsgs, certLog, extraH>>

\* The states the state manager holds: from the checkpoint it started from
\* up to the latest committed state, less those removed.
Held(h) == start <= h /\ removedBelow <= h /\ h <= stateHeight

\* for h in certification_pool.certified_heights(): a HashSet, visited in
\* no particular order.  deliver_state_certification panics when a
\* certification disagrees with the hash of a state it holds; one of a
\* state it does not hold has nothing to be compared with.
RedeliverCertification ==
    /\ pc = "RedeliverCerts"
    /\ \E h \in certsLeft :
         IF Held(h) /\ LocalHash(h) # NetHash(h)
         THEN Panic("CertificationMismatch") /\ UNCHANGED <<certsLeft, certLog>>
         ELSE /\ certsLeft' = certsLeft \ {h}
              /\ certLog' = Append(certLog, h)
              /\ UNCHANGED <<pc, result>>
    /\ UNCHANGED <<stack, waitH, deliverCeil, lastBatch, verdict, params>>
    /\ UNCHANGED <<execVars, poolVars, start, certified, extraMsgs, extraH>>

CertificationsRedelivered ==
    /\ pc = "RedeliverCerts"
    /\ certsLeft = {}
    /\ pc' = "ExtraBatch"
    /\ UNCHANGED <<stack, waitH, deliverCeil, lastBatch, verdict, params, result>>
    /\ UNCHANGED <<execVars, poolVars, replayVars>>

-----------------------------------------------------------------------------
(* deliver_extra_batch: the batch number is read before the closure runs;  *)
(* no message means no batch.  Otherwise deliver it (requires a full state *)
(* hash), wait for its state, prune below it and panic unless every        *)
(* message completed with a reply.  The QueueIsFull retry is a poll: the   *)
(* action waits for room (there always is: the channel has been drained by *)
(* the preceding wait_for_state, or never filled without a pool).          *)

ExtraBatch ==
    /\ pc = "ExtraBatch"
    /\ extraH' = ExpectedBatchHeight
    /\ pc' = IF extraMsgs THEN "DeliverExtra" ELSE "Finish"
    /\ UNCHANGED <<stack, waitH, deliverCeil, lastBatch, verdict, params, result>>
    /\ UNCHANGED <<execVars, poolVars, start, certified, extraMsgs, certsLeft, certLog>>

\* Mutation: the extra batch does not require a full state hash.
DeliverExtraPartialHash ==
    /\ pc = "DeliverExtra"
    /\ extraH # ExpectedBatchHeight \/ ~QueueIsFull
    /\ IF extraH # ExpectedBatchHeight
       THEN Panic("Ignored") /\ UNCHANGED <<execVars, stack, waitH>>
       ELSE /\ AcceptBatch([h |-> extraH, full |-> FALSE, extra |-> TRUE])
            /\ UNCHANGED <<stateHeight, checkpointed, hashed, removedBelow, replied>>
            /\ waitH' = extraH
            /\ Call("WaitForState", "CheckExtraReplies")
            /\ UNCHANGED result
    /\ UNCHANGED <<deliverCeil, lastBatch, verdict, params>>
    /\ UNCHANGED <<poolVars, replayVars>>

DeliverExtra ==
    /\ pc = "DeliverExtra"
    /\ extraH # ExpectedBatchHeight \/ ~QueueIsFull
    /\ IF extraH # ExpectedBatchHeight
       THEN Panic("Ignored") /\ UNCHANGED <<execVars, stack, waitH>>
       ELSE /\ AcceptBatch([h |-> extraH, full |-> TRUE, extra |-> TRUE])
            /\ UNCHANGED <<stateHeight, checkpointed, hashed, removedBelow, replied>>
            /\ waitH' = extraH
            /\ Call("WaitForState", "CheckExtraReplies")
            /\ UNCHANGED result
    /\ UNCHANGED <<deliverCeil, lastBatch, verdict, params>>
    /\ UNCHANGED <<poolVars, replayVars>>

CheckExtraReplies ==
    /\ pc = "CheckExtraReplies"
    /\ RemoveStatesBelow(extraH)
    /\ IF replied
       THEN pc' = "Finish" /\ UNCHANGED result
       ELSE Panic("ExtraMessageFailed")
    /\ UNCHANGED <<queue, lastSeen, stateHeight, checkpointed, hashed, delivered, replied>>
    /\ UNCHANGED <<stack, waitH, deliverCeil, lastBatch, verdict, params>>
    /\ UNCHANGED <<poolVars, replayVars>>

\* The registry-version query only prints; replay returns
\* get_latest_state_height_and_hash.
Finish ==
    /\ pc = "Finish"
    /\ Call("LatestState", "ReturnOk")
    /\ UNCHANGED <<waitH, deliverCeil, lastBatch, verdict, params, result>>
    /\ UNCHANGED <<execVars, poolVars, replayVars>>

ReturnOk ==
    /\ pc = "ReturnOk"
    /\ result' = [kind |-> "Ok", h |-> params.h, hash |-> params.hash]
    /\ pc' = "Done"
    /\ UNCHANGED <<stack, waitH, deliverCeil, lastBatch, verdict, params>>
    /\ UNCHANGED <<execVars, poolVars, replayVars>>

-----------------------------------------------------------------------------

PlayerStep ==
    \/ DeliverNextBatch /\ UNCHANGED replayVars
    \/ DeliverQueueFull /\ UNCHANGED replayVars
    \/ DeliverRetry /\ UNCHANGED replayVars
    \/ DeliverReturn /\ UNCHANGED replayVars
    \/ WaitReached /\ UNCHANGED replayVars
    \/ WaitAssert /\ UNCHANGED replayVars
    \/ LatestStateStart /\ UNCHANGED replayVars
    \/ LatestStateHash /\ UNCHANGED replayVars
    \/ VerifyLatestCup /\ UNCHANGED replayVars
    \/ ReplayStart \/ AfterVerify \/ AfterDeliver \/ PruneDelivered
    \/ RedeliverCertification \/ CertificationsRedelivered
    \/ ExtraBatch \/ DeliverExtra \/ CheckExtraReplies
    \/ Finish \/ ReturnOk

\* The workers belong to the process: they stop when replay has returned.
Working == ~Terminated /\ UNCHANGED <<poolVars, playerVars, replayVars>>

WorkerStep ==
    \/ ExecuteBatch /\ Working
    \/ ComputeHash /\ Working

Next == PlayerStep \/ WorkerStep

\* The player thread runs whenever it is not blocked in a poll loop; the
\* execution and hashing workers keep working while there is work.
Fairness ==
    /\ WF_vars(PlayerStep)
    /\ WF_vars(ExecuteBatch /\ Working)
    /\ WF_vars(ComputeHash /\ Working)

Spec == Init /\ [][Next]_vars /\ Fairness

-----------------------------------------------------------------------------
(* Properties.                                                             *)

ResultIs(k) == result # NoValue /\ result.kind = k
PanickedWith(why) == ResultIs("panic") /\ result.why = why

TypeOK ==
    /\ queue \in Seq(Batch) /\ Len(queue) <= QueueCap
    /\ lastSeen \in Heights /\ stateHeight \in Heights
    /\ checkpointed \subseteq Heights /\ hashed \subseteq checkpointed
    /\ removedBelow \in Heights /\ delivered \in Seq(Batch)
    /\ replied \in BOOLEAN /\ hasPool \in BOOLEAN
    /\ finalized \in 0..MaxHeight /\ cupHeight \in Summaries
    /\ sigVerifies \subseteq Summaries
    /\ target \in {NoTarget} \cup TargetHeights
    /\ pc \in STRING /\ stack \in Seq(STRING)
    /\ waitH \in Heights /\ lastBatch \in Heights
    /\ verdict \in Results /\ result \in Results
    /\ params \in {NoValue} \cup [h : Heights, hash : Hashes]
    /\ start \in Summaries /\ certified \subseteq 1..MaxHeight
    /\ certsLeft \subseteq certified /\ certLog \in Seq(certified)
    /\ extraH \in Heights

\* What replay promises (module ReplayContract): the state advances one
\* height at a time from where it was to Goal -- the clamped target, or
\* the starting height if that is higher, plus one for an extra batch --
\* never further, replay returns Ok only once the state is at Goal, and it
\* eventually returns or panics.  It covers the clamp in replay, the value
\* deliver_batches returns and the ordering of wait_for_state.
Goal ==
    LET clamp == IF target = NoTarget \/ target > finalized THEN finalized ELSE target
        base == IF hasPool /\ clamp > start THEN clamp ELSE start
    IN IF extraMsgs THEN base + 1 ELSE base

Status ==
    CASE result = NoValue  -> "running"
      [] ResultIs("Ok")    -> "ok"
      [] ResultIs("panic") -> "panic"
      [] OTHER             -> "error"

Contract == INSTANCE ReplayContract
              WITH height <- stateHeight, goal <- Goal, status <- Status

ReplayImplementsContract == Contract!Spec

\* replay returns Ok only if the local state agrees with every hash the
\* subnet attested that it compared: the CUP's, unless the CUP is genesis
\* or below the state it started from (verify_latest_cup's skip), and the
\* certification, if there is one, of the height it replayed to: the state
\* there is the one remove_states_below(last_batch_height) keeps, and the
\* redelivery compares it only if wait_for_state let the state reach it
\* first.  A divergence is reported or panics, never returned as Ok.
ReplayDetectsDivergence ==
    ResultIs("Ok") =>
        /\ (hasPool /\ cupHeight # 0 /\ cupHeight >= start)
              => LocalHash(cupHeight) = NetHash(cupHeight)
        /\ lastBatch \in certified => LocalHash(lastBatch) = NetHash(lastBatch)

\* Every panic of replay has its cause in its environment: the signature
\* check fails only for a CUP the registry cannot verify; get_state_hash
\* fails only for a CUP above the state; the fallback to the CUP in
\* get_latest_state_height_and_hash panics without a pool only when the
\* state is the empty genesis state and no extra batch made a checkpoint;
\* the state manager rejects a certification only of a diverged height;
\* and the assert_eq! of wait_for_state never fires, however far the
\* execution thread lags behind and however often the channel is full.
PanicsHaveExternalCause ==
    /\ PanickedWith("StateComputationFailed") => hasPool /\ cupHeight > start
    /\ PanickedWith("CupSignatureInvalid") => cupHeight \notin sigVerifies
    /\ PanickedWith("NoConsensusPool") => ~hasPool /\ start = 0 /\ ~extraMsgs
    /\ PanickedWith("CertificationMismatch") => \E h \in certified : h >= divergedFrom
    /\ ~PanickedWith("WaitForStateMismatch")

\* States are pruned only below a height whose state has been committed:
\* remove_states_below follows wait_for_state at both call sites.
PruneOnlyCommitted == removedBelow <= stateHeight

\* spec.md 4.2: the extra batch is one synthetic batch beyond the last
\* finalized height, executing messages without advancing consensus.
\* deliver_extra_batch numbers it expected_batch_height.
ExtraBatchBeyondFinalized ==
    \A i \in 1..Len(delivered) : delivered[i].extra => delivered[i].h > finalized

\* spec.md: certifications are redelivered to the state manager in
\* ascending height order.
CertificationsAscending ==
    \A i, j \in 1..Len(certLog) : i < j => certLog[i] < certLog[j]

=============================================================================
