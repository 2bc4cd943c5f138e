------------------------------ MODULE Player ------------------------------
(***************************************************************************)
(* The parts of ic-replay's Player (src/rs/replay/src/player.rs) that      *)
(* replay and restore share: the consensus pool it reads (finalized height *)
(* and the one cached CUP), the delivery loop deliver_batches, the waiter  *)
(* wait_for_state / get_state_hash, get_latest_state_height_and_hash and   *)
(* the checkpoint verifier verify_latest_cup.                              *)
(*                                                                         *)
(* The player is one thread.  Its position is pc; the procedures it calls  *)
(* from several places return through a stack of labels.  A blocking poll  *)
(* loop (sleep WAIT_DURATION and retry) is an action whose guard is the    *)
(* condition polled for: while it is false the player takes no step.       *)
(*                                                                         *)
(* State hashes are values, not digests: NetHash(h) is what the subnet     *)
(* agreed on for height h (what CUPs and certifications carry), and the    *)
(* replaying node computes the same value below divergedFrom and a         *)
(* different one from there on.                                            *)
(***************************************************************************)
EXTENDS Execution

CONSTANTS
    NoTarget   \* replay_target_height = None

VARIABLES
    hasPool,       \* consensus_pool (and certification_pool) is Some
    finalized,     \* the pool's finalized height
    cupHeight,     \* height of the pool's cached (highest) CUP
    divergedFrom,  \* first height at which the local state differs from the subnet's
    upgradeAt,     \* CUP heights whose registry version names another replica version
    sigVerifies,   \* CUP heights whose threshold signature verifies under the
                   \* registry versions the client knows
    target,        \* replay_target_height
    pc,            \* the player's position
    stack,         \* return labels of the procedures in progress
    waitH,         \* argument of wait_for_state
    deliverCeil,   \* argument of deliver_batches: Some(h) or NoTarget
    lastBatch,     \* value deliver_batches returned
    verdict,       \* value verify_latest_cup returned
    params,        \* value get_latest_state_height_and_hash returned
    result         \* the value replay / restore returned, or the panic

poolVars == <<hasPool, finalized, cupHeight, divergedFrom, upgradeAt, sigVerifies, target>>
playerVars == <<pc, stack, waitH, deliverCeil, lastBatch, verdict, params, result>>

NetHash(h) == <<"subnet", h>>
LocalHash(h) == IF h < divergedFrom THEN NetHash(h) ELSE <<"local", h>>
Hashes == {NetHash(h) : h \in Heights} \cup {<<"local", h>> : h \in Heights}

NoValue == [none |-> TRUE]

PanicReasons == {"StateComputationFailed", "NoHashForCup", "WaitForStateMismatch",
                 "NoConsensusPool", "ExtraMessageFailed", "Ignored",
                 "CertificationMismatch", "StateBehind", "RegistryNotUpdated",
                 "CupSignatureInvalid"}

Results ==
    {NoValue}
    \cup [kind : {"Ok"}, h : Heights, hash : Hashes]
    \cup [kind : {"StateDivergence"}, h : Heights]
    \cup [kind : {"UpgradeDetected"}, h : Heights, hash : Hashes]
    \cup [kind : {"panic"}, why : PanicReasons]

Panic(why) ==
    /\ pc' = "Panicked"
    /\ result' = [kind |-> "panic", why |-> why]

Call(proc, ret) ==
    /\ pc' = proc
    /\ stack' = <<ret>> \o stack

Return ==
    /\ pc' = Head(stack)
    /\ stack' = Tail(stack)

min(a, b) == IF a < b THEN a ELSE b

-----------------------------------------------------------------------------
(* deliver_batches (player.rs) around consensus' deliver_batches: the      *)
(* latter delivers heights expected_batch_height .. min(ceiling,           *)
(* finalized) one by one and stops with QueueIsFull when the channel is    *)
(* full; the player sleeps and calls it again.  It returns the last        *)
(* delivered height, expected_batch_height - 1.                            *)

DeliverCeiling ==
    IF deliverCeil = NoTarget THEN finalized ELSE min(deliverCeil, finalized)

DeliverNextBatch ==
    /\ pc = "DeliverBatches"
    /\ ExpectedBatchHeight <= DeliverCeiling
    /\ AcceptBatch([h |-> ExpectedBatchHeight,
                    full |-> ExpectedBatchHeight \in Summaries,
                    extra |-> FALSE])
    /\ UNCHANGED <<stateHeight, checkpointed, hashed, removedBelow, replied>>
    /\ UNCHANGED poolVars
    /\ UNCHANGED playerVars

DeliverQueueFull ==
    /\ pc = "DeliverBatches"
    /\ ExpectedBatchHeight <= DeliverCeiling
    /\ QueueIsFull
    /\ pc' = "DeliverBackoff"
    /\ UNCHANGED <<stack, waitH, deliverCeil, lastBatch, verdict, params, result>>
    /\ UNCHANGED poolVars
    /\ UNCHANGED execVars

DeliverRetry ==
    /\ pc = "DeliverBackoff"
    /\ pc' = "DeliverBatches"
    /\ UNCHANGED <<stack, waitH, deliverCeil, lastBatch, verdict, params, result>>
    /\ UNCHANGED poolVars
    /\ UNCHANGED execVars

\* Mutation: the returned height off by one (last delivered minus one).
DeliverReturnShort ==
    /\ pc = "DeliverBatches"
    /\ ExpectedBatchHeight > DeliverCeiling
    /\ lastBatch' = ExpectedBatchHeight - 2
    /\ Return
    /\ UNCHANGED <<waitH, deliverCeil, verdict, params, result>>
    /\ UNCHANGED poolVars
    /\ UNCHANGED execVars

DeliverReturn ==
    /\ pc = "DeliverBatches"
    /\ ExpectedBatchHeight > DeliverCeiling
    /\ lastBatch' = ExpectedBatchHeight - 1
    /\ Return
    /\ UNCHANGED <<waitH, deliverCeil, verdict, params, result>>
    /\ UNCHANGED poolVars
    /\ UNCHANGED execVars

-----------------------------------------------------------------------------
(* wait_for_state(height): poll until latest_state_height >= height, then *)
(* get_state_hash(height) (polls while the hash is transient, None for a   *)
(* state that is not a checkpoint, panics on any other error), then        *)
(* assert_eq!(height, latest_state_height()).                              *)

WaitReached ==
    /\ pc = "WaitForState"
    /\ stateHeight >= waitH
    /\ HashResult(waitH) # "HashNotComputedYet"
    /\ IF HashResult(waitH) \in {"Ok", "StateNotFullyCertified"}
       THEN pc' = "WaitAssert" /\ UNCHANGED result
       ELSE Panic("StateComputationFailed")
    /\ UNCHANGED <<stack, waitH, deliverCeil, lastBatch, verdict, params>>
    /\ UNCHANGED poolVars
    /\ UNCHANGED execVars

WaitAssert ==
    /\ pc = "WaitAssert"
    /\ IF waitH = stateHeight
       THEN Return /\ UNCHANGED result
       ELSE Panic("WaitForStateMismatch") /\ UNCHANGED stack
    /\ UNCHANGED <<waitH, deliverCeil, lastBatch, verdict, params>>
    /\ UNCHANGED poolVars
    /\ UNCHANGED execVars

-----------------------------------------------------------------------------
(* get_latest_state_height_and_hash: wait_for_state(latest_state_height),  *)
(* then the hash at that height if it has one, else the latest CUP's       *)
(* height and hash, which needs a consensus pool.                          *)

LatestStateStart ==
    /\ pc = "LatestState"
    /\ waitH' = stateHeight
    /\ pc' = "WaitForState"
    /\ stack' = <<"LatestStateHash">> \o stack
    /\ UNCHANGED <<deliverCeil, lastBatch, verdict, params, result>>
    /\ UNCHANGED poolVars
    /\ UNCHANGED execVars

LatestStateHash ==
    /\ pc = "LatestStateHash"
    /\ CASE HashResult(waitH) = "Ok" ->
              params' = [h |-> waitH, hash |-> LocalHash(waitH)] /\ Return
              /\ UNCHANGED result
         [] hasPool ->
              params' = [h |-> cupHeight, hash |-> NetHash(cupHeight)] /\ Return
              /\ UNCHANGED result
         [] OTHER ->
              Panic("NoConsensusPool") /\ UNCHANGED <<params, stack>>
    /\ UNCHANGED <<waitH, deliverCeil, lastBatch, verdict>>
    /\ UNCHANGED poolVars
    /\ UNCHANGED execVars

-----------------------------------------------------------------------------
(* verify_latest_cup.  The genesis CUP is accepted unchecked; then the     *)
(* CUP's combined threshold signature is verified with the registry at the *)
(* CUP's registry version, and the expect panics if that fails; a CUP      *)
(* below the latest state height is accepted without comparing hashes;    *)
(* otherwise get_state_hash(cup height) is polled and compared, and last   *)
(* the registry's replica version at the CUP is looked up.  The            *)
(* nested get_latest_state_height_and_hash of the upgrade branch runs when *)
(* the state is exactly at the CUP and its hash is known, so it returns    *)
(* that height and hash at once.                                           *)

VerifyPolling ==
    /\ cupHeight # 0
    /\ cupHeight \in sigVerifies
    /\ cupHeight >= stateHeight
    /\ HashResult(cupHeight) = "HashNotComputedYet"

\* Mutation: a CUP exactly at the latest state height is also accepted
\* without comparing hashes (<= for <).
VerifyOutcomeSkipAtState ==
    CASE cupHeight = 0                                        -> "Ok"
      [] cupHeight \notin sigVerifies                          -> "CupSignatureInvalid"
      [] cupHeight <= stateHeight                             -> "Ok"
      [] HashResult(cupHeight) = "StateNotCommittedYet"       -> "StateComputationFailed"
      [] HashResult(cupHeight) = "StateNotFullyCertified"     -> "NoHashForCup"
      [] LocalHash(cupHeight) # NetHash(cupHeight)            -> "StateDivergence"
      [] cupHeight \in upgradeAt                              -> "UpgradeDetected"
      [] OTHER                                                -> "Ok"

\* Mutation: the state hash comparison is left out.
VerifyOutcomeNoCompare ==
    CASE cupHeight = 0                                        -> "Ok"
      [] cupHeight \notin sigVerifies                          -> "CupSignatureInvalid"
      [] cupHeight < stateHeight                              -> "Ok"
      [] HashResult(cupHeight) = "StateNotCommittedYet"       -> "StateComputationFailed"
      [] HashResult(cupHeight) = "StateNotFullyCertified"     -> "NoHashForCup"
      [] cupHeight \in upgradeAt                              -> "UpgradeDetected"
      [] OTHER                                                -> "Ok"

VerifyOutcome ==
    CASE cupHeight = 0                                        -> "Ok"
      [] cupHeight \notin sigVerifies                          -> "CupSignatureInvalid"
      [] cupHeight < stateHeight                              -> "Ok"
      [] HashResult(cupHeight) = "StateNotCommittedYet"       -> "StateComputationFailed"
      [] HashResult(cupHeight) = "StateNotFullyCertified"     -> "NoHashForCup"
      [] LocalHash(cupHeight) # NetHash(cupHeight)            -> "StateDivergence"
      [] cupHeight \in upgradeAt                              -> "UpgradeDetected"
      [] OTHER                                                -> "Ok"

VerifyLatestCup ==
    /\ pc = "VerifyCup"
    /\ ~VerifyPolling
    /\ IF VerifyOutcome \in {"CupSignatureInvalid", "StateComputationFailed", "NoHashForCup"}
       THEN Panic(VerifyOutcome) /\ UNCHANGED <<stack, verdict>>
       ELSE /\ verdict' = CASE VerifyOutcome = "StateDivergence" ->
                                 [kind |-> "StateDivergence", h |-> cupHeight]
                            [] VerifyOutcome = "UpgradeDetected" ->
                                 [kind |-> "UpgradeDetected", h |-> stateHeight,
                                  hash |-> LocalHash(stateHeight)]
                            [] OTHER -> NoValue
            /\ Return
            /\ UNCHANGED result
    /\ UNCHANGED <<waitH, deliverCeil, lastBatch, params>>
    /\ UNCHANGED poolVars
    /\ UNCHANGED execVars

=============================================================================
