----------------------------- MODULE Execution -----------------------------
(***************************************************************************)
(* The execution side that the replay player drives but does not own:      *)
(* message routing's batch channel and the state manager's committed       *)
(* states, checkpoints and state hashes (spec.md section 6).  Both run     *)
(* their own background workers; the player only calls                     *)
(* expected_batch_height, deliver_batch, latest_state_height,              *)
(* get_state_hash_at and remove_states_below.  None of this code is under  *)
(* src/, so the definitions here follow the interface in spec.md.          *)
(***************************************************************************)
EXTENDS Naturals, Sequences, FiniteSets

CONSTANTS
    MaxHeight,   \* highest finalized height the model considers
    QueueCap,    \* capacity of message routing's batch channel
    Summaries    \* heights of DKG summary blocks: their batches require a full state hash

ASSUME /\ MaxHeight \in Nat
       /\ QueueCap \in Nat \ {0}
       /\ Summaries \subseteq 0..MaxHeight

\* The extra batch of the recovery tool goes one height past the finalized tip.
Heights == 0..(MaxHeight + 1)

VARIABLES
    queue,         \* batches accepted by deliver_batch and not yet executed
    lastSeen,      \* number of the last batch message routing accepted
    stateHeight,   \* the state manager's latest_state_height()
    checkpointed,  \* committed heights whose state is a checkpoint
    hashed,        \* checkpoints whose full state hash has been computed
    removedBelow,  \* states below this height have been removed
    delivered,     \* history: every batch accepted, in order
    replied        \* the extra batch's messages completed with a reply

execVars == <<queue, lastSeen, stateHeight, checkpointed, hashed,
              removedBelow, delivered, replied>>

Batch == [h : Heights, full : BOOLEAN, extra : BOOLEAN]

\* message_routing.expected_batch_height()
ExpectedBatchHeight == lastSeen + 1

\* deliver_batch returns Ok for the expected number while the channel has
\* room, QueueIsFull when it has none.
QueueIsFull == Len(queue) = QueueCap

AcceptBatch(b) ==
    /\ b.h = ExpectedBatchHeight
    /\ ~QueueIsFull
    /\ queue' = Append(queue, b)
    /\ lastSeen' = b.h
    /\ delivered' = Append(delivered, b)

\* The classification get_state_hash_at(h) returns.
HashResult(h) ==
    CASE h > stateHeight           -> "StateNotCommittedYet"
      [] h < removedBelow          -> "StateRemoved"
      [] h \notin checkpointed     -> "StateNotFullyCertified"
      [] h \in hashed              -> "Ok"
      [] OTHER                     -> "HashNotComputedYet"

\* remove_states_below(h): states below h are gone; a lower h removes nothing.
RemoveStatesBelow(h) ==
    removedBelow' = IF h > removedBelow THEN h ELSE removedBelow

-----------------------------------------------------------------------------
(* The background workers.                                                 *)

\* The execution thread takes the oldest batch, executes it and commits its
\* state; a batch that requires a full state hash becomes a checkpoint.  For
\* the extra batch, execution decides whether its messages got a reply.
ExecuteBatch ==
    /\ queue # << >>
    /\ LET b == Head(queue) IN
         /\ stateHeight' = b.h
         /\ checkpointed' = IF b.full THEN checkpointed \cup {b.h} ELSE checkpointed
         /\ replied' \in IF b.extra THEN BOOLEAN ELSE {replied}
    /\ queue' = Tail(queue)
    /\ UNCHANGED <<lastSeen, hashed, removedBelow, delivered>>

\* The hashing thread finishes the manifest of one checkpoint.
ComputeHash ==
    /\ \E h \in checkpointed \ hashed : hashed' = hashed \cup {h}
    /\ UNCHANGED <<queue, lastSeen, stateHeight, checkpointed, removedBelow,
                   delivered, replied>>

=============================================================================
