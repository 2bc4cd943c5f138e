---------------------------- MODULE MCReplayLarge ----------------------------
(* A larger model of Replay: finalized heights 0..4 across three DKG       *)
(* intervals (summaries at 0, 2 and 4), a batch channel of two slots, so   *)
(* that deliver_batches can get QueueIsFull after two accepted batches     *)
(* and the executor lags two heights behind, divergence from 1, 2, 4 or    *)
(* never, targets below the tip.                                           *)
EXTENDS Replay

MCMaxHeight == 4
MCSummaries == {0, 2, 4}
MCDivergenceHeights == {1, 2, 4, 5}
MCTargetHeights == {1, 3}

=============================================================================
