------------------------------ MODULE MCReplay ------------------------------
(* Model of Replay for TLC: finalized heights 0..3, DKG summaries at 0 and *)
(* 2, a batch channel of one slot, divergence from height 1, 2 or never    *)
(* (5 is past every height), targets below and above the finalized tip.   *)
EXTENDS Replay

MCMaxHeight == 3
MCSummaries == {0, 2}
MCDivergenceHeights == {1, 2, 5}
MCTargetHeights == {1, 3}

=============================================================================
