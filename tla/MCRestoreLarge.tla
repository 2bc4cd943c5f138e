--------------------------- MODULE MCRestoreLarge ---------------------------
(* A larger model of Restore: an archive of blocks 1..4 with CUPs at 0, 2  *)
(* and 4, so that restore inserts and checks two CUPs in one call and      *)
(* purges twice, a batch channel of two slots, divergence from 1, 2, 4 or  *)
(* never, a target on the first CUP and one between the CUPs.              *)
EXTENDS Restore

MCMaxHeight == 4
MCSummaries == {0, 2, 4}
MCDivergenceHeights == {1, 2, 4, 5}
MCTargetHeights == {2, 3}
MCVersions == 1..2

=============================================================================
