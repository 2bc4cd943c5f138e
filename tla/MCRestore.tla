----------------------------- MODULE MCRestore -----------------------------
(* Model of Restore for TLC: an archive of blocks 1..3 with CUPs at the    *)
(* summary heights 0 and 2, a batch channel of one slot, two registry      *)
(* versions, divergence from height 1, 2 or never (5 is past every         *)
(* height), a target below the CUP and one at it.                          *)
EXTENDS Restore

MCMaxHeight == 3
MCSummaries == {0, 2}
MCDivergenceHeights == {1, 2, 5}
MCTargetHeights == {1, 2}
MCVersions == 1..2

=============================================================================
