-------------------------- MODULE MCRestoreRestart --------------------------
(* Model of RestoreRestart for TLC: the archive of MCRestore (blocks 1..3,  *)
(* CUPs at 0 and 2), rerun up to twice.                                    *)
EXTENDS RestoreRestart

MCMaxHeight == 3
MCSummaries == {0, 2}
MCDivergenceHeights == {1, 2, 5}
MCTargetHeights == {1, 2}
MCVersions == 1..2

=============================================================================
