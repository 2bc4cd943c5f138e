-------------------------- MODULE MCRestoreRegistry --------------------------
(* Model of RestoreRegistry for TLC: the archive of MCRestore (blocks 1..3,*)
(* CUPs at 0 and 2, one-slot channel), a replayed registry canister whose  *)
(* first version mutates two keys and whose second mutates one, so that    *)
(* get_changes_since returns several records of one version in either     *)
(* order.                                                                  *)
EXTENDS RestoreRegistry

CONSTANTS k1, k2

MCMaxHeight == 3
MCSummaries == {0, 2}
MCDivergenceHeights == {2, 5}
MCTargetHeights == {2}
MCKeys == {k1, k2}
MCCanisterHistory == << {k1}, {k1, k2}, {k2} >>
MCVersions == 1..Len(MCCanisterHistory)

=============================================================================
