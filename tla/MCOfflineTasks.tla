--------------------------- MODULE MCOfflineTasks ---------------------------
(***************************************************************************)
(* Instances of OfflineTasks for TLC.                                      *)
(***************************************************************************)
EXTENDS OfflineTasks, TLC

Symmetry == Permutations(Request)

=============================================================================
