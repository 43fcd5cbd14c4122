------------------------ MODULE MCSnapshotRefresher ------------------------
(***************************************************************************)
(* Two threads: one the owner runs, one it may have given up joining.      *)
(***************************************************************************)
EXTENDS SnapshotRefresher

CONSTANTS l1, l2
=============================================================================
