------------------------- MODULE MCSnapshotService -------------------------
(* A small instance of SnapshotService for TLC.                            *)
EXTENDS SnapshotService, TLC
=============================================================================
