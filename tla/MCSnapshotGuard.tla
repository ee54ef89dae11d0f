---- MODULE MCSnapshotGuard ----
(* SnapshotGuard for TLC: the constants are given in the config. *)
EXTENDS SnapshotGuard
====
