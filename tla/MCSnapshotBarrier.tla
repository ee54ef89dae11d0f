---- MODULE MCSnapshotBarrier ----
(* SnapshotBarrier for TLC: the tables are interchangeable. *)
EXTENDS SnapshotBarrier, TLC

TableSymmetry == Permutations(Tables)
====
