---- MODULE MCRefreshBatch ----
(* Instances of RefreshBatch for TLC: the constants are given in the configs. *)
EXTENDS RefreshBatch, TLC

\* Clients are interchangeable: no action or property names one.
ClientSymmetry == Permutations(Clients)
====
