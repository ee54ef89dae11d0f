---- MODULE MCProcessRunner ----
(* ProcessRunner for TLC: the constants are given in the config. *)
EXTENDS ProcessRunner
====
