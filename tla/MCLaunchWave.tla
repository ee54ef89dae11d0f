---- MODULE MCLaunchWave ----
(* The launches of one cycle, for TLC: three clients in waves of two.       *)
EXTENDS LaunchWave
====
