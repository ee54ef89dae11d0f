---- MODULE MCJdbcPool ----
(* JdbcPool for TLC: the constants are given in the config. *)
EXTENDS JdbcPool
====
