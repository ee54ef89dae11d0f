---- MODULE MCRunMonitor ----
EXTENDS RunMonitor

CONSTANTS y1, y2   \* types of runs

\* In time, a minute late, and a run that died.
SomeShapes ==
  {[type |-> y1, late |-> 0, took |-> 1, ended |-> TRUE],
   [type |-> y2, late |-> 0, took |-> 0, ended |-> TRUE],
   [type |-> y1, late |-> 1, took |-> 0, ended |-> TRUE],
   [type |-> y1, late |-> 0, took |-> 1, ended |-> FALSE]}
====
