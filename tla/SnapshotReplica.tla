---- MODULE SnapshotReplica ----
(***************************************************************************)
(* What the application promises those who read its model snapshot, with   *)
(* none of its mechanism: a lagging copy of the monitored tables.  What is *)
(* shown was in the tables, never goes back to something older than what   *)
(* anybody was shown or was told to be there, and a run is acknowledged    *)
(* only when the copy has caught up with it or owns up to a failure.  A    *)
(* copy may be lost at any time, an acknowledgement is not.                *)
(***************************************************************************)
EXTENDS Naturals

CONSTANTS
  Tables,        \* the monitored tables
  Limits,        \* row limits a reader may ask for, one copy each
  DefaultLimit,  \* the copy that acknowledgements are about
  MaxRuns        \* bound on the number of runs

VARIABLES
  source,        \* source[t]: the run whose rows table t holds
  shown,         \* shown[l]: the copy for row limit l
  acknowledged   \* the latest run that was acknowledged

Versions == [Tables -> 0..MaxRuns]

Lost == [status |-> "none", rows |-> [t \in Tables |-> 0]]
Failed == [status |-> "failed", rows |-> [t \in Tables |-> 0]]
Copy(rows) == [status |-> "ok", rows |-> rows]

Init ==
  /\ source = [t \in Tables |-> 0]
  /\ shown = [l \in Limits |-> Lost]
  /\ acknowledged = 0

\* The tables only move on.
Load(t) ==
  /\ \E r \in 0..MaxRuns : r >= source[t] /\ source' = [source EXCEPT ![t] = r]
  /\ UNCHANGED <<shown, acknowledged>>

\* What was in the tables, not necessarily at one time, and is as new as all
\* other copies and all acknowledgements.
CatchUp(l) ==
  /\ \E rows \in Versions :
       /\ shown' = [shown EXCEPT ![l] = Copy(rows)]
       /\ \A t \in Tables :
            /\ rows[t] <= source[t]
            /\ rows[t] >= acknowledged
            /\ \A k \in Limits : rows[t] >= shown[k].rows[t]
  /\ UNCHANGED <<source, acknowledged>>

Fail(l) ==
  /\ shown' = [shown EXCEPT ![l] = Failed]
  /\ UNCHANGED <<source, acknowledged>>

\* There is something to show, and a copy is as new as what is acknowledged.
Acknowledge ==
  /\ shown[DefaultLimit].status # "none"
  /\ acknowledged' >= acknowledged
  /\ shown[DefaultLimit].status = "ok" =>
       \A t \in Tables : shown[DefaultLimit].rows[t] >= acknowledged'
  /\ UNCHANGED <<source, shown>>

Lose ==
  /\ shown' = [l \in Limits |-> Lost]
  /\ UNCHANGED <<source, acknowledged>>

Next ==
  \/ \E t \in Tables : Load(t)
  \/ \E l \in Limits : CatchUp(l) \/ Fail(l)
  \/ Acknowledge \/ Lose

vars == <<source, shown, acknowledged>>

Spec == Init /\ [][Next]_vars
====
