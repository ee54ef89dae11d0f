---- MODULE SnapshotGuard ----
(***************************************************************************)
(* What keeps the dashboard from showing tables that are being reloaded    *)
(* when refresh coordination is disabled: before a refresh reads the       *)
(* monitored tables it counts them, one by one, and gives up if one is     *)
(* empty or, with the Snowflake snapshot enabled, smaller than the last    *)
(* accepted count of a control table, which it then raises                 *)
(* (snowflake_snapshot.py; load_selected_model_context,                    *)
(* find_empty_source_tables).                                              *)
(*                                                                         *)
(* The Obero processes delete and insert rows meanwhile.  One refresh runs *)
(* at a time (_model_refresh_lock).                                        *)
(***************************************************************************)
EXTENDS Naturals

CONSTANTS
  Tables,      \* the monitored tables
  MaxRows,     \* bound: rows of a table
  MaxReloads,  \* bound: reloads of a table
  MaxFaults    \* bound: queries that raise, restarts of the application

ASSUME BoundsAssumption ==
  MaxRows \in Nat /\ MaxReloads \in Nat /\ MaxFaults \in Nat

VARIABLES
  enabled,   \* MODEL_MONITORING_SNOWFLAKE_SNAPSHOT_ENABLED
  rows,      \* Xactly: the number of rows of each table
  loading,   \* tables that are being reloaded
  mark,      \* Snowflake: SOURCE_COUNT of each table, 0 without a row
  pc,        \* what the refresh does next
  todo,      \* tables it still has to count, save or read
  count,     \* incoming_counts
  got,       \* rows it has read of each table
  shown,     \* rows of each table in the snapshot of the cache
  peak,      \* the most rows each table ever had
  disturbed, \* tables that lost rows since the refresh counted them
  reloads, faults

source  == <<rows, loading, peak, reloads>>
refresh == <<pc, todo, count, got>>
vars    == <<enabled, rows, loading, mark, pc, todo, count, got, shown, peak,
             disturbed, reloads, faults>>

Counts == [Tables -> 0..MaxRows]
Zero   == [t \in Tables |-> 0]

TypeOK ==
  /\ enabled \in BOOLEAN
  /\ rows \in Counts /\ mark \in Counts /\ count \in Counts
  /\ got \in Counts /\ shown \in Counts /\ peak \in Counts
  /\ loading \subseteq Tables /\ todo \subseteq Tables /\ disturbed \subseteq Tables
  /\ pc \in {"off", "count", "judge", "save", "read"}
  /\ reloads \in 0..MaxReloads /\ faults \in 0..MaxFaults

Init ==
  /\ enabled \in BOOLEAN
  /\ rows \in Counts /\ peak = rows
  /\ loading = {} /\ mark = Zero
  /\ pc = "off" /\ todo = {} /\ count = Zero /\ got = Zero
  /\ shown = Zero /\ disturbed = {}
  /\ reloads = 0 /\ faults = 0

----
(* The Obero processes *)

\* The rows of a client, or of all, are deleted ...
BeginReload(t) ==
  /\ t \notin loading
  /\ reloads < MaxReloads /\ reloads' = reloads + 1
  /\ loading' = loading \cup {t}
  /\ \E n \in 0..rows[t] : rows' = [rows EXCEPT ![t] = n]
  /\ disturbed' = disturbed \cup {t}
  /\ UNCHANGED <<enabled, mark, refresh, shown, peak, faults>>

\* ... and inserted again.
Insert(t) ==
  /\ t \in loading /\ rows[t] < MaxRows
  /\ rows' = [rows EXCEPT ![t] = @ + 1]
  /\ \/ rows[t] < peak[t] /\ UNCHANGED peak
     \/ rows[t] = peak[t] /\ peak' = [peak EXCEPT ![t] = @ + 1]
  /\ UNCHANGED <<enabled, loading, mark, refresh, shown, disturbed, reloads, faults>>

EndReload(t) ==
  /\ t \in loading
  /\ loading' = loading \ {t}
  /\ UNCHANGED <<enabled, rows, mark, refresh, shown, peak, disturbed, reloads,
                 faults>>

----
(* A refresh *)

BeginRefresh ==
  /\ pc = "off"
  /\ pc' = "count" /\ todo' = Tables
  /\ UNCHANGED <<enabled, source, mark, count, got, shown, disturbed, faults>>

\* _incoming_counts, or a row of each table for find_empty_source_tables:
\* four queries at a time.
CountTable(t) ==
  /\ pc = "count" /\ t \in todo
  /\ count' = [count EXCEPT ![t] = rows[t]]
  /\ disturbed' = disturbed \ {t}
  /\ todo' = todo \ {t}
  /\ pc' = IF todo = {t} THEN "judge" ELSE pc
  /\ UNCHANGED <<enabled, source, mark, got, shown, faults>>

\* Mutant: only growth is accepted.
BlockedUnlessGrown ==
  {t \in Tables : count[t] = 0 \/ (enabled /\ count[t] <= mark[t])}

\* Mutant: the counts are only tested for being empty.
BlockedIfEmpty == {t \in Tables : count[t] = 0}

\* The tables that pause monitoring.
Blocked == {t \in Tables : count[t] = 0 \/ (enabled /\ count[t] < mark[t])}

Grown == {t \in Tables : count[t] > mark[t]}

\* The counts are compared with _snapshot_counts.  A paused refresh is not
\* stored.
Judge ==
  /\ pc = "judge"
  /\ \/ Blocked # {} /\ pc' = "off" /\ UNCHANGED todo
     \/ Blocked = {} /\ enabled /\ Grown # {} /\ pc' = "save" /\ todo' = Grown
     \/ /\ Blocked = {} /\ (~enabled \/ Grown = {})
        /\ pc' = "read" /\ todo' = Tables
  /\ UNCHANGED <<enabled, source, mark, count, got, shown, disturbed, faults>>

\* _save_counts: one MERGE after another.
SaveCount(t) ==
  /\ pc = "save" /\ t \in todo
  /\ mark' = [mark EXCEPT ![t] = count[t]]
  /\ \/ todo # {t} /\ todo' = todo \ {t} /\ UNCHANGED pc
     \/ todo = {t} /\ todo' = Tables /\ pc' = "read"
  /\ UNCHANGED <<enabled, source, count, got, shown, disturbed, faults>>

\* load_selected_model_context_from_xactly reads the tables.
ReadTable(t) ==
  /\ pc = "read" /\ t \in todo
  /\ got' = [got EXCEPT ![t] = rows[t]]
  /\ todo' = todo \ {t}
  /\ UNCHANGED <<enabled, source, mark, pc, count, shown, disturbed, faults>>

Store ==
  /\ pc = "read" /\ todo = {}
  /\ shown' = got
  /\ pc' = "off"
  /\ UNCHANGED <<enabled, source, mark, todo, count, got, disturbed, faults>>

\* A query raises; what _save_counts has written stays.
RefreshRaises ==
  /\ pc # "off"
  /\ faults < MaxFaults /\ faults' = faults + 1
  /\ pc' = "off" /\ todo' = {}
  /\ UNCHANGED <<enabled, source, mark, count, got, shown, disturbed>>

\* The cache is lost with the process, the control table is not.
AppRestarts ==
  /\ faults < MaxFaults /\ faults' = faults + 1
  /\ pc' = "off" /\ todo' = {} /\ shown' = Zero
  /\ count' = Zero /\ got' = Zero
  /\ UNCHANGED <<enabled, source, mark, disturbed>>

----
Refresh ==
  \/ BeginRefresh \/ Judge \/ Store
  \/ \E t \in Tables : CountTable(t) \/ SaveCount(t) \/ ReadTable(t)

Reload(t) == BeginReload(t) \/ Insert(t) \/ EndReload(t)

Next ==
  \/ Refresh \/ RefreshRaises \/ AppRestarts
  \/ \E t \in Tables : Reload(t)

Spec == Init /\ [][Next]_vars

\* The watchdog asks for a refresh after a cycle until one was stored, and
\* the dashboard when its snapshot is five minutes old.  Nothing is assumed
\* of the Obero processes.
FairSpec == Spec /\ WF_vars(Refresh)

----
(* Safety *)

\* "Empty or reduced incoming tables pause monitoring": what a refresh has
\* read and stores has no empty table and, if snapshots are enabled, none with
\* fewer rows than were accepted before, whatever an earlier refresh that
\* failed has saved; except for a table that lost rows after it was counted.
StoredIsNotReduced ==
  pc = "read" /\ todo = {} =>
    \A t \in Tables \ disturbed : got[t] > 0 /\ (enabled => got[t] >= mark[t])

\* An accepted count is never lowered: a refresh that was overtaken by a
\* reload, failed halfway or was lost with the application leaves no mark
\* behind that would accept fewer rows than were accepted before.
MarksOnlyGrow == [][\A t \in Tables : mark'[t] >= mark[t]]_vars

\* The guard does not lock itself out: a table that is counted with all the
\* rows it ever had does not pause monitoring, whatever was counted and saved
\* while it was reloaded; so only tables that lost rows, or are empty, do.
OnlyLossesPause ==
  pc = "judge" => \A t \in Blocked : count[t] = 0 \/ count[t] < peak[t]

----
(* Liveness *)

Whole == \A t \in Tables : rows[t] = peak[t] /\ rows[t] > 0

\* The pause ends: when every table has all its rows again and keeps them,
\* the dashboard shows them, whatever was counted and saved while they were
\* reloaded.  (A table that stays smaller pauses monitoring for ever.)
MonitoringResumes == <>[]Whole => <>[](shown = rows)
====
