---- MODULE SnapshotGuard_proofs ----
(***************************************************************************)
(* What a refresh stores is not reduced, for any tables of any size and    *)
(* any number of reloads, failures and restarts.                           *)
(***************************************************************************)
EXTENDS SnapshotGuard, TLAPS

\* The tables that the refresh in progress has counted.
Counted == {t \in Tables : pc \in {"judge", "save", "read"} \/ (pc = "count" /\ t \notin todo)}

\* Since it was counted, a table has only grown, unless it is disturbed.
OnlyGrown == \A t \in Counted \ disturbed : rows[t] >= count[t]

\* What was accepted is neither empty nor below the marks, which are raised
\* to the counts one after another.
Accepted ==
  pc \in {"save", "read"} =>
    \A t \in Tables : count[t] > 0 /\ (enabled => count[t] >= mark[t])

\* What was read since is what was counted, and more.
ReadSince ==
  pc = "read" => \A t \in Tables \ (todo \cup disturbed) : got[t] >= count[t]

GuardInv == TypeOK /\ OnlyGrown /\ Accepted /\ ReadSince

----
\* The counters of rows have the type of counts.
LEMMA UpdateOfCounts ==
  ASSUME NEW f \in Counts, NEW t \in Tables, NEW n \in 0..MaxRows
  PROVE  [f EXCEPT ![t] = n] \in Counts
BY DEF Counts

\* Every state is one before anything is counted, to begin with.
LEMMA InitGuard == Init => GuardInv
<1>1. MaxReloads \in Nat /\ MaxFaults \in Nat /\ MaxRows \in Nat
  BY BoundsAssumption
<1>2. ASSUME Init PROVE TypeOK
  <2>1. Zero \in Counts
    BY <1>1 DEF Zero, Counts
  <2> QED BY <1>1, <1>2, <2>1 DEF Init, TypeOK
<1> QED BY <1>2 DEF Init, GuardInv, OnlyGrown, Counted, Accepted, ReadSince

\* The types are preserved by every step.
LEMMA TypeStep == TypeOK /\ [Next]_vars => TypeOK'
<1> SUFFICES ASSUME TypeOK, [Next]_vars PROVE TypeOK'
  OBVIOUS
<1>0. MaxReloads \in Nat /\ MaxFaults \in Nat /\ MaxRows \in Nat
  BY BoundsAssumption
<1>z. Zero \in Counts
  BY <1>0 DEF Zero, Counts
<1>1. ASSUME NEW t \in Tables, BeginReload(t) PROVE TypeOK'
  <2>1. PICK n \in 0..rows[t] : rows' = [rows EXCEPT ![t] = n]
    BY <1>1 DEF BeginReload
  <2>2. n \in 0..MaxRows
    BY <1>0, <2>1 DEF TypeOK, Counts
  <2>3. rows' \in Counts
    BY <2>1, <2>2, UpdateOfCounts DEF TypeOK
  <2> QED BY <1>0, <1>1, <2>3 DEF BeginReload, TypeOK, refresh
<1>2. ASSUME NEW t \in Tables, Insert(t) PROVE TypeOK'
  <2>1. rows[t] + 1 \in 0..MaxRows /\ rows[t] \in Nat
    BY <1>0, <1>2 DEF Insert, TypeOK, Counts
  <2>2. rows' \in Counts
    BY <1>2, <2>1, UpdateOfCounts DEF TypeOK, Insert
  <2>3. peak' \in Counts
    <3>1. CASE UNCHANGED peak
      BY <3>1 DEF TypeOK
    <3>2. CASE rows[t] = peak[t] /\ peak' = [peak EXCEPT ![t] = @ + 1]
      BY <3>2, <2>1, UpdateOfCounts DEF TypeOK
    <3> QED BY <1>2, <3>1, <3>2 DEF Insert
  <2> QED BY <1>2, <2>2, <2>3 DEF Insert, TypeOK, refresh
<1>3. ASSUME NEW t \in Tables, EndReload(t) PROVE TypeOK'
  BY <1>3 DEF EndReload, TypeOK, refresh
<1>4. ASSUME BeginRefresh PROVE TypeOK'
  BY <1>4 DEF BeginRefresh, TypeOK, source
<1>5. ASSUME NEW t \in Tables, CountTable(t) PROVE TypeOK'
  <2>1. rows[t] \in 0..MaxRows
    BY DEF TypeOK, Counts
  <2>2. count' \in Counts
    BY <1>5, <2>1, UpdateOfCounts DEF CountTable, TypeOK
  <2> QED BY <1>5, <2>2 DEF CountTable, TypeOK, source
<1>6. ASSUME Judge PROVE TypeOK'
  BY <1>6 DEF Judge, TypeOK, source, Grown
<1>7. ASSUME NEW t \in Tables, SaveCount(t) PROVE TypeOK'
  <2>1. count[t] \in 0..MaxRows
    BY DEF TypeOK, Counts
  <2>2. mark' \in Counts
    BY <1>7, <2>1, UpdateOfCounts DEF SaveCount, TypeOK
  <2> QED BY <1>7, <2>2 DEF SaveCount, TypeOK, source
<1>8. ASSUME NEW t \in Tables, ReadTable(t) PROVE TypeOK'
  <2>1. rows[t] \in 0..MaxRows
    BY DEF TypeOK, Counts
  <2>2. got' \in Counts
    BY <1>8, <2>1, UpdateOfCounts DEF ReadTable, TypeOK
  <2> QED BY <1>8, <2>2 DEF ReadTable, TypeOK, source
<1>9. ASSUME Store PROVE TypeOK'
  BY <1>9 DEF Store, TypeOK, source
<1>10. ASSUME RefreshRaises PROVE TypeOK'
  BY <1>0, <1>10 DEF RefreshRaises, TypeOK, source
<1>11. ASSUME AppRestarts PROVE TypeOK'
  BY <1>0, <1>z, <1>11 DEF AppRestarts, TypeOK, source
<1>12. ASSUME UNCHANGED vars PROVE TypeOK'
  BY <1>12 DEF vars, TypeOK
<1> QED BY <1>1, <1>2, <1>3, <1>4, <1>5, <1>6, <1>7, <1>8, <1>9, <1>10, <1>11,
           <1>12 DEF Next, Refresh, Reload

----
\* Reloads take rows away only from disturbed tables.
LEMMA ReloadStep ==
  ASSUME GuardInv, NEW t \in Tables, Reload(t)
  PROVE  OnlyGrown' /\ Accepted' /\ ReadSince'
<1>0. /\ rows \in [Tables -> Nat] /\ count \in [Tables -> Nat]
      /\ got \in [Tables -> Nat] /\ mark \in [Tables -> Nat]
  BY BoundsAssumption DEF GuardInv, TypeOK, Counts
<1>1. /\ UNCHANGED <<enabled, mark, pc, todo, count, got>>
      /\ disturbed \subseteq disturbed'
      /\ \A s \in Tables \ disturbed' : rows'[s] >= rows[s]
  <2>1. CASE BeginReload(t)
    BY <2>1, <1>0 DEF BeginReload, refresh
  <2>2. CASE Insert(t)
    BY <2>2, <1>0 DEF Insert, refresh
  <2>3. CASE EndReload(t)
    BY <2>3, <1>0 DEF EndReload, refresh
  <2> QED BY <2>1, <2>2, <2>3 DEF Reload
<1>2. OnlyGrown'
  <2> SUFFICES ASSUME NEW s \in Counted' \ disturbed' PROVE rows'[s] >= count'[s]
    BY DEF OnlyGrown
  <2>1. s \in Counted \ disturbed /\ s \in Tables
    BY <1>1 DEF Counted
  <2>2. rows[s] >= count[s] /\ rows'[s] >= rows[s] /\ count'[s] = count[s]
    BY <2>1, <1>1 DEF GuardInv, OnlyGrown
  <2>3. rows'[s] \in Nat
    BY <2>1, TypeStep, BoundsAssumption DEF GuardInv, Next, TypeOK, Counts
  <2> QED BY <2>1, <2>2, <2>3, <1>0
<1>3. Accepted'
  BY <1>1 DEF GuardInv, Accepted
<1>4. ReadSince'
  BY <1>1 DEF GuardInv, ReadSince
<1> QED BY <1>2, <1>3, <1>4

\* A count is not more than what it counted.
LEMMA CountStep ==
  ASSUME GuardInv, NEW t \in Tables, CountTable(t)
  PROVE  OnlyGrown' /\ Accepted' /\ ReadSince'
<1>0. /\ rows \in [Tables -> Nat] /\ count \in [Tables -> Nat]
  BY BoundsAssumption DEF GuardInv, TypeOK, Counts
<1>1. pc' \in {"count", "judge"}
  BY DEF CountTable
<1>2. OnlyGrown'
  <2> SUFFICES ASSUME NEW s \in Counted' \ disturbed' PROVE rows'[s] >= count'[s]
    BY DEF OnlyGrown
  <2>0. s \in Tables
    BY DEF Counted
  <2>1. CASE s = t
    BY <2>1, <1>0 DEF CountTable, source
  <2>2. CASE s # t
    <3>1. s \notin todo /\ s \notin disturbed
      BY <2>0, <2>2 DEF CountTable, Counted
    <3>2. s \in Counted
      BY <2>0, <3>1 DEF CountTable, Counted
    <3> QED BY <2>0, <2>2, <3>1, <3>2, <1>0 DEF GuardInv, OnlyGrown, CountTable, source
  <2> QED BY <2>1, <2>2
<1> QED BY <1>1, <1>2 DEF Accepted, ReadSince

\* The verdict is that nothing is empty or below its mark.
LEMMA JudgeStep ==
  ASSUME GuardInv, Judge
  PROVE  OnlyGrown' /\ Accepted' /\ ReadSince'
<1>0. count \in [Tables -> Nat] /\ mark \in [Tables -> Nat]
  BY BoundsAssumption DEF GuardInv, TypeOK, Counts
<1>1. UNCHANGED <<enabled, rows, mark, count, got, disturbed>>
  BY DEF Judge, source
<1>2. OnlyGrown'
  BY <1>1 DEF GuardInv, OnlyGrown, Counted, Judge
<1>3. Accepted'
  <2> SUFFICES ASSUME Blocked = {}, NEW t \in Tables
               PROVE  count[t] > 0 /\ (enabled => count[t] >= mark[t])
    BY <1>1 DEF Accepted, Judge
  <2> QED BY <1>0 DEF Blocked
<1>4. ReadSince'
  BY DEF Judge, ReadSince
<1> QED BY <1>2, <1>3, <1>4

\* A mark is raised to the count.
LEMMA SaveStep ==
  ASSUME GuardInv, NEW t \in Tables, SaveCount(t)
  PROVE  OnlyGrown' /\ Accepted' /\ ReadSince'
<1>0. count \in [Tables -> Nat] /\ mark \in [Tables -> Nat]
  BY BoundsAssumption DEF GuardInv, TypeOK, Counts
<1>1. UNCHANGED <<enabled, rows, count, got, disturbed>>
  BY DEF SaveCount, source
<1>2. OnlyGrown'
  BY <1>1 DEF GuardInv, OnlyGrown, Counted, SaveCount
<1>3. Accepted'
  BY <1>0, <1>1 DEF GuardInv, Accepted, SaveCount
<1>4. ReadSince'
  BY DEF SaveCount, ReadSince
<1> QED BY <1>2, <1>3, <1>4

\* What is read is what has only grown.
LEMMA ReadStep ==
  ASSUME GuardInv, NEW t \in Tables, ReadTable(t)
  PROVE  OnlyGrown' /\ Accepted' /\ ReadSince'
<1>0. /\ rows \in [Tables -> Nat] /\ count \in [Tables -> Nat]
      /\ got \in [Tables -> Nat]
  BY BoundsAssumption DEF GuardInv, TypeOK, Counts
<1>1. UNCHANGED <<enabled, rows, mark, pc, count, disturbed>>
  BY DEF ReadTable, source
<1>2. OnlyGrown'
  BY <1>1 DEF GuardInv, OnlyGrown, Counted, ReadTable
<1>3. Accepted'
  BY <1>1 DEF GuardInv, Accepted
<1>4. ReadSince'
  <2> SUFFICES ASSUME NEW s \in Tables \ (todo' \cup disturbed) PROVE got'[s] >= count[s]
    BY <1>1 DEF ReadSince
  <2>1. CASE s = t
    <3>1. t \in Counted \ disturbed
      BY <2>1 DEF Counted, ReadTable
    <3> QED BY <2>1, <3>1, <1>0 DEF GuardInv, OnlyGrown, ReadTable
  <2>2. CASE s # t
    BY <2>2, <1>0 DEF GuardInv, ReadSince, ReadTable
  <2> QED BY <2>1, <2>2
<1> QED BY <1>2, <1>3, <1>4

\* A refresh that begins or ends has counted nothing.
LEMMA OtherStep ==
  ASSUME GuardInv, BeginRefresh \/ Store \/ RefreshRaises \/ AppRestarts
  PROVE  OnlyGrown' /\ Accepted' /\ ReadSince'
<1>1. pc' = "off" \/ (pc' = "count" /\ todo' = Tables)
  BY DEF BeginRefresh, Store, RefreshRaises, AppRestarts
<1> QED BY <1>1 DEF OnlyGrown, Counted, Accepted, ReadSince

LEMMA GuardStep == GuardInv /\ [Next]_vars => GuardInv'
<1> SUFFICES ASSUME GuardInv, [Next]_vars PROVE GuardInv'
  OBVIOUS
<1>1. TypeOK'
  BY TypeStep DEF GuardInv
<1>2. CASE UNCHANGED vars
  BY <1>1, <1>2 DEF GuardInv, vars, OnlyGrown, Counted, Accepted, ReadSince
<1>3. CASE Next
  BY <1>1, <1>3, ReloadStep, CountStep, JudgeStep, SaveStep, ReadStep, OtherStep
     DEF GuardInv, Next, Refresh
<1> QED BY <1>2, <1>3

THEOREM GuardInvariant == Spec => []GuardInv
BY InitGuard, GuardStep, PTL DEF Spec

----
\* The types of the guard, for any tables and bounds.
THEOREM TypeCorrect == Spec => []TypeOK
<1>1. GuardInv => TypeOK
  BY DEF GuardInv
<1> QED BY <1>1, GuardInvariant, PTL

\* "Empty or reduced incoming tables pause monitoring": what a refresh stores
\* is not reduced, but for tables that lost rows after they were counted.
THEOREM StoredNotReduced == Spec => []StoredIsNotReduced
<1>1. GuardInv => StoredIsNotReduced
  <2> SUFFICES ASSUME GuardInv, pc = "read", todo = {}, NEW t \in Tables \ disturbed
               PROVE  got[t] > 0 /\ (enabled => got[t] >= mark[t])
    BY DEF StoredIsNotReduced
  <2>1. /\ got[t] \in Nat /\ count[t] \in Nat /\ mark[t] \in Nat
    BY BoundsAssumption DEF GuardInv, TypeOK, Counts
  <2>2. /\ got[t] >= count[t] /\ count[t] > 0 /\ (enabled => count[t] >= mark[t])
    BY DEF GuardInv, Accepted, ReadSince
  <2> QED BY <2>1, <2>2
<1> QED BY <1>1, GuardInvariant, PTL

----
(* The marks *)

\* Nothing was counted or accepted that was not there, and what is being saved
\* is more than was accepted before.
MarksWereSeen ==
  /\ \A t \in Tables : rows[t] <= peak[t] /\ count[t] <= peak[t] /\ mark[t] <= peak[t]
  /\ pc = "save" => \A t \in todo : count[t] > mark[t]

LEMMA InitMarks == Init => MarksWereSeen
<1> SUFFICES ASSUME Init, NEW t \in Tables
             PROVE  rows[t] <= peak[t] /\ count[t] <= peak[t] /\ mark[t] <= peak[t]
  BY DEF Init, MarksWereSeen
<1>1. rows[t] \in Nat
  BY BoundsAssumption DEF Init, Counts
<1> QED BY <1>1 DEF Init, Zero

\* A reload moves the rows below the peak, or the peak with them.
LEMMA ReloadMarks ==
  ASSUME TypeOK, MarksWereSeen, NEW t \in Tables, Reload(t)
  PROVE  MarksWereSeen' /\ UNCHANGED mark
<1>0. /\ rows \in [Tables -> Nat] /\ peak \in [Tables -> Nat]
      /\ count \in [Tables -> Nat] /\ mark \in [Tables -> Nat]
  BY BoundsAssumption DEF TypeOK, Counts
<1>1. UNCHANGED <<mark, pc, todo, count>>
  BY DEF Reload, BeginReload, Insert, EndReload, refresh
<1>2. \A s \in Tables : rows'[s] <= peak'[s] /\ peak[s] <= peak'[s] /\ peak'[s] \in Nat
  <2>1. CASE BeginReload(t)
    <3>1. PICK n \in 0..rows[t] : rows' = [rows EXCEPT ![t] = n]
      BY <2>1 DEF BeginReload
    <3>2. n \in Nat /\ n <= peak[t]
      BY <3>1, <1>0 DEF MarksWereSeen
    <3> QED BY <2>1, <3>1, <3>2, <1>0 DEF BeginReload, MarksWereSeen
  <2>2. CASE Insert(t)
    BY <2>2, <1>0 DEF Insert, MarksWereSeen
  <2>3. CASE EndReload(t)
    BY <2>3, <1>0 DEF EndReload, MarksWereSeen
  <2> QED BY <2>1, <2>2, <2>3 DEF Reload
<1> QED BY <1>0, <1>1, <1>2 DEF MarksWereSeen

LEMMA NextMarks ==
  ASSUME TypeOK, MarksWereSeen, [Next]_vars
  PROVE  MarksWereSeen' /\ \A t \in Tables : mark'[t] >= mark[t]
<1>0. /\ rows \in [Tables -> Nat] /\ peak \in [Tables -> Nat]
      /\ count \in [Tables -> Nat] /\ mark \in [Tables -> Nat]
  BY BoundsAssumption DEF TypeOK, Counts
<1>1. ASSUME NEW t \in Tables, Reload(t)
      PROVE  MarksWereSeen' /\ \A s \in Tables : mark'[s] >= mark[s]
  BY <1>0, <1>1, ReloadMarks
<1>2. ASSUME NEW t \in Tables, CountTable(t)
      PROVE  MarksWereSeen' /\ \A s \in Tables : mark'[s] >= mark[s]
  BY <1>0, <1>2 DEF CountTable, source, MarksWereSeen
<1>3. CASE Judge
  BY <1>0, <1>3 DEF Judge, Grown, source, MarksWereSeen
<1>4. ASSUME NEW t \in Tables, SaveCount(t)
      PROVE  MarksWereSeen' /\ \A s \in Tables : mark'[s] >= mark[s]
  <2>1. /\ pc = "save" /\ t \in todo /\ mark' = [mark EXCEPT ![t] = count[t]]
        /\ UNCHANGED <<rows, peak, count>>
        /\ pc' = "save" => todo' = todo \ {t}
    BY <1>4 DEF SaveCount, source
  <2> QED BY <2>1, <1>0 DEF MarksWereSeen
<1>5. CASE BeginRefresh \/ Store \/ RefreshRaises \/ \E t \in Tables : ReadTable(t)
  BY <1>0, <1>5 DEF BeginRefresh, Store, RefreshRaises, ReadTable, source, MarksWereSeen
<1>6. CASE AppRestarts
  BY <1>0, <1>6 DEF AppRestarts, source, MarksWereSeen, Zero
<1>7. CASE UNCHANGED vars
  BY <1>0, <1>7 DEF vars, MarksWereSeen
<1> QED BY <1>1, <1>2, <1>3, <1>4, <1>5, <1>6, <1>7 DEF Next, Refresh

LEMMA AlwaysMarks == Spec => [](TypeOK /\ MarksWereSeen)
BY InitMarks, NextMarks, TypeCorrect, PTL DEF Spec

\* No accepted count is ever lowered, whatever reloads, failures and restarts
\* come between the verdict of a refresh and the last of its writes.
THEOREM AcceptedCountsGrow == Spec => MarksOnlyGrow
<1>1. TypeOK /\ MarksWereSeen /\ [Next]_vars
        => [\A t \in Tables : mark'[t] >= mark[t]]_vars
  BY NextMarks
<1> QED BY <1>1, AlwaysMarks, PTL DEF Spec, MarksOnlyGrow

\* A table that is counted whole never pauses monitoring: the safety half of
\* MonitoringResumes, for tables of any size.
THEOREM LossesPause == Spec => []OnlyLossesPause
<1>1. TypeOK /\ MarksWereSeen => OnlyLossesPause
  <2> SUFFICES ASSUME TypeOK, MarksWereSeen, NEW t \in Blocked
               PROVE  count[t] = 0 \/ count[t] < peak[t]
    BY DEF OnlyLossesPause
  <2>1. t \in Tables /\ (count[t] = 0 \/ count[t] < mark[t])
    BY DEF Blocked
  <2>2. count[t] \in Nat /\ mark[t] \in Nat /\ peak[t] \in Nat
    BY <2>1, BoundsAssumption DEF TypeOK, Counts
  <2> QED BY <2>1, <2>2 DEF MarksWereSeen
<1> QED BY <1>1, AlwaysMarks, PTL
====
