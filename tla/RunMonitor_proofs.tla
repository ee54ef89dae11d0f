---- MODULE RunMonitor_proofs ----
(***************************************************************************)
(* Theorems about RunMonitor, for any number of runs, types and steps, any *)
(* limits on the queries and any IDs.                                      *)
(***************************************************************************)
EXTENDS RunMonitor, FiniteSetTheorems, SequenceTheorems, WellFoundedInduction, TLAPS

----
(* What the queries and the choices among their rows return *)

LEMMA LeastNatural ==
  ASSUME NEW S \in SUBSET Nat, S # {}
  PROVE  Min(S) \in S /\ \A y \in S : Min(S) <= y
<1> DEFINE less == {pair \in Nat \X Nat : pair[1] < pair[2]}
<1>1. IsWellFoundedOn(less, Nat)
  BY NatLessThanWellFounded DEF OpToRel
<1>2. \A y, x \in Nat : <<y, x>> \in less <=> y < x
  OBVIOUS
<1>3. PICK x \in S : \A y \in S : <<y, x>> \notin less
  <2> HIDE DEF less
  <2> QED  BY <1>1, WFMin
<1> HIDE DEF less
<1>4. ASSUME NEW y \in S PROVE x <= y
  <2>1. x \in Nat /\ y \in Nat
    OBVIOUS
  <2>2. ~(y < x)
    BY <2>1, <1>2, <1>3
  <2>3. QED
    BY <2>1, <2>2
<1>5. QED
  BY <1>4 DEF Min

LEMMA RowsAreOfTheLog ==
  ASSUME log \in Seq(Row), NEW kept
  PROVE  Cealog(kept).rows \subseteq Ids
<1> DEFINE minutes == {runs[r].form : r \in Previous}
<1>1. \A S, n : FirstRows(S, n) \subseteq S /\ LastRows(S, n) \subseteq S
  BY DEF FirstRows, LastRows
<1>2. Fallback(minutes) \subseteq Ids
  BY <1>1 DEF Fallback
<1>3. \A current, old, ends : LastRows(Targeted(current, old, ends), kept) \subseteq Ids
  BY <1>1 DEF Targeted
<1> HIDE DEF minutes
<1>4. QED
  BY <1>2, <1>3 DEF Cealog, minutes

LEMMA StartIsARow ==
  ASSUME log \in Seq(Row), NEW rows \in SUBSET Ids, NEW minutes, StartAt(rows, minutes) # 0
  PROVE  /\ StartAt(rows, minutes) \in rows /\ StartAt(rows, minutes) \in Ids
         /\ Is(StartAt(rows, minutes), "-START-")
         /\ log[StartAt(rows, minutes)].minute \in minutes
<1> DEFINE S == {i \in rows : Is(i, "-START-") /\ log[i].minute \in minutes}
<1>1. S \subseteq Nat
  BY DEF Ids
<1>2. S # {} /\ StartAt(rows, minutes) = Min(S)
  BY DEF StartAt, Earliest
<1>3. Min(S) \in S
  BY <1>1, <1>2, LeastNatural
<1>4. QED
  BY <1>2, <1>3

\* The start that is reported is a -START- row of the two minutes.
LEMMA ReportedStart ==
  ASSUME log \in Seq(Row), NEW kept, Report(kept).start # 0
  PROVE  /\ Report(kept).start \in Cealog(kept).rows /\ Report(kept).start \in Ids
         /\ Is(Report(kept).start, "-START-")
         /\ log[Report(kept).start].minute \in {Trigger, Trigger + 1}
<1> DEFINE rows == Cealog(kept).rows
           start == StartAt(rows, {Trigger, Trigger + 1})
<1>1. Report(kept).start \in {0, start}
  <2> HIDE DEF rows
  <2> QED  BY DEF Report, Analyzed, rows
<1>2. rows \in SUBSET Ids
  BY RowsAreOfTheLog
<1>3. QED
  BY <1>1, <1>2, StartIsARow

\* What TypeOK says of single runs and rows.
LEMMA Typing ==
  ASSUME TypeOK
  PROVE  /\ Minute \subseteq Nat /\ now \in Minute
         /\ Len(runs) \in Nat
         /\ Len(log) \in Nat /\ Ids = 1..Len(log)
         /\ \A r \in 1..Len(runs) : runs[r] \in Run
         /\ \A r \in 1..Len(runs) : /\ runs[r].trigger \in Minute
                                    /\ runs[r].form \in Nat \cup {-1}
                                    /\ runs[r].type \in Types
         /\ \A i \in Ids : log[i] \in Row
         /\ \A i \in Ids : log[i].run \in 1..MaxRuns /\ log[i].minute \in Minute
<1>1. Minute \subseteq Nat /\ now \in Minute
  BY BoundsAssumption DEF Minute, TypeOK
<1>2. Len(runs) \in Nat /\ Len(log) \in Nat /\ Ids = 1..Len(log)
  BY DEF TypeOK, Ids
<1>3. \A r \in 1..Len(runs) : runs[r] \in Run
  BY <1>2 DEF TypeOK
<1>4. \A i \in Ids : log[i] \in Row
  BY <1>2 DEF TypeOK
<1>5. \A run \in Run : /\ run.trigger \in Minute
                       /\ run.form \in Nat \cup {-1}
                       /\ run.type \in Types
  BY <1>1 DEF Run, Never
<1>6. \A row \in Row : row.run \in 1..MaxRuns /\ row.minute \in Minute
  BY DEF Row
<1>7. QED
  BY <1>1, <1>2, <1>3, <1>4, <1>5, <1>6

\* Among the forms of the two minutes there is a latest.
LEMMA LatestForm ==
  ASSUME TypeOK, Matching # {}
  PROVE  Current \in Matching
<1>1. \A r \in Matching : r \in 1..Len(runs) /\ runs[r].form \in Nat /\ runs[r].form <= now
  <2> SUFFICES ASSUME NEW r \in Matching
               PROVE  r \in 1..Len(runs) /\ runs[r].form \in Nat /\ runs[r].form <= now
    OBVIOUS
  <2>1. r \in 1..Len(runs) /\ runs[r].form # Never /\ runs[r].form <= now
    BY DEF Matching, Metadata, Newest, Appeared
  <2>2. runs[r].form \in Nat \cup {-1}
    BY <2>1, Typing
  <2>3. QED
    BY <2>1, <2>2 DEF Never
<1>2. now \in Nat /\ Len(runs) \in Nat
  BY Typing
<1> DEFINE ages == {now - runs[r].form : r \in Matching}
<1>3. PICK age \in ages : \A other \in ages : age <= other
  <2>1. ages \subseteq Nat /\ ages # {}
    BY <1>1, <1>2
  <2> HIDE DEF ages
  <2> QED  BY <2>1, LeastNatural
<1> DEFINE latest == {r \in Matching : now - runs[r].form = age}
           places == {Len(runs) - r : r \in latest}
<1>4. PICK place \in places : \A other \in places : place <= other
  <2>1. places \subseteq Nat /\ places # {}
    BY <1>1, <1>2, <1>3
  <2> HIDE DEF places, ages
  <2> QED  BY <2>1, LeastNatural
<1>5. PICK r \in latest : place = Len(runs) - r
  OBVIOUS
<1>6. ASSUME NEW q \in Matching PROVE ~Newer(q, r)
  <2>1. now - runs[r].form <= now - runs[q].form
    BY <1>3, <1>5
  <2>2. CASE runs[q].form = runs[r].form
    <3>1. q \in latest
      BY <1>5, <2>2
    <3>2. Len(runs) - r <= Len(runs) - q
      BY <1>4, <1>5, <3>1
    <3>3. QED
      BY <1>1, <1>2, <1>5, <2>2, <3>2 DEF Newer
  <2>3. CASE runs[q].form # runs[r].form
    BY <1>1, <1>2, <1>5, <2>1, <2>3 DEF Newer
  <2>4. QED
    BY <2>2, <2>3
<1>7. QED
  BY <1>5, <1>6 DEF Current

\* A row of the history is identified by the types TypeOK allows.
LEMMA RunIdIsIdentity ==
  ASSUME TypeOK, NEW report, Len(runs) > 0, report.start # 0 => report.start \in Ids
  PROVE  RunId(report) \in Identity
<1>1. CASE report.start # 0
  <2>1. log[report.start].run \in 1..MaxRuns
    BY <1>1, Typing
  <2>2. QED
    BY <1>1, <2>1 DEF RunId, Identity
<1>2. CASE report.start = 0
  <2>1. Trigger \in Minute
    BY Typing DEF Trigger, Newest
  <2>2. Sessions # {} /\ Matching # {} => runs[Current].type \in Types
    <3> SUFFICES ASSUME Matching # {} PROVE runs[Current].type \in Types
      OBVIOUS
    <3>1. Current \in 1..Len(runs)
      BY LatestForm DEF Matching, Metadata, Newest
    <3>2. QED
      BY <3>1, Typing
  <2>3. QED
    BY <1>2, <2>1, <2>2 DEF RunId, Identity
<1>3. QED
  BY <1>1, <1>2

----
(* The invariant *)

\* The bounds in TypeOK hold because time stops MaxMinutes after the past.
Bounded ==
  /\ Len(runs) >= PastRuns
  /\ active => Len(runs) > PastRuns
  /\ runs[PastRuns].over \in 0..(3 * PastRuns - 1)
  /\ now <= runs[PastRuns].over + MaxMinutes

\* Runs come one after the other: a run has left its rows before the next is
\* triggered.
Ordered ==
  /\ \A r \in 1..Len(runs) : runs[r].trigger <= now
  /\ \A q, r \in 1..Len(runs) : q < r => runs[q].trigger <= runs[r].trigger
  /\ \A i \in Ids : log[i].run \in 1..Len(runs) /\ log[i].minute <= now
  /\ \A i \in Ids, r \in 1..Len(runs) : log[i].run < r => log[i].minute <= runs[r].trigger

\* A run is saved under its own number, under that of an earlier run that
\* started in the minute of its trigger, or under that minute.
LendsStart(s, r) ==
  \E i \in Ids : /\ log[i].run = s /\ Is(i, "-START-")
                 /\ log[i].minute = runs[r].trigger

Owns(id, r) ==
  \/ id = [run |-> r]
  \/ \E s \in 1..(r - 1) : id = [run |-> s] /\ LendsStart(s, r)
  \/ \E key \in Types \cup {None} : id = [key |-> key, minute |-> runs[r].trigger]

Owned ==
  \A id \in DOMAIN history : \A r \in history[id].runs : r \in 1..Len(runs) /\ Owns(id, r)

MonitorInv == TypeOK /\ Bounded /\ Ordered /\ Owned

----
(* Initially *)

LEMMA PastRunFacts ==
  ASSUME NEW k \in 1..PastRuns, NEW shape \in Shape
  PROVE  /\ PastRun(k, shape) \in Run
         /\ PastRun(k, shape).trigger = 3 * (k - 1)
         /\ PastRun(k, shape).over \in 0..(3 * PastRuns - 1)
<1>1. shape.late \in 0..1 /\ shape.took \in 0..1 /\ shape.type \in Types
  BY DEF Shape
<1>2. /\ 3 * (k - 1) \in Minute
      /\ 3 * (k - 1) + shape.late + shape.took \in 0..(3 * PastRuns - 1)
      /\ 3 * (k - 1) + shape.late + shape.took \in Minute
  BY <1>1, BoundsAssumption DEF Minute
<1>3. QED
  BY <1>1, <1>2 DEF PastRun, Run

LEMMA PastRowFacts ==
  ASSUME NEW k \in 1..PastRuns, NEW shape \in Shape, NEW j \in 1..5
  PROVE  /\ PastRows(k, shape)[j] \in Row
         /\ PastRows(k, shape)[j].run = k
         /\ PastRows(k, shape)[j].minute \in 3 * (k - 1)..(3 * (k - 1) + 2)
         /\ PastRows(k, shape)[j].minute <= PastRun(k, shape).over
<1> DEFINE start == 3 * (k - 1) + shape.late
           over  == start + shape.took
           step  == CHOOSE step \in Steps : TRUE
<1>1. shape.late \in 0..1 /\ shape.took \in 0..1 /\ shape.ended \in BOOLEAN
  BY DEF Shape
<1>2. /\ start \in Minute /\ start \in 3 * (k - 1)..(3 * (k - 1) + 2)
      /\ over \in Minute /\ over \in 3 * (k - 1)..(3 * (k - 1) + 2)
      /\ start <= over /\ over = PastRun(k, shape).over
  BY <1>1, BoundsAssumption DEF Minute, PastRun
<1>3. step \in Steps /\ k \in 1..MaxRuns
  BY ShapesAssumption, BoundsAssumption
<1> HIDE DEF start, over, step
<1>4. \A minute \in {start, over}, of \in Steps \cup {None},
         what \in {"-START-", "-END-", "before", "after", "detail"} :
        /\ LogRow(minute, k, what, of) \in Row
        /\ LogRow(minute, k, what, of).run = k
        /\ LogRow(minute, k, what, of).minute \in 3 * (k - 1)..(3 * (k - 1) + 2)
        /\ LogRow(minute, k, what, of).minute <= PastRun(k, shape).over
  BY <1>2, <1>3 DEF Row, LogRow
<1>5. \E minute \in {start, over}, of \in Steps \cup {None},
         what \in {"-START-", "-END-", "before", "after", "detail"} :
        PastRows(k, shape)[j] = LogRow(minute, k, what, of)
  <2> DEFINE fourth == IF shape.ended THEN LogRow(over, k, "after", step)
                       ELSE LogRow(over, k, "detail", None)
             fifth  == LogRow(over, k, IF shape.ended THEN "-END-" ELSE "detail", None)
  <2>1. PastRows(k, shape) =
          <<LogRow(start, k, "-START-", None), LogRow(start, k, "before", step),
            LogRow(start, k, "detail", None), fourth, fifth>>
    BY DEF PastRows, start, over, step
  <2>2. fourth \in {LogRow(over, k, "after", step), LogRow(over, k, "detail", None)}
    OBVIOUS
  <2>3. fifth \in {LogRow(over, k, "-END-", None), LogRow(over, k, "detail", None)}
    BY <1>1
  <2> HIDE DEF fourth, fifth
  <2>4. PastRows(k, shape)[j] \in
          {LogRow(start, k, "-START-", None), LogRow(start, k, "before", step),
           LogRow(start, k, "detail", None), fourth, fifth}
    BY <2>1
  <2>5. QED
    BY <1>3, <2>2, <2>3, <2>4
<1>6. QED
  BY <1>4, <1>5

\* The rows of a past run by their place.
LEMMA PastRowPlaces ==
  ASSUME NEW k \in 1..PastRuns, NEW shape \in Shape, NEW j \in 1..5
  PROVE  /\ PastRows(k, shape)[j].minute =
              3 * (k - 1) + shape.late + (IF j <= 3 THEN 0 ELSE shape.took)
         /\ PastRows(k, shape)[j].what = "-START-" <=> j = 1
         /\ PastRows(k, shape)[j].what = "-END-" <=> j = 5 /\ shape.ended
<1>1. shape.late \in 0..1 /\ shape.took \in 0..1 /\ shape.ended \in BOOLEAN /\ k \in Int
  BY BoundsAssumption DEF Shape
<1>2. CASE j = 1
  BY <1>1, <1>2 DEF PastRows, LogRow
<1>3. CASE j = 2
  BY <1>1, <1>3 DEF PastRows, LogRow
<1>4. CASE j = 3
  BY <1>1, <1>4 DEF PastRows, LogRow
<1>5. CASE j = 4
  BY <1>1, <1>5 DEF PastRows, LogRow
<1>6. CASE j = 5
  BY <1>1, <1>6 DEF PastRows, LogRow
<1>7. QED
  BY <1>2, <1>3, <1>4, <1>5, <1>6

LEMMA InitInv == Init => MonitorInv
<1> SUFFICES ASSUME Init PROVE MonitorInv
  OBVIOUS
<1>1. PICK shapes \in [1..PastRuns -> Shapes] :
        /\ runs = [k \in 1..PastRuns |-> PastRun(k, shapes[k])]
        /\ log = [i \in 1..(5 * PastRuns) |->
                    PastRows(1 + ((i - 1) \div 5), shapes[1 + ((i - 1) \div 5)])
                      [1 + ((i - 1) % 5)]]
        /\ deaths = {k \in 1..PastRuns : ~shapes[k].ended}
        /\ now = runs[PastRuns].over
  BY DEF Init
<1>2. \A k \in 1..PastRuns : shapes[k] \in Shape
  BY ShapesAssumption
<1>3. PastRuns \in Nat \ {0} /\ PastRuns <= MaxRuns /\ MaxRuns \in Nat
      /\ MaxMinutes \in Nat /\ MaxRows \in Nat
  BY BoundsAssumption
<1>4. \A k \in 1..PastRuns : /\ runs[k] \in Run /\ runs[k].trigger = 3 * (k - 1)
                             /\ runs[k].over \in 0..(3 * PastRuns - 1)
  BY <1>1, <1>2, PastRunFacts
<1>5. runs \in Seq(Run) /\ Len(runs) = PastRuns
  BY <1>1, <1>3, <1>4
<1>6. \A i \in 1..(5 * PastRuns) :
        1 + ((i - 1) \div 5) \in 1..PastRuns /\ 1 + ((i - 1) % 5) \in 1..5
  BY <1>3
<1>7. \A i \in 1..(5 * PastRuns) :
        /\ log[i] \in Row /\ log[i].run \in 1..PastRuns
        /\ log[i].minute \in 3 * (log[i].run - 1)..(3 * (log[i].run - 1) + 2)
        /\ log[i].minute <= runs[log[i].run].over
  <2> SUFFICES ASSUME NEW i \in 1..(5 * PastRuns)
               PROVE  /\ log[i] \in Row /\ log[i].run \in 1..PastRuns
                      /\ log[i].minute \in 3 * (log[i].run - 1)..(3 * (log[i].run - 1) + 2)
                      /\ log[i].minute <= runs[log[i].run].over
    OBVIOUS
  <2> DEFINE k == 1 + ((i - 1) \div 5)
             j == 1 + ((i - 1) % 5)
  <2>1. k \in 1..PastRuns /\ j \in 1..5
    BY <1>6
  <2>2. log[i] = PastRows(k, shapes[k])[j] /\ runs[k] = PastRun(k, shapes[k])
    BY <1>1, <2>1
  <2> HIDE DEF k, j
  <2>3. shapes[k] \in Shape
    BY <1>2, <2>1
  <2>4. QED
    BY <2>1, <2>2, <2>3, PastRowFacts, SMTT(30)
<1>8. log \in Seq(Row) /\ Len(log) = 5 * PastRuns /\ Ids = 1..(5 * PastRuns)
  BY <1>1, <1>3, <1>7 DEF Ids
<1>9. now \in 0..(3 * PastRuns - 1) /\ now \in Minute
  BY <1>1, <1>3, <1>4 DEF Minute
<1>10. \A id \in DOMAIN history :
         /\ id \in Identity /\ history[id] \in Saved
         /\ \A r \in history[id].runs :
              /\ r \in 1..PastRuns
              /\ id \in {[run |-> r], [key |-> None, minute |-> 3 * (r - 1)]}
  <2> DEFINE keys(k) == {[run |-> k], [key |-> None, minute |-> 3 * (k - 1)]}
             past == [run : 1..PastRuns]
                       \cup {[key |-> None, minute |-> 3 * (k - 1)] : k \in 1..PastRuns}
  <2>1. history = [id \in past |-> [runs |-> {k \in 1..PastRuns : id \in keys(k)},
                                    notified |-> FALSE]]
    BY DEF Init, PastHistory
  <2>2. past \subseteq Identity
    <3>1. \A k \in 1..PastRuns : 3 * (k - 1) \in Minute
      BY <1>3 DEF Minute
    <3>2. 1..PastRuns \subseteq 1..MaxRuns
      BY <1>3
    <3>3. QED
      BY <3>1, <3>2 DEF Identity
  <2> HIDE DEF keys, past
  <2>3. DOMAIN history = past
    BY <2>1
  <2>4. ASSUME NEW id \in past
        PROVE  /\ history[id].runs = {k \in 1..PastRuns : id \in keys(k)}
               /\ history[id] \in Saved
    <3>1. history[id] = [runs |-> {k \in 1..PastRuns : id \in keys(k)}, notified |-> FALSE]
      BY <2>1
    <3> DEFINE members == {k \in 1..PastRuns : id \in keys(k)}
    <3>2. members \in SUBSET (1..MaxRuns)
      BY <1>3
    <3> HIDE DEF members
    <3>3. [runs |-> members, notified |-> FALSE] \in Saved
      BY <3>2 DEF Saved
    <3>4. QED
      BY <3>1, <3>3 DEF members
  <2>5. ASSUME NEW id \in past, NEW r \in history[id].runs
        PROVE  r \in 1..PastRuns /\ id \in keys(r)
    BY <2>4
  <2>6. ASSUME NEW id \in past, NEW r \in history[id].runs
        PROVE  /\ r \in 1..PastRuns
               /\ id \in {[run |-> r], [key |-> None, minute |-> 3 * (r - 1)]}
    BY <2>5 DEF keys
  <2>7. ASSUME NEW id \in DOMAIN history
        PROVE  /\ id \in Identity /\ history[id] \in Saved
               /\ \A r \in history[id].runs :
                    /\ r \in 1..PastRuns
                    /\ id \in {[run |-> r], [key |-> None, minute |-> 3 * (r - 1)]}
    <3>1. id \in past
      BY <2>3
    <3>2. id \in Identity /\ history[id] \in Saved
      BY <3>1, <2>2, <2>4
    <3>3. QED
      BY <3>1, <3>2, <2>6
  <2>8. QED
    BY <2>7
<1>11. TypeOK
  <2>1. deaths \in SUBSET (1..MaxRuns)
    BY <1>1, <1>3
  <2>2. active \in BOOLEAN /\ open \in Seq(Steps)
    <3>1. active = FALSE /\ open = <<>>
      BY DEF Init
    <3>2. active \in BOOLEAN
      BY <3>1, Zenon
    <3>3. open \in Seq(Steps)
      BY <3>1
    <3>4. QED
      BY <3>2, <3>3
  <2>3. Len(log) <= 5 * PastRuns + MaxRows /\ Len(runs) <= MaxRuns
    BY <1>3, <1>5, <1>8
  <2>4. QED
    BY <1>5, <1>8, <1>9, <1>10, <2>1, <2>2, <2>3 DEF TypeOK
<1>12. Bounded
  <2>1. ~active
    BY DEF Init
  <2>2. now <= runs[PastRuns].over + MaxMinutes
    BY <1>1, <1>3, <1>4
  <2>3. QED
    BY <1>3, <1>4, <1>5, <2>1, <2>2 DEF Bounded
<1>13. Ordered
  <2>1. \A r \in 1..Len(runs) : runs[r].trigger <= now
    <3>1. now \in 3 * (PastRuns - 1)..(3 * PastRuns - 1)
      <4>1. PastRuns \in 1..PastRuns /\ now = PastRun(PastRuns, shapes[PastRuns]).over
        BY <1>1, <1>3
      <4>2. shapes[PastRuns].late \in 0..1 /\ shapes[PastRuns].took \in 0..1
        BY <1>2, <4>1 DEF Shape
      <4>3. QED
        BY <1>3, <4>1, <4>2 DEF PastRun
    <3>2. QED
      BY <1>3, <1>4, <1>5, <3>1
  <2>2. \A q, r \in 1..Len(runs) : q < r => runs[q].trigger <= runs[r].trigger
    BY <1>3, <1>4, <1>5
  <2>3. \A i \in Ids : log[i].run \in 1..Len(runs) /\ log[i].minute <= now
    <3> SUFFICES ASSUME NEW i \in Ids PROVE log[i].run \in 1..Len(runs) /\ log[i].minute <= now
      OBVIOUS
    <3>1. /\ log[i].run \in 1..PastRuns
          /\ log[i].minute \in 3 * (log[i].run - 1)..(3 * (log[i].run - 1) + 2)
          /\ log[i].minute <= runs[log[i].run].over
      BY <1>7, <1>8
    <3>2. CASE log[i].run = PastRuns
      BY <1>1, <1>5, <3>1, <3>2
    <3>3. CASE log[i].run # PastRuns
      <4>1. runs[PastRuns].trigger <= now /\ runs[PastRuns].trigger = 3 * (PastRuns - 1)
        BY <1>3, <1>4, <1>5, <2>1
      <4>2. PICK q \in 1..PastRuns : q = log[i].run
        BY <3>1
      <4>3. q <= PastRuns - 1
        BY <1>3, <3>3, <4>2
      <4>4. log[i].minute \in Int /\ log[i].minute <= 3 * (q - 1) + 2
        BY <1>3, <3>1, <4>2
      <4>5. 3 * (q - 1) + 2 <= 3 * (PastRuns - 1)
        BY <1>3, <4>2, <4>3
      <4>6. log[i].minute <= now
        BY <1>3, <1>9, <4>1, <4>2, <4>4, <4>5
      <4>7. QED
        BY <1>3, <1>5, <3>1, <4>6
    <3>4. QED
      BY <3>2, <3>3
  <2>4. \A i \in Ids, r \in 1..Len(runs) : log[i].run < r => log[i].minute <= runs[r].trigger
    <3> SUFFICES ASSUME NEW i \in Ids, NEW r \in 1..Len(runs), log[i].run < r
                 PROVE  log[i].minute <= runs[r].trigger
      OBVIOUS
    <3>1. /\ log[i].run \in 1..PastRuns
          /\ log[i].minute \in 3 * (log[i].run - 1)..(3 * (log[i].run - 1) + 2)
      BY <1>7, <1>8
    <3>2. r \in 1..PastRuns /\ runs[r].trigger = 3 * (r - 1)
      BY <1>4, <1>5
    <3>3. QED
      BY <1>3, <3>1, <3>2
  <2>5. QED
    BY <2>1, <2>2, <2>3, <2>4 DEF Ordered
<1>14. Owned
  BY <1>4, <1>5, <1>10 DEF Owned, Owns
<1>15. QED
  BY <1>11, <1>12, <1>13, <1>14 DEF MonitorInv

----
(* Every step *)

LEMMA StillOwned ==
  ASSUME TypeOK, Owned, history' = history,
         Len(runs') \in Nat, Len(runs') >= Len(runs),
         \A r \in 1..Len(runs) : runs'[r].trigger = runs[r].trigger,
         \A i \in Ids : i \in Ids' /\ log'[i] = log[i]
  PROVE  Owned'
<1> SUFFICES ASSUME NEW id \in DOMAIN history, NEW r \in history[id].runs
             PROVE  r \in 1..Len(runs') /\ Owns(id, r)'
  BY DEF Owned
<1>1. r \in 1..Len(runs) /\ Owns(id, r)
  BY DEF Owned
<1>2. r \in 1..Len(runs') /\ runs'[r].trigger = runs[r].trigger
  BY <1>1, Typing
<1>3. \A s : LendsStart(s, r) => LendsStart(s, r)'
  BY <1>2 DEF LendsStart, Is
<1>4. QED
  BY <1>1, <1>2, <1>3 DEF Owns

\* The row that a refresh saves the run in is the run's own.
LEMMA SavedRowIsOwn ==
  ASSUME MonitorInv, active, NEW kept
  PROVE  /\ RunId(Report(kept)) \in Identity
         /\ Len(runs) \in 1..Len(runs)
         /\ Owns(RunId(Report(kept)), Len(runs))
<1> DEFINE report == Report(kept)
           id     == RunId(report)
           n      == Len(runs)
<1>1. TypeOK /\ n \in 1..n
  BY BoundsAssumption, Typing DEF MonitorInv, Bounded
<1>2. report.start # 0 =>
        /\ report.start \in Ids
        /\ Is(report.start, "-START-")
        /\ log[report.start].minute \in {Trigger, Trigger + 1}
  BY <1>1, ReportedStart DEF TypeOK
<1> HIDE DEF report
<1>3. id \in Identity
  BY <1>1, <1>2, RunIdIsIdentity, Typing
<1>4. Owns(id, n)
  <2>1. CASE report.start # 0
    <3> DEFINE s == log[report.start].run
    <3>1. id = [run |-> s]
      BY <2>1 DEF RunId
    <3>2. s \in 1..n /\ log[report.start].minute \in Nat /\ runs[n].trigger \in Nat
      BY <1>1, <1>2, <2>1, Typing DEF MonitorInv, Ordered
    <3>3. CASE s = n
      BY <3>1, <3>3 DEF Owns
    <3>4. CASE s # n
      <4>1. log[report.start].minute <= runs[n].trigger
        BY <1>1, <1>2, <2>1, <3>2, <3>4 DEF MonitorInv, Ordered
      <4>2. log[report.start].minute = runs[n].trigger
        BY <1>2, <2>1, <3>2, <4>1 DEF Trigger, Newest
      <4>3. LendsStart(s, n)
        BY <1>2, <2>1, <4>2 DEF LendsStart
      <4>4. s \in 1..(n - 1)
        BY <1>1, <3>2, <3>4
      <4>5. QED
        BY <3>1, <4>3, <4>4 DEF Owns
    <3>5. QED
      BY <3>3, <3>4
  <2>2. CASE report.start = 0
    <3> DEFINE key == IF Sessions # {} /\ Matching # {} THEN runs[Current].type ELSE None
    <3>1. id = [key |-> key, minute |-> runs[n].trigger]
      BY <2>2 DEF RunId, Trigger, Newest
    <3>2. key \in Types \cup {None}
      <4>1. CASE Sessions # {} /\ Matching # {}
        <5>1. Current \in 1..Len(runs)
          BY <1>1, <4>1, LatestForm DEF Matching, Metadata, Newest
        <5>2. runs[Current].type \in Types
          BY <1>1, <5>1, Typing
        <5>3. QED
          BY <4>1, <5>2
      <4>2. CASE ~(Sessions # {} /\ Matching # {})
        BY <4>2
      <4>3. QED
        BY <4>1, <4>2
    <3> HIDE DEF key
    <3>3. QED
      BY <3>1, <3>2 DEF Owns
  <2>3. QED
    BY <2>1, <2>2
<1>5. QED
  BY <1>1, <1>3, <1>4 DEF report

LEMMA RefreshKeeps ==
  ASSUME MonitorInv, Refresh
  PROVE  MonitorInv'
<1>0. PICK kept \in Kept :
        LET new == RunId(Report(kept))
        IN  /\ active
            /\ history' = [i \in DOMAIN history \cup {new} |->
                             IF i = new THEN Merged(new, Report(kept).status = "LONG_RUNNING")
                             ELSE history[i]]
            /\ UNCHANGED <<now, runs, active, log, open, deaths>>
  BY DEF Refresh
<1> DEFINE alert == Report(kept).status = "LONG_RUNNING"
           id    == RunId(Report(kept))
<1>1. /\ active
      /\ history' = [i \in DOMAIN history \cup {id} |->
                       IF i = id THEN Merged(id, alert) ELSE history[i]]
      /\ UNCHANGED <<now, runs, active, log, open, deaths>>
  BY <1>0
<1>2. id \in Identity /\ Len(runs) \in 1..Len(runs) /\ Owns(id, Len(runs))
  BY <1>1, SavedRowIsOwn
<1> DEFINE merged == Merged(id, alert)
<1>3. alert \in BOOLEAN
  OBVIOUS
<1> HIDE DEF id, alert
<1>4. TypeOK /\ Len(runs) \in 1..MaxRuns
  BY <1>2, BoundsAssumption DEF MonitorInv, TypeOK
<1>5. /\ merged \in Saved
      /\ \A r \in merged.runs : r = Len(runs) \/ (id \in DOMAIN history /\ r \in history[id].runs)
  <2>1. CASE id \in DOMAIN history
    <3>1. history[id] \in Saved
      BY <1>4, <2>1 DEF TypeOK
    <3>2. /\ history[id].runs \in SUBSET (1..MaxRuns)
          /\ history[id].notified \in BOOLEAN
      BY <3>1 DEF Saved
    <3>3. merged = [runs |-> history[id].runs \cup {Len(runs)},
                    notified |-> history[id].notified \/ alert]
      BY <2>1 DEF Merged, Newest
    <3>4. (history[id].notified \/ alert) \in BOOLEAN
      BY Zenon
    <3>5. QED
      BY <1>4, <2>1, <3>2, <3>3, <3>4 DEF Saved
  <2>2. CASE id \notin DOMAIN history
    <3>1. merged = [runs |-> {Len(runs)}, notified |-> alert]
      BY <2>2 DEF Merged, Newest
    <3>2. QED
      BY <1>3, <1>4, <3>1 DEF Saved
  <2>3. QED
    BY <2>1, <2>2
<1> HIDE DEF merged
<1>6. /\ DOMAIN history' = DOMAIN history \cup {id}
      /\ history'[id] = merged
      /\ \A i \in DOMAIN history : i # id => history'[i] = history[i]
  BY <1>1 DEF merged
<1>7. TypeOK'
  <2>1. DOMAIN history' \subseteq Identity /\ \A i \in DOMAIN history' : history'[i] \in Saved
    BY <1>2, <1>4, <1>5, <1>6 DEF TypeOK
  <2>2. QED
    BY <1>1, <1>4, <2>1 DEF TypeOK
<1>8. Bounded' /\ Ordered'
  BY <1>1 DEF MonitorInv, Bounded, Ordered, Ids
<1>9. Owned'
  <2>1. \A i, r : Owns(i, r)' <=> Owns(i, r)
    BY <1>1 DEF Owns, LendsStart, Is, Ids
  <2>2. SUFFICES ASSUME NEW i \in DOMAIN history', NEW r \in history'[i].runs
                 PROVE  r \in 1..Len(runs) /\ Owns(i, r)
    BY <1>1, <2>1 DEF Owned
  <2>3. CASE i = id /\ r = Len(runs)
    BY <1>2, <2>3
  <2>4. CASE ~(i = id /\ r = Len(runs))
    <3>1. i \in DOMAIN history /\ r \in history[i].runs
      BY <1>5, <1>6, <2>4
    <3>2. QED
      BY <3>1 DEF MonitorInv, Owned
  <2>5. QED
    BY <2>3, <2>4
<1>10. QED
  BY <1>7, <1>8, <1>9 DEF MonitorInv

LEMMA TickKeeps ==
  ASSUME MonitorInv, Tick
  PROVE  MonitorInv'
<1>1. /\ now < runs[PastRuns].over + MaxMinutes /\ now' = now + 1
      /\ UNCHANGED <<runs, active, log, open, deaths, history>>
  BY DEF Tick
<1>2. TypeOK /\ Bounded /\ Ordered /\ Owned
  BY DEF MonitorInv
<1>3. now' \in Minute /\ now' <= runs[PastRuns].over + MaxMinutes
  BY <1>1, <1>2, Typing, BoundsAssumption DEF Bounded, Minute
<1>4. TypeOK'
  BY <1>1, <1>2, <1>3 DEF TypeOK
<1>5. Bounded'
  BY <1>1, <1>2, <1>3 DEF Bounded
<1>6. Ordered'
  <2>1. \A r \in 1..Len(runs) : runs[r].trigger \in Nat
    BY <1>2, Typing
  <2>2. \A i \in Ids : log[i].minute \in Nat
    BY <1>2, Typing
  <2>3. now \in Nat /\ now' = now + 1
    BY <1>1, <1>2, Typing
  <2>4. \A r \in 1..Len(runs) : runs[r].trigger <= now'
    BY <1>2, <2>1, <2>3 DEF Ordered
  <2>5. \A i \in Ids : log[i].minute <= now'
    BY <1>2, <2>2, <2>3 DEF Ordered
  <2>6. QED
    BY <1>1, <1>2, <2>4, <2>5 DEF Ordered, Ids
<1>7. Owned'
  BY <1>1, <1>2, Typing, StillOwned DEF Ids
<1>8. QED
  BY <1>4, <1>5, <1>6, <1>7 DEF MonitorInv

LEMMA TriggerKeeps ==
  ASSUME MonitorInv, TriggerRun
  PROVE  MonitorInv'
<1>1. PICK session \in {now, Never}, form \in {now, now + 1, Never}, type \in Types :
        runs' = Append(runs, [trigger |-> now, session |-> session, form |-> form,
                              type |-> type, over |-> Never])
  BY DEF TriggerRun
<1> DEFINE n   == Len(runs)
           new == [trigger |-> now, session |-> session, form |-> form,
                   type |-> type, over |-> Never]
<1>2. /\ active' = TRUE /\ open' = <<>> /\ n < MaxRuns
      /\ UNCHANGED <<now, log, deaths, history>>
  BY DEF TriggerRun, Newest
<1>3. TypeOK /\ Bounded /\ Ordered /\ Owned
  BY DEF MonitorInv
<1>4. n \in Nat /\ PastRuns \in 1..n /\ PastRuns \in Nat /\ MaxRuns \in Nat
  BY <1>3, Typing, BoundsAssumption DEF Bounded
<1>5. now + 1 \in Minute /\ now \in Minute
  <2>1. PastRuns \in Nat /\ MaxMinutes \in Nat
    BY BoundsAssumption
  <2>2. now \in Minute
    BY <1>3, Typing
  <2>3. now <= 3 * PastRuns - 1 + MaxMinutes
    <3>1. /\ now <= runs[PastRuns].over + MaxMinutes
          /\ runs[PastRuns].over \in 0..(3 * PastRuns - 1)
      BY <1>3 DEF Bounded
    <3>2. now \in Int
      BY <2>1, <2>2 DEF Minute
    <3>3. QED
      BY <2>1, <3>1, <3>2
  <2>4. QED
    BY <2>1, <2>2, <2>3 DEF Minute
<1>6. new \in Run
  <2>1. session \in Minute \cup {Never} /\ form \in Minute \cup {Never}
    BY <1>5
  <2> HIDE DEF Minute, Never
  <2>2. QED
    BY <1>5, <2>1 DEF Run
<1> HIDE DEF new
<1>7. /\ runs' \in Seq(Run) /\ Len(runs') = n + 1
      /\ \A r \in 1..n : runs'[r] = runs[r]
      /\ runs'[n + 1] = new
  <2>1. runs' = Append(runs, new) /\ runs \in Seq(Run)
    BY <1>1, <1>3 DEF new, TypeOK
  <2>2. QED
    BY <1>6, <2>1, AppendProperties
<1>8. new.trigger = now
  BY DEF new
<1>9. TypeOK'
  <2>1. active' \in BOOLEAN
    BY <1>2, Zenon
  <2>2. open' \in Seq(Steps)
    BY <1>2
  <2>3. Len(runs') <= MaxRuns
    BY <1>2, <1>4, <1>7
  <2>4. QED
    BY <1>2, <1>3, <1>7, <2>1, <2>2, <2>3 DEF TypeOK
<1>10. Bounded'
  BY <1>2, <1>3, <1>4, <1>7 DEF Bounded
<1>11. Ordered'
  <2>1. \A r \in 1..n : runs[r].trigger \in Nat /\ runs[r].trigger <= now
    BY <1>3, Typing DEF Ordered
  <2>2. \A r \in 1..(n + 1) : IF r = n + 1 THEN runs'[r].trigger = now
                              ELSE r \in 1..n /\ runs'[r].trigger = runs[r].trigger
    BY <1>4, <1>7, <1>8
  <2>3. now \in Nat
    BY <1>3, Typing
  <2>4. \A r \in 1..(n + 1) : runs'[r].trigger <= now
    BY <2>1, <2>2, <2>3
  <2>5. ASSUME NEW q \in 1..(n + 1), NEW r \in 1..(n + 1), q < r
        PROVE  runs'[q].trigger <= runs'[r].trigger
    <3>1. CASE r = n + 1
      BY <2>2, <2>4, <3>1
    <3>2. CASE r # n + 1
      BY <1>3, <1>4, <2>2, <2>5, <3>2 DEF Ordered
    <3>3. QED
      BY <3>1, <3>2
  <2>6. ASSUME NEW i \in Ids
        PROVE  log[i].run \in 1..(n + 1) /\ log[i].minute <= now
    BY <1>3, <1>4 DEF Ordered
  <2>7. ASSUME NEW i \in Ids, NEW r \in 1..(n + 1), log[i].run < r
        PROVE  log[i].minute <= runs'[r].trigger
    <3>1. CASE r = n + 1
      BY <2>2, <2>6, <3>1
    <3>2. CASE r # n + 1
      BY <1>3, <2>2, <2>7, <3>2 DEF Ordered
    <3>3. QED
      BY <3>1, <3>2
  <2>8. QED
    BY <1>2, <1>7, <2>4, <2>5, <2>6, <2>7 DEF Ordered, Ids
<1>12. Owned'
  <2>1. \A i \in Ids : i \in Ids' /\ log'[i] = log[i]
    BY <1>2 DEF Ids
  <2>2. Len(runs') \in Nat /\ Len(runs') >= n
    BY <1>4, <1>7
  <2>3. \A r \in 1..n : runs'[r].trigger = runs[r].trigger
    BY <1>7
  <2>4. QED
    BY <1>2, <1>3, <2>1, <2>2, <2>3, StillOwned
<1>13. QED
  BY <1>9, <1>10, <1>11, <1>12 DEF MonitorInv

\* A row more, of the newest run.
LEMMA RowKeeps ==
  ASSUME MonitorInv, active, open' \in Seq(Steps),
         NEW what \in {"-START-", "-END-", "before", "after", "detail"},
         NEW step \in Steps \cup {None}, AddRow(what, step)
  PROVE  MonitorInv'
<1> DEFINE n   == Len(log)
           row == LogRow(now, Len(runs), what, step)
<1>1. /\ n < 5 * PastRuns + MaxRows
      /\ log' = Append(log, row)
      /\ UNCHANGED <<now, runs, active, deaths, history>>
  BY DEF AddRow, Newest
<1>2. TypeOK /\ Bounded /\ Ordered /\ Owned
  BY DEF MonitorInv
<1>3. /\ n \in Nat /\ Ids = 1..n
      /\ Len(runs) \in 1..MaxRuns /\ Len(runs) \in 1..Len(runs)
  BY <1>2, Typing, BoundsAssumption DEF Bounded, TypeOK
<1>4. row \in Row /\ row.run = Len(runs) /\ row.minute = now
  BY <1>2, <1>3, Typing DEF LogRow, Row
<1> HIDE DEF row
<1>5. /\ log' \in Seq(Row) /\ Len(log') = n + 1
      /\ \A i \in 1..n : log'[i] = log[i]
      /\ log'[n + 1] = row
  <2>1. log \in Seq(Row)
    BY <1>2 DEF TypeOK
  <2>2. QED
    BY <1>1, <1>4, <2>1, AppendProperties
<1>6. TypeOK'
  <2>1. Len(log') <= 5 * PastRuns + MaxRows
    BY <1>1, <1>3, <1>5, BoundsAssumption
  <2>2. QED
    BY <1>1, <1>2, <1>5, <2>1 DEF TypeOK
<1>7. Bounded'
  BY <1>1, <1>2 DEF Bounded
<1>8. Ids' = 1..(n + 1)
  BY <1>3, <1>5 DEF Ids
<1>9. Ordered'
  <2>1. \A i \in 1..(n + 1) : \/ i \in Ids /\ log'[i] = log[i]
                              \/ log'[i] = row
    BY <1>3, <1>5
  <2>2. now \in Nat
    BY <1>2, Typing
  <2>3. \A i \in 1..(n + 1) : log'[i].run \in 1..Len(runs) /\ log'[i].minute <= now
    BY <1>2, <1>3, <1>4, <2>1, <2>2, SMTT(30) DEF Ordered
  <2>4. ASSUME NEW i \in 1..(n + 1), NEW r \in 1..Len(runs), log'[i].run < r
        PROVE  log'[i].minute <= runs[r].trigger
    <3>1. CASE i \in Ids /\ log'[i] = log[i]
      BY <1>2, <2>4, <3>1 DEF Ordered
    <3>2. CASE log'[i] = row
      BY <1>3, <1>4, <2>4, <3>2
    <3>3. QED
      BY <2>1, <3>1, <3>2
  <2>5. QED
    BY <1>1, <1>2, <1>8, <2>3, <2>4 DEF Ordered
<1>10. Owned'
  <2>1. \A i \in Ids : i \in Ids' /\ log'[i] = log[i]
    BY <1>3, <1>5, <1>8
  <2>2. QED
    BY <1>1, <1>2, <1>3, <2>1, StillOwned
<1>11. QED
  BY <1>6, <1>7, <1>9, <1>10 DEF MonitorInv

\* The newest run is over.
LEMMA LeaveKeeps ==
  ASSUME MonitorInv, active, Leave, deaths' \subseteq deaths \cup {Newest}
  PROVE  MonitorInv'
<1> DEFINE n == Len(runs)
<1>1. /\ runs' = [runs EXCEPT ![n].over = now]
      /\ active' = FALSE /\ open' = <<>>
      /\ UNCHANGED <<now, log, history>>
  BY DEF Leave, Newest
<1>2. TypeOK /\ Bounded /\ Ordered /\ Owned
  BY DEF MonitorInv
<1>3. n \in Nat /\ n \in 1..MaxRuns /\ n > PastRuns /\ PastRuns \in 1..n /\ n # PastRuns
  BY <1>2, Typing, BoundsAssumption DEF Bounded, TypeOK
<1>4. [runs[n] EXCEPT !.over = now] \in Run
  <2>1. runs[n] \in Run /\ now \in Minute
    BY <1>2, <1>3, Typing
  <2>2. QED
    BY <2>1 DEF Run
<1>5. /\ runs' \in Seq(Run) /\ Len(runs') = n
      /\ \A r \in 1..n : r # n => runs'[r] = runs[r]
      /\ runs'[n] = [runs[n] EXCEPT !.over = now]
  BY <1>1, <1>2, <1>3, <1>4 DEF TypeOK
<1>6. \A r \in 1..n : runs'[r].trigger = runs[r].trigger
  <2>1. runs[n] \in Run
    BY <1>2, <1>3, Typing
  <2>2. runs'[n].trigger = runs[n].trigger
    BY <1>5, <2>1 DEF Run
  <2>3. QED
    BY <1>5, <2>2
<1>7. TypeOK'
  <2>1. active' \in BOOLEAN
    BY <1>1, Zenon
  <2>2. open' \in Seq(Steps)
    BY <1>1
  <2>3. deaths' \in SUBSET (1..MaxRuns)
    BY <1>2, <1>3 DEF TypeOK, Newest
  <2>4. QED
    BY <1>1, <1>2, <1>3, <1>5, <2>1, <2>2, <2>3 DEF TypeOK
<1>8. Bounded'
  BY <1>1, <1>2, <1>3, <1>5 DEF Bounded
<1>9. Ordered'
  BY <1>1, <1>2, <1>5, <1>6 DEF Ordered, Ids
<1>10. Owned'
  <2>1. \A i \in Ids : i \in Ids' /\ log'[i] = log[i]
    BY <1>1 DEF Ids
  <2>2. QED
    BY <1>1, <1>2, <1>3, <1>5, <1>6, <2>1, StillOwned
<1>11. QED
  BY <1>7, <1>8, <1>9, <1>10 DEF MonitorInv

LEMMA NextKeeps ==
  ASSUME MonitorInv, [Next]_vars
  PROVE  MonitorInv'
<1>1. CASE Refresh
  BY <1>1, RefreshKeeps
<1>2. CASE Tick
  BY <1>2, TickKeeps
<1>3. CASE TriggerRun
  BY <1>3, TriggerKeeps
<1>4. open \in Seq(Steps)
  BY DEF MonitorInv, TypeOK
<1>5. CASE LogStart
  BY <1>4, <1>5, RowKeeps DEF LogStart
<1>6. ASSUME NEW step \in Steps, LogBefore(step) PROVE MonitorInv'
  <2>1. open' \in Seq(Steps)
    BY <1>4, <1>6, AppendProperties DEF LogBefore
  <2>2. QED
    BY <1>6, <2>1, RowKeeps DEF LogBefore, IsOpen
<1>7. CASE LogAfter
  <2>1. open # <<>> /\ Len(open) \in 1..Len(open)
    BY <1>4, <1>7 DEF LogAfter
  <2>2. open[Len(open)] \in Steps
    BY <1>4, <2>1
  <2>3. open' = SubSeq(open, 1, Len(open) - 1)
    BY <1>7 DEF LogAfter
  <2>4. open' \in Seq(Steps)
    BY <1>4, <2>1, <2>3
  <2>5. AddRow("after", open[Len(open)]) /\ active
    BY <1>7 DEF LogAfter, IsOpen
  <2>6. QED
    BY <2>2, <2>4, <2>5, RowKeeps
<1>8. CASE LogEnd
  BY <1>4, <1>8, RowKeeps DEF LogEnd, IsOpen
<1>9. CASE Finish
  BY <1>9, LeaveKeeps DEF Finish
<1>10. CASE Die
  BY <1>10, LeaveKeeps DEF Die
<1>11. CASE UNCHANGED vars
  BY <1>11 DEF vars, MonitorInv, TypeOK, Bounded, Ordered, Owned, Owns, LendsStart, Is, Ids
<1>12. QED
  BY <1>1, <1>2, <1>3, <1>5, <1>6, <1>7, <1>8, <1>9, <1>10, <1>11 DEF Next

LEMMA Invariance == Spec => []MonitorInv
<1>1. QED
  BY InitInv, NextKeeps, PTL DEF Spec

----
(* Theorems *)

\* Type correctness: what a refresh saves always has an identity, whatever the
\* queries return.
THEOREM TypeCorrect == Spec => []TypeOK
<1>1. MonitorInv => TypeOK
  BY DEF MonitorInv
<1>2. QED
  BY <1>1, Invariance, PTL

\* run_id: two runs share a row of the history only if the later one was
\* triggered in the minute in which the earlier one left its trigger or -START-.
THEOREM RowsAreOfOneRun == Spec => []RowIsOfOneRun
<1>1. MonitorInv => RowIsOfOneRun
  <2> SUFFICES ASSUME MonitorInv, NEW id \in DOMAIN history,
                      NEW q \in history[id].runs, NEW r \in history[id].runs, q < r
               PROVE  Shares(q, r)
    BY DEF RowIsOfOneRun
  <2>1. /\ q \in 1..Len(runs) /\ Owns(id, q)
        /\ r \in 1..Len(runs) /\ Owns(id, r)
    BY DEF MonitorInv, Owned
  <2>2. runs[q].trigger \in Nat /\ runs[r].trigger \in Nat /\ runs[q].trigger <= runs[r].trigger
    BY <2>1, Typing DEF MonitorInv, Ordered
  <2>3. \A s : LendsStart(s, r) /\ s = q => Shares(q, r)
    BY DEF LendsStart, Shares
  <2>4. runs[r].trigger = runs[q].trigger => Shares(q, r)
    BY DEF Shares
  <2>5. CASE \E key \in Types \cup {None} : id = [key |-> key, minute |-> runs[r].trigger]
    <3>1. id.minute = runs[r].trigger /\ DOMAIN id = {"key", "minute"}
      BY <2>5
    <3>2. \A s : DOMAIN [run |-> s] = {"run"}
      OBVIOUS
    <3>3. \E key \in Types \cup {None} : id = [key |-> key, minute |-> runs[q].trigger]
      BY <2>1, <3>1, <3>2 DEF Owns
    <3>4. QED
      BY <2>4, <3>1, <3>3
  <2>6. CASE \E s \in 1..r : id = [run |-> s]
    <3>1. PICK s \in 1..r : id = [run |-> s]
      BY <2>6
    <3>2. id.run = s /\ DOMAIN id = {"run"}
      BY <3>1
    <3>3. \A key, minute : DOMAIN [key |-> key, minute |-> minute] = {"key", "minute"}
      OBVIOUS
    <3>4. s = q \/ (s \in 1..(q - 1) /\ LendsStart(s, q))
      BY <2>1, <3>2, <3>3 DEF Owns
    <3>5. s = r \/ LendsStart(s, r)
      BY <2>1, <3>2, <3>3 DEF Owns
    <3>6. s # r /\ LendsStart(s, r)
      BY <2>1, <3>4, <3>5
    <3>7. CASE s = q
      BY <2>3, <3>6, <3>7
    <3>8. CASE s \in 1..(q - 1)
      <4>1. PICK i \in Ids : log[i].run = s /\ log[i].minute = runs[r].trigger
        BY <3>6 DEF LendsStart
      <4>2. runs[r].trigger <= runs[q].trigger
        BY <2>1, <3>8, <4>1 DEF MonitorInv, Ordered
      <4>3. QED
        BY <2>2, <2>4, <4>2
    <3>9. QED
      BY <3>4, <3>7, <3>8
  <2>7. QED
    BY <2>1, <2>5, <2>6 DEF Owns
<1>2. QED
  BY <1>1, Invariance, PTL

\* save_runs: the merge never loses a row nor the mark of an alert.
THEOREM AlertsKept == Spec => AlertsAreKept
<1> DEFINE Keeps == \A id \in DOMAIN history :
                      /\ id \in DOMAIN history'
                      /\ history[id].notified => history'[id].notified
<1>1. ASSUME [Next]_vars, history' # history PROVE Keeps
  <2>1. Refresh
    BY <1>1 DEF Next, Tick, TriggerRun, LogStart, LogBefore, LogAfter, LogEnd, Finish, Die,
                AddRow, Leave, vars
  <2>2. PICK new, alert :
          history' = [i \in DOMAIN history \cup {new} |->
                        IF i = new THEN Merged(new, alert) ELSE history[i]]
    BY <2>1 DEF Refresh
  <2>3. ASSUME NEW id \in DOMAIN history, history[id].notified
        PROVE  history'[id].notified
    <3>1. CASE id = new
      <4>1. history'[id] = Merged(id, alert)
        BY <2>2, <3>1
      <4>2. Merged(id, alert).notified = (history[id].notified \/ alert)
        BY DEF Merged
      <4>3. QED
        BY <2>3, <4>1, <4>2
    <3>2. CASE id # new
      BY <2>2, <2>3, <3>2
    <3>3. QED
      BY <3>1, <3>2
  <2>4. QED
    BY <2>2, <2>3
<1>2. [Next]_vars => [Keeps]_history
  BY <1>1
<1>3. QED
  BY <1>2, PTL DEF Spec, AlertsAreKept

----
(***************************************************************************)
(* What is read when no query returned as many rows as it asked for, and   *)
(* IDs have at most six digits: then the log of the active run is complete *)
(* from its -START- to its -END-, or to its newest row.                    *)
(***************************************************************************)
ShortIds == FirstId + 5 * PastRuns + MaxRows < 1000000

LEMMA GreatestNatural ==
  ASSUME NEW S \in SUBSET Nat, S # {}, NEW n \in Nat, \A x \in S : x <= n
  PROVE  Max(S) \in S /\ \A y \in S : y <= Max(S)
<1> DEFINE rest == {n - x : x \in S}
<1>0. \A x \in S : x \in Nat /\ n - x \in Nat
  OBVIOUS
<1>1. PICK least \in rest : \A other \in rest : least <= other
  <2>1. rest \subseteq Nat /\ rest # {}
    BY <1>0
  <2> HIDE DEF rest
  <2> QED  BY <2>1, LeastNatural
<1>2. PICK x \in S : least = n - x
  OBVIOUS
<1>3. ASSUME NEW y \in S PROVE x >= y
  <2>1. n - x <= n - y
    BY <1>1, <1>2
  <2>2. QED
    BY <1>0, <2>1
<1>4. QED
  BY <1>3 DEF Max

\* A query with a limit that is not reached returns all its rows.
LEMMA FirstRowsAll ==
  ASSUME NEW S \in SUBSET Nat, IsFiniteSet(S), NEW n \in Nat,
         Cardinality(FirstRows(S, n)) # n
  PROVE  FirstRows(S, n) = S
<1> DEFINE below(y) == {j \in S : j < y}
           cut      == {y \in S : ~(Cardinality(below(y)) < n)}
<1>0. \A x \in S : x \in Nat
  OBVIOUS
<1>1. \A y : IsFiniteSet(below(y)) /\ Cardinality(below(y)) \in Nat
  <2> TAKE y
  <2>1. below(y) \in SUBSET S
    OBVIOUS
  <2>2. IsFiniteSet(below(y))
    BY <2>1, FS_Subset
  <2>3. QED
    BY <2>2, FS_CardinalityType
<1>2. FirstRows(S, n) = S \ cut
  BY DEF FirstRows
<1>3. CASE cut = {}
  BY <1>2, <1>3
<1>4. CASE cut # {}
  <2>1. PICK y \in cut : \A z \in cut : y <= z
    <3>1. cut \subseteq Nat
      OBVIOUS
    <3> HIDE DEF cut
    <3> QED  BY <1>4, <3>1, LeastNatural
  <2>2. \A z \in S : z >= y => z \in cut
    <3> SUFFICES ASSUME NEW z \in S, z >= y PROVE z \in cut
      OBVIOUS
    <3>0. y \in Nat /\ z \in Nat /\ \A j \in S : j \in Nat /\ (j < y => j < z)
      BY <1>0, <2>1
    <3>1. below(y) \in SUBSET below(z)
      BY <3>0
    <3>2. Cardinality(below(y)) <= Cardinality(below(z))
      BY <1>1, <3>1, FS_Subset
    <3>3. ~(Cardinality(below(z)) < n)
      BY <1>1, <2>1, <3>2
    <3>4. QED
      BY <3>3
  <2>3. S \ cut = below(y)
    <3>1. \A z \in S : z \in cut <=> z >= y
      BY <2>1, <2>2
    <3>2. y \in Nat
      BY <1>0, <2>1
    <3>3. \A z \in S : z < y <=> ~(z >= y)
      BY <1>0, <3>2
    <3>4. below(y) \subseteq S /\ \A z \in S : z \in below(y) <=> z < y
      OBVIOUS
    <3> HIDE DEF cut, below
    <3>5. QED
      BY <3>1, <3>3, <3>4
  <2>4. Cardinality(below(y)) <= n
    <3>1. CASE below(y) = {}
      BY <3>1, FS_EmptySet
    <3>2. CASE below(y) # {}
      <4>1. Max(below(y)) \in below(y) /\ \A w \in below(y) : w <= Max(below(y))
        <5>0. y \in Nat /\ \A w \in S : w \in Nat
          BY <1>0, <2>1
        <5>1. \A w \in below(y) : w \in S /\ w < y
          OBVIOUS
        <5>2. \A w \in below(y) : w \in Nat /\ w <= y
          BY <5>0, <5>1
        <5> HIDE DEF below, cut
        <5>3. QED
          BY <3>2, <5>0, <5>2, GreatestNatural
      <4>2. PICK z \in below(y) : \A w \in below(y) : w <= z
        BY <4>1
      <4>3. below(y) = below(z) \cup {z} /\ z \notin below(z)
        <5>1. y \in Nat /\ z \in Nat /\ z \in S /\ z < y
          BY <1>0, <2>1
        <5>2. \A w \in S : w < y => w <= z
          BY <4>2
        <5>3. \A w \in S : w < y <=> w < z \/ w = z
          BY <1>0, <5>1, <5>2
        <5>4. \A x : /\ below(x) \subseteq S
                    /\ \A w \in S : w \in below(x) <=> w < x
          OBVIOUS
        <5>5. ~(z < z)
          BY <5>1
        <5> HIDE DEF below, cut
        <5>6. QED
          BY <5>1, <5>3, <5>4, <5>5
      <4>4. Cardinality(below(y)) = Cardinality(below(z)) + 1
        <5>1. IsFiniteSet(below(z))
          BY <1>1
        <5> HIDE DEF below, cut
        <5>2. Cardinality(below(z) \cup {z}) = Cardinality(below(z)) + 1
          BY <4>3, <5>1, FS_AddElement
        <5>3. QED
          BY <4>3, <5>2
      <4>5. Cardinality(below(z)) < n
        BY <2>1, <2>3, <4>2
      <4>6. QED
        BY <1>1, <4>4, <4>5
    <3>3. QED
      BY <3>1, <3>2
  <2>5. Cardinality(below(y)) = n
    <3>1. ~(Cardinality(below(y)) < n)
      BY <2>1
    <3>2. QED
      BY <1>1, <2>4, <3>1
  <2>6. QED
    BY <1>2, <2>3, <2>5
<1>5. QED
  BY <1>3, <1>4

LEMMA WrittenExactly ==
  ASSUME NEW id \in Nat, id < 1000000
  PROVE  Written(id) = id
<1> DEFINE units == {u \in {1, 10, 100, 1000} : id < 1000000 * u}
<1>1. units \in SUBSET Nat /\ 1 \in units /\ \A u \in units : u >= 1
  OBVIOUS
<1>2. Min(units) = 1
  <2>1. Min(units) \in units /\ Min(units) <= 1
    <3> HIDE DEF units
    <3> QED  BY <1>1, LeastNatural
  <2>2. QED
    BY <1>1, <2>1
<1> HIDE DEF units
<1>3. id \div 1 = id /\ id % 1 = 0
  OBVIOUS
<1>4. QED
  BY <1>2, <1>3 DEF Written, units

\* The names that Cealog gives to what it reads.
Minutes == {runs[r].form : r \in Previous}
Cands   == Candidates(Minutes)
Curr    == {StartAt(Cands, {Trigger, Trigger + 1})} \ {0}
Olds    == {StartAt(Cands, {m}) : m \in Minutes} \ ({0} \cup Curr)
Ends    == EndCandidates(Curr \cup Olds)
Aimed   == Targeted(Curr, Olds, Ends)
Asked   == RowsPerRun * Cardinality(Curr) + OldRowsPerRun * Cardinality(Olds)

LEMMA CealogChoice ==
  ASSUME NEW kept
  PROVE  Cealog(kept) =
           IF Curr \cup Olds = {} \/ Aimed = {}
           THEN [rows |-> Fallback(Minutes),
                 cut  |-> FALSE,
                 full |-> \/ Cardinality(Cands) = StartScanLimit
                          \/ Cardinality(Fallback(Minutes)) = FallbackLimit]
           ELSE [rows |-> LastRows(Aimed, kept),
                 cut  |-> Cardinality(Aimed) > kept,
                 full |-> \/ Cardinality(Cands) = StartScanLimit
                          \/ Cardinality(Ends) = EndScanLimit
                          \/ Cardinality(Aimed) = Asked]
  BY DEF Cealog, Minutes, Cands, Curr, Olds, Ends, Aimed, Asked

LEMMA CealogFull ==
  ASSUME NEW kept, ~Cealog(kept).full
  PROVE  /\ Cardinality(Cands) # StartScanLimit
         /\ Curr \cup Olds # {} /\ Aimed # {} =>
              /\ Cealog(kept).rows = LastRows(Aimed, kept)
              /\ Cealog(kept).cut <=> Cardinality(Aimed) > kept
              /\ Cardinality(Ends) # EndScanLimit /\ Cardinality(Aimed) # Asked
<1>1. CASE Curr \cup Olds = {} \/ Aimed = {}
  <2>1. Cealog(kept).full <=> \/ Cardinality(Cands) = StartScanLimit
                             \/ Cardinality(Fallback(Minutes)) = FallbackLimit
    BY <1>1, CealogChoice
  <2>2. QED
    BY <1>1, <2>1
<1>2. CASE ~(Curr \cup Olds = {} \/ Aimed = {})
  <2>1. /\ Cealog(kept).rows = LastRows(Aimed, kept)
        /\ Cealog(kept).cut <=> Cardinality(Aimed) > kept
        /\ Cealog(kept).full <=> \/ Cardinality(Cands) = StartScanLimit
                                \/ Cardinality(Ends) = EndScanLimit
                                \/ Cardinality(Aimed) = Asked
    BY <1>2, CealogChoice
  <2>2. QED
    BY <1>2, <2>1
<1>3. QED
  BY <1>1, <1>2

\* The newest n rows of not more than n are all of them.
LEMMA LastRowsAll ==
  ASSUME NEW S \in SUBSET Nat, IsFiniteSet(S), NEW n \in Nat, ~(Cardinality(S) > n)
  PROVE  LastRows(S, n) = S
<1> SUFFICES ASSUME NEW i \in S PROVE Cardinality({j \in S : j > i}) < n
  BY DEF LastRows
<1>1. {j \in S : j > i} \in SUBSET (S \ {i})
  OBVIOUS
<1>2. IsFiniteSet(S \ {i}) /\ Cardinality(S \ {i}) = Cardinality(S) - 1
  BY FS_RemoveElement
<1> DEFINE above == {j \in S : j > i}
<1> HIDE DEF above
<1>3. above \in SUBSET (S \ {i})
  BY <1>1 DEF above
<1>4. Cardinality(above) <= Cardinality(S \ {i}) /\ Cardinality(above) \in Nat
  BY <1>2, <1>3, FS_Subset, FS_CardinalityType
<1>5. Cardinality(S) \in Nat
  BY FS_CardinalityType
<1>6. QED
  BY <1>2, <1>4, <1>5 DEF above

\* With a row all newer ones are among the last.
LEMMA LastRowsNewer ==
  ASSUME NEW S \in SUBSET Nat, IsFiniteSet(S), NEW n \in Nat,
         NEW i \in LastRows(S, n), NEW j \in S, j >= i
  PROVE  j \in LastRows(S, n)
<1> DEFINE above(k) == {x \in S : x > k}
<1>1. i \in S /\ Cardinality(above(i)) < n
  BY DEF LastRows
<1>2. above(j) \in SUBSET above(i) /\ above(i) \in SUBSET S
  <2>1. i \in Nat /\ j \in Nat /\ \A x \in S : x \in Nat
    BY <1>1
  <2>2. \A x \in S : x > j => x > i
    BY <2>1
  <2>3. QED
    BY <2>2
<1> HIDE DEF above
<1>3. IsFiniteSet(above(i)) /\ IsFiniteSet(above(j))
  BY <1>2, FS_Subset
<1>4. /\ Cardinality(above(j)) <= Cardinality(above(i))
      /\ Cardinality(above(i)) \in Nat /\ Cardinality(above(j)) \in Nat
  BY <1>2, <1>3, FS_Subset, FS_CardinalityType
<1>5. Cardinality(above(j)) < n
  BY <1>1, <1>4
<1>6. QED
  BY <1>5 DEF LastRows, above

LEMMA IdsFinite ==
  ASSUME TypeOK, NEW S \in SUBSET Ids
  PROVE  S \in SUBSET Nat /\ IsFiniteSet(S) /\ Cardinality(S) \in Nat
<1>1. Ids = 1..Len(log) /\ Len(log) \in Nat
  BY Typing
<1>2. IsFiniteSet(Ids)
  BY <1>1, FS_Interval
<1>3. IsFiniteSet(S)
  BY <1>2, FS_Subset
<1>4. QED
  BY <1>1, <1>3, FS_CardinalityType

LEMMA StartFound ==
  ASSUME TypeOK, NEW rows \in SUBSET Ids, NEW minutes,
         NEW c \in rows, Is(c, "-START-"), log[c].minute \in minutes
  PROVE  /\ StartAt(rows, minutes) \in rows
         /\ StartAt(rows, minutes) # 0
         /\ Is(StartAt(rows, minutes), "-START-")
         /\ log[StartAt(rows, minutes)].minute \in minutes
<1> DEFINE S == {i \in rows : Is(i, "-START-") /\ log[i].minute \in minutes}
<1>1. S \subseteq Nat /\ S # {} /\ 0 \notin rows
  BY Typing
<1>2. StartAt(rows, minutes) = Min(S)
  BY <1>1 DEF StartAt, Earliest
<1>3. Min(S) \in S
  BY <1>1, LeastNatural
<1>4. QED
  BY <1>1, <1>2, <1>3

LEMMA SmallIds ==
  ASSUME ShortIds, TypeOK, NEW i \in Ids
  PROVE  Id(i) \in Nat /\ Written(Id(i)) = Id(i)
<1>1. i \in Nat /\ i <= 5 * PastRuns + MaxRows
  BY Typing, BoundsAssumption DEF TypeOK
<1>2. Id(i) \in Nat /\ Id(i) < 1000000
  BY <1>1, BoundsAssumption DEF Id, ShortIds
<1>3. QED
  BY <1>2, WrittenExactly

\* From row s on, i is not after an -END-.
UpToEnd(s, i) == i >= s /\ \A e \in Ids : Is(e, "-END-") /\ e > s => i <= e

LEMMA CompleteRead ==
  ASSUME ShortIds, TypeOK, NEW kept \in Nat, ~Cealog(kept).full,
         \E c \in Ids : Is(c, "-START-") /\ InWindow(log[c].minute)
  PROVE  /\ Cealog(kept).rows = LastRows(Aimed, kept)
         /\ Cealog(kept).cut <=> Cardinality(Aimed) > kept
         /\ Aimed \in SUBSET Ids
         /\ \E c \in Ids :
              /\ Is(c, "-START-") /\ InWindow(log[c].minute)
              /\ \A i \in Ids : UpToEnd(c, i) => i \in Aimed
         /\ \A s \in Ids :
              /\ Is(s, "-START-") /\ log[s].minute \in Minutes
              /\ \A t \in Ids : Is(t, "-START-") /\ log[t].minute = log[s].minute => t = s
              => \A i \in Ids : UpToEnd(s, i) /\ ~Is(i, "detail") => i \in Aimed
<1> DEFINE window == {Trigger, Trigger + 1}
           c      == StartAt(Cands, window)
           starts == Curr \cup Olds
           base   == {i \in Ids :
                        \/ \E start \in Curr : Id(i) \in RangeOf(start, starts, Ends)
                        \/ /\ ~Is(i, "detail")
                           /\ \E start \in Olds : Id(i) \in RangeOf(start, starts, Ends)}
<1>1. Cands = {i \in Ids : InWindow(log[i].minute) \/ log[i].minute \in Minutes}
  <2> DEFINE wanted == {i \in Ids : InWindow(log[i].minute) \/ log[i].minute \in Minutes}
  <2>1. Cands = FirstRows(wanted, StartScanLimit)
    BY DEF Cands, Candidates
  <2>2. wanted \in SUBSET Ids
    OBVIOUS
  <2>3. StartScanLimit \in Nat /\ Cardinality(Cands) # StartScanLimit
    BY LimitsAssumption, CealogFull
  <2> HIDE DEF wanted
  <2>4. wanted \in SUBSET Nat /\ IsFiniteSet(wanted)
    BY <2>2, IdsFinite
  <2>5. FirstRows(wanted, StartScanLimit) = wanted
    BY <2>1, <2>3, <2>4, FirstRowsAll
  <2>6. QED
    BY <2>1, <2>5 DEF wanted
<1>2. Cands \in SUBSET Ids
  BY <1>1
<1>3. c \in Ids /\ c # 0 /\ Is(c, "-START-") /\ InWindow(log[c].minute)
  <2>1. PICK d \in Ids : Is(d, "-START-") /\ InWindow(log[d].minute)
    OBVIOUS
  <2>2. d \in Cands /\ log[d].minute \in window
    BY <1>1, <2>1 DEF InWindow
  <2> HIDE DEF window
  <2>3. c \in Cands /\ c # 0 /\ Is(c, "-START-") /\ log[c].minute \in window
    BY <1>2, <2>1, <2>2, StartFound
  <2>4. QED
    BY <1>2, <2>3 DEF window, InWindow
<1>4. Curr = {c}
  BY <1>3 DEF Curr
<1>5. Olds \in SUBSET Ids
  <2>1. \A m \in Minutes : StartAt(Cands, {m}) # 0 => StartAt(Cands, {m}) \in Ids
    BY <1>2, StartIsARow DEF TypeOK
  <2>2. QED
    BY <2>1 DEF Olds
<1> HIDE DEF c
<1>6. starts \in SUBSET Ids /\ starts \in SUBSET Nat /\ c \in starts
  BY <1>3, <1>4, <1>5, Typing
<1>7. Min(starts) \in Ids /\ \A s \in starts : Min(starts) <= s
  BY <1>6, LeastNatural
<1>8. Ends \in SUBSET {i \in Ids : Is(i, "-END-")}
  BY DEF Ends, EndCandidates, FirstRows
<1>9. FirstId \in Nat /\ Ids \in SUBSET Nat
  BY BoundsAssumption, Typing
<1> HIDE DEF starts
<1>10. ASSUME NEW s \in starts, NEW i \in Ids, UpToEnd(s, i)
       PROVE  Id(i) \in RangeOf(s, starts, Ends)
  <2> DEFINE later  == {e \in Ends : e > s}
             newest == Max(Ids)
             last   == IF later # {} THEN Min(later)
                       ELSE IF Id(newest) >= Written(Id(Min(starts))) THEN newest ELSE s
  <2>0. s \in Ids /\ Min(starts) <= s /\ i >= s /\ \A e \in Ends : e > s => i <= e
    BY <1>6, <1>7, <1>8, <1>10 DEF UpToEnd
  <2>1. RangeOf(s, starts, Ends) = Written(Id(s))..Written(Id(last))
    BY DEF RangeOf
  <2>2. last \in Ids /\ i <= last
    <3>1. CASE later # {}
      <4>1. later \in SUBSET Nat
        BY <1>8, <1>9
      <4>2. Min(later) \in later
        BY <3>1, <4>1, LeastNatural
      <4>3. Min(later) \in Ids /\ i <= Min(later)
        BY <1>8, <2>0, <4>2
      <4>4. QED
        BY <3>1, <4>3
    <3>2. CASE later = {}
      <4>1. newest \in Ids /\ i <= newest /\ s <= newest
        <5>1. Ids = 1..Len(log) /\ Len(log) \in Nat
          BY Typing
        <5>2. Ids # {} /\ \A j \in Ids : j <= Len(log)
          BY <1>3, <5>1
        <5>3. Max(Ids) \in Ids /\ \A j \in Ids : j <= Max(Ids)
          BY <1>9, <5>1, <5>2, GreatestNatural
        <5>4. QED
          BY <2>0, <5>3
      <4> HIDE DEF newest
      <4>2. Id(newest) >= Written(Id(Min(starts)))
        <5>1. Written(Id(Min(starts))) = Id(Min(starts))
          BY <1>7, SmallIds
        <5>2. Min(starts) \in Nat /\ s \in Nat /\ newest \in Nat
          BY <1>7, <1>9, <2>0, <4>1
        <5>3. Min(starts) <= newest
          BY <2>0, <4>1, <5>2
        <5>4. QED
          BY <1>9, <5>1, <5>2, <5>3 DEF Id
      <4>3. QED
        BY <3>2, <4>1, <4>2
    <3>3. QED
      BY <3>1, <3>2
  <2> HIDE DEF last
  <2>3. Written(Id(s)) = Id(s) /\ Written(Id(last)) = Id(last)
    BY <2>0, <2>2, SmallIds
  <2>4. QED
    BY <1>9, <2>0, <2>1, <2>2, <2>3 DEF Id
<1>11. c \in base
  <2>1. Id(c) \in RangeOf(c, starts, Ends)
    BY <1>3, <1>6, <1>9, <1>10 DEF UpToEnd
  <2>2. QED
    BY <1>3, <1>4, <2>1
<1>12. Aimed = FirstRows(base, Asked)
  BY DEF Aimed, Targeted, Asked, starts
<1>13. Asked \in Nat \ {0}
  <2>1. Cardinality(Curr) = 1 /\ Cardinality(Olds) \in Nat
    BY <1>4, <1>5, FS_Singleton, IdsFinite
  <2>2. OldRowsPerRun * Cardinality(Olds) \in Nat
    BY <2>1, LimitsAssumption
  <2>3. RowsPerRun * Cardinality(Curr) \in Nat \ {0}
    BY <2>1, LimitsAssumption
  <2>4. QED
    BY <2>2, <2>3 DEF Asked
<1>14. base \in SUBSET Nat /\ IsFiniteSet(base)
  <2>1. base \in SUBSET Ids
    OBVIOUS
  <2> HIDE DEF base
  <2>2. QED
    BY <2>1, IdsFinite
<1> HIDE DEF base
<1>15. Aimed # {}
  <2> SUFFICES ASSUME Aimed = {} PROVE FALSE
    OBVIOUS
  <2>1. Cardinality(FirstRows(base, Asked)) # Asked
    BY <1>12, <1>13, FS_EmptySet
  <2>2. FirstRows(base, Asked) = base
    BY <1>13, <1>14, <2>1, FirstRowsAll
  <2>3. QED
    BY <1>11, <1>12, <2>2
<1>16. /\ Cealog(kept).rows = LastRows(Aimed, kept)
       /\ Cealog(kept).cut <=> Cardinality(Aimed) > kept
       /\ Cardinality(Ends) # EndScanLimit /\ Cardinality(Aimed) # Asked
  BY <1>4, <1>15, CealogFull
<1>17. Aimed = base
  BY <1>12, <1>13, <1>14, <1>16, FirstRowsAll
<1>18. ASSUME NEW i \in Ids, UpToEnd(c, i)
       PROVE  i \in Aimed
  <2>1. Id(i) \in RangeOf(c, starts, Ends)
    BY <1>6, <1>10, <1>18
  <2>2. i \in base
    BY <1>4, <2>1 DEF base
  <2>3. QED
    BY <1>17, <2>2
<1>19. ASSUME NEW s \in Ids, Is(s, "-START-"), log[s].minute \in Minutes,
              \A t \in Ids : Is(t, "-START-") /\ log[t].minute = log[s].minute => t = s,
              NEW i \in Ids, UpToEnd(s, i), ~Is(i, "detail")
       PROVE  i \in Aimed
  <2>1. s = StartAt(Cands, {log[s].minute}) /\ s # 0
    <3>1. s \in Cands /\ log[s].minute \in {log[s].minute}
      BY <1>1, <1>19
    <3>2. /\ StartAt(Cands, {log[s].minute}) \in Cands
          /\ StartAt(Cands, {log[s].minute}) # 0
          /\ Is(StartAt(Cands, {log[s].minute}), "-START-")
          /\ log[StartAt(Cands, {log[s].minute})].minute \in {log[s].minute}
      BY <1>2, <1>19, <3>1, StartFound
    <3>3. QED
      BY <1>2, <1>19, <3>2
  <2>2. s \in Curr \/ s \in Olds
    BY <1>19, <2>1 DEF Olds
  <2>3. Id(i) \in RangeOf(s, starts, Ends)
    BY <1>10, <1>19, <2>2 DEF starts
  <2>4. i \in base
    BY <1>19, <2>2, <2>3 DEF base
  <2>5. QED
    BY <1>17, <2>4
<1>20. Aimed \in SUBSET Ids
  BY <1>17 DEF base
<1>21. QED
  BY <1>3, <1>16, <1>18, <1>19, <1>20

\* Nothing is missing of what is read unless rows were cut ...
LEMMA UncutRead ==
  ASSUME ShortIds, TypeOK, NEW kept \in Nat, ~Cealog(kept).full, ~Cealog(kept).cut,
         \E c \in Ids : Is(c, "-START-") /\ InWindow(log[c].minute)
  PROVE  Cealog(kept).rows = Aimed
<1>1. /\ Cealog(kept).rows = LastRows(Aimed, kept) /\ ~(Cardinality(Aimed) > kept)
      /\ Aimed \in SUBSET Ids
  BY CompleteRead
<1>2. Aimed \in SUBSET Nat /\ IsFiniteSet(Aimed)
  BY <1>1, IdsFinite
<1>3. QED
  BY <1>1, <1>2, LastRowsAll

\* ... and then only rows older than any that is left.
LEMMA NewerRead ==
  ASSUME ShortIds, TypeOK, NEW kept \in Nat, ~Cealog(kept).full,
         \E c \in Ids : Is(c, "-START-") /\ InWindow(log[c].minute),
         NEW i \in Cealog(kept).rows, NEW j \in Aimed, j >= i
  PROVE  j \in Cealog(kept).rows
<1>1. Cealog(kept).rows = LastRows(Aimed, kept) /\ Aimed \in SUBSET Ids
  BY CompleteRead
<1>2. Aimed \in SUBSET Nat /\ IsFiniteSet(Aimed)
  BY <1>1, IdsFinite
<1>3. QED
  BY <1>1, <1>2, LastRowsNewer

----
(* What the agent reports *)

LEMMA AnalyzedCases ==
  ASSUME NEW read
  PROVE  LET start == StartAt(read.rows, {Trigger, Trigger + 1})
             step  == OpenStep({i \in read.rows : i >= start})
         IN  \/ \E status \in {"STUCK_NOT_PROGRESSING", "NEEDS_INVESTIGATION"} :
                  Analyzed(read) = [status |-> status, full |-> FALSE, start |-> 0, step |-> None]
             \/ /\ read.rows = {}
                /\ Analyzed(read) = [status |-> "LOG_DATA_UNAVAILABLE", full |-> read.full,
                                     start |-> 0, step |-> None]
             \/ /\ start = 0
                /\ Analyzed(read) = [status |-> "TRIGGERED_NOT_STARTED", full |-> read.full,
                                     start |-> 0, step |-> None]
             \/ /\ start # 0
                /\ \E status \in {"LONG_RUNNING", "RUNNING_NORMAL"} :
                     Analyzed(read) = [status |-> status, full |-> read.full,
                                       start |-> start, step |-> step]
<1> DEFINE start == StartAt(read.rows, {Trigger, Trigger + 1})
           step  == OpenStep({i \in read.rows : i >= start})
<1>1. CASE Sessions = {}
  BY <1>1 DEF Analyzed
<1>2. CASE Sessions # {} /\ Matching = {}
  BY <1>2 DEF Analyzed
<1>3. CASE Sessions # {} /\ Matching # {} /\ read.rows = {}
  BY <1>3 DEF Analyzed
<1>4. CASE Sessions # {} /\ Matching # {} /\ read.rows # {} /\ start = 0
  BY <1>4 DEF Analyzed
<1>5. CASE Sessions # {} /\ Matching # {} /\ read.rows # {} /\ start # 0
  BY <1>5 DEF Analyzed
<1>6. QED
  BY <1>1, <1>2, <1>3, <1>4, <1>5

LEMMA ReportFacts ==
  ASSUME NEW kept
  PROVE  /\ Report(kept).status \in LogRead =>
              /\ Report(kept).full = Cealog(kept).full
              /\ Report(kept).start = StartAt(Cealog(kept).rows, {Trigger, Trigger + 1})
         /\ Report(kept).start # 0 =>
              /\ Report(kept).status \in LogRead
              /\ Report(kept).step =
                   OpenStep({i \in Cealog(kept).rows : i >= Report(kept).start})
<1> DEFINE read  == Cealog(kept)
           start == StartAt(read.rows, {Trigger, Trigger + 1})
           step  == OpenStep({i \in read.rows : i >= start})
<1>1. Report(kept) = Analyzed(read)
  BY DEF Report
<1>2. read.rows = {} => start = 0
  BY DEF StartAt, Earliest
<1> HIDE DEF read
<1>3. CASE \E status \in {"STUCK_NOT_PROGRESSING", "NEEDS_INVESTIGATION"} :
             Analyzed(read) = [status |-> status, full |-> FALSE, start |-> 0, step |-> None]
  <2>1. Report(kept).start = 0
    BY <1>1, <1>3
  <2>2. Report(kept).status \in {"STUCK_NOT_PROGRESSING", "NEEDS_INVESTIGATION"}
    BY <1>1, <1>3
  <2>3. Report(kept).status \notin LogRead
    BY <2>2 DEF LogRead
  <2>4. QED
    BY <2>1, <2>3
<1>4. CASE start = 0 /\ \E status \in {"LOG_DATA_UNAVAILABLE", "TRIGGERED_NOT_STARTED"} :
             Analyzed(read) = [status |-> status, full |-> read.full, start |-> 0, step |-> None]
  BY <1>1, <1>4 DEF read
<1>5. CASE start # 0 /\ \E status \in {"LONG_RUNNING", "RUNNING_NORMAL"} :
             Analyzed(read) =
               [status |-> status, full |-> read.full, start |-> start, step |-> step]
  BY <1>1, <1>5 DEF LogRead, read
<1>6. QED
  BY <1>2, <1>3, <1>4, <1>5, AnalyzedCases

\* A -START- in the two minutes is the active run's, unless runs are crowded.
LEMMA OwnStart ==
  ASSUME MonitorInv, active, ~Crowded,
         NEW i \in Ids, Is(i, "-START-"), InWindow(log[i].minute)
  PROVE  log[i].run = Newest
<1>1. Newest \in 1..Newest /\ Newest \in Nat /\ log[i].run \in 1..Newest
  BY Typing, BoundsAssumption DEF MonitorInv, Bounded, Ordered, Newest
<1>2. SUFFICES ASSUME log[i].run < Newest PROVE FALSE
  BY <1>1
<1>3. log[i].minute <= Trigger
  BY <1>1, <1>2 DEF MonitorInv, Ordered, Trigger, Newest
<1>4. log[i].minute \in Nat /\ Trigger \in Nat
  BY <1>1, Typing DEF MonitorInv, Trigger, Newest
<1>5. log[i].minute = Trigger
  BY <1>3, <1>4 DEF InWindow
<1>6. Shares(log[i].run, Newest)
  BY <1>2, <1>5 DEF Shares, Trigger
<1>7. QED
  BY <1>1, <1>6 DEF Crowded

\* While IDs have at most six digits, a run is reported as started only if its
\* log has a -START- in the two minutes, and as not started only if it has none
\* or limit_per_table cut rows, however many rows it leaves.
THEOREM StartTrue ==
  ASSUME ShortIds
  PROVE  Spec => []StartIsTrue
<1>1. ASSUME MonitorInv PROVE StartIsTrue
  <2> SUFFICES ASSUME active, ~Crowded, NEW kept \in Kept,
                      Report(kept).status \in LogRead, ~Report(kept).full
               PROVE  /\ Report(kept).start # 0 => TrulyStarted
                      /\ TrulyStarted => Report(kept).start # 0 \/ Cealog(kept).cut
    BY DEF StartIsTrue
  <2>0. kept \in Nat
    BY LimitsAssumption
  <2> DEFINE window == {Trigger, Trigger + 1}
  <2>1. TypeOK /\ ~Cealog(kept).full /\ Report(kept).start = StartAt(Cealog(kept).rows, window)
    BY <1>1, ReportFacts DEF MonitorInv
  <2>2. ASSUME Report(kept).start # 0 PROVE TrulyStarted
    <3>1. /\ Report(kept).start \in Ids /\ Is(Report(kept).start, "-START-")
          /\ InWindow(log[Report(kept).start].minute)
      BY <2>1, <2>2, ReportedStart DEF TypeOK, InWindow
    <3>2. QED
      BY <1>1, <3>1, OwnStart DEF TrulyStarted
  <2>3. ASSUME TrulyStarted, ~Cealog(kept).cut PROVE Report(kept).start # 0
    <3>0. \E c \in Ids : Is(c, "-START-") /\ InWindow(log[c].minute)
      BY <2>3 DEF TrulyStarted
    <3>1. PICK c \in Ids : /\ Is(c, "-START-") /\ InWindow(log[c].minute)
                          /\ \A i \in Ids : UpToEnd(c, i) => i \in Aimed
      BY <2>0, <2>1, <3>0, CompleteRead
    <3>2. Ids \subseteq Nat
      BY <2>1, Typing
    <3>3. c \in Cealog(kept).rows
      <4>1. c \in Aimed
        BY <3>1, <3>2 DEF UpToEnd
      <4>2. Cealog(kept).rows = Aimed
        BY <2>0, <2>1, <2>3, <3>0, UncutRead
      <4> QED  BY <4>1, <4>2
    <3>4. Cealog(kept).rows \in SUBSET Ids
      BY <2>1, RowsAreOfTheLog DEF TypeOK
    <3>5. log[c].minute \in window
      BY <3>1 DEF InWindow
    <3> HIDE DEF window
    <3>6. QED
      BY <2>1, <3>1, <3>3, <3>4, <3>5, StartFound
  <2>4. QED
    BY <2>2, <2>3
<1>2. QED
  BY <1>1, Invariance, PTL

----
(***************************************************************************)
(* The log as the runs write it, for StepIsTrue and AlertIsTrue: the runs  *)
(* and the minutes of its rows never go back; -START- is the first row of  *)
(* a run and -END- the last, and only a run that died has none; the        *)
(* "before" rows of the active run without an "after" row are the steps in *)
(* `open`, in that order.                                                  *)
(***************************************************************************)
OwnRow(i, what) == log[i].run = Newest /\ Is(i, what)

RowsInOrder ==
  \A i, j \in Ids : i <= j => log[i].run <= log[j].run /\ log[i].minute <= log[j].minute

StartsFirst ==
  \A j \in Ids : \E i \in Ids : i <= j /\ log[i].run = log[j].run /\ Is(i, "-START-")

StartsOnce ==
  \A i, j \in Ids : log[i].run = log[j].run /\ Is(i, "-START-") /\ Is(j, "-START-") => i = j

EndsLast ==
  \A i, j \in Ids : log[i].run = log[j].run /\ Is(i, "-END-") => j <= i

WellWritten == RowsInOrder /\ StartsFirst /\ StartsOnce /\ EndsLast

\* A run's rows come after its trigger.
RowsAfterTrigger == \A i \in Ids : runs[log[i].run].trigger <= log[i].minute

\* A run that is over logged its end or died.
EndsLogged ==
  \A r \in 1..Newest : r < Newest \/ ~active => r \in deaths \/ HasLogged(r, "-END-")

\* The session and the form of a run appear in the minutes they are looked for.
RunsInTime ==
  \A r \in 1..Newest : /\ runs[r].session \in {runs[r].trigger, Never}
                       /\ runs[r].form \in {runs[r].trigger, runs[r].trigger + 1, Never}

Opened ==
  {i \in Ids : /\ OwnRow(i, "before")
               /\ ~\E j \in Ids : j > i /\ OwnRow(j, "after") /\ log[j].step = log[i].step}

Nested ==
  /\ \A p, q \in DOMAIN open : open[p] = open[q] => p = q
  /\ \A i \in Opened : \E p \in DOMAIN open : log[i].step = open[p]
  /\ \A p \in DOMAIN open : \E i \in Opened : log[i].step = open[p]
  /\ \A i, j \in Opened, p, q \in DOMAIN open :
       log[i].step = open[p] /\ log[j].step = open[q] /\ i < j => p < q

LogInv ==
  /\ WellWritten
  /\ RowsAfterTrigger /\ EndsLogged /\ RunsInTime
  /\ active => Nested

LEMMA InitLogInv == Init => LogInv
<1> SUFFICES ASSUME Init PROVE WellWritten /\ RowsAfterTrigger /\ EndsLogged /\ RunsInTime
  BY DEF LogInv, Init
<1>1. PICK shapes \in [1..PastRuns -> Shapes] :
        /\ runs = [k \in 1..PastRuns |-> PastRun(k, shapes[k])]
        /\ log = [i \in 1..(5 * PastRuns) |->
                    PastRows(1 + ((i - 1) \div 5), shapes[1 + ((i - 1) \div 5)])
                      [1 + ((i - 1) % 5)]]
        /\ deaths = {k \in 1..PastRuns : ~shapes[k].ended}
  BY DEF Init
<1>2. Ids = 1..(5 * PastRuns) /\ PastRuns \in Nat /\ Newest = PastRuns
  BY <1>1, BoundsAssumption DEF Ids, Newest
<1>3. \A k \in 1..PastRuns : /\ shapes[k] \in Shape /\ shapes[k].ended \in BOOLEAN
                             /\ shapes[k].late \in 0..1 /\ shapes[k].took \in 0..1
  BY ShapesAssumption DEF Shape
\* The place of a run's row in the log.
<1> DEFINE at(k, j) == 5 * (k - 1) + j
<1>4. ASSUME NEW k \in 1..PastRuns, NEW j \in 1..5
      PROVE  /\ at(k, j) \in Ids
             /\ log[at(k, j)] = PastRows(k, shapes[k])[j]
  <2>1. at(k, j) \in 1..(5 * PastRuns)
    BY <1>2
  <2>2. 1 + ((at(k, j) - 1) \div 5) = k /\ 1 + ((at(k, j) - 1) % 5) = j
    BY <1>2
  <2> HIDE DEF at
  <2>3. QED
    BY <1>1, <1>2, <2>1, <2>2
<1>5. ASSUME NEW i \in Ids
      PROVE  \E k \in 1..PastRuns, j \in 1..5 : i = at(k, j)
  <2> DEFINE k == 1 + ((i - 1) \div 5)
             j == 1 + ((i - 1) % 5)
  <2>1. k \in 1..PastRuns /\ j \in 1..5 /\ i = at(k, j)
    BY <1>2
  <2> HIDE DEF k, j, at
  <2>2. QED
    BY <2>1
<1>6. \A k, l \in 1..PastRuns : \A i, j \in 1..5 :
         at(k, i) <= at(l, j) <=> k < l \/ (k = l /\ i <= j)
  BY <1>2
<1>7. \A k \in 1..PastRuns, j \in 1..5 : at(k, j) \in Nat
  BY <1>2
<1> HIDE DEF at
<1>8. ASSUME NEW k \in 1..PastRuns, NEW j \in 1..5
      PROVE  /\ log[at(k, j)].run = k
             /\ log[at(k, j)].minute = 3 * (k - 1) + shapes[k].late
                                         + (IF j <= 3 THEN 0 ELSE shapes[k].took)
             /\ Is(at(k, j), "-START-") <=> j = 1
             /\ Is(at(k, j), "-END-") <=> j = 5 /\ shapes[k].ended
  <2>1. shapes[k] \in Shape /\ log[at(k, j)] = PastRows(k, shapes[k])[j]
    BY <1>3, <1>4
  <2>2. log[at(k, j)].run = k
    BY <2>1, PastRowFacts
  <2>3. QED
    BY <2>1, <2>2, PastRowPlaces DEF Is
<1>9. RowsInOrder
  <2> SUFFICES ASSUME NEW i \in Ids, NEW j \in Ids, i <= j
               PROVE  log[i].run <= log[j].run /\ log[i].minute <= log[j].minute
    BY DEF RowsInOrder
  <2>1. PICK k \in 1..PastRuns, x \in 1..5 : i = at(k, x)
    BY <1>5
  <2>2. PICK l \in 1..PastRuns, y \in 1..5 : j = at(l, y)
    BY <1>5
  <2>3. k < l \/ (k = l /\ x <= y)
    BY <1>6, <2>1, <2>2
  <2>4. /\ log[i].run = k /\ log[j].run = l
        /\ log[i].minute = 3 * (k - 1) + shapes[k].late + (IF x <= 3 THEN 0 ELSE shapes[k].took)
        /\ log[j].minute = 3 * (l - 1) + shapes[l].late + (IF y <= 3 THEN 0 ELSE shapes[l].took)
    BY <1>8, <2>1, <2>2
  <2>5. /\ shapes[k].late \in 0..1 /\ shapes[k].took \in 0..1
        /\ shapes[l].late \in 0..1 /\ shapes[l].took \in 0..1
    BY <1>3
  <2>6. CASE k < l
    BY <1>2, <2>4, <2>5, <2>6
  <2>7. CASE k = l /\ x <= y
    BY <1>2, <2>4, <2>5, <2>7
  <2>8. QED
    BY <2>3, <2>6, <2>7
<1>10. \A k \in 1..PastRuns : /\ at(k, 1) \in Ids /\ at(k, 5) \in Ids
                              /\ log[at(k, 1)].run = k /\ log[at(k, 5)].run = k
                              /\ Is(at(k, 1), "-START-")
                              /\ shapes[k].ended => Is(at(k, 5), "-END-")
  <2>1. 1 \in 1..5 /\ 5 \in 1..5
    OBVIOUS
  <2>2. QED
    BY <1>4, <1>8, <2>1
<1>11. StartsFirst
  <2> SUFFICES ASSUME NEW j \in Ids
               PROVE  \E i \in Ids : i <= j /\ log[i].run = log[j].run /\ Is(i, "-START-")
    BY DEF StartsFirst
  <2>1. PICK k \in 1..PastRuns, x \in 1..5 : j = at(k, x)
    BY <1>5
  <2>2. 1 \in 1..5 /\ 1 <= x
    OBVIOUS
  <2>3. at(k, 1) <= j /\ log[j].run = k
    BY <1>6, <1>8, <2>1, <2>2
  <2>4. QED
    BY <1>10, <2>3
<1>12. StartsOnce
  <2>1. \A h \in Ids : Is(h, "-START-") => h = at(log[h].run, 1)
    <3> SUFFICES ASSUME NEW h \in Ids, Is(h, "-START-") PROVE h = at(log[h].run, 1)
      OBVIOUS
    <3>1. PICK k \in 1..PastRuns, x \in 1..5 : h = at(k, x)
      BY <1>5
    <3>2. QED
      BY <1>8, <3>1
  <2>2. QED
    BY <2>1 DEF StartsOnce
<1>13. EndsLast
  <2> SUFFICES ASSUME NEW i \in Ids, NEW j \in Ids, log[i].run = log[j].run, Is(i, "-END-")
               PROVE  j <= i
    BY DEF EndsLast
  <2>1. PICK k \in 1..PastRuns, x \in 1..5 : i = at(k, x)
    BY <1>5
  <2>2. PICK l \in 1..PastRuns, y \in 1..5 : j = at(l, y)
    BY <1>5
  <2>3. x = 5 /\ k = l /\ y <= x
    BY <1>8, <2>1, <2>2
  <2>4. QED
    BY <1>6, <2>1, <2>2, <2>3
<1>14. \A k \in 1..PastRuns : runs[k] = PastRun(k, shapes[k])
  BY <1>1
<1>15. RowsAfterTrigger
  <2> SUFFICES ASSUME NEW i \in Ids PROVE runs[log[i].run].trigger <= log[i].minute
    BY DEF RowsAfterTrigger
  <2>1. PICK k \in 1..PastRuns, x \in 1..5 : i = at(k, x)
    BY <1>5
  <2>2. log[i].run = k /\ runs[k].trigger = 3 * (k - 1)
    BY <1>3, <1>8, <1>14, <2>1, PastRunFacts
  <2>3. log[i].minute = 3 * (k - 1) + shapes[k].late + (IF x <= 3 THEN 0 ELSE shapes[k].took)
    BY <1>8, <2>1
  <2>4. QED
    BY <1>2, <1>3, <2>2, <2>3
<1>16. EndsLogged
  <2> SUFFICES ASSUME NEW k \in 1..PastRuns, k \notin deaths PROVE HasLogged(k, "-END-")
    BY <1>2 DEF EndsLogged
  <2>1. shapes[k].ended
    BY <1>1
  <2>2. QED
    BY <1>10, <2>1 DEF HasLogged
<1>17. RunsInTime
  <2>1. \A k, shape : /\ PastRun(k, shape).session = PastRun(k, shape).trigger
                     /\ PastRun(k, shape).form = PastRun(k, shape).trigger
    BY DEF PastRun
  <2>2. QED
    BY <1>2, <1>14, <2>1 DEF RunsInTime
<1>18. QED
  BY <1>9, <1>11, <1>12, <1>13, <1>15, <1>16, <1>17 DEF WellWritten

LEMMA RowAdded ==
  ASSUME MonitorInv, active, NEW what, NEW step, AddRow(what, step)
  PROVE  /\ Len(log) \in Nat /\ Ids = 1..Len(log) /\ Ids' = 1..(Len(log) + 1)
         /\ \A i \in Ids : log'[i] = log[i]
         /\ log'[Len(log) + 1] = LogRow(now, Newest, what, step)
         /\ Newest' = Newest /\ active' = active
<1>1. log' = Append(log, LogRow(now, Newest, what, step)) /\ UNCHANGED <<runs, active>>
  BY DEF AddRow
<1>2. log \in Seq(Row)
  BY DEF MonitorInv, TypeOK
<1>3. Len(log) \in Nat /\ Ids = 1..Len(log)
  BY <1>2, Typing DEF MonitorInv
<1> HIDE DEF LogRow
<1>4. /\ Len(log') = Len(log) + 1 /\ DOMAIN log' = 1..(Len(log) + 1)
      /\ log'[Len(log) + 1] = LogRow(now, Newest, what, step)
      /\ \A i \in 1..Len(log) : log'[i] = log[i]
  BY <1>1, <1>2
<1>5. QED
  BY <1>1, <1>3, <1>4 DEF Ids, Newest

LEMMA RowKeepsOrder ==
  ASSUME MonitorInv, LogInv, active, NEW what, NEW step, AddRow(what, step),
         IF what = "-START-" THEN ~HasLogged(Newest, "-START-")
         ELSE HasLogged(Newest, "-START-") /\ ~HasLogged(Newest, "-END-")
  PROVE  WellWritten'
<1>0. /\ Len(log) \in Nat /\ Ids = 1..Len(log) /\ Ids' = 1..(Len(log) + 1)
      /\ \A i \in Ids : log'[i] = log[i]
      /\ log'[Len(log) + 1] = LogRow(now, Newest, what, step)
      /\ Newest' = Newest /\ active' = active
  BY RowAdded
<1> PICK n \in Nat : n = Len(log) + 1
  BY <1>0
<1>1. /\ n - 1 \in Nat /\ Ids = 1..(n - 1) /\ Ids' = 1..n
      /\ \A i \in Ids : log'[i] = log[i]
  BY <1>0
<1>2. log'[n].run = Newest /\ log'[n].what = what /\ log'[n].minute = now
  BY <1>0 DEF LogRow
<1>3. \A i \in Ids : /\ log[i].run \in Nat /\ log[i].run <= Newest
                     /\ log[i].minute \in Nat /\ log[i].minute <= now
  BY Typing DEF MonitorInv, Ordered, Newest
<1>4. \A i \in Ids' : i \in Ids \/ i = n
  BY <1>1
<1>5. n \in Nat /\ Newest \in Nat /\ now \in Nat /\ n \in Ids'
      /\ \A i \in Ids : i < n /\ i \in Nat /\ i \in Ids'
  BY <1>1, Typing DEF MonitorInv, Newest
<1>6. WellWritten
  BY DEF LogInv
<1>7. /\ \A w : \A i \in Ids : Is(i, w)' <=> Is(i, w)
      /\ \A w : Is(n, w)' <=> w = what
  BY <1>1, <1>2 DEF Is
<1>8. RowsInOrder'
  <2> SUFFICES ASSUME NEW i \in Ids', NEW j \in Ids', i <= j
               PROVE  log'[i].run <= log'[j].run /\ log'[i].minute <= log'[j].minute
    BY DEF RowsInOrder
  <2>1. CASE j = n
    BY <1>1, <1>2, <1>3, <1>4, <1>5, <2>1
  <2>2. CASE j \in Ids
    <3>1. i \in Ids
      BY <1>1, <1>4, <1>5, <2>2
    <3>2. QED
      BY <1>1, <1>6, <2>2, <3>1 DEF WellWritten, RowsInOrder
  <2>3. QED
    BY <1>4, <2>1, <2>2
<1>9. StartsFirst'
  <2> SUFFICES ASSUME NEW j \in Ids'
               PROVE  \E i \in Ids' : i <= j /\ log'[i].run = log'[j].run /\ Is(i, "-START-")'
    BY DEF StartsFirst
  <2>1. CASE j \in Ids
    <3>1. PICK i \in Ids : i <= j /\ log[i].run = log[j].run /\ Is(i, "-START-")
      BY <1>6, <2>1 DEF WellWritten, StartsFirst
    <3>2. QED
      BY <1>1, <1>5, <1>7, <2>1, <3>1
  <2>2. CASE j = n /\ what = "-START-"
    BY <1>5, <1>7, <2>2
  <2>3. CASE j = n /\ what # "-START-"
    <3>1. PICK i \in Ids : log[i].run = Newest /\ Is(i, "-START-")
      BY <2>3 DEF HasLogged
    <3>2. i \in Ids' /\ i <= n /\ log'[i] = log[i] /\ Is(i, "-START-")'
      BY <1>1, <1>5, <1>7, <3>1
    <3>3. QED
      BY <1>2, <2>3, <3>1, <3>2
  <2>4. QED
    BY <1>4, <2>1, <2>2, <2>3
<1>10. StartsOnce'
  <2>1. what = "-START-" => \A i \in Ids : Is(i, "-START-") => log[i].run # Newest
    BY DEF HasLogged
  <2> SUFFICES ASSUME NEW i \in Ids', NEW j \in Ids', log'[i].run = log'[j].run,
                      Is(i, "-START-")', Is(j, "-START-")'
               PROVE  i = j
    BY DEF StartsOnce
  <2>2. CASE i \in Ids /\ j \in Ids
    BY <1>1, <1>6, <1>7, <2>2 DEF WellWritten, StartsOnce
  <2>3. QED
    BY <1>1, <1>2, <1>4, <1>7, <2>1, <2>2
<1>11. EndsLast'
  <2>1. \A i \in Ids : Is(i, "-END-") => log[i].run # Newest
    <3> SUFFICES ASSUME NEW i \in Ids, Is(i, "-END-"), log[i].run = Newest PROVE FALSE
      OBVIOUS
    <3>1. HasLogged(Newest, "-START-")
      BY <1>6 DEF WellWritten, StartsFirst, HasLogged
    <3>2. HasLogged(Newest, "-END-")
      BY DEF HasLogged
    <3>3. QED
      BY <3>1, <3>2
  <2> SUFFICES ASSUME NEW i \in Ids', NEW j \in Ids', log'[i].run = log'[j].run, Is(i, "-END-")'
               PROVE  j <= i
    BY DEF EndsLast
  <2>2. CASE i = n
    BY <1>4, <1>5, <2>2
  <2>3. CASE i \in Ids /\ j = n
    BY <1>1, <1>2, <1>7, <2>1, <2>3
  <2>4. CASE i \in Ids /\ j \in Ids
    BY <1>1, <1>6, <1>7, <2>4 DEF WellWritten, EndsLast
  <2>5. QED
    BY <1>4, <2>2, <2>3, <2>4
<1>12. QED
  BY <1>8, <1>9, <1>10, <1>11 DEF WellWritten

\* The rows of one step are paired when a boundary row is added.
LEMMA RowKeepsNested ==
  ASSUME MonitorInv, LogInv, active, NEW what, NEW step, AddRow(what, step),
         \/ what \notin {"before", "after"} /\ UNCHANGED open
         \/ /\ what = "before" /\ step \in Steps
            /\ step \notin {open[i] : i \in DOMAIN open}
            /\ open' = Append(open, step)
         \/ /\ what = "after" /\ open # <<>> /\ step = open[Len(open)]
            /\ open' = SubSeq(open, 1, Len(open) - 1)
  PROVE  Nested'
<1> DEFINE d == Len(open)
<1>0. /\ Len(log) \in Nat /\ Ids = 1..Len(log) /\ Ids' = 1..(Len(log) + 1)
      /\ \A i \in Ids : log'[i] = log[i]
      /\ log'[Len(log) + 1] = LogRow(now, Newest, what, step)
      /\ Newest' = Newest /\ active' = active
  BY RowAdded
<1> PICK n \in Nat : n = Len(log) + 1
  BY <1>0
<1>1. /\ n - 1 \in Nat /\ Ids = 1..(n - 1) /\ Ids' = 1..n
      /\ \A i \in Ids : log'[i] = log[i]
      /\ Newest' = Newest /\ active' = active
  BY <1>0
<1>2. log'[n].run = Newest /\ log'[n].what = what /\ log'[n].step = step
  BY <1>0 DEF LogRow
<1>3. n \in Nat /\ n \in Ids' /\ n \notin Ids /\ \A i \in Ids : i < n /\ i \in Nat /\ i \in Ids'
  BY <1>1
<1>4. \A i \in Ids' : i \in Ids \/ i = n
  BY <1>1
<1>5. open \in Seq(Steps) /\ d \in Nat /\ DOMAIN open = 1..d
  BY DEF MonitorInv, TypeOK
<1>6. Nested
  BY DEF LogInv
<1> HIDE DEF d
<1>7. \A w : \A i \in Ids : OwnRow(i, w)' <=> OwnRow(i, w)
  BY <1>1 DEF OwnRow, Is
<1>8. \A w : OwnRow(n, w)' <=> w = what
  BY <1>1, <1>2 DEF OwnRow, Is
<1>9. \A i \in Ids' : i \in Opened' <=>
        \/ i \in Opened /\ (what = "after" => log[i].step # step)
        \/ i = n /\ what = "before"
  <2> SUFFICES ASSUME NEW i \in Ids'
               PROVE  i \in Opened' <=>
                        \/ i \in Opened /\ (what = "after" => log[i].step # step)
                        \/ i = n /\ what = "before"
    OBVIOUS
  <2>1. CASE i = n
    <3>1. ~\E j \in Ids' : j > i
      BY <1>1, <2>1
    <3>2. i \in Opened' <=> what = "before"
      BY <1>8, <2>1, <3>1 DEF Opened
    <3>3. i \notin Opened
      BY <1>3, <2>1 DEF Opened
    <3>4. QED
      BY <2>1, <3>2, <3>3
  <2>2. CASE i \in Ids
    <3>1. i # n
      BY <1>3, <2>2
    <3>2. (\E j \in Ids' : j > i /\ OwnRow(j, "after")' /\ log'[j].step = log'[i].step) <=>
            \/ \E j \in Ids : j > i /\ OwnRow(j, "after") /\ log[j].step = log[i].step
            \/ what = "after" /\ log[i].step = step
      <4>1. \A j \in Ids : (OwnRow(j, "after")' /\ log'[j].step = log'[i].step) <=>
                           (OwnRow(j, "after") /\ log[j].step = log[i].step)
        BY <1>1, <1>7, <2>2
      <4>2. n > i /\ (OwnRow(n, "after")' /\ log'[n].step = log'[i].step <=>
                      what = "after" /\ log[i].step = step)
        BY <1>1, <1>2, <1>3, <1>8, <2>2
      <4>3. QED
        BY <1>3, <1>4, <4>1, <4>2
    <3>3. i \in Opened' <=> OwnRow(i, "before") /\
            ~\E j \in Ids' : j > i /\ OwnRow(j, "after")' /\ log'[j].step = log'[i].step
      BY <1>7, <2>2 DEF Opened
    <3>4. i \in Opened <=> OwnRow(i, "before") /\
            ~\E j \in Ids : j > i /\ OwnRow(j, "after") /\ log[j].step = log[i].step
      BY <2>2 DEF Opened
    <3>5. QED
      BY <3>1, <3>2, <3>3, <3>4
  <2>3. QED
    BY <1>4, <2>1, <2>2
<1>10. Opened \subseteq Ids /\ Opened' \subseteq Ids'
  BY DEF Opened
<1>11. \A i \in Opened : log'[i].step = log[i].step /\ i \in Ids' /\ i < n
  BY <1>1, <1>3, <1>10
<1>12. CASE what \notin {"before", "after"} /\ UNCHANGED open
  <2>1. Opened' = Opened
    BY <1>9, <1>10, <1>11, <1>12
  <2>2. QED
    BY <1>6, <1>11, <1>12, <2>1 DEF Nested
<1>13. CASE /\ what = "before" /\ step \in Steps
            /\ step \notin {open[i] : i \in DOMAIN open}
            /\ open' = Append(open, step)
  <2>1. \A i : i \in Opened' <=> i \in Opened \/ i = n
    BY <1>3, <1>9, <1>10, <1>11, <1>13
  <2>2. /\ DOMAIN open' = 1..(d + 1) /\ open'[d + 1] = step
        /\ \A p \in 1..d : open'[p] = open[p]
    BY <1>5, <1>13 DEF d
  <2>3. \A p \in 1..(d + 1) : p \in 1..d \/ p = d + 1
    BY <1>5
  <2>4. \A p \in 1..d : open[p] # step /\ p < d + 1 /\ p \in 1..(d + 1)
    BY <1>5, <1>13
  <2>5. d + 1 \in 1..(d + 1) /\ ~(n < n)
    BY <1>3, <1>5
  <2>6. \A i \in Opened : log[i].step # step /\ ~(n < i)
    <3>1. \A i \in Opened : ~(n < i)
      BY <1>3, <1>10
    <3>2. QED
      BY <1>5, <1>6, <2>4, <3>1 DEF Nested
  <2>7. \A p, q \in DOMAIN open' : open'[p] = open'[q] => p = q
    BY <1>5, <1>6, <2>2, <2>3, <2>4 DEF Nested
  <2>8. \A i \in Opened' : \E p \in DOMAIN open' : log'[i].step = open'[p]
    BY <1>2, <1>5, <1>6, <1>11, <2>1, <2>2, <2>4, <2>5 DEF Nested
  <2>9. \A p \in DOMAIN open' : \E i \in Opened' : log'[i].step = open'[p]
    BY <1>2, <1>5, <1>6, <1>11, <2>1, <2>2, <2>3 DEF Nested
  <2>10. ASSUME NEW i \in Opened', NEW j \in Opened',
                NEW p \in DOMAIN open', NEW q \in DOMAIN open',
                log'[i].step = open'[p], log'[j].step = open'[q], i < j
         PROVE  p < q
    <3>1. i \in Opened
      BY <1>3, <2>1, <2>5, <2>6, <2>10
    <3>2. p \in 1..d /\ log[i].step = open[p]
      BY <1>11, <2>2, <2>3, <2>6, <2>10, <3>1
    <3>3. CASE j = n
      <4>1. q = d + 1
        BY <1>2, <2>2, <2>3, <2>4, <2>10, <3>3
      <4>2. QED
        BY <2>4, <3>2, <4>1
    <3>4. CASE j \in Opened
      <4>1. q \in 1..d /\ log[j].step = open[q]
        BY <1>11, <2>2, <2>3, <2>6, <2>10, <3>4
      <4>2. QED
        BY <1>5, <1>6, <2>10, <3>1, <3>2, <3>4, <4>1 DEF Nested
    <3>5. QED
      BY <2>1, <3>3, <3>4
  <2>11. QED
    BY <2>7, <2>8, <2>9, <2>10 DEF Nested
<1>14. CASE /\ what = "after" /\ open # <<>> /\ step = open[Len(open)]
            /\ open' = SubSeq(open, 1, Len(open) - 1)
  <2>1. \A i : i \in Opened' <=> i \in Opened /\ log[i].step # step
    BY <1>9, <1>10, <1>11, <1>14
  <2>2. /\ d \in 1..d /\ step = open[d]
        /\ DOMAIN open' = 1..(d - 1)
        /\ \A p \in 1..(d - 1) : open'[p] = open[p] /\ p \in 1..d /\ p # d
    <3>1. d # 0 /\ step = open[d] /\ open' = SubSeq(open, 1, d - 1)
      BY <1>5, <1>14 DEF d
    <3>2. d \in 1..d /\ d - 1 \in 0..d /\ \A p \in 1..(d - 1) : p \in 1..d /\ p # d
      BY <1>5, <3>1
    <3>3. /\ SubSeq(open, 1, d - 1) \in Seq(Steps)
          /\ Len(SubSeq(open, 1, d - 1)) = d - 1
          /\ \A p \in 1..(d - 1) : SubSeq(open, 1, d - 1)[p] = open[p]
      <4>1. \A p \in 1..(d - 1) : open[p] \in Steps /\ 1 + p - 1 = p
        BY <1>5, <3>2
      <4>2. 1 \in Int /\ d - 1 \in Int /\ (d - 1) - 1 + 1 = d - 1
            /\ (IF 1 <= d - 1 THEN (d - 1) - 1 + 1 ELSE 0) = d - 1
        BY <3>2
      <4> DEFINE m == d - 1
      <4> HIDE DEF m
      <4>3. /\ SubSeq(open, 1, m) \in Seq(Steps)
            /\ Len(SubSeq(open, 1, m)) = IF 1 <= m THEN m - 1 + 1 ELSE 0
            /\ \A p \in 1..(m - 1 + 1) : SubSeq(open, 1, m)[p] = open[1 + p - 1]
        BY <4>1, <4>2, SubSeqProperties DEF m
      <4>4. QED
        BY <4>1, <4>2, <4>3 DEF m
    <3>4. DOMAIN open' = 1..(d - 1) /\ \A p \in 1..(d - 1) : open'[p] = open[p]
      BY <3>1, <3>3
    <3>5. QED
      BY <3>1, <3>2, <3>3, <3>4
  <2>3. \A p \in 1..d : p \in 1..(d - 1) \/ p = d
    BY <1>5
  <2>4. \A p \in 1..(d - 1) : open[p] # step
    BY <1>5, <1>6, <2>2 DEF Nested
  <2>5. \A p, q \in DOMAIN open' : open'[p] = open'[q] => p = q
    BY <1>5, <1>6, <2>2 DEF Nested
  <2>6. \A i \in Opened' : \E p \in DOMAIN open' : log'[i].step = open'[p]
    <3> SUFFICES ASSUME NEW i \in Opened' PROVE \E p \in DOMAIN open' : log'[i].step = open'[p]
      OBVIOUS
    <3>1. i \in Opened /\ log[i].step # step
      BY <2>1
    <3>2. PICK p \in 1..d : log[i].step = open[p]
      BY <1>5, <1>6, <3>1 DEF Nested
    <3>3. p \in 1..(d - 1)
      BY <2>2, <2>3, <3>1, <3>2
    <3>4. QED
      BY <1>11, <2>2, <3>1, <3>2, <3>3
  <2>7. \A p \in DOMAIN open' : \E i \in Opened' : log'[i].step = open'[p]
    <3> SUFFICES ASSUME NEW p \in 1..(d - 1) PROVE \E i \in Opened' : log'[i].step = open'[p]
      BY <2>2
    <3>1. PICK i \in Opened : log[i].step = open[p]
      BY <1>5, <1>6, <2>2 DEF Nested
    <3>2. QED
      BY <1>11, <2>1, <2>2, <2>4, <3>1
  <2>8. ASSUME NEW i \in Opened', NEW j \in Opened',
                NEW p \in DOMAIN open', NEW q \in DOMAIN open',
                log'[i].step = open'[p], log'[j].step = open'[q], i < j
         PROVE  p < q
    <3>1. i \in Opened /\ j \in Opened /\ p \in 1..d /\ q \in 1..d
      BY <2>1, <2>2
    <3>2. log[i].step = open[p] /\ log[j].step = open[q]
      BY <1>11, <2>2, <2>8, <3>1
    <3>3. QED
      BY <1>5, <1>6, <2>8, <3>1, <3>2 DEF Nested
  <2>9. QED
    BY <2>5, <2>6, <2>7, <2>8 DEF Nested
<1>15. QED
  BY <1>12, <1>13, <1>14

LEMMA QuietKeepsLog ==
  ASSUME LogInv, UNCHANGED <<runs, active, log, open, deaths>>
  PROVE  LogInv'
  BY DEF LogInv, WellWritten, RowsInOrder, StartsFirst, StartsOnce, EndsLast, RowsAfterTrigger,
         EndsLogged, HasLogged, RunsInTime, Nested, Opened, OwnRow, Is, Ids, Newest

LEMMA RowKeepsLog ==
  ASSUME MonitorInv, LogInv, active, NEW what, NEW step, AddRow(what, step),
         IF what = "-START-" THEN ~HasLogged(Newest, "-START-")
         ELSE HasLogged(Newest, "-START-") /\ ~HasLogged(Newest, "-END-"),
         \/ what \notin {"before", "after"} /\ UNCHANGED open
         \/ /\ what = "before" /\ step \in Steps
            /\ step \notin {open[i] : i \in DOMAIN open}
            /\ open' = Append(open, step)
         \/ /\ what = "after" /\ open # <<>> /\ step = open[Len(open)]
            /\ open' = SubSeq(open, 1, Len(open) - 1)
  PROVE  LogInv'
<1>1. WellWritten'
  BY RowKeepsOrder
<1>2. Nested'
  BY RowKeepsNested
<1>3. UNCHANGED <<runs, active, deaths>>
  BY DEF AddRow
<1>4. /\ Len(log) \in Nat /\ Ids = 1..Len(log) /\ Ids' = 1..(Len(log) + 1)
      /\ \A i \in Ids : log'[i] = log[i]
      /\ log'[Len(log) + 1] = LogRow(now, Newest, what, step)
      /\ Newest' = Newest
  BY RowAdded
<1>5. \A i \in Ids' : i \in Ids \/ i = Len(log) + 1
  BY <1>4
<1>6. RowsAfterTrigger'
  <2>1. runs[Newest].trigger <= now
    BY Typing, BoundsAssumption DEF MonitorInv, Bounded, Ordered, Newest
  <2>2. log'[Len(log) + 1].run = Newest /\ log'[Len(log) + 1].minute = now
    BY <1>4 DEF LogRow
  <2>3. \A i \in Ids : runs[log[i].run].trigger <= log[i].minute
    BY DEF LogInv, RowsAfterTrigger
  <2>4. QED
    BY <1>3, <1>4, <1>5, <2>1, <2>2, <2>3 DEF RowsAfterTrigger
<1>7. EndsLogged' /\ RunsInTime'
  <2>1. \A i \in Ids : i \in Ids'
    BY <1>4
  <2>2. \A r : HasLogged(r, "-END-") => HasLogged(r, "-END-")'
    BY <1>4, <2>1 DEF HasLogged, Is
  <2>3. QED
    BY <1>3, <1>4, <2>2 DEF LogInv, EndsLogged, RunsInTime
<1>8. QED
  BY <1>1, <1>2, <1>6, <1>7 DEF LogInv

\* A run that was just triggered has no rows.
LEMMA TriggerKeepsLog ==
  ASSUME MonitorInv, LogInv, TriggerRun
  PROVE  LogInv'
<1>1. PICK session \in {now, Never}, form \in {now, now + 1, Never}, type \in Types :
        runs' = Append(runs, [trigger |-> now, session |-> session, form |-> form,
                              type |-> type, over |-> Never])
  BY DEF TriggerRun
<1> DEFINE n   == Len(runs)
           new == [trigger |-> now, session |-> session, form |-> form,
                   type |-> type, over |-> Never]
<1>2. ~active /\ open' = <<>> /\ UNCHANGED <<log, deaths>> /\ Ids' = Ids
  BY DEF TriggerRun, Ids
<1>3. n \in Nat /\ Newest = n /\ \A i \in Ids : log[i].run \in 1..n
  BY Typing DEF MonitorInv, Ordered, Newest
<1>4. new.trigger = now /\ new.session = session /\ new.form = form
  OBVIOUS
<1>5. runs \in Seq(Run) /\ runs' = Append(runs, new)
  BY <1>1 DEF MonitorInv, TypeOK
<1> HIDE DEF new
<1>6. /\ Newest' = n + 1 /\ runs'[n + 1] = new
      /\ \A r \in 1..n : runs'[r] = runs[r]
  BY <1>5 DEF Newest
<1>7. \A r \in 1..Newest' : r \in 1..n \/ r = n + 1
  BY <1>3, <1>6
<1>8. \A i \in Ids : log[i].run # Newest'
  BY <1>3, <1>6
<1>9. \A what : \A i \in Ids : ~OwnRow(i, what)'
  BY <1>2, <1>8 DEF OwnRow
<1>10. Opened' = {} /\ DOMAIN open' = {}
  BY <1>2, <1>9 DEF Opened
<1>11. Nested'
  BY <1>10 DEF Nested
<1>12. WellWritten'
  BY <1>2 DEF LogInv, WellWritten, RowsInOrder, StartsFirst, StartsOnce, EndsLast, Is
<1>13. RowsAfterTrigger'
  BY <1>2, <1>3, <1>6 DEF LogInv, RowsAfterTrigger
<1>14. EndsLogged'
  <2> SUFFICES ASSUME NEW r \in 1..(n + 1), r < n + 1 \/ ~active', r \notin deaths
               PROVE  HasLogged(r, "-END-")'
    BY <1>2, <1>6 DEF EndsLogged
  <2>1. r \in 1..n
    BY <1>3 DEF TriggerRun
  <2>2. HasLogged(r, "-END-")
    BY <1>2, <1>3, <2>1 DEF LogInv, EndsLogged
  <2>3. QED
    BY <1>2, <2>2 DEF HasLogged, Is
<1>15. RunsInTime'
  BY <1>3, <1>4, <1>6, <1>7 DEF LogInv, RunsInTime
<1>16. QED
  BY <1>11, <1>12, <1>13, <1>14, <1>15 DEF LogInv

\* A run that is left logged its end or died.
LEMMA LeaveKeepsLog ==
  ASSUME MonitorInv, LogInv, active, Leave,
         \/ HasLogged(Newest, "-END-") /\ UNCHANGED deaths
         \/ deaths' = deaths \cup {Newest}
  PROVE  LogInv'
<1>1. active' = FALSE /\ UNCHANGED log /\ Ids' = Ids
      /\ runs' = [runs EXCEPT ![Newest].over = now]
  BY DEF Leave, Ids
<1>2. WellWritten'
  BY <1>1 DEF LogInv, WellWritten, RowsInOrder, StartsFirst, StartsOnce, EndsLast, Is
<1>3. /\ Newest' = Newest /\ Newest \in Nat
      /\ \A r \in 1..Newest : /\ runs'[r].trigger = runs[r].trigger
                               /\ runs'[r].session = runs[r].session
                               /\ runs'[r].form = runs[r].form
  <2>1. runs \in Seq(Run) /\ Newest \in Nat /\ Newest = Len(runs)
        /\ \A r \in 1..Newest : runs[r] \in Run
    BY Typing DEF MonitorInv, TypeOK, Newest
  <2>2. /\ Len(runs') = Newest
        /\ \A r \in 1..Newest : runs'[r] = IF r = Newest THEN [runs[r] EXCEPT !.over = now]
                                            ELSE runs[r]
    BY <1>1, <2>1
  <2>3. \A run \in Run : LET other == [run EXCEPT !.over = now]
                         IN  /\ other.trigger = run.trigger
                             /\ other.session = run.session
                             /\ other.form = run.form
    BY DEF Run
  <2>4. QED
    BY <2>1, <2>2, <2>3 DEF Newest
<1>4. \A i \in Ids : log[i].run \in 1..Newest
  BY DEF MonitorInv, Ordered, Newest
<1>5. RowsAfterTrigger' /\ RunsInTime'
  BY <1>1, <1>3, <1>4 DEF LogInv, RowsAfterTrigger, RunsInTime
<1>6. EndsLogged'
  <2>1. \A r : HasLogged(r, "-END-") => HasLogged(r, "-END-")'
    BY <1>1 DEF HasLogged, Is
  <2>2. \A r \in 1..Newest : r < Newest \/ r = Newest
    BY <1>3
  <2>3. \A r \in 1..Newest : r < Newest => r \in deaths \/ HasLogged(r, "-END-")
    BY DEF LogInv, EndsLogged
  <2>4. QED
    BY <1>3, <2>1, <2>2, <2>3 DEF EndsLogged
<1>7. QED
  BY <1>1, <1>2, <1>5, <1>6 DEF LogInv

LEMMA NextKeepsLog ==
  ASSUME MonitorInv, LogInv, [Next]_vars
  PROVE  LogInv'
<1>1. CASE Refresh \/ Tick \/ UNCHANGED vars
  BY <1>1, QuietKeepsLog DEF Refresh, Tick, vars
<1>2. CASE TriggerRun
  BY <1>2, TriggerKeepsLog
<1>3. CASE LogStart
  BY <1>3, RowKeepsLog DEF LogStart
<1>4. ASSUME NEW step \in Steps, LogBefore(step) PROVE LogInv'
  BY <1>4, RowKeepsLog DEF LogBefore, IsOpen
<1>5. CASE LogAfter
  <2>1. PICK step : step = open[Len(open)]
    OBVIOUS
  <2>2. /\ active /\ HasLogged(Newest, "-START-") /\ ~HasLogged(Newest, "-END-")
        /\ AddRow("after", step)
        /\ open # <<>> /\ open' = SubSeq(open, 1, Len(open) - 1)
    BY <1>5, <2>1 DEF LogAfter, IsOpen
  <2>3. QED
    BY <2>1, <2>2, RowKeepsLog
<1>6. CASE LogEnd
  BY <1>6, RowKeepsLog DEF LogEnd, IsOpen
<1>7. CASE Finish \/ Die
  BY <1>7, LeaveKeepsLog DEF Finish, Die
<1>8. QED
  BY <1>1, <1>2, <1>3, <1>4, <1>5, <1>6, <1>7 DEF Next

LEMMA LogInvariance == Spec => [](MonitorInv /\ LogInv)
<1>1. Init => MonitorInv /\ LogInv
  BY InitInv, InitLogInv
<1>2. MonitorInv /\ LogInv /\ [Next]_vars => (MonitorInv /\ LogInv)'
  BY NextKeeps, NextKeepsLog
<1>3. QED
  BY <1>1, <1>2, PTL DEF Spec

\* Of the rows of the active run, all of them and no others, find_open_step
\* returns the innermost step.
LEMMA InnermostStep ==
  ASSUME TypeOK, Nested, NEW rows,
         rows = {i \in Ids : log[i].run = Newest},
         ~HasLogged(Newest, "-END-")
  PROVE  OpenStep(rows) = TrueStep
<1> DEFINE opened == {i \in rows : Is(i, "before")
                        /\ ~\E j \in rows : j > i /\ Is(j, "after") /\ log[j].step = log[i].step}
           d == Len(open)
<1>1. opened = Opened
  BY DEF Opened, OwnRow
<1>2. ~\E i \in rows : Is(i, "-END-")
  BY DEF HasLogged
<1>3. OpenStep(rows) = IF Opened = {} THEN None ELSE log[Max(Opened)].step
  <2>1. OpenStep(rows) = IF opened = {} \/ (\E i \in rows : Is(i, "-END-"))
                         THEN None ELSE log[Max(opened)].step
    BY DEF OpenStep
  <2> HIDE DEF opened
  <2>2. QED
    BY <1>1, <1>2, <2>1
<1> HIDE DEF opened
<1>4. open \in Seq(Steps) /\ d \in Nat /\ DOMAIN open = 1..d
  BY DEF TypeOK
<1>5. TrueStep = IF open = <<>> THEN None ELSE open[d]
  BY DEF TrueStep
<1>6. CASE open = <<>>
  <2>1. DOMAIN open = {}
    BY <1>6
  <2>2. Opened = {}
    BY <2>1 DEF Nested
  <2>3. QED
    BY <1>3, <1>5, <1>6, <2>2
<1>7. CASE open # <<>>
  <2>1. d \in DOMAIN open
    BY <1>4, <1>7
  <2>2. PICK i \in Opened : log[i].step = open[d]
    BY <2>1 DEF Nested
  <2>3. Ids = 1..Len(log) /\ Len(log) \in Nat
    BY Typing
  <2>4. Opened \in SUBSET Nat /\ \A j \in Opened : j <= Len(log)
    BY <2>3 DEF Opened
  <2>5. Max(Opened) \in Opened /\ \A j \in Opened : j <= Max(Opened)
    BY <2>2, <2>3, <2>4, GreatestNatural
  <2>6. PICK q \in DOMAIN open : log[Max(Opened)].step = open[q]
    BY <2>5 DEF Nested
  <2>7. i = Max(Opened)
    <3>0. i \in Nat /\ Max(Opened) \in Nat /\ i <= Max(Opened)
      BY <2>2, <2>4, <2>5
    <3>1. SUFFICES ASSUME i < Max(Opened) PROVE FALSE
      BY <3>0
    <3>2. d < q
      BY <2>1, <2>2, <2>5, <2>6, <3>1 DEF Nested
    <3>3. QED
      BY <1>4, <2>6, <3>2
  <2>8. QED
    BY <1>3, <1>5, <1>7, <2>2, <2>7
<1>8. QED
  BY <1>6, <1>7

LEMMA StepReported ==
  ASSUME ShortIds, MonitorInv, LogInv, active, ~Crowded, NEW kept \in Nat,
         Report(kept).start # 0, ~Report(kept).full
  PROVE  Report(kept).step = TrueStep
<1> DEFINE s    == Report(kept).start
           rows == {i \in Cealog(kept).rows : i >= s}
<1>1. TypeOK /\ StartsFirst /\ StartsOnce /\ Nested /\ RowsInOrder
  BY DEF MonitorInv, LogInv, WellWritten
<1>2. ~Cealog(kept).full /\ Report(kept).step = OpenStep(rows)
  BY ReportFacts
<1>3. s \in Cealog(kept).rows /\ s \in Ids /\ Is(s, "-START-") /\ InWindow(log[s].minute)
  BY <1>1, ReportedStart DEF TypeOK, InWindow
<1>4. log[s].run = Newest
  BY <1>3, OwnStart
<1>5. PICK c \in Ids : /\ Is(c, "-START-") /\ InWindow(log[c].minute)
                      /\ \A i \in Ids : UpToEnd(c, i) => i \in Aimed
  BY <1>1, <1>2, <1>3, CompleteRead
<1>6. c = s /\ \A i \in Ids : UpToEnd(c, i) => i \in Cealog(kept).rows
  <2>1. log[c].run = Newest
    BY <1>5, OwnStart
  <2>2. c = s
    BY <1>1, <1>3, <1>4, <1>5, <2>1 DEF StartsOnce
  <2>3. ASSUME NEW i \in Ids, UpToEnd(c, i) PROVE i \in Cealog(kept).rows
    <3>1. i \in Aimed /\ i >= s
      BY <1>5, <2>2, <2>3 DEF UpToEnd
    <3> HIDE DEF s
    <3>2. QED
      BY <1>1, <1>2, <1>3, <3>1, NewerRead
  <2>4. QED
    BY <2>2, <2>3
<1>7. Cealog(kept).rows \in SUBSET Ids /\ Ids \in SUBSET Nat /\ Newest \in Nat
      /\ \A i \in Ids : log[i].run \in Nat /\ log[i].run <= Newest
  BY <1>1, RowsAreOfTheLog, Typing DEF TypeOK, MonitorInv, Ordered, Newest
<1> HIDE DEF s
<1>8. \A i \in Ids : log[i].run = Newest <=> i >= s
  <2> SUFFICES ASSUME NEW i \in Ids PROVE log[i].run = Newest <=> i >= s
    OBVIOUS
  <2>1. ASSUME log[i].run = Newest PROVE i >= s
    <3>1. PICK j \in Ids : j <= i /\ log[j].run = Newest /\ Is(j, "-START-")
      BY <1>1, <2>1 DEF StartsFirst
    <3>2. j = s
      BY <1>1, <1>3, <1>4, <3>1 DEF StartsOnce
    <3>3. QED
      BY <1>3, <1>7, <3>1, <3>2
  <2>2. ASSUME i >= s PROVE log[i].run = Newest
    BY <1>1, <1>3, <1>4, <1>7, <2>2 DEF RowsInOrder
  <2>3. QED
    BY <2>1, <2>2
<1>9. CASE HasLogged(Newest, "-END-")
  <2> DEFINE ends == {e \in Ids : Is(e, "-END-") /\ e > s}
  <2>1. PICK e \in Ids : log[e].run = Newest /\ Is(e, "-END-")
    BY <1>9 DEF HasLogged
  <2>2. e > s
    <3>1. e >= s /\ e # s
      BY <1>3, <1>8, <2>1 DEF Is
    <3>2. QED
      BY <1>3, <1>7, <3>1
  <2>3. PICK f \in ends : \A g \in ends : f <= g
    <3>1. ends \subseteq Nat /\ ends # {}
      BY <1>7, <2>1, <2>2
    <3> HIDE DEF ends
    <3>2. QED
      BY <3>1, LeastNatural
  <2>4. f \in rows /\ Is(f, "-END-")
    <3>1. f \in Ids /\ Is(f, "-END-") /\ f > s
      BY <2>3
    <3>2. f \in Nat /\ s \in Nat
      BY <1>3, <1>7, <3>1
    <3>3. f \in Ids /\ Is(f, "-END-") /\ f >= s
      BY <3>1, <3>2
    <3>4. \A g \in Ids : Is(g, "-END-") /\ g > c => f <= g
      BY <1>6, <2>3
    <3>5. f \in Cealog(kept).rows
      BY <1>6, <3>3, <3>4 DEF UpToEnd
    <3>6. QED
      BY <3>3, <3>5
  <2>5. OpenStep(rows) = None
    <3> HIDE DEF rows
    <3> QED  BY <2>4 DEF OpenStep
  <2>6. TrueStep = None
    BY <1>9 DEF TrueStep
  <2>7. QED
    BY <1>2, <2>5, <2>6
<1>10. CASE ~HasLogged(Newest, "-END-")
  <2>1. ASSUME NEW e \in Ids, Is(e, "-END-") PROVE ~(e > s)
    <3>1. log[e].run # Newest
      BY <1>10, <2>1 DEF HasLogged
    <3>2. ~(e >= s) /\ e \in Nat /\ s \in Nat
      BY <1>3, <1>7, <1>8, <3>1
    <3>3. QED
      BY <3>2
  <2>2. rows = {i \in Ids : log[i].run = Newest}
    BY <1>6, <1>7, <1>8, <2>1 DEF UpToEnd
  <2> HIDE DEF rows
  <2>3. QED
    BY <1>1, <1>2, <1>10, <2>2, InnermostStep
<1>11. QED
  BY <1>9, <1>10

\* While IDs have at most six digits, the step reported of a run is the
\* innermost step it is in, whatever earlier runs left in the log and however
\* many rows limit_per_table leaves.
THEOREM StepTrue ==
  ASSUME ShortIds
  PROVE  Spec => []StepIsTrue
<1>1. MonitorInv /\ LogInv => StepIsTrue
  BY StepReported, LimitsAssumption DEF StepIsTrue
<1>2. QED
  BY <1>1, LogInvariance, PTL

----
(***************************************************************************)
(* The comparison with earlier runs, for AlertIsTrue: the runs that are    *)
(* compared are the active run's peers, and what is read of each peer is   *)
(* the first execution of the step in it.                                  *)
(***************************************************************************)
LEMMA LongRunning ==
  ASSUME NEW kept, Report(kept).start # 0
  PROVE  /\ Sessions # {} /\ Matching # {}
         /\ Report(kept).status = "LONG_RUNNING" <=>
              /\ Report(kept).step # None
              /\ OverAverage(Max({Duration(r) : r \in Sessions}),
                             [r \in Previous |->
                                StepDuration(Cealog(kept).rows, runs[r].form, Report(kept).step)])
<1> DEFINE read    == Cealog(kept)
           start   == StartAt(read.rows, {Trigger, Trigger + 1})
           step    == OpenStep({i \in read.rows : i >= start})
           took    == [r \in Previous |-> StepDuration(read.rows, runs[r].form, step)]
           longest == Max({Duration(r) : r \in Sessions})
           long    == step # None /\ OverAverage(longest, took)
           Outcome(status, full, at, shown) ==
             [status |-> status, full |-> full, start |-> at, step |-> shown]
<1>1. Report(kept) = Analyzed(read)
  BY DEF Report
<1> HIDE DEF read
<1>2. CASE Sessions = {}
  BY <1>1, <1>2 DEF Analyzed
<1>3. CASE Sessions # {} /\ Matching = {}
  BY <1>1, <1>3 DEF Analyzed
<1>4. CASE Sessions # {} /\ Matching # {} /\ (read.rows = {} \/ start = 0)
  BY <1>1, <1>4 DEF Analyzed
<1>5. CASE Sessions # {} /\ Matching # {} /\ read.rows # {} /\ start # 0
  <2>1. Analyzed(read) = IF long THEN Outcome("LONG_RUNNING", read.full, start, step)
                         ELSE Outcome("RUNNING_NORMAL", read.full, start, step)
    BY <1>5 DEF Analyzed
  <2>2. Report(kept).step = step /\ (Report(kept).status = "LONG_RUNNING" <=> long)
    <3> HIDE DEF step, long, start
    <3>1. QED
      BY <1>1, <2>1
  <2>3. QED
    BY <1>5, <2>2 DEF read
<1>6. QED
  BY <1>2, <1>3, <1>4, <1>5

\* What a run leaves in the first three tables, it leaves before the minute in
\* which the next run is triggered, unless runs are crowded.
LEMMA RunsApart ==
  ASSUME MonitorInv, LogInv, ~Crowded,
         NEW q \in 1..Newest, NEW r \in 1..Newest, q < r
  PROVE  /\ runs[q].trigger < runs[r].trigger
         /\ runs[q].session # Never => runs[q].session < runs[r].trigger
         /\ runs[q].form # Never => runs[q].form < runs[r].trigger
<1>1. /\ runs[q].trigger \in Nat /\ runs[r].trigger \in Nat
      /\ runs[q].trigger <= runs[r].trigger
  BY Typing DEF MonitorInv, Ordered, Newest
<1>2. /\ runs[r].trigger # runs[q].trigger
      /\ runs[r].trigger # runs[q].session /\ runs[r].trigger # runs[q].form
  BY DEF Crowded, Shares
<1>3. /\ runs[q].session \in {runs[q].trigger, Never}
      /\ runs[q].form \in {runs[q].trigger, runs[q].trigger + 1, Never}
  BY DEF LogInv, RunsInTime
<1>4. QED
  BY <1>1, <1>2, <1>3 DEF Never

\* matching session rows, metadata_for: only rows of the active run match.
LEMMA OnlyNewestMatches ==
  ASSUME MonitorInv, LogInv, active, ~Crowded, Sessions # {}, Matching # {}
  PROVE  /\ Newest \in Nat /\ Newest \in 1..Newest
         /\ Matching = {Newest} /\ Current = Newest
         /\ Max({Duration(r) : r \in Sessions}) = Duration(Newest)
<1>1. Newest \in Nat /\ Newest \in 1..Newest /\ Trigger = runs[Newest].trigger /\ Trigger \in Nat
  BY Typing, BoundsAssumption DEF MonitorInv, Bounded, Newest, Trigger
<1>2. ASSUME NEW q \in 1..Newest, q # Newest
      PROVE  q \notin Sessions /\ q \notin Matching
  <2>1. q < Newest
    BY <1>1, <1>2
  <2>2. /\ runs[q].session # Never => runs[q].session < Trigger
        /\ runs[q].form # Never => runs[q].form < Trigger
    BY <1>1, <2>1, RunsApart
  <2>3. /\ runs[q].session \in {runs[q].trigger, Never}
        /\ runs[q].form \in {runs[q].trigger, runs[q].trigger + 1, Never}
        /\ runs[q].trigger \in Nat
    BY Typing DEF LogInv, RunsInTime, MonitorInv, Newest
  <2>4. \A minute \in Nat : minute < Trigger => ~InWindow(minute)
    BY <1>1 DEF InWindow
  <2>5. /\ Appeared(runs[q].session) => ~InWindow(runs[q].session)
        /\ Appeared(runs[q].form) => ~InWindow(runs[q].form)
    BY <2>2, <2>3, <2>4 DEF Appeared
  <2>6. QED
    BY <2>5 DEF Sessions, Matching, Metadata
<1>3. Sessions = {Newest} /\ Matching = {Newest}
  BY <1>2 DEF Sessions, Matching, Metadata
<1>4. Current = Newest
  BY <1>3, LatestForm DEF MonitorInv
<1>5. {Duration(r) : r \in Sessions} = {Duration(Newest)}
  BY <1>3
<1>6. Duration(Newest) \in Int
  <2>1. /\ runs[Newest] \in Run /\ now \in Nat
        /\ runs[Newest].session \in {runs[Newest].trigger, Never}
    BY <1>1, Typing DEF MonitorInv, LogInv, RunsInTime, Newest
  <2>2. runs[Newest].over \in Int /\ runs[Newest].session \in Int
    BY <1>1, <2>1, BoundsAssumption DEF Run, Minute, Never, Trigger
  <2>3. QED
    BY <2>1, <2>2 DEF Duration
<1>7. Max({Duration(Newest)}) = Duration(Newest)
  BY <1>6 DEF Max
<1>8. QED
  BY <1>1, <1>3, <1>4, <1>5, <1>7

\* previous_same_type_times: the rows with an earlier form of the same type are
\* those of the peers, and the latest rows those of the latest runs.
LEMMA PreviousArePeers ==
  ASSUME MonitorInv, LogInv, active, ~Crowded, Sessions # {}, Matching # {}
  PROVE  Previous = Peers
<1> DEFINE same  == {r \in Metadata : /\ runs[r].form < runs[Current].form
                                      /\ runs[r].type = runs[Current].type}
           peers == {r \in 1..(Newest - 1) : /\ runs[r].type = runs[Newest].type
                                             /\ runs[r].form # Never}
<1>1. /\ Newest \in Nat /\ Newest \in 1..Newest
      /\ Matching = {Newest} /\ Current = Newest
  BY OnlyNewestMatches
<1>2. Trigger = runs[Newest].trigger /\ Trigger \in Nat /\ now \in Nat /\ Trigger <= now
  BY <1>1, Typing DEF MonitorInv, Ordered, Newest, Trigger
<1>3. runs[Newest].form \in {Trigger, Trigger + 1}
  BY <1>1 DEF Matching, InWindow
<1>4. \A r \in 1..Newest : runs[r].form \in Nat \cup {-1}
  BY Typing DEF MonitorInv, Newest
<1>5. same = peers
  <2>1. ASSUME NEW r \in same PROVE r \in peers
    <3>1. r \in 1..Newest /\ runs[r].form # Never /\ runs[r].form < runs[Newest].form
      BY <1>1 DEF Metadata, Appeared
    <3>2. r # Newest
      BY <1>2, <1>3, <3>1
    <3>3. r \in 1..(Newest - 1)
      BY <1>1, <3>1, <3>2
    <3>4. QED
      BY <1>1, <3>1, <3>3
  <2>2. ASSUME NEW r \in peers PROVE r \in same
    <3>1. r \in 1..Newest /\ r < Newest /\ runs[r].form # Never
      BY <1>1
    <3>2. runs[r].form < Trigger /\ runs[r].form \in Nat
      BY <1>1, <1>2, <1>4, <3>1, RunsApart DEF Never
    <3>3. runs[r].form < runs[Newest].form /\ runs[r].form <= now
      BY <1>2, <1>3, <3>2
    <3>4. QED
      BY <1>1, <3>1, <3>3 DEF Metadata, Appeared
  <2>3. QED
    BY <2>1, <2>2
<1>6. ASSUME NEW q \in peers, NEW r \in peers
      PROVE  Newer(q, r) <=> q > r
  <2>1. /\ q \in 1..Newest /\ r \in 1..Newest /\ q \in Nat /\ r \in Nat
        /\ runs[q].form # Never /\ runs[r].form # Never
        /\ runs[q].form \in Nat /\ runs[r].form \in Nat
    BY <1>1, <1>4 DEF Never
  <2>2. \A k, l \in peers : k < l => runs[k].form < runs[l].form
    <3> SUFFICES ASSUME NEW k \in peers, NEW l \in peers, k < l
                 PROVE  runs[k].form < runs[l].form
      OBVIOUS
    <3>1. k \in 1..Newest /\ l \in 1..Newest /\ runs[k].form # Never /\ runs[l].form # Never
      BY <1>1
    <3>2. runs[k].form < runs[l].trigger
      BY <3>1, RunsApart
    <3>3. runs[l].form \in {runs[l].trigger, runs[l].trigger + 1} /\ runs[l].trigger \in Nat
      BY <3>1, Typing DEF LogInv, RunsInTime, MonitorInv, Newest
    <3>4. QED
      BY <1>4, <3>1, <3>2, <3>3 DEF Never
  <2> HIDE DEF peers
  <2>3. CASE q > r
    BY <2>1, <2>2, <2>3 DEF Newer
  <2>4. CASE q = r
    BY <2>1, <2>4 DEF Newer
  <2>5. CASE q < r
    BY <2>1, <2>2, <2>5 DEF Newer
  <2>6. QED
    BY <2>1, <2>3, <2>4, <2>5
<1>7. Previous = {r \in same : Cardinality({q \in same : Newer(q, r)}) < HistoryLimit}
  BY DEF Previous
<1>8. Peers = {r \in peers : Cardinality({q \in peers : q > r}) < HistoryLimit}
  BY DEF Peers
<1> HIDE DEF same, peers
<1>9. \A r \in peers : {q \in peers : Newer(q, r)} = {q \in peers : q > r}
  BY <1>6
<1>10. QED
  BY <1>5, <1>7, <1>8, <1>9

\* A -START- in the minute of a run's form is that run's, unless runs are
\* crowded.
LEMMA StartOfTheForm ==
  ASSUME MonitorInv, LogInv, ~Crowded,
         NEW r \in 1..Newest, runs[r].form # Never,
         NEW i \in Ids, Is(i, "-START-"), log[i].minute = runs[r].form
  PROVE  log[i].run = r
<1> DEFINE q == log[i].run
<1>1. q \in 1..Newest /\ Newest \in Nat /\ q \in Nat /\ r \in Nat
  BY Typing DEF MonitorInv, Ordered, Newest
<1>2. /\ runs[r].trigger \in Nat /\ runs[q].trigger \in Nat /\ log[i].minute \in Nat
      /\ runs[r].form \in {runs[r].trigger, runs[r].trigger + 1}
  BY <1>1, Typing DEF MonitorInv, LogInv, RunsInTime, Newest
<1>3. runs[q].trigger <= log[i].minute
  BY DEF LogInv, RowsAfterTrigger
<1>4. ~(q < r)
  <2> SUFFICES ASSUME q < r PROVE FALSE
    OBVIOUS
  <2>1. log[i].minute <= runs[r].trigger
    BY DEF MonitorInv, Ordered, Newest
  <2>2. log[i].minute = runs[r].trigger
    BY <1>2, <2>1
  <2>3. Shares(q, r)
    BY <2>2 DEF Shares
  <2>4. QED
    BY <1>1, <2>3 DEF Crowded
<1>5. ~(r < q)
  <2> SUFFICES ASSUME r < q PROVE FALSE
    OBVIOUS
  <2>1. runs[r].form < runs[q].trigger
    BY <1>1, RunsApart
  <2>2. QED
    BY <1>2, <1>3, <2>1
<1>6. QED
  BY <1>1, <1>4, <1>5

\* historical_step_duration: of an earlier run that did not die, the rows read
\* are enough to find the first execution of the step, and show no other run's.
LEMMA PeerDuration ==
  ASSUME ShortIds, MonitorInv, LogInv, active, ~Crowded, NEW kept \in Nat,
         ~Cealog(kept).full, ~Cealog(kept).cut,
         \E c \in Ids : Is(c, "-START-") /\ InWindow(log[c].minute),
         NEW r \in Previous, r \in 1..(Newest - 1), runs[r].form # Never, r \notin deaths
  PROVE  StepDuration(Cealog(kept).rows, runs[r].form, TrueStep) =
           IF Found(r) THEN log[Execution(r)[2]].minute - log[Execution(r)[1]].minute
           ELSE Never
<1> DEFINE rows   == Cealog(kept).rows
           minute == runs[r].form
           step   == TrueStep
           start  == StartAt(rows, {minute})
           ends   == {i \in rows : i > start /\ Is(i, "-END-")}
           run    == {i \in rows : i >= start /\ (ends # {} => i <= Min(ends))}
           before == Earliest({i \in run : Is(i, "before") /\ log[i].step = step})
           after  == Earliest({i \in run : /\ i > before
                                           /\ Is(i, "after") /\ log[i].step = step})
<1>1. StepDuration(rows, minute, step) =
        IF start = 0 \/ before = 0 \/ after = 0
        THEN Never ELSE log[after].minute - log[before].minute
  BY DEF StepDuration
<1>2. /\ TypeOK /\ Newest \in Nat /\ r \in 1..Newest /\ r < Newest
      /\ rows \in SUBSET Ids /\ Ids \in SUBSET Nat /\ 0 \notin Ids
      /\ \A i \in Ids : log[i].run \in Nat
  BY RowsAreOfTheLog, Typing DEF MonitorInv, TypeOK, Newest
<1>3. WellWritten
  BY DEF LogInv
<1>4. CASE ~\E s \in Ids : log[s].run = r /\ Is(s, "-START-") /\ log[s].minute = minute
  <2>1. ~Found(r)
    BY <1>4 DEF Found
  <2>2. start = 0
    <3> SUFFICES ASSUME start # 0 PROVE FALSE
      OBVIOUS
    <3>1. start \in Ids /\ Is(start, "-START-") /\ log[start].minute \in {minute}
      <4> HIDE DEF rows, minute
      <4>1. QED
        BY <1>2, StartIsARow DEF TypeOK
    <3>2. log[start].run = r
      BY <1>2, <3>1, StartOfTheForm
    <3>3. QED
      BY <1>4, <3>1, <3>2
  <2>3. QED
    BY <1>1, <2>1, <2>2
<1>5. CASE \E s \in Ids : log[s].run = r /\ Is(s, "-START-") /\ log[s].minute = minute
  <2>1. PICK s \in Ids : log[s].run = r /\ Is(s, "-START-") /\ log[s].minute = minute
    BY <1>5
  <2>2. \A t \in Ids : Is(t, "-START-") /\ log[t].minute = minute => t = s
    BY <1>2, <1>3, <2>1, StartOfTheForm DEF WellWritten, StartsOnce
  <2>3. \A i \in Ids : UpToEnd(s, i) /\ ~Is(i, "detail") => i \in rows
    <3>1. minute \in Minutes
      BY DEF Minutes
    <3>2. \A i \in Ids : UpToEnd(s, i) /\ ~Is(i, "detail") => i \in Aimed
      BY <1>2, <2>1, <2>2, <3>1, CompleteRead
    <3>3. rows = Aimed
      BY <1>2, UncutRead
    <3> HIDE DEF rows
    <3>4. QED
      BY <3>2, <3>3
  \* The rows of the run are those from s to its end e.
  <2>4. PICK e \in Ids : log[e].run = r /\ Is(e, "-END-")
    BY <1>2 DEF LogInv, EndsLogged, HasLogged
  <2>5. ASSUME NEW i \in Ids PROVE log[i].run = r <=> s <= i /\ i <= e
    <3>1. ASSUME log[i].run = r PROVE s <= i /\ i <= e
      <4>1. PICK j \in Ids : j <= i /\ log[j].run = r /\ Is(j, "-START-")
        BY <1>3, <3>1 DEF WellWritten, StartsFirst
      <4>2. j = s
        BY <1>3, <2>1, <4>1 DEF WellWritten, StartsOnce
      <4>3. i <= e
        BY <1>3, <2>4, <3>1 DEF WellWritten, EndsLast
      <4>4. QED
        BY <4>1, <4>2, <4>3
    <3>2. ASSUME s <= i, i <= e PROVE log[i].run = r
      <4>1. log[s].run <= log[i].run /\ log[i].run <= log[e].run
        BY <1>3, <2>1, <2>4, <3>2 DEF WellWritten, RowsInOrder
      <4>2. QED
        BY <1>2, <2>1, <2>4, <4>1
    <3>3. QED
      BY <3>1, <3>2
  <2>6. s < e /\ s \in Nat /\ e \in Nat
    <3>1. s <= e /\ s # e
      BY <2>1, <2>4, <2>5 DEF Is
    <3>2. QED
      BY <1>2, <3>1
  <2>7. \A g \in Ids : Is(g, "-END-") /\ g > s => e <= g
    <3> SUFFICES ASSUME NEW g \in Ids, Is(g, "-END-"), g > s, ~(e <= g) PROVE FALSE
      OBVIOUS
    <3>1. g \in Nat /\ s <= g /\ g <= e
      BY <1>2, <2>6
    <3>2. log[g].run = log[e].run
      BY <2>4, <2>5, <3>1
    <3>3. QED
      BY <1>3, <3>2 DEF WellWritten, EndsLast
  <2>8. \A i \in Ids : s <= i /\ i <= e /\ ~Is(i, "detail") => i \in rows
    <3> SUFFICES ASSUME NEW i \in Ids, s <= i, i <= e, ~Is(i, "detail") PROVE i \in rows
      OBVIOUS
    <3>1. \A g \in Ids : Is(g, "-END-") /\ g > s => i <= g
      BY <1>2, <2>6, <2>7
    <3>2. i >= s
      BY <1>2, <2>6
    <3>3. UpToEnd(s, i)
      BY <3>1, <3>2 DEF UpToEnd
    <3>4. QED
      BY <2>3, <3>3
  <2>9. s \in rows /\ e \in rows
    <3>1. ~Is(s, "detail") /\ ~Is(e, "detail")
      BY <2>1, <2>4 DEF Is
    <3>2. s <= s /\ s <= e /\ e <= e
      BY <2>6
    <3>3. QED
      BY <2>1, <2>4, <2>8, <3>1, <3>2
  <2>10. start = s
    <3>1. start \in rows /\ Is(start, "-START-") /\ log[start].minute \in {minute}
      <4>1. log[s].minute \in {minute}
        BY <2>1
      <4> HIDE DEF rows, minute
      <4>2. QED
        BY <1>2, <2>1, <2>9, <4>1, StartFound
    <3>2. QED
      BY <1>2, <2>2, <3>1
  <2> HIDE DEF rows, minute, step, start
  <2>11. ends # {} /\ Min(ends) = e
    <3>1. e \in ends /\ ends \in SUBSET Nat
      BY <1>2, <2>4, <2>6, <2>9, <2>10
    <3>2. \A g \in ends : e <= g
      BY <1>2, <2>7, <2>10
    <3> HIDE DEF ends
    <3>3. Min(ends) \in ends /\ \A g \in ends : Min(ends) <= g
      BY <3>1, LeastNatural
    <3>4. e <= Min(ends) /\ Min(ends) <= e /\ Min(ends) \in Nat
      BY <3>1, <3>2, <3>3
    <3>5. QED
      BY <2>6, <3>1, <3>4
  <2> HIDE DEF ends
  <2>12. \A i \in Ids : ~Is(i, "detail") => (i \in run <=> log[i].run = r)
    BY <1>2, <2>5, <2>6, <2>8, <2>10, <2>11
  <2>13. run \subseteq Ids
    BY <1>2
  <2> HIDE DEF run
  <2>14. \A i \in Ids : (Is(i, "before") \/ Is(i, "after")) => ~Is(i, "detail") /\ i > 0
    <3>1. \A i \in Ids : i > 0
      BY <1>2
    <3>2. \A i \in Ids : (Is(i, "before") \/ Is(i, "after")) => ~Is(i, "detail")
      BY DEF Is
    <3>3. QED
      BY <3>1, <3>2
  <2>15. before = FirstOf(r, "before", step, 0)
    <3>1. {i \in run : Is(i, "before") /\ log[i].step = step} =
            {i \in Ids : i > 0 /\ log[i].run = r /\ Is(i, "before") /\ log[i].step = step}
      BY <2>12, <2>13, <2>14
    <3>2. QED
      BY <3>1 DEF FirstOf
  <2>16. after = FirstOf(r, "after", step, before)
    <3>1. {i \in run : i > before /\ Is(i, "after") /\ log[i].step = step} =
            {i \in Ids : i > before /\ log[i].run = r /\ Is(i, "after") /\ log[i].step = step}
      BY <2>12, <2>13, <2>14
    <3>2. QED
      BY <3>1 DEF FirstOf
  <2> HIDE DEF before, after
  <2>17. Execution(r) = IF before = 0 \/ after = 0 THEN <<>> ELSE <<before, after>>
    BY <2>15, <2>16 DEF Execution, step
  <2>18. Found(r) <=> ~(before = 0 \/ after = 0)
    <3>1. Found(r) <=> Execution(r) # <<>>
      BY <2>1 DEF Found, minute
    <3>2. <<before, after>> # <<>>
      OBVIOUS
    <3>3. QED
      BY <2>17, <3>1, <3>2
  <2>19. start # 0
    BY <1>2, <2>1, <2>10
  <2>20. CASE Found(r)
    <3>1. Execution(r) = <<before, after>>
      BY <2>17, <2>18, <2>20
    <3>2. Execution(r)[1] = before /\ Execution(r)[2] = after
      BY <3>1
    <3>3. QED
      BY <1>1, <2>18, <2>19, <2>20, <3>2 DEF rows, minute, step
  <2>21. CASE ~Found(r)
    BY <1>1, <2>18, <2>21 DEF rows, minute, step
  <2>22. QED
    BY <2>20, <2>21
<1>6. QED
  BY <1>4, <1>5

\* An execution takes no negative time, which would be taken for none.
LEMMA ExecutionTakesTime ==
  ASSUME MonitorInv, LogInv, NEW r, Execution(r) # <<>>
  PROVE  log[Execution(r)[2]].minute - log[Execution(r)[1]].minute # Never
<1> DEFINE before == FirstOf(r, "before", TrueStep, 0)
           after  == FirstOf(r, "after", TrueStep, before)
           A      == {i \in Ids : i > before /\ log[i].run = r /\ Is(i, "after")
                                  /\ log[i].step = TrueStep}
           B      == {i \in Ids : i > 0 /\ log[i].run = r /\ Is(i, "before")
                                  /\ log[i].step = TrueStep}
<1>1. before # 0 /\ after # 0 /\ Execution(r) = <<before, after>>
  BY DEF Execution
<1>2. Ids \in SUBSET Nat /\ \A i \in Ids : log[i].minute \in Nat
  BY Typing DEF MonitorInv
<1>3. before \in Ids
  <2>1. B # {} /\ before = Min(B)
    BY <1>1 DEF FirstOf, Earliest
  <2>2. B \in SUBSET Nat /\ B \subseteq Ids
    BY <1>2
  <2> HIDE DEF B, before
  <2>3. QED
    BY <2>1, <2>2, LeastNatural
<1> HIDE DEF before
<1>4. after \in Ids /\ after > before
  <2>1. A # {} /\ after = Min(A)
    BY <1>1 DEF FirstOf, Earliest
  <2>2. A \in SUBSET Nat
    BY <1>2
  <2>3. Min(A) \in A
    BY <2>1, <2>2, LeastNatural
  <2>4. QED
    BY <2>1, <2>3
<1> HIDE DEF after
<1>5. log[before].minute <= log[after].minute
  BY <1>2, <1>3, <1>4 DEF LogInv, WellWritten, RowsInOrder
<1>6. Execution(r)[1] = before /\ Execution(r)[2] = after
  BY <1>1
<1>7. QED
  BY <1>2, <1>3, <1>4, <1>5, <1>6 DEF Never

\* While IDs have at most six digits, an alert is raised exactly if the session
\* of the run is over the average of the step in the latest runs of its type,
\* provided none of those died and limit_per_table cut no rows.
THEOREM AlertTrue ==
  ASSUME ShortIds
  PROVE  Spec => []AlertIsTrue
<1>1. ASSUME MonitorInv, LogInv PROVE AlertIsTrue
  <2> SUFFICES ASSUME active, ~Crowded, Peers \cap deaths = {}, NEW kept \in Kept,
                      Report(kept).start # 0, ~Report(kept).full, ~Cealog(kept).cut
               PROVE  Report(kept).status = "LONG_RUNNING" <=> TrueStep # None /\ TrulyOver
    BY DEF AlertIsTrue
  <2>0. kept \in Nat
    BY LimitsAssumption
  <2> DEFINE took     == [r \in Previous |->
                            StepDuration(Cealog(kept).rows, runs[r].form, TrueStep)]
             compared == {r \in DOMAIN took : took[r] # Never}
             sample   == {r \in Peers : Found(r)}
             truly    == [r \in sample |->
                            log[Execution(r)[2]].minute - log[Execution(r)[1]].minute]
  <2>1. Report(kept).step = TrueStep
    BY <1>1, <2>0, StepReported
  <2>2. /\ Sessions # {} /\ Matching # {}
        /\ Report(kept).status = "LONG_RUNNING" <=>
             TrueStep # None /\ OverAverage(Max({Duration(r) : r \in Sessions}), took)
    BY <2>1, LongRunning
  <2>3. Max({Duration(r) : r \in Sessions}) = Duration(Newest)
    BY <1>1, <2>2, OnlyNewestMatches
  <2>4. Previous = Peers
    BY <1>1, <2>2, PreviousArePeers
  <2>5. ~Cealog(kept).full /\ \E c \in Ids : Is(c, "-START-") /\ InWindow(log[c].minute)
    <3>1. ~Cealog(kept).full
      BY ReportFacts
    <3>2. /\ Report(kept).start \in Ids /\ Is(Report(kept).start, "-START-")
          /\ InWindow(log[Report(kept).start].minute)
      BY <1>1, ReportedStart DEF MonitorInv, TypeOK, InWindow
    <3>3. QED
      BY <3>1, <3>2
  <2>6. ASSUME NEW r \in Peers
        PROVE  took[r] = IF Found(r)
                         THEN log[Execution(r)[2]].minute - log[Execution(r)[1]].minute
                         ELSE Never
    <3>1. r \in 1..(Newest - 1) /\ runs[r].form # Never /\ r \notin deaths
      BY DEF Peers
    <3>2. QED
      BY <1>1, <2>0, <2>4, <2>5, <3>1, PeerDuration
  <2>7. \A r \in Peers : Found(r) =>
          log[Execution(r)[2]].minute - log[Execution(r)[1]].minute # Never
    BY <1>1, ExecutionTakesTime DEF Found
  <2>8. DOMAIN took = Peers
    BY <2>4
  <2> HIDE DEF took
  <2>9. compared = sample
    BY <2>6, <2>7, <2>8
  <2>10. [r \in compared |-> took[r]] = truly
    <3>1. \A r \in sample :
            took[r] = log[Execution(r)[2]].minute - log[Execution(r)[1]].minute
      BY <2>6
    <3>2. [r \in sample |-> took[r]] = truly
      BY <3>1
    <3>3. QED
      BY <2>9, <3>2
  <2>11. OverAverage(Duration(Newest), took) <=> TrulyOver
    <3> HIDE DEF truly, sample, compared
    <3>1. OverAverage(Duration(Newest), took) =
            IF Cardinality(compared) = 0 THEN Duration(Newest) > Threshold
            ELSE Cardinality(compared) * Duration(Newest)
                   - SumFunction([r \in compared |-> took[r]])
                 > Cardinality(compared) * Threshold
      BY DEF OverAverage, compared
    <3>2. TrulyOver = IF Cardinality(sample) = 0 THEN Duration(Newest) > Threshold
                      ELSE Cardinality(sample) * Duration(Newest) - SumFunction(truly)
                           > Cardinality(sample) * Threshold
      BY DEF TrulyOver, sample, truly
    <3>3. QED
      BY <2>9, <2>10, <3>1, <3>2
  <2>12. QED
    BY <2>2, <2>3, <2>11
<1>2. QED
  BY <1>1, LogInvariance, PTL
====
