---- MODULE SnapshotBarrier_proofs ----
(***************************************************************************)
(* What is acknowledged is shown, what is shown never gets older, and the  *)
(* first scheduler is held until its own cycle is shown: for any tables,   *)
(* limits, cycles, requests and number of failures of every kind.          *)
(***************************************************************************)
EXTENDS SnapshotBarrier, TLAPS

----
(* The cycles that are logged *)

BudgetFalls ==
  budget["crash"] <= MaxCrashes /\ budget["app"] <= MaxAppRestarts

Counting ==
  /\ pc = "down" => cycle = 0
  /\ pc # "down" => cycle >= 1
  /\ pc \in {"prepare", "load", "ended", "wait"} => cycle <= MaxIterations
  /\ pc \in {"load", "ended", "wait"} => run >= 1

\* An entry of the log is of a run that was opened, of the newest one only
\* once that has ended; while the first scheduler lives a cycle has its
\* number only once it has ended.
GoodEntry(e) ==
  /\ e.at <= run
  /\ pc = "load" => e.at < run
  /\ pc \in {"ended", "wait"} /\ e.at = run => e.cycle = cycle
  /\ FirstScheduler /\ pc = "down" => e.cycle = 0
  /\ FirstScheduler /\ pc # "down" =>
       e.cycle < cycle \/ (e.cycle = cycle /\ e.at = run /\ pc \in {"ended", "wait"})

EntriesAreGood ==
  /\ GoodEntry(marker) /\ GoodEntry(seen)
  /\ \A i \in 1..Len(log) : GoodEntry(log[i])

LogInv == TypeOK /\ BudgetFalls /\ Counting /\ EntriesAreGood

----
\* The constants and what is built of them.
LEMMA ConstantTypes ==
  /\ MaxRuns \in Nat /\ MaxIterations \in Nat /\ MaxCrashes \in Nat
  /\ MaxAppRestarts \in Nat /\ DefaultLimit \in Limits
  /\ NoEntry \in Entries /\ NoEntry.at = 0 /\ NoEntry.cycle = 0
  /\ Nothing \in Versions /\ NoSnapshot \in Snapshots
  /\ NoSnapshot.status = "none" /\ NoSnapshot.rows = Nothing
  /\ \A e \in Entries : e.cycle \in Nat /\ e.at \in Nat /\ e = [cycle |-> e.cycle, at |-> e.at]
BY BoundsAssumption, LimitsAssumption
   DEF NoEntry, Entries, Nothing, Versions, NoSnapshot, Snapshots

\* Spending leaves a budget of natural numbers.
LEMMA SpendTypes ==
  ASSUME TypeOK, NEW f \in Failures, Spend(f)
  PROVE  budget' \in [Failures -> Nat]
BY DEF Spend, TypeOK

\* NextCycle counts on from a cycle within the bound.
LEMMA NextCycleTypes ==
  ASSUME TypeOK, Counting, pc \in {"prepare", "load", "wait"}, NextCycle
  PROVE  cycle' \in 0..(MaxIterations + 1) /\ pc' = "rest" /\ cycle' = cycle + 1
BY ConstantTypes DEF TypeOK, Counting, NextCycle

\* Releasing and beginning a refresh keep the types.
LEMMA RefreshTypes ==
  ASSUME TypeOK, NEW w \in Workers
  PROVE  /\ Release(w) =>
              /\ lock' \in Workers \cup {"free"} /\ limit' \in [Workers -> Limits]
              /\ phase' \in [Workers -> {"off", "gate", "read"}]
              /\ todo' \in [Workers -> SUBSET Tables] /\ got' \in [Workers -> Versions]
         /\ \A l \in Limits : Acquire(w, l) =>
              /\ lock' \in Workers \cup {"free"} /\ limit' \in [Workers -> Limits]
              /\ phase' \in [Workers -> {"off", "gate", "read"}]
              /\ todo' \in [Workers -> SUBSET Tables] /\ got' \in [Workers -> Versions]
BY ConstantTypes DEF TypeOK, Release, Acquire, Begin

LEMMA ReportTypes ==
  ASSUME TypeOK, NEW w \in Workers, NEW done \in BOOLEAN, Report(w, done)
  PROVE  /\ watch' \in {"poll", "start", "refresh", "publish", "dead"}
         /\ UNCHANGED <<seen, last>>
BY DEF TypeOK, Report, watchdog

LEMMA KeepTypes ==
  ASSUME TypeOK, NEW w \in Workers, NEW s \in {"ok", "failed"}, NEW v \in Versions, Keep(w, s, v)
  PROVE  cache' \in [Limits -> Snapshots]
<1>1. [status |-> s, rows |-> v] \in Snapshots
  BY DEF Snapshots
<1> QED BY <1>1 DEF TypeOK, Keep

\* The types are preserved by every step of the scheduler ...
LEMMA SchedulerTypes ==
  ASSUME TypeOK, Counting,
         \/ StartScheduler \/ BeginCycle \/ SkipCycle \/ SettleBatch \/ OpenBatch \/ CycleRaises
         \/ EndCycle \/ BeginWait \/ PassBarrier \/ Rotate \/ SchedulerDies
  PROVE  TypeOK'
<1> USE ConstantTypes
<1>1. CASE StartScheduler
  BY <1>1 DEF StartScheduler, TypeOK, xactly, watchdog, refresh
<1>2. CASE BeginCycle
  BY <1>2 DEF BeginCycle, TypeOK, xactly, watchdog, refresh
<1>3. CASE SkipCycle
  BY <1>3, NextCycleTypes DEF SkipCycle, TypeOK, xactly, watchdog, refresh
<1>21. CASE SettleBatch
  BY <1>21 DEF SettleBatch, TypeOK, scheduler, watchdog, refresh
<1>4. CASE OpenBatch
  <2>1. run' \in 0..MaxRuns
    BY <1>4 DEF OpenBatch, TypeOK
  <2> QED BY <1>4, <2>1 DEF OpenBatch, TypeOK, watchdog, refresh
<1>5. CASE CycleRaises
  <2>1. budget' \in [Failures -> Nat]
    BY <1>5, SpendTypes DEF CycleRaises, Failures
  <2> QED BY <1>5, <2>1, NextCycleTypes DEF CycleRaises, TypeOK, xactly, watchdog, refresh
<1>6. CASE EndCycle
  <2>1. [cycle |-> cycle, at |-> run] \in Entries
    BY <1>6 DEF EndCycle, TypeOK, Counting, Entries
  <2>2. log' \in Seq(Entries)
    BY <1>6, <2>1 DEF EndCycle, TypeOK
  <2> QED BY <1>6, <2>2 DEF EndCycle, TypeOK, xactly, watchdog, refresh
<1>7. CASE BeginWait
  BY <1>7 DEF BeginWait, TypeOK, xactly, watchdog, refresh
<1>8. CASE PassBarrier
  BY <1>8, NextCycleTypes DEF PassBarrier, TypeOK, xactly, watchdog, refresh
<1>9. CASE Rotate
  <2>1. budget' \in [Failures -> Nat] /\ log' \in Seq(Entries)
    BY <1>9, SpendTypes DEF Rotate, Failures
  <2> QED BY <1>9, <2>1 DEF Rotate, TypeOK, scheduler, xactly, watchdog, refresh
<1>10. CASE SchedulerDies
  <2>1. budget' \in [Failures -> Nat]
    BY <1>10, SpendTypes DEF SchedulerDies, Failures
  <2> QED BY <1>10, <2>1 DEF SchedulerDies, TypeOK, xactly, watchdog, refresh
<1> QED BY <1>1, <1>2, <1>3, <1>21, <1>4, <1>5, <1>6, <1>7, <1>8, <1>9, <1>10

\* ... of a refresh ...
LEMMA RefreshStepTypes ==
  ASSUME TypeOK, NEW w \in Workers, Refresh(w) \/ RefreshRaises(w)
  PROVE  TypeOK'
<1> USE ConstantTypes
<1>1. CASE Gate(w)
  <2>0. UNCHANGED <<scheduler, xactly, log, marker, budget>>
    BY <1>1 DEF Gate
  <2>1. CASE batch = "COMPLETED"
    BY <2>0, <2>1, <1>1 DEF Gate, TypeOK, scheduler, xactly, watchdog
  <2>2. CASE Keep(w, "failed", Nothing) /\ Release(w) /\ Report(w, TRUE)
    BY <2>0, <2>2, KeepTypes, RefreshTypes, ReportTypes DEF TypeOK, scheduler, xactly
  <2>3. CASE Release(w) /\ Report(w, FALSE) /\ UNCHANGED cache
    BY <2>0, <2>3, RefreshTypes, ReportTypes DEF TypeOK, scheduler, xactly
  <2> QED BY <1>1, <2>1, <2>2, <2>3 DEF Gate
<1>2. CASE Store(w)
  <2>1. got[w] \in Versions
    BY DEF TypeOK
  <2> QED BY <1>2, <2>1, KeepTypes, RefreshTypes, ReportTypes DEF Store, TypeOK, scheduler, xactly
<1>3. ASSUME NEW t \in Tables, ReadTable(w, t) PROVE TypeOK'
  <2>1. got' \in [Workers -> Versions]
    BY <1>3 DEF ReadTable, TypeOK, Versions
  <2> QED BY <1>3, <2>1 DEF ReadTable, TypeOK, scheduler, xactly, watchdog
<1>4. CASE RefreshRaises(w)
  <2>1. budget' \in [Failures -> Nat]
    BY <1>4, SpendTypes DEF RefreshRaises, Failures
  <2> QED BY <1>4, <2>1, RefreshTypes, ReportTypes DEF RefreshRaises, TypeOK, scheduler, xactly
<1> QED BY <1>1, <1>2, <1>3, <1>4 DEF Refresh

\* ... and of everything else.
LEMMA TypeStep == TypeOK /\ Counting /\ [Next]_vars => TypeOK'
<1> SUFFICES ASSUME TypeOK, Counting, [Next]_vars PROVE TypeOK'
  OBVIOUS
<1> USE ConstantTypes
<1>1. ASSUME NEW t \in Tables, Load(t) PROVE TypeOK'
  <2>1. tables' \in Versions
    BY <1>1 DEF Load, TypeOK, Versions
  <2> QED BY <1>1, <2>1 DEF Load, TypeOK, scheduler, watchdog, refresh
<1>2. ASSUME NEW l \in Limits, Request(l) PROVE TypeOK'
  <2>1. budget' \in [Failures -> Nat]
    BY <1>2, SpendTypes DEF Request, Failures
  <2> QED BY <1>2, <2>1, RefreshTypes DEF Request, TypeOK, scheduler, xactly, watchdog, Workers
<1>3. CASE Poll
  <2>1. Len(log) \in 1..Len(log)
    BY <1>3 DEF Poll, TypeOK
  <2>2. Latest \in Entries
    BY <2>1 DEF Latest, TypeOK
  <2> QED BY <1>3, <2>2 DEF Poll, TypeOK, scheduler, xactly, refresh
<1>4. CASE StartRefresh
  BY <1>4, RefreshTypes DEF StartRefresh, TypeOK, scheduler, xactly, refresh, Workers
<1>5. CASE Publish
  <2>1. seen.at \in 0..MaxRuns
    BY DEF TypeOK, Entries
  <2> QED BY <1>5, <2>1 DEF Publish, TypeOK, scheduler, xactly, refresh
<1>6. CASE PublishRaises
  <2>1. budget' \in [Failures -> Nat]
    BY <1>6, SpendTypes DEF PublishRaises, Failures
  <2> QED BY <1>6, <2>1 DEF PublishRaises, TypeOK, scheduler, xactly, refresh
<1>7. CASE AppRestarts
  <2>1. budget' \in [Failures -> Nat]
    BY <1>7, SpendTypes DEF AppRestarts, Failures
  <2> QED BY <1>7, <2>1 DEF AppRestarts, TypeOK, xactly
<1>8. CASE UNCHANGED vars
  BY <1>8 DEF vars, TypeOK
<1> QED BY <1>1, <1>2, <1>3, <1>4, <1>5, <1>6, <1>7, <1>8, SchedulerTypes,
           RefreshStepTypes DEF Next, Watch

----
\* Budgets only fall, so that the first scheduler is never replaced unseen.
LEMMA SpendFalls ==
  ASSUME TypeOK, BudgetFalls, NEW f \in Failures, Spend(f)
  PROVE  /\ BudgetFalls' /\ (FirstScheduler' => FirstScheduler)
         /\ f \in {"crash", "app"} => ~FirstScheduler'
<1>1. /\ budget \in [Failures -> Nat] /\ budget[f] > 0
      /\ budget' = [budget EXCEPT ![f] = budget[f] - 1]
  BY DEF TypeOK, Spend
<1>2. "crash" \in Failures /\ "app" \in Failures
  BY DEF Failures
<1>3. /\ budget["crash"] \in Nat /\ budget["app"] \in Nat /\ budget[f] \in Nat
      /\ budget'["crash"] = IF f = "crash" THEN budget[f] - 1 ELSE budget["crash"]
      /\ budget'["app"] = IF f = "app" THEN budget[f] - 1 ELSE budget["app"]
  BY <1>1, <1>2
<1> QED BY <1>1, <1>3, ConstantTypes DEF BudgetFalls, FirstScheduler

LEMMA BudgetStep ==
  ASSUME TypeOK, BudgetFalls, [Next]_vars
  PROVE  /\ BudgetFalls' /\ (FirstScheduler' => FirstScheduler)
         /\ SchedulerDies \/ AppRestarts => ~FirstScheduler'
<1>1. UNCHANGED budget \/ \E f \in Failures : Spend(f)
  BY DEF Next, vars, StartScheduler, BeginCycle, SkipCycle, SettleBatch, OpenBatch, CycleRaises,
     EndCycle, BeginWait, PassBarrier, Rotate, SchedulerDies, Load, Refresh, Gate, Store,
     ReadTable, RefreshRaises, Request, Watch, Poll, StartRefresh, Publish, PublishRaises,
     AppRestarts, Failures
<1>2. SchedulerDies => Spend("crash")
  BY DEF SchedulerDies
<1>3. AppRestarts => Spend("app")
  BY DEF AppRestarts
<1>4. UNCHANGED budget => BudgetFalls' /\ (FirstScheduler' => FirstScheduler)
  BY DEF BudgetFalls, FirstScheduler
<1> QED BY <1>1, <1>2, <1>3, <1>4, SpendFalls DEF Failures

\* What the steps do to the scheduler's counters.
CounterStep ==
  \/ UNCHANGED <<pc, cycle, run>>
  \/ pc = "down" /\ pc' = "rest" /\ cycle' = 1 /\ run' = run
  \/ pc = "rest" /\ pc' = "prepare" /\ cycle <= MaxIterations /\ cycle' = cycle /\ run' = run
  \/ pc = "prepare" /\ pc' = "load" /\ cycle' = cycle /\ run' = run + 1
  \/ pc \in {"prepare", "load", "wait"} /\ pc' = "rest" /\ cycle' = cycle + 1 /\ run' = run
  \/ pc = "load" /\ pc' = "ended" /\ cycle' = cycle /\ run' = run
  \/ pc = "ended" /\ pc' = "wait" /\ cycle' = cycle /\ run' = run
  \/ pc' = "down" /\ cycle' = 0 /\ run' = run /\ (SchedulerDies \/ AppRestarts)

LEMMA CountersStep ==
  ASSUME TypeOK, Counting, [Next]_vars
  PROVE  CounterStep
<1>1. CASE \/ StartScheduler \/ BeginCycle \/ OpenBatch \/ EndCycle \/ BeginWait
           \/ SchedulerDies \/ AppRestarts
  BY <1>1 DEF CounterStep, StartScheduler, BeginCycle, OpenBatch, EndCycle, BeginWait,
     SchedulerDies, AppRestarts, xactly
<1>2. CASE SkipCycle \/ SettleBatch \/ CycleRaises \/ PassBarrier
  BY <1>2 DEF CounterStep, SkipCycle, SettleBatch, CycleRaises, PassBarrier, NextCycle,
     xactly, scheduler
<1>3. ASSUME NEW w \in Workers, Refresh(w) \/ RefreshRaises(w) PROVE UNCHANGED <<pc, cycle, run>>
  BY <1>3 DEF Refresh, Gate, ReadTable, Store, RefreshRaises, scheduler, xactly
<1>4. CASE \/ Rotate \/ Watch \/ PublishRaises \/ UNCHANGED vars
           \/ \E t \in Tables : Load(t)
           \/ \E l \in Limits : Request(l)
  <2>1. UNCHANGED <<pc, cycle, run>>
    BY <1>4 DEF Rotate, Watch, Poll, StartRefresh, Publish, PublishRaises, vars, Load, Request,
       scheduler, xactly
  <2> QED BY <2>1 DEF CounterStep
<1> QED BY <1>1, <1>2, <1>3, <1>4 DEF Next, CounterStep

LEMMA CountingStep ==
  ASSUME TypeOK, Counting, [Next]_vars
  PROVE  Counting'
<1>1. CounterStep /\ cycle \in Nat /\ run \in Nat /\ MaxIterations \in Nat
  BY CountersStep, ConstantTypes DEF TypeOK
<1> QED BY <1>1 DEF CounterStep, Counting

\* A good entry stays good.
LEMMA GoodStays ==
  ASSUME TypeOK, BudgetFalls, Counting, [Next]_vars, NEW e \in Entries, GoodEntry(e)
  PROVE  GoodEntry(e)'
<1>1. CounterStep /\ run \in Nat /\ cycle \in Nat /\ e.at \in Nat /\ e.cycle \in Nat
  <2>1. CounterStep
    BY CountersStep
  <2>2. run \in Nat /\ cycle \in Nat
    BY ConstantTypes DEF TypeOK
  <2>3. e.at \in Nat /\ e.cycle \in Nat
    BY ConstantTypes
  <2>4. QED
    BY <2>1, <2>2, <2>3
<1>2. /\ FirstScheduler' => FirstScheduler
      /\ SchedulerDies \/ AppRestarts => ~FirstScheduler'
  BY BudgetStep
<1>3. CASE UNCHANGED <<pc, cycle, run>>
  BY <1>2, <1>3 DEF GoodEntry
<1>4. CASE pc' = "down" /\ run' = run /\ ~FirstScheduler'
  BY <1>1, <1>4 DEF GoodEntry
<1>5. CASE pc = "prepare" /\ pc' = "load" /\ cycle' = cycle /\ run' = run + 1
  BY <1>1, <1>2, <1>5 DEF GoodEntry
<1>6. CASE /\ pc \in {"down", "prepare", "load", "wait"} /\ pc' = "rest" /\ run' = run
           /\ cycle' = cycle + 1
  BY <1>1, <1>2, <1>6 DEF GoodEntry
<1>7. CASE /\ pc \in {"rest", "load", "ended"} /\ pc' \in {"prepare", "ended", "wait"}
           /\ pc = "rest" <=> pc' = "prepare"
           /\ cycle' = cycle /\ run' = run
  BY <1>1, <1>2, <1>7 DEF GoodEntry
<1>8. pc = "down" => cycle = 0
  BY DEF Counting
<1> QED BY <1>1, <1>2, <1>3, <1>4, <1>5, <1>6, <1>7, <1>8 DEF CounterStep

\* A new line of the log is good.
LEMMA GoodLine ==
  ASSUME TypeOK, BudgetFalls, Counting, EndCycle
  PROVE  GoodEntry([cycle |-> cycle, at |-> run])'
<1> DEFINE e == [cycle |-> cycle, at |-> run]
<1>1. /\ pc' = "ended" /\ cycle' = cycle /\ run' = run /\ run \in Nat
      /\ e.cycle = cycle /\ e.at = run
  BY DEF EndCycle, TypeOK, xactly
<1> QED BY <1>1 DEF GoodEntry

LEMMA EntriesStep ==
  ASSUME LogInv, [Next]_vars
  PROVE  EntriesAreGood'
<1>1. \A e \in Entries : GoodEntry(e) => GoodEntry(e)'
  BY GoodStays DEF LogInv
<1>2. NoEntry \in Entries /\ GoodEntry(NoEntry)
  BY ConstantTypes DEF LogInv, TypeOK, GoodEntry, Counting
<1>3. /\ marker \in Entries /\ seen \in Entries /\ log \in Seq(Entries)
      /\ \A i \in 1..Len(log) : log[i] \in Entries
  BY DEF LogInv, TypeOK
<1>4. \A e : e \in {marker, seen, NoEntry} \/ (\E i \in 1..Len(log) : e = log[i]) => GoodEntry(e)'
  BY <1>1, <1>2, <1>3 DEF LogInv, EntriesAreGood
<1>5. /\ marker' \in {marker, seen}
      /\ seen' \in {seen, NoEntry} \/ \E i \in 1..Len(log) : seen' = log[i]
  <2>1. CASE Poll
    <3>1. Len(log) \in 1..Len(log)
      BY <2>1, <1>3 DEF Poll
    <3> QED BY <2>1, <3>1 DEF Poll, Latest
  <2>2. CASE Publish \/ AppRestarts
    BY <2>2 DEF Publish, AppRestarts
  <2>3. ASSUME NEW w \in Workers, Refresh(w) \/ RefreshRaises(w) PROVE UNCHANGED <<marker, seen>>
    BY <2>3 DEF Refresh, Gate, ReadTable, Store, RefreshRaises, Report, watchdog
  <2>4. CASE \/ StartScheduler \/ BeginCycle \/ SkipCycle \/ SettleBatch \/ OpenBatch \/ CycleRaises
             \/ EndCycle \/ BeginWait \/ PassBarrier \/ Rotate \/ SchedulerDies
             \/ StartRefresh \/ PublishRaises \/ UNCHANGED vars
             \/ \E t \in Tables : Load(t)
             \/ \E l \in Limits : Request(l)
    BY <2>4 DEF StartScheduler, BeginCycle, SkipCycle, SettleBatch, OpenBatch, CycleRaises,
       EndCycle,
       BeginWait, PassBarrier, Rotate, SchedulerDies, StartRefresh, PublishRaises, vars, Load,
       Request, watchdog
  <2> QED BY <2>1, <2>2, <2>3, <2>4 DEF Next, Watch
<1>6. GoodEntry(marker)' /\ GoodEntry(seen)'
  BY <1>4, <1>5 DEF GoodEntry
<1>7. \A i \in 1..Len(log') : GoodEntry(log[i])'
  <2>1. CASE log' = log
    BY <2>1, <1>4 DEF GoodEntry
  <2>2. CASE EndCycle
    <3>1. [cycle |-> cycle, at |-> run] \in Entries
      BY <2>2 DEF EndCycle, LogInv, TypeOK, Counting, Entries
    <3>2. \A i \in 1..Len(log') : (i \in 1..Len(log) /\ log'[i] = log[i])
                                 \/ log'[i] = [cycle |-> cycle, at |-> run]
      BY <2>2, <3>1, <1>3 DEF EndCycle
    <3>3. cycle' = cycle /\ run' = run
      BY <2>2 DEF EndCycle, xactly
    <3>4. GoodEntry([cycle |-> cycle, at |-> run])'
      BY <2>2, GoodLine DEF LogInv
    <3> QED BY <3>2, <3>3, <3>4, <1>4 DEF GoodEntry
  <2>3. CASE Rotate
    BY <2>3 DEF Rotate
  <2>4. log' = log \/ EndCycle \/ Rotate
    BY DEF Next, vars, StartScheduler, BeginCycle, SkipCycle, SettleBatch, OpenBatch, CycleRaises,
       BeginWait, PassBarrier, SchedulerDies, Load, Refresh, Gate, Store,
       ReadTable, RefreshRaises, Request, Watch, Poll, StartRefresh, Publish, PublishRaises,
       AppRestarts
  <2> QED BY <2>1, <2>2, <2>3, <2>4
<1> QED BY <1>6, <1>7 DEF EntriesAreGood

LEMMA LogStep == LogInv /\ [Next]_vars => LogInv'
BY TypeStep, BudgetStep, CountingStep, EntriesStep DEF LogInv

LEMMA InitLog == Init => LogInv
<1> SUFFICES ASSUME Init PROVE LogInv
  OBVIOUS
<1> USE ConstantTypes
<1>1. budget \in [Failures -> Nat]
  BY BoundsAssumption DEF Init, Failures
<1>2. budget["crash"] = MaxCrashes /\ budget["app"] = MaxAppRestarts
  BY DEF Init, Failures
<1>i. /\ pc = "down" /\ cycle = 0 /\ previous = NoEntry
      /\ run = 0 /\ batch = "NO_BATCH" /\ tables = Nothing
      /\ log = <<>> /\ marker = NoEntry
      /\ watch = "poll" /\ seen = NoEntry /\ last = 0
      /\ lock = "free"
      /\ phase = [w \in Workers |-> "off"]
      /\ limit = [w \in Workers |-> DefaultLimit]
      /\ todo = [w \in Workers |-> {}]
      /\ got = [w \in Workers |-> Nothing]
      /\ cache = [l \in Limits |-> NoSnapshot]
  BY Zenon DEF Init
<1>3. TypeOK
  BY <1>1, <1>i DEF TypeOK
<1>4. BudgetFalls /\ Counting
  BY <1>2, <1>i DEF BudgetFalls, Counting
<1>5. EntriesAreGood
  BY <1>i DEF EntriesAreGood, GoodEntry
<1> QED BY <1>3, <1>4, <1>5 DEF LogInv

----
(* The rows that are read and shown *)

\* A completed batch has loaded every table, and no row is newer than the run.
LoadedIsWhole ==
  /\ batch = "COMPLETED" => \A t \in Tables : tables[t] = run
  /\ \A t \in Tables : tables[t] <= run

\* One refresh at a time, and the watchdog's is of the default limit.
OneRefresh ==
  /\ \A w \in Workers : phase[w] # "off" => lock = w
  /\ phase["watchdog"] # "off" <=> watch = "refresh"
  /\ phase["watchdog"] # "off" => limit["watchdog"] = DefaultLimit

\* v is as new as what is acknowledged, about to be, or shown of table t.
Current(v, t) ==
  /\ v >= marker.at
  /\ watch \in {"refresh", "publish"} => v >= seen.at
  /\ \A l \in Limits : v >= cache[l].rows[t]

\* The same in the next state, of a v that is given now.
CurrentNext(v, t) ==
  /\ v >= marker'.at
  /\ watch' \in {"refresh", "publish"} => v >= seen'.at
  /\ \A l \in Limits : v >= cache'[l].rows[t]

\* A refresh that is past its gate reads only rows that are.
ReadsAreCurrent ==
  \A w \in Workers, t \in Tables :
    /\ got[w][t] <= tables[t]
    /\ phase[w] = "read" =>
         /\ Current(tables[t], t)
         /\ t \notin todo[w] => Current(got[w][t], t)

CacheIsPast == \A l \in Limits, t \in Tables : cache[l].rows[t] <= tables[t]

\* What is about to be acknowledged is shown.
ShownIsCurrent ==
  cache[DefaultLimit].status = "ok" =>
    \A t \in Tables :
      /\ cache[DefaultLimit].rows[t] >= marker.at
      /\ watch = "publish" => cache[DefaultLimit].rows[t] >= seen.at

\* There is a snapshot when one is to be acknowledged, and once one was, until
\* the application ends.
ShownIsThere ==
  watch = "publish" \/ (FirstScheduler /\ marker # NoEntry) =>
    cache[DefaultLimit].status # "none"

\* The watchdog works on ever newer cycles.
MarkerInOrder ==
  /\ log # <<>> => marker.at <= Latest.at /\ seen.at <= Latest.at
  /\ watch \in {"start", "refresh", "publish"} => marker.at <= seen.at
  /\ last \in {0, marker.at}

\* The cycle that ended is the last that was logged, and newer than what was
\* acknowledged when it began.
WaitsForTheLatest ==
  /\ pc \in {"ended", "wait"} /\ log # <<>> => Latest = [cycle |-> cycle, at |-> run]
  /\ pc = "prepare" => previous.at <= run
  /\ pc \in {"load", "ended", "wait"} => previous.at < run

MarkerInv == MarkerInOrder /\ WaitsForTheLatest

DataInv ==
  /\ LoadedIsWhole /\ OneRefresh /\ ReadsAreCurrent /\ CacheIsPast
  /\ ShownIsCurrent /\ ShownIsThere

BarrierInv == LogInv /\ DataInv /\ MarkerInv

----
LEMMA Numbers ==
  ASSUME TypeOK
  PROVE  /\ run \in Nat /\ marker.at \in Nat /\ seen.at \in Nat
         /\ \A t \in Tables : tables[t] \in Nat
         /\ \A w \in Workers, t \in Tables : got[w][t] \in Nat
         /\ \A l \in Limits, t \in Tables : cache[l].rows[t] \in Nat
         /\ \A l \in Limits : cache[l].status \in {"none", "ok", "failed"}
<1>1. /\ run \in Nat /\ marker.at \in Nat /\ seen.at \in Nat
  BY ConstantTypes DEF TypeOK
<1>2. \A v \in Versions, t \in Tables : v[t] \in Nat
  BY ConstantTypes DEF Versions
<1>3. \A l \in Limits : cache[l].rows \in Versions /\ cache[l].status \in {"none", "ok", "failed"}
  BY DEF TypeOK, Snapshots
<1> QED BY <1>1, <1>2, <1>3 DEF TypeOK

LEMMA InitData == Init => DataInv
<1> SUFFICES ASSUME Init PROVE DataInv
  OBVIOUS
<1> USE ConstantTypes
<1>1. /\ run = 0 /\ batch = "NO_BATCH" /\ tables = Nothing /\ marker = NoEntry
      /\ watch = "poll" /\ seen = NoEntry
      /\ phase = [w \in Workers |-> "off"]
      /\ got = [w \in Workers |-> Nothing]
      /\ cache = [l \in Limits |-> NoSnapshot]
  BY Zenon DEF Init
<1>2. \A t \in Tables : Nothing[t] = 0
  BY DEF Nothing
<1>3. LoadedIsWhole /\ CacheIsPast
  BY <1>1, <1>2 DEF LoadedIsWhole, CacheIsPast
<1>4. OneRefresh /\ ReadsAreCurrent
  BY <1>1, <1>2 DEF OneRefresh, ReadsAreCurrent, Workers
<1>5. ShownIsCurrent /\ ShownIsThere
  BY <1>1 DEF ShownIsCurrent, ShownIsThere
<1> QED BY <1>3, <1>4, <1>5 DEF DataInv

\* The scheduler and its loads change nothing but the rows, which get newer.
LEMMA LoadsData ==
  ASSUME BarrierInv, FirstScheduler' => FirstScheduler, TypeOK',
         \/ StartScheduler \/ BeginCycle \/ SkipCycle \/ SettleBatch \/ OpenBatch \/ CycleRaises
         \/ EndCycle \/ BeginWait \/ PassBarrier \/ Rotate \/ SchedulerDies
         \/ \E t \in Tables : Load(t)
  PROVE  DataInv'
<1>1. UNCHANGED <<marker, watch, seen, phase, lock, limit, todo, got, cache>>
  BY DEF StartScheduler, BeginCycle, SkipCycle, SettleBatch, OpenBatch, CycleRaises, EndCycle,
     BeginWait,
     PassBarrier, Rotate, SchedulerDies, Load, watchdog, refresh
<1>2. TypeOK /\ LoadedIsWhole /\ OneRefresh /\ ReadsAreCurrent /\ CacheIsPast
      /\ ShownIsCurrent /\ ShownIsThere
  BY DEF BarrierInv, LogInv, DataInv
<1>3. /\ LoadedIsWhole'
      /\ \A t \in Tables : tables'[t] >= tables[t]
  <2>1. ASSUME NEW t \in Tables, Load(t)
        PROVE  /\ LoadedIsWhole'
               /\ \A s \in Tables : tables'[s] >= tables[s]
    <3>1. /\ tables' = [tables EXCEPT ![t] = run] /\ tables[t] # run
          /\ UNCHANGED <<run, batch>> /\ tables \in Versions
      BY <2>1, <1>2 DEF Load, TypeOK
    <3> QED BY <3>1, <1>2, Numbers DEF LoadedIsWhole, Versions
  <2>2. CASE OpenBatch
    <3>1. run' = run + 1 /\ batch' = "IN_PROGRESS" /\ tables' = tables
      BY <2>2 DEF OpenBatch
    <3> QED BY <3>1, <1>2, Numbers DEF LoadedIsWhole
  <2>3. CASE SettleBatch
    <3>1. /\ run' = run /\ tables' = tables
          /\ batch' = "FAILED" \/ \A t \in Tables : tables[t] = run
      BY <2>3 DEF SettleBatch
    <3> QED BY <3>1, <2>3, <1>2, Numbers DEF LoadedIsWhole
  <2>4. CASE \/ StartScheduler \/ BeginCycle \/ SkipCycle \/ CycleRaises
             \/ EndCycle \/ BeginWait \/ PassBarrier \/ Rotate \/ SchedulerDies
    <3>1. UNCHANGED <<run, batch, tables>>
      BY <2>4 DEF StartScheduler, BeginCycle, SkipCycle, CycleRaises, EndCycle, BeginWait,
         PassBarrier, Rotate, SchedulerDies, xactly
    <3> QED BY <3>1, <1>2, Numbers DEF LoadedIsWhole
  <2> QED BY <2>1, <2>2, <2>3, <2>4
<1>4. OneRefresh' /\ ShownIsCurrent' /\ ShownIsThere'
  BY <1>1, <1>2 DEF OneRefresh, ShownIsCurrent, ShownIsThere
<1>5. \A t \in Tables : tables[t] \in Nat /\ tables'[t] \in Nat
  BY <1>2, <1>3, ConstantTypes DEF TypeOK, Versions
<1>6. CacheIsPast'
  BY <1>1, <1>2, <1>3, <1>5, Numbers DEF CacheIsPast
<1>7. \A v \in Nat, v1 \in Nat, t \in Tables :
        v1 >= v /\ Current(v, t) => CurrentNext(v1, t)
  BY <1>1, <1>2, Numbers DEF Current, CurrentNext
<1>8. ReadsAreCurrent'
  <2> SUFFICES ASSUME NEW w \in Workers, NEW t \in Tables
               PROVE  /\ got'[w][t] <= tables'[t]
                      /\ phase'[w] = "read" =>
                           /\ Current(tables[t], t)'
                           /\ t \notin todo'[w] => Current(got[w][t], t)'
    BY DEF ReadsAreCurrent
  <2>1. /\ got[w][t] <= tables[t] /\ tables[t] <= tables'[t]
        /\ phase[w] = "read" =>
             Current(tables[t], t) /\ (t \notin todo[w] => Current(got[w][t], t))
    BY <1>2, <1>3 DEF ReadsAreCurrent
  <2>2. got[w][t] \in Nat /\ tables[t] \in Nat /\ tables'[t] \in Nat /\ got'[w][t] = got[w][t]
    BY <1>1, <1>2, <1>5, Numbers
  <2>3. got[w][t] >= got[w][t] /\ got'[w][t] <= tables'[t]
    BY <2>1, <2>2
  <2>4. phase[w] = "read" =>
          CurrentNext(tables'[t], t) /\ (t \notin todo[w] => CurrentNext(got'[w][t], t))
    BY <2>1, <2>2, <2>3, <1>7
  <2> QED BY <2>3, <2>4, <1>1 DEF Current, CurrentNext
<1> QED BY <1>3, <1>4, <1>6, <1>8 DEF DataInv

----
\* A worker that ends its refresh is the one that holds the lock, and where
\* the watchdog goes then.
LEMMA ReleaseFacts ==
  ASSUME TypeOK, OneRefresh, NEW w \in Workers, phase[w] # "off", Release(w),
         NEW done \in BOOLEAN, Report(w, done)
  PROVE  /\ OneRefresh' /\ \A v \in Workers : phase'[v] = "off"
         /\ \A v \in Workers : got'[v] = IF v = w THEN Nothing ELSE got[v]
         /\ seen' = seen
         /\ w = "watchdog" => watch = "refresh" /\ limit[w] = DefaultLimit
                            /\ watch' = IF done THEN "publish" ELSE "poll"
         /\ w # "watchdog" => watch' = watch /\ watch # "refresh"
<1>1. /\ phase \in [Workers -> {"off", "gate", "read"}] /\ got \in [Workers -> Versions]
      /\ phase' = [phase EXCEPT ![w] = "off"] /\ got' = [got EXCEPT ![w] = Nothing]
      /\ UNCHANGED limit
  BY DEF TypeOK, Release
<1>2. \A v \in Workers : v # w => phase[v] = "off"
  BY DEF OneRefresh
<1>3. \A v \in Workers : phase'[v] = "off"
  BY <1>1, <1>2
<1>4. \A v \in Workers : got'[v] = IF v = w THEN Nothing ELSE got[v]
  BY <1>1
<1>5. w = "watchdog" => /\ watch = "refresh" /\ limit[w] = DefaultLimit /\ seen' = seen
                        /\ watch' = IF done THEN "publish" ELSE "poll"
  BY DEF Report, OneRefresh
<1>6. w # "watchdog" => watch' = watch /\ watch # "refresh" /\ seen' = seen
  BY <1>2 DEF Report, OneRefresh, Workers, watchdog
<1>7. OneRefresh'
  BY <1>3, <1>5, <1>6 DEF OneRefresh, Workers
<1> QED BY <1>3, <1>4, <1>5, <1>6, <1>7

\* A cache entry that is replaced by a snapshot of given rows.
LEMMA KeepFacts ==
  ASSUME TypeOK, NEW w \in Workers, NEW s, NEW v, Keep(w, s, v), limit[w] \in Limits
  PROVE  \A l \in Limits :
           /\ l = limit[w] => cache'[l].status = s /\ cache'[l].rows = v
           /\ l # limit[w] => cache'[l] = cache[l]
<1>1. cache' = [cache EXCEPT ![limit[w]] = [status |-> s, rows |-> v]]
      /\ cache \in [Limits -> Snapshots]
  BY DEF Keep, TypeOK
<1> QED BY <1>1

\* With no refresh past its gate, there is little left to show.
LEMMA NobodyReads ==
  ASSUME BarrierInv, \A w \in Workers : phase'[w] = "off", UNCHANGED tables,
         \A w \in Workers : got'[w] = got[w] \/ got'[w] = Nothing
  PROVE  ReadsAreCurrent'
<1>1. \A w \in Workers, t \in Tables : got[w][t] <= tables[t] /\ tables[t] \in Nat
  BY Numbers DEF BarrierInv, LogInv, DataInv, ReadsAreCurrent
<1>2. \A t \in Tables : Nothing[t] = 0
  BY DEF Nothing
<1>3. \A w \in Workers, t \in Tables : got'[w][t] <= tables'[t]
  BY <1>1, <1>2
<1> QED BY <1>3 DEF ReadsAreCurrent

\* What a refresh stores is as new as all that is promised.
LEMMA StoreData ==
  ASSUME BarrierInv, NEW w \in Workers, Store(w), FirstScheduler' => FirstScheduler
  PROVE  DataInv' /\ \A l \in Limits, t \in Tables : cache'[l].rows[t] >= cache[l].rows[t]
<1>1. TypeOK /\ LoadedIsWhole /\ OneRefresh /\ ReadsAreCurrent /\ CacheIsPast
      /\ ShownIsCurrent /\ ShownIsThere
  BY DEF BarrierInv, LogInv, DataInv
<1>2. /\ phase[w] = "read" /\ todo[w] = {} /\ Keep(w, "ok", got[w]) /\ Release(w)
      /\ Report(w, TRUE) /\ UNCHANGED <<run, batch, tables, marker>>
  BY DEF Store, xactly
<1>3. /\ OneRefresh' /\ \A v \in Workers : phase'[v] = "off"
      /\ \A v \in Workers : got'[v] = IF v = w THEN Nothing ELSE got[v]
      /\ seen' = seen
      /\ w = "watchdog" => watch = "refresh" /\ limit[w] = DefaultLimit /\ watch' = "publish"
      /\ w # "watchdog" => watch' = watch /\ watch # "refresh"
  BY <1>1, <1>2, ReleaseFacts
<1>4. \A l \in Limits :
        /\ l = limit[w] => cache'[l].status = "ok" /\ cache'[l].rows = got[w]
        /\ l # limit[w] => cache'[l] = cache[l]
  BY <1>1, <1>2, KeepFacts DEF TypeOK
<1>5. \A t \in Tables : got[w][t] <= tables[t] /\ Current(got[w][t], t)
  BY <1>1, <1>2 DEF ReadsAreCurrent
<1>6. LoadedIsWhole'
  BY <1>1, <1>2 DEF LoadedIsWhole
<1>7. ReadsAreCurrent'
  BY <1>2, <1>3, NobodyReads
<1>8. CacheIsPast' /\ \A l \in Limits, t \in Tables : cache'[l].rows[t] >= cache[l].rows[t]
  <2> SUFFICES ASSUME NEW l \in Limits, NEW t \in Tables
               PROVE  cache'[l].rows[t] <= tables'[t] /\ cache'[l].rows[t] >= cache[l].rows[t]
    BY DEF CacheIsPast
  <2>1. CASE l = limit[w]
    BY <2>1, <1>2, <1>4, <1>5 DEF Current
  <2>2. CASE l # limit[w]
    BY <2>2, <1>1, <1>2, <1>4, Numbers DEF CacheIsPast
  <2> QED BY <2>1, <2>2
<1>9. ShownIsCurrent'
  <2> SUFFICES ASSUME cache'[DefaultLimit].status = "ok", NEW t \in Tables
               PROVE  /\ cache'[DefaultLimit].rows[t] >= marker'.at
                      /\ watch' = "publish" => cache'[DefaultLimit].rows[t] >= seen'.at
    BY DEF ShownIsCurrent
  <2>1. DefaultLimit \in Limits
    BY ConstantTypes
  <2>2. CASE DefaultLimit = limit[w]
    BY <2>1, <2>2, <1>2, <1>3, <1>4, <1>5 DEF Current
  <2>3. CASE DefaultLimit # limit[w]
    BY <2>1, <2>3, <1>1, <1>2, <1>3, <1>4 DEF ShownIsCurrent
  <2> QED BY <2>2, <2>3
<1>10. ShownIsThere'
  <2>1. DefaultLimit \in Limits
    BY ConstantTypes
  <2> QED BY <2>1, <1>1, <1>2, <1>3, <1>4 DEF ShownIsThere
<1> QED BY <1>3, <1>6, <1>7, <1>8, <1>9, <1>10 DEF DataInv

\* At the gate a failed batch replaces the snapshot, one in progress leaves
\* it, and behind a completed one all rows are of the newest run.
LEMMA GateData ==
  ASSUME BarrierInv, NEW w \in Workers, Gate(w), FirstScheduler' => FirstScheduler
  PROVE  DataInv'
<1>1. TypeOK /\ LoadedIsWhole /\ OneRefresh /\ ReadsAreCurrent /\ CacheIsPast
      /\ ShownIsCurrent /\ ShownIsThere
  BY DEF BarrierInv, LogInv, DataInv
<1>2. phase[w] = "gate" /\ UNCHANGED <<run, batch, tables, marker>>
  BY DEF Gate, xactly
<1>3. LoadedIsWhole'
  BY <1>1, <1>2 DEF LoadedIsWhole
<1>4. CASE /\ batch = "COMPLETED"
           /\ phase' = [phase EXCEPT ![w] = "read"]
           /\ todo' = [todo EXCEPT ![w] = Tables]
           /\ UNCHANGED <<lock, limit, got, watchdog, cache>>
  <2>1. /\ phase \in [Workers -> {"off", "gate", "read"}] /\ todo \in [Workers -> SUBSET Tables]
        /\ UNCHANGED <<watch, seen>>
    BY <1>1, <1>4 DEF TypeOK, watchdog
  <2>2. OneRefresh'
    BY <1>1, <1>2, <1>4, <2>1 DEF OneRefresh
  <2>3. CacheIsPast' /\ ShownIsCurrent' /\ ShownIsThere'
    BY <1>1, <1>2, <1>4, <2>1 DEF CacheIsPast, ShownIsCurrent, ShownIsThere
  <2>4. marker.at <= run /\ seen.at <= run
    BY DEF BarrierInv, LogInv, EntriesAreGood, GoodEntry
  <2>5. \A t \in Tables : Current(tables[t], t)
    BY <1>1, <1>4, <2>4, Numbers DEF Current, LoadedIsWhole, CacheIsPast
  <2>6. \A t \in Tables : Current(tables[t], t)'
    BY <2>5, <2>1, <1>2, <1>4 DEF Current
  <2>7. \A v \in Workers : v # w => phase'[v] = "off"
    BY <1>1, <1>2, <1>4, <2>1 DEF OneRefresh
  <2>8. todo'[w] = Tables /\ got' = got
    BY <1>4, <2>1
  <2>9. ReadsAreCurrent'
    BY <1>1, <1>2, <2>6, <2>7, <2>8 DEF ReadsAreCurrent
  <2> QED BY <1>3, <2>2, <2>3, <2>9 DEF DataInv
<1>5. CASE Keep(w, "failed", Nothing) /\ Release(w) /\ Report(w, TRUE)
  <2>1. /\ OneRefresh' /\ \A v \in Workers : phase'[v] = "off"
        /\ \A v \in Workers : got'[v] = IF v = w THEN Nothing ELSE got[v]
        /\ seen' = seen
        /\ w = "watchdog" => watch = "refresh" /\ limit[w] = DefaultLimit /\ watch' = "publish"
        /\ w # "watchdog" => watch' = watch /\ watch # "refresh"
    BY <1>1, <1>2, <1>5, ReleaseFacts
  <2>2. \A l \in Limits :
          /\ l = limit[w] => cache'[l].status = "failed" /\ cache'[l].rows = Nothing
          /\ l # limit[w] => cache'[l] = cache[l]
    BY <1>1, <1>5, KeepFacts DEF TypeOK
  <2>3. \A t \in Tables : Nothing[t] = 0 /\ tables[t] \in Nat
    BY <1>1, Numbers DEF Nothing
  <2>4. CacheIsPast'
    BY <1>1, <1>2, <2>2, <2>3 DEF CacheIsPast
  <2>5. ReadsAreCurrent'
    BY <1>2, <2>1, NobodyReads
  <2>6. DefaultLimit \in Limits
    BY ConstantTypes
  <2>7. ShownIsCurrent' /\ ShownIsThere'
    BY <1>1, <1>2, <2>1, <2>2, <2>6 DEF ShownIsCurrent, ShownIsThere
  <2> QED BY <1>3, <2>1, <2>4, <2>5, <2>7 DEF DataInv
<1>6. CASE Release(w) /\ Report(w, FALSE) /\ UNCHANGED cache
  <2>1. /\ OneRefresh' /\ \A v \in Workers : phase'[v] = "off"
        /\ \A v \in Workers : got'[v] = IF v = w THEN Nothing ELSE got[v]
        /\ seen' = seen
        /\ w = "watchdog" => watch' = "poll"
        /\ w # "watchdog" => watch' = watch
    BY <1>1, <1>2, <1>6, ReleaseFacts
  <2>2. CacheIsPast' /\ ShownIsCurrent' /\ ShownIsThere'
    BY <1>1, <1>2, <1>6, <2>1 DEF CacheIsPast, ShownIsCurrent, ShownIsThere
  <2>3. ReadsAreCurrent'
    BY <1>2, <2>1, NobodyReads
  <2> QED BY <1>3, <2>1, <2>2, <2>3 DEF DataInv
<1> QED BY <1>4, <1>5, <1>6 DEF Gate

\* Any other end of a refresh shows nothing and acknowledges nothing.
LEMMA RaiseData ==
  ASSUME BarrierInv, NEW w \in Workers, RefreshRaises(w), FirstScheduler' => FirstScheduler
  PROVE  DataInv'
<1>1. TypeOK /\ LoadedIsWhole /\ OneRefresh /\ ReadsAreCurrent /\ CacheIsPast
      /\ ShownIsCurrent /\ ShownIsThere
  BY DEF BarrierInv, LogInv, DataInv
<1>2. /\ phase[w] # "off" /\ Release(w) /\ Report(w, FALSE)
      /\ UNCHANGED <<run, batch, tables, marker, cache>>
  BY DEF RefreshRaises, xactly
<1>3. /\ OneRefresh' /\ \A v \in Workers : phase'[v] = "off"
      /\ \A v \in Workers : got'[v] = IF v = w THEN Nothing ELSE got[v]
      /\ seen' = seen
      /\ w = "watchdog" => watch' = "poll"
      /\ w # "watchdog" => watch' = watch
  BY <1>1, <1>2, ReleaseFacts
<1>4. LoadedIsWhole' /\ CacheIsPast' /\ ShownIsCurrent' /\ ShownIsThere'
  BY <1>1, <1>2, <1>3 DEF LoadedIsWhole, CacheIsPast, ShownIsCurrent, ShownIsThere
<1>5. ReadsAreCurrent'
  BY <1>2, <1>3, NobodyReads
<1> QED BY <1>3, <1>4, <1>5 DEF DataInv

\* A table that is read is as current as it is loaded.
LEMMA ReadData ==
  ASSUME BarrierInv, NEW w \in Workers, NEW t \in Tables, ReadTable(w, t),
         FirstScheduler' => FirstScheduler
  PROVE  DataInv'
<1>1. TypeOK /\ LoadedIsWhole /\ OneRefresh /\ ReadsAreCurrent /\ CacheIsPast
      /\ ShownIsCurrent /\ ShownIsThere
  BY DEF BarrierInv, LogInv, DataInv
<1>2. /\ phase[w] = "read"
      /\ UNCHANGED <<run, batch, tables, marker, watch, seen, lock, phase, limit, cache>>
      /\ got' = [got EXCEPT ![w][t] = tables[t]] /\ todo' = [todo EXCEPT ![w] = todo[w] \ {t}]
      /\ got \in [Workers -> Versions] /\ todo \in [Workers -> SUBSET Tables]
  BY <1>1 DEF ReadTable, xactly, watchdog, TypeOK
<1>3. LoadedIsWhole' /\ OneRefresh' /\ CacheIsPast' /\ ShownIsCurrent' /\ ShownIsThere'
  BY <1>1, <1>2 DEF LoadedIsWhole, OneRefresh, CacheIsPast, ShownIsCurrent, ShownIsThere
<1>4. \A v \in Workers, u \in Tables :
        \/ got'[v][u] = got[v][u] /\ (u \notin todo'[v] => u \notin todo[v] \/ (v = w /\ u = t))
           /\ ~(v = w /\ u = t)
        \/ v = w /\ u = t /\ got'[v][u] = tables[u]
  BY <1>2 DEF Versions
<1>5. ReadsAreCurrent'
  <2> SUFFICES ASSUME NEW v \in Workers, NEW u \in Tables
               PROVE  /\ got'[v][u] <= tables'[u]
                      /\ phase'[v] = "read" =>
                           /\ Current(tables[u], u)'
                           /\ u \notin todo'[v] => Current(got[v][u], u)'
    BY DEF ReadsAreCurrent
  <2>1. /\ got[v][u] <= tables[u] /\ tables[u] \in Nat
        /\ phase[v] = "read" =>
             Current(tables[u], u) /\ (u \notin todo[v] => Current(got[v][u], u))
    BY <1>1, Numbers DEF ReadsAreCurrent
  <2>2. got'[v][u] <= tables'[u]
    BY <1>2, <1>4, <2>1
  <2>3. \A x : Current(x, u) => CurrentNext(x, u)
    BY <1>2 DEF Current, CurrentNext
  <2>4. phase[v] = "read" =>
          CurrentNext(tables[u], u) /\ (u \notin todo'[v] => CurrentNext(got'[v][u], u))
    BY <1>4, <2>1, <2>3
  <2> QED BY <1>2, <2>2, <2>4 DEF Current, CurrentNext
<1> QED BY <1>3, <1>5 DEF DataInv

\* A refresh begins only when there is none, before its gate.
LEMMA AcquireFacts ==
  ASSUME TypeOK, OneRefresh, NEW w \in Workers, NEW l \in Limits, Acquire(w, l)
  PROVE  /\ \A v \in Workers : phase[v] = "off" /\ phase'[v] = (IF v = w THEN "gate" ELSE "off")
         /\ lock' = w /\ limit'[w] = l /\ UNCHANGED <<todo, got>>
<1>1. /\ phase \in [Workers -> {"off", "gate", "read"}] /\ limit \in [Workers -> Limits]
      /\ phase' = [phase EXCEPT ![w] = "gate"] /\ limit' = [limit EXCEPT ![w] = l]
      /\ lock = "free" /\ lock' = w /\ UNCHANGED <<todo, got>>
  BY DEF TypeOK, Acquire, Begin
<1>2. \A v \in Workers : phase[v] = "off"
  BY <1>1 DEF OneRefresh, Workers
<1> QED BY <1>1, <1>2

LEMMA BeginData ==
  ASSUME BarrierInv, (\E l \in Limits : Request(l)) \/ StartRefresh,
         FirstScheduler' => FirstScheduler
  PROVE  DataInv'
<1>1. TypeOK /\ LoadedIsWhole /\ OneRefresh /\ ReadsAreCurrent /\ CacheIsPast
      /\ ShownIsCurrent /\ ShownIsThere
  BY DEF BarrierInv, LogInv, DataInv
<1>2. UNCHANGED <<run, batch, tables, marker, seen, cache, todo, got>>
  BY DEF Request, StartRefresh, Acquire, Begin, xactly, watchdog, refresh
<1>3. LoadedIsWhole' /\ CacheIsPast'
  BY <1>1, <1>2 DEF LoadedIsWhole, CacheIsPast
<1>4. ASSUME NEW l \in Limits, Request(l)
      PROVE  OneRefresh' /\ watch' = watch /\ \A v \in Workers : phase'[v] # "read"
  <2>1. Acquire("request", l) /\ UNCHANGED <<watch, seen>> /\ "request" \in Workers
    BY <1>4 DEF Request, watchdog, Workers
  <2>2. /\ \A v \in Workers : phase[v] = "off"
                             /\ phase'[v] = (IF v = "request" THEN "gate" ELSE "off")
        /\ lock' = "request"
    BY <2>1, <1>1, AcquireFacts
  <2>3. watch # "refresh"
    BY <2>2, <1>1 DEF OneRefresh, Workers
  <2> QED BY <2>1, <2>2, <2>3 DEF OneRefresh, Workers
<1>5. CASE StartRefresh
  <2>1. CASE Acquire("watchdog", DefaultLimit) /\ watch' = "refresh"
    <3>1. /\ \A v \in Workers : phase'[v] = (IF v = "watchdog" THEN "gate" ELSE "off")
          /\ lock' = "watchdog" /\ limit'["watchdog"] = DefaultLimit
      BY <2>1, <1>1, AcquireFacts, ConstantTypes DEF Workers
    <3>2. OneRefresh' /\ \A v \in Workers : phase'[v] # "read"
      BY <3>1, <2>1 DEF OneRefresh, Workers
    <3>3. ReadsAreCurrent' /\ ShownIsCurrent' /\ ShownIsThere'
      BY <1>1, <1>2, <2>1, <3>2 DEF ReadsAreCurrent, ShownIsCurrent, ShownIsThere
    <3> QED BY <1>3, <3>2, <3>3 DEF DataInv
  <2>2. CASE watch' = "poll" /\ UNCHANGED refresh
    <3>1. UNCHANGED <<lock, phase, limit>> /\ watch = "start"
      BY <1>5, <2>2 DEF refresh, StartRefresh
    <3>2. OneRefresh' /\ ShownIsCurrent' /\ ShownIsThere'
      BY <1>1, <1>2, <2>2, <3>1 DEF OneRefresh, ShownIsCurrent, ShownIsThere
    <3>3. ReadsAreCurrent'
      BY <1>1, <1>2, <2>2, <3>1 DEF ReadsAreCurrent, Current
    <3> QED BY <1>3, <3>2, <3>3 DEF DataInv
  <2> QED BY <1>5, <2>1, <2>2 DEF StartRefresh
<1>6. ASSUME NEW l \in Limits, Request(l) PROVE DataInv'
  <2>1. ReadsAreCurrent' /\ ShownIsCurrent' /\ ShownIsThere'
    BY <1>1, <1>2, <1>4, <1>6 DEF ReadsAreCurrent, ShownIsCurrent, ShownIsThere
  <2> QED BY <1>3, <1>4, <1>6, <2>1 DEF DataInv
<1> QED BY <1>5, <1>6

\* What the watchdog publishes was promised before.
LEMMA WatchData ==
  ASSUME BarrierInv, Poll \/ Publish \/ PublishRaises, FirstScheduler' => FirstScheduler
  PROVE  DataInv'
<1>1. TypeOK /\ LoadedIsWhole /\ OneRefresh /\ ReadsAreCurrent /\ CacheIsPast
      /\ ShownIsCurrent /\ ShownIsThere
  BY DEF BarrierInv, LogInv, DataInv
<1>2. /\ UNCHANGED <<run, batch, tables, lock, phase, limit, todo, got, cache>>
      /\ \/ watch = "poll" /\ watch' = "start" /\ marker' = marker
         \/ watch = "publish" /\ watch' = "poll" /\ marker' = seen /\ seen' = seen
         \/ watch = "publish" /\ watch' = "dead" /\ marker' = marker
  BY DEF Poll, Publish, PublishRaises, xactly, refresh
<1>3. LoadedIsWhole' /\ CacheIsPast' /\ OneRefresh'
  BY <1>1, <1>2 DEF LoadedIsWhole, CacheIsPast, OneRefresh
<1>4. ShownIsCurrent' /\ ShownIsThere'
  BY <1>1, <1>2 DEF ShownIsCurrent, ShownIsThere
<1>5. \A v, t : Current(v, t) => CurrentNext(v, t)
  BY <1>2 DEF Current, CurrentNext
<1>6. ReadsAreCurrent'
  BY <1>1, <1>2, <1>5 DEF ReadsAreCurrent, Current, CurrentNext
<1> QED BY <1>3, <1>4, <1>6 DEF DataInv

LEMMA RestartData ==
  ASSUME BarrierInv, AppRestarts, ~FirstScheduler'
  PROVE  DataInv'
<1>1. TypeOK /\ LoadedIsWhole
  BY DEF BarrierInv, LogInv, DataInv
<1>2. /\ UNCHANGED <<run, batch, tables, marker>> /\ watch' = "poll"
      /\ \A w \in Workers : phase'[w] = "off" /\ got'[w] = Nothing
      /\ \A l \in Limits : cache'[l] = NoSnapshot
  BY DEF AppRestarts, xactly
<1>3. \A t \in Tables : Nothing[t] = 0 /\ tables[t] \in Nat
  BY <1>1, Numbers DEF Nothing
<1>4. NoSnapshot.status = "none" /\ NoSnapshot.rows = Nothing /\ DefaultLimit \in Limits
  BY ConstantTypes
<1>5. LoadedIsWhole' /\ CacheIsPast' /\ ShownIsCurrent' /\ ShownIsThere'
  BY <1>1, <1>2, <1>3, <1>4 DEF LoadedIsWhole, CacheIsPast, ShownIsCurrent, ShownIsThere
<1>6. OneRefresh' /\ ReadsAreCurrent'
  BY <1>2, <1>3 DEF OneRefresh, ReadsAreCurrent, Workers
<1> QED BY <1>5, <1>6 DEF DataInv

LEMMA StutterData ==
  ASSUME BarrierInv, UNCHANGED vars
  PROVE  DataInv'
<1>1. TypeOK /\ LoadedIsWhole /\ OneRefresh /\ ReadsAreCurrent /\ CacheIsPast
      /\ ShownIsCurrent /\ ShownIsThere
  BY DEF BarrierInv, LogInv, DataInv
<1>2. LoadedIsWhole' /\ CacheIsPast' /\ OneRefresh' /\ ShownIsCurrent' /\ ShownIsThere'
  BY <1>1 DEF vars, LoadedIsWhole, CacheIsPast, OneRefresh, ShownIsCurrent, ShownIsThere,
     FirstScheduler
<1>3. ReadsAreCurrent'
  BY <1>1 DEF vars, ReadsAreCurrent, Current
<1> QED BY <1>2, <1>3 DEF DataInv

----
(* The marker *)

\* What is logged and what the scheduler awaits.
LEMMA AwaitedStep ==
  ASSUME BarrierInv, [Next]_vars
  PROVE  WaitsForTheLatest'
<1>1. TypeOK /\ Counting /\ GoodEntry(marker) /\ WaitsForTheLatest
  BY DEF BarrierInv, LogInv, EntriesAreGood, MarkerInv
<1>2. CounterStep /\ run \in Nat /\ previous.at \in Nat /\ log \in Seq(Entries)
  BY <1>1, CountersStep, ConstantTypes DEF TypeOK
<1>3. CASE EndCycle
  <2>1. [cycle |-> cycle, at |-> run] \in Entries
    BY <1>1, <1>3 DEF EndCycle, TypeOK, Counting, Entries
  <2>2. Latest' = [cycle |-> cycle, at |-> run]
    BY <1>2, <1>3, <2>1 DEF EndCycle, Latest
  <2> QED BY <1>1, <1>3, <2>2 DEF EndCycle, WaitsForTheLatest, xactly
<1>4. CASE BeginCycle
  BY <1>1, <1>4 DEF BeginCycle, WaitsForTheLatest, GoodEntry, xactly
<1>5. CASE Rotate
  BY <1>1, <1>5 DEF Rotate, WaitsForTheLatest, scheduler, xactly
<1>6. CASE UNCHANGED <<log, previous>> /\ ~EndCycle /\ ~BeginCycle
  <2>1. ~(pc = "load" /\ pc' = "ended") /\ ~(pc = "rest" /\ pc' = "prepare")
    BY <1>6 DEF Next, vars, StartScheduler, SkipCycle, SettleBatch, OpenBatch, CycleRaises,
       BeginWait, PassBarrier, Rotate, SchedulerDies, Load, Refresh, Gate, Store, ReadTable,
       RefreshRaises, Request, Watch, Poll, StartRefresh, Publish, PublishRaises, AppRestarts,
       NextCycle, scheduler
  <2> QED BY <1>1, <1>2, <1>6, <2>1 DEF CounterStep, WaitsForTheLatest, Latest
<1>7. CASE pc' \in {"down", "rest"}
  BY <1>7 DEF WaitsForTheLatest
<1>8. \/ EndCycle \/ BeginCycle \/ Rotate \/ UNCHANGED <<log, previous>>
      \/ pc' \in {"down", "rest"}
  BY DEF Next, vars, StartScheduler, SkipCycle, SettleBatch, OpenBatch, CycleRaises,
     BeginWait, PassBarrier, SchedulerDies, Load, Refresh, Gate, Store, ReadTable,
     RefreshRaises, Request, Watch, Poll, StartRefresh, Publish, PublishRaises, AppRestarts,
     scheduler
<1> QED BY <1>3, <1>4, <1>5, <1>6, <1>7, <1>8

\* The end of a refresh moves the watchdog only if the refresh is its own.
LEMMA WatchedStep ==
  ASSUME BarrierInv, NEW w \in Workers, Gate(w) \/ Store(w) \/ RefreshRaises(w)
  PROVE  /\ UNCHANGED <<log, marker, seen, last>>
         /\ watch' = watch \/ watch = "refresh"
<1>1. phase[w] # "off" /\ OneRefresh
  BY DEF Gate, Store, RefreshRaises, BarrierInv, DataInv
<1>2. UNCHANGED <<log, marker>>
  BY DEF Gate, Store, RefreshRaises
<1>3. UNCHANGED watchdog \/ Report(w, TRUE) \/ Report(w, FALSE)
  BY DEF Gate, Store, RefreshRaises
<1>4. UNCHANGED watchdog \/ (w = "watchdog" /\ UNCHANGED <<seen, last>>)
  BY <1>3 DEF Report
<1>5. w = "watchdog" => watch = "refresh"
  BY <1>1 DEF OneRefresh
<1> QED BY <1>2, <1>4, <1>5 DEF watchdog

LEMMA OrderStep ==
  ASSUME BarrierInv, [Next]_vars
  PROVE  MarkerInOrder'
<1>1. /\ TypeOK /\ Counting /\ GoodEntry(marker) /\ GoodEntry(seen) /\ MarkerInOrder
      /\ \A i \in 1..Len(log) : GoodEntry(log[i])
  BY DEF BarrierInv, LogInv, EntriesAreGood, MarkerInv
<1>2. marker.at \in Nat /\ seen.at \in Nat /\ log \in Seq(Entries) /\ run \in Nat
  BY <1>1, ConstantTypes DEF TypeOK
<1>3. log # <<>> => Latest \in Entries /\ Latest.at \in Nat
  BY <1>2, ConstantTypes DEF Latest
<1>4. CASE EndCycle
  <2>1. [cycle |-> cycle, at |-> run] \in Entries
    BY <1>1, <1>4 DEF EndCycle, TypeOK, Counting, Entries
  <2>2. Latest' = [cycle |-> cycle, at |-> run]
    BY <1>2, <1>4, <2>1 DEF EndCycle, Latest
  <2>3. marker.at <= run /\ seen.at <= run
    BY <1>1 DEF GoodEntry
  <2> QED BY <1>1, <1>4, <2>2, <2>3 DEF EndCycle, MarkerInOrder, watchdog
<1>5. CASE Rotate
  BY <1>1, <1>5 DEF Rotate, MarkerInOrder, watchdog
<1>6. CASE Poll
  <2>1. Latest' = Latest
    BY <1>6 DEF Poll, Latest
  <2> QED BY <1>1, <1>3, <1>6, <2>1 DEF Poll, MarkerInOrder
<1>7. CASE Publish
  <2>1. Latest' = Latest
    BY <1>7 DEF Publish, Latest
  <2> QED BY <1>1, <1>7, <2>1 DEF Publish, MarkerInOrder
<1>8. CASE AppRestarts
  <2>1. Latest' = Latest
    BY <1>8 DEF AppRestarts, Latest
  <2> QED BY <1>1, <1>2, <1>3, <1>8, <2>1, ConstantTypes DEF AppRestarts, MarkerInOrder
<1>9. CASE /\ UNCHANGED <<log, marker, seen, last>>
           /\ \/ watch' = watch \/ watch' = "poll" \/ watch' = "dead"
              \/ watch \in {"start", "refresh"}
  <2>1. Latest' = Latest
    BY <1>9 DEF Latest
  <2> QED BY <1>1, <1>9, <2>1 DEF MarkerInOrder
<1>10. ASSUME NEW w \in Workers, Refresh(w) \/ RefreshRaises(w)
       PROVE  /\ UNCHANGED <<log, marker, seen, last>>
              /\ watch' = watch \/ watch = "refresh"
  <2>1. CASE \E t \in Tables : ReadTable(w, t)
    BY <2>1 DEF ReadTable, watchdog
  <2> QED BY <1>10, <2>1, WatchedStep DEF Refresh
<1>11. CASE \/ StartScheduler \/ BeginCycle \/ SkipCycle \/ SettleBatch \/ OpenBatch \/ CycleRaises
            \/ BeginWait \/ PassBarrier \/ SchedulerDies \/ StartRefresh \/ PublishRaises
            \/ (\E t \in Tables : Load(t)) \/ (\E l \in Limits : Request(l))
            \/ UNCHANGED vars
  <2>1. /\ UNCHANGED <<log, marker, seen, last>>
        /\ watch' = watch \/ watch' = "poll" \/ watch' = "dead" \/ watch \in {"start", "refresh"}
    BY <1>11 DEF StartScheduler, BeginCycle, SkipCycle, SettleBatch, OpenBatch, CycleRaises,
       BeginWait,
       PassBarrier, SchedulerDies, StartRefresh, PublishRaises, Load, Request, vars, watchdog
  <2> QED BY <1>9, <2>1
<1> QED BY <1>4, <1>5, <1>6, <1>7, <1>8, <1>9, <1>10, <1>11 DEF Next, Watch

LEMMA InitMarker == Init => MarkerInv
BY ConstantTypes DEF Init, MarkerInv, MarkerInOrder, WaitsForTheLatest

LEMMA BarrierStep == BarrierInv /\ [Next]_vars => BarrierInv'
<1> SUFFICES ASSUME BarrierInv, [Next]_vars PROVE BarrierInv'
  OBVIOUS
<1>1. LogInv' /\ TypeOK'
  BY LogStep DEF BarrierInv, LogInv
<1>2. (FirstScheduler' => FirstScheduler) /\ (AppRestarts => ~FirstScheduler')
  BY BudgetStep DEF BarrierInv, LogInv
<1>3. DataInv'
  BY <1>1, <1>2, LoadsData, StoreData, GateData, RaiseData, ReadData, BeginData, WatchData,
     RestartData, StutterData DEF Next, Refresh, Watch
<1>4. MarkerInv'
  BY AwaitedStep, OrderStep DEF MarkerInv
<1> QED BY <1>1, <1>3, <1>4 DEF BarrierInv

THEOREM BarrierInvariant == Spec => []BarrierInv
<1>1. Init => BarrierInv
  BY InitLog, InitData, InitMarker DEF BarrierInv
<1> QED BY <1>1, BarrierStep, PTL DEF Spec

----
\* The types of the barrier, for any constants.
THEOREM TypeCorrect == Spec => []TypeOK
<1>1. BarrierInv => TypeOK
  BY DEF BarrierInv, LogInv
<1> QED BY <1>1, BarrierInvariant, PTL

\* What the marker acknowledges is shown, for any number of failures.
THEOREM AcknowledgedShown == Spec => []AcknowledgedIsShown
<1>1. BarrierInv => AcknowledgedIsShown
  BY DEF BarrierInv, DataInv, ShownIsCurrent, AcknowledgedIsShown
<1> QED BY <1>1, BarrierInvariant, PTL

\* No snapshot is replaced by an older one, whoever refreshes.
THEOREM CacheForward == Spec => CacheNeverGoesBack
<1> DEFINE Forward == \A l \in Limits :
             cache[l].status = "ok" /\ cache'[l].status = "ok" =>
               \A t \in Tables : cache'[l].rows[t] >= cache[l].rows[t]
<1>1. BarrierInv /\ [Next]_vars => [Forward]_cache
  <2> SUFFICES ASSUME BarrierInv, [Next]_vars, cache' # cache PROVE Forward
    OBVIOUS
  <2>0. TypeOK /\ OneRefresh /\ (FirstScheduler' => FirstScheduler)
    BY BudgetStep DEF BarrierInv, LogInv, DataInv
  <2>1. ASSUME NEW w \in Workers, Store(w) PROVE Forward
    BY <2>0, <2>1, StoreData
  <2>2. ASSUME NEW w \in Workers, Gate(w) PROVE Forward
    <3>1. Keep(w, "failed", Nothing)
      BY <2>2 DEF Gate
    <3>2. limit[w] \in Limits
      BY <2>0 DEF TypeOK
    <3>3. \A l \in Limits : cache'[l].status = "failed" \/ cache'[l] = cache[l]
      BY <2>0, <3>1, <3>2, KeepFacts
    <3>4. \A l \in Limits, t \in Tables : cache[l].rows[t] >= cache[l].rows[t]
      BY <2>0, Numbers
    <3> QED BY <3>3, <3>4
  <2>3. CASE AppRestarts
    <3>1. \A l \in Limits : cache'[l].status = "none"
      BY <2>3, ConstantTypes DEF AppRestarts
    <3> QED BY <3>1
  <2>4. (\E w \in Workers : Store(w) \/ Gate(w)) \/ AppRestarts
    BY DEF Next, vars, StartScheduler, BeginCycle, SkipCycle, SettleBatch, OpenBatch, CycleRaises,
       EndCycle, BeginWait, PassBarrier, Rotate, SchedulerDies, Load, Refresh,
       ReadTable, RefreshRaises, Request, Watch, Poll, StartRefresh, Publish, PublishRaises
  <2> QED BY <2>1, <2>2, <2>3, <2>4
<1>2. BarrierInv /\ [Next]_vars => [Next]_vars
  OBVIOUS
<1> HIDE DEF Forward
<1>3. Spec => [][Forward]_cache
  BY <1>1, BarrierInvariant, PTL DEF Spec
<1> QED BY <1>3 DEF Forward, CacheNeverGoesBack

\* The step that ends the wait of the first scheduler.
LEMMA FirstPass ==
  ASSUME BarrierInv, [Next]_vars, Passes, FirstScheduler
  PROVE  marker = [cycle |-> cycle, at |-> run] /\ marker # NoEntry
<1>1. PassBarrier
  BY DEF Passes, Next, vars, StartScheduler, BeginCycle, SkipCycle, SettleBatch, OpenBatch,
     CycleRaises,
     EndCycle, BeginWait, Rotate, SchedulerDies, Load, Refresh, Gate, Store, ReadTable,
     RefreshRaises, Request, Watch, Poll, StartRefresh, Publish, PublishRaises,
     AppRestarts, scheduler
<1>2. marker.cycle = cycle /\ pc = "wait"
  BY <1>1 DEF PassBarrier
<1>3. marker \in Entries /\ cycle \in Nat /\ cycle >= 1
  BY <1>2 DEF BarrierInv, LogInv, TypeOK, Counting
<1>4. marker.at = run
  BY <1>2, <1>3 DEF BarrierInv, LogInv, EntriesAreGood, GoodEntry
<1> QED BY <1>2, <1>3, <1>4, ConstantTypes

\* "Hold the next ETL until Application Runs acknowledges this cycle", for
\* the first scheduler and any number of failures of its application.
THEOREM FirstHeld == Spec => FirstHeldUntilAcknowledged
<1>1. BarrierInv /\ [Next]_vars =>
        [Passes /\ FirstScheduler => marker = [cycle |-> cycle, at |-> run]]_vars
  BY FirstPass
<1> QED BY <1>1, BarrierInvariant, PTL DEF Spec, FirstHeldUntilAcknowledged

\* And by then the cycle is shown as a whole, or its failure is.
THEOREM WholeSnapshot == Spec => PassesWithWholeSnapshot
<1> DEFINE Whole == \/ cache[DefaultLimit].status = "failed"
                   \/ /\ cache[DefaultLimit].status = "ok"
                      /\ \A t \in Tables : cache[DefaultLimit].rows[t] = run
<1>1. BarrierInv /\ [Next]_vars => [Passes /\ FirstScheduler => Whole]_vars
  <2> SUFFICES ASSUME BarrierInv, [Next]_vars, Passes, FirstScheduler PROVE Whole
    OBVIOUS
  <2>1. marker.at = run /\ marker # NoEntry /\ DefaultLimit \in Limits
    BY FirstPass, ConstantTypes
  <2>2. TypeOK /\ LoadedIsWhole /\ CacheIsPast /\ ShownIsCurrent /\ ShownIsThere
    BY DEF BarrierInv, LogInv, DataInv
  <2>3. cache[DefaultLimit].status \in {"ok", "failed"}
    BY <2>1, <2>2, Numbers DEF ShownIsThere
  <2>4. ASSUME cache[DefaultLimit].status = "ok", NEW t \in Tables
        PROVE  cache[DefaultLimit].rows[t] = run
    <3>1. cache[DefaultLimit].rows[t] >= run
      BY <2>1, <2>2, <2>4 DEF ShownIsCurrent
    <3>2. cache[DefaultLimit].rows[t] <= tables[t] /\ tables[t] <= run
      BY <2>1, <2>2 DEF CacheIsPast, LoadedIsWhole
    <3> QED BY <3>1, <3>2, <2>1, <2>2, Numbers
  <2> QED BY <2>3, <2>4
<1> QED BY <1>1, BarrierInvariant, PTL DEF Spec, PassesWithWholeSnapshot

\* No wakeup is lost between the scheduler, which logs the end of its cycle,
\* and the watchdog, which logs nothing and is awaited without a timeout: for
\* any number of deaths, restarts, failed refreshes and refreshes in the way.
THEOREM CompletionNotLost == Spec => []CompletionIsNotLost
<1>1. BarrierInv => CompletionIsNotLost
  <2> SUFFICES ASSUME BarrierInv, pc = "wait", log # <<>>, watch # "dead",
                      watch = "poll" /\ last = Latest.at
               PROVE  marker.cycle = cycle /\ marker # previous
    BY DEF CompletionIsNotLost, BarrierInv, MarkerInv, WaitsForTheLatest
  <2>1. /\ TypeOK /\ Counting /\ GoodEntry(marker) /\ MarkerInOrder /\ WaitsForTheLatest
    BY DEF BarrierInv, LogInv, EntriesAreGood, MarkerInv
  <2>2. last = run /\ run >= 1 /\ run \in Nat /\ previous.at < run
    BY <2>1 DEF WaitsForTheLatest, Counting, TypeOK
  <2>3. marker.at = run
    BY <2>1, <2>2 DEF MarkerInOrder
  <2> QED BY <2>1, <2>2, <2>3 DEF GoodEntry
<1> QED BY <1>1, BarrierInvariant, PTL

----
(***************************************************************************)
(* Tables, cache and marker implement SnapshotReplica.                     *)
(***************************************************************************)
LEMMA ReplicaValues ==
  /\ Replica!Versions = Versions
  /\ Replica!Lost = NoSnapshot
  /\ Replica!Failed = [status |-> "failed", rows |-> Nothing]
BY DEF Replica!Versions, Versions, Replica!Lost, NoSnapshot, Nothing, Replica!Failed

\* A load moves a table on to the newest run.
LEMMA LoadImplements ==
  ASSUME BarrierInv, NEW t \in Tables, Load(t)
  PROVE  Replica!Load(t)
<1>1. TypeOK /\ LoadedIsWhole
  BY DEF BarrierInv, LogInv, DataInv
<1>2. run \in 0..MaxRuns /\ run >= tables[t]
  BY <1>1, ConstantTypes DEF TypeOK, Versions, LoadedIsWhole
<1>3. tables' = [tables EXCEPT ![t] = run] /\ UNCHANGED <<cache, marker>>
  BY DEF Load
<1> QED BY <1>2, <1>3 DEF Replica!Load

\* What is stored was read under the lock, after the gate had let it pass.
LEMMA StoreImplements ==
  ASSUME BarrierInv, NEW w \in Workers, Store(w)
  PROVE  \E l \in Limits : Replica!CatchUp(l)
<1>1. TypeOK /\ ReadsAreCurrent
  BY DEF BarrierInv, LogInv, DataInv
<1>2. /\ phase[w] = "read" /\ todo[w] = {} /\ Keep(w, "ok", got[w])
      /\ UNCHANGED <<tables, marker>>
  BY DEF Store, xactly
<1>3. limit[w] \in Limits /\ got[w] \in Replica!Versions
  BY <1>1, ReplicaValues DEF TypeOK
<1>4. cache' = [cache EXCEPT ![limit[w]] = Replica!Copy(got[w])]
  BY <1>2 DEF Keep, Replica!Copy
<1>5. \A t \in Tables : got[w][t] <= tables[t] /\ Current(got[w][t], t)
  BY <1>1, <1>2 DEF ReadsAreCurrent
<1>6. \A t \in Tables : /\ got[w][t] <= tables[t] /\ got[w][t] >= marker.at
                        /\ \A k \in Limits : got[w][t] >= cache[k].rows[t]
  BY <1>5 DEF Current
<1>7. Replica!CatchUp(limit[w])
  BY <1>2, <1>3, <1>4, <1>6 DEF Replica!CatchUp
<1> QED BY <1>3, <1>7

\* At the gate nothing changes but for a failed batch.
LEMMA GateImplements ==
  ASSUME BarrierInv, NEW w \in Workers, Gate(w)
  PROVE  UNCHANGED <<tables, cache, marker>> \/ \E l \in Limits : Replica!Fail(l)
<1>1. UNCHANGED <<tables, marker>> /\ limit[w] \in Limits
  BY DEF Gate, xactly, BarrierInv, LogInv, TypeOK
<1>2. UNCHANGED cache \/ Keep(w, "failed", Nothing)
  BY DEF Gate
<1>3. CASE Keep(w, "failed", Nothing)
  <2>1. cache' = [cache EXCEPT ![limit[w]] = Replica!Failed]
    BY <1>3, ReplicaValues DEF Keep
  <2> QED BY <1>1, <2>1 DEF Replica!Fail
<1> QED BY <1>1, <1>2, <1>3

\* The marker moves to a cycle that is not older and that is shown.
LEMMA PublishImplements ==
  ASSUME BarrierInv, Publish
  PROVE  Replica!Acknowledge
<1>1. watch = "publish" /\ marker' = seen /\ UNCHANGED <<tables, cache>>
  BY DEF Publish, xactly
<1>2. ShownIsCurrent /\ ShownIsThere /\ MarkerInOrder
  BY DEF BarrierInv, DataInv, MarkerInv
<1>3. cache[DefaultLimit].status # "none"
  BY <1>1, <1>2 DEF ShownIsThere
<1>4. seen.at >= marker.at
  BY <1>1, <1>2, Numbers DEF MarkerInOrder, BarrierInv, LogInv
<1>5. cache[DefaultLimit].status = "ok" =>
        \A t \in Tables : cache[DefaultLimit].rows[t] >= seen.at
  BY <1>1, <1>2 DEF ShownIsCurrent
<1> QED BY <1>1, <1>3, <1>4, <1>5 DEF Replica!Acknowledge

LEMMA ReplicaStep ==
  ASSUME BarrierInv, [Next]_vars
  PROVE  [Replica!Next]_(Replica!vars)
<1>1. CASE UNCHANGED <<tables, cache, marker>>
  BY <1>1 DEF Replica!vars
<1>2. CASE \E t \in Tables : Load(t)
  BY <1>2, LoadImplements DEF Replica!Next
<1>3. CASE \E w \in Workers : Store(w)
  BY <1>3, StoreImplements DEF Replica!Next
<1>4. CASE \E w \in Workers : Gate(w)
  BY <1>1, <1>4, GateImplements DEF Replica!Next
<1>5. CASE Publish
  BY <1>5, PublishImplements DEF Replica!Next
<1>6. CASE AppRestarts
  <2>1. Replica!Lose
    BY <1>6, ReplicaValues DEF AppRestarts, Replica!Lose, xactly
  <2> QED BY <2>1 DEF Replica!Next
<1>7. \/ UNCHANGED <<tables, cache, marker>>
      \/ \E t \in Tables : Load(t)
      \/ \E w \in Workers : Store(w) \/ Gate(w)
      \/ Publish \/ AppRestarts
  BY DEF Next, vars, StartScheduler, BeginCycle, SkipCycle, SettleBatch, OpenBatch, CycleRaises,
     EndCycle,
     BeginWait, PassBarrier, Rotate, SchedulerDies, Refresh, ReadTable, RefreshRaises, Request,
     Watch, Poll, StartRefresh, PublishRaises, xactly
<1> QED BY <1>1, <1>2, <1>3, <1>4, <1>5, <1>6, <1>7

\* Every step of the scheduler, the watchdog, the requests and the Obero
\* processes is a step of SnapshotReplica or leaves its state as it was.
THEOREM BarrierImplementsReplica == Spec => ImplementsReplica
<1>1. Init => Replica!Init
  BY ReplicaValues, ConstantTypes DEF Init, Replica!Init, Nothing
<1>2. BarrierInv /\ [Next]_vars => [Replica!Next]_(Replica!vars)
  BY ReplicaStep
<1> QED BY <1>1, <1>2, BarrierInvariant, PTL DEF Spec, ImplementsReplica, Replica!Spec
====
