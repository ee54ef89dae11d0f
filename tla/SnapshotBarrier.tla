---- MODULE SnapshotBarrier ----
(***************************************************************************)
(* The barrier between ETL cycles and Application Runs.  The scheduler     *)
(* process ends a cycle, logs "Cycle N complete" and holds the next cycle  *)
(* until the marker file acknowledges cycle N (process_scheduler.py).  The *)
(* application polls that log, rebuilds its model snapshot from Xactly and *)
(* then writes the marker (app.py, service.py).  Dashboard requests        *)
(* rebuild it too, under the same lock.                                    *)
(*                                                                         *)
(* Coordination is enabled: the batch of a cycle gates the reads, and a    *)
(* cycle is logged after its batch was decided.  A cycle that inserts a    *)
(* batch gets the next value of `run`, which stands for the time at which  *)
(* it is logged complete and for the version of the data it loads.         *)
(***************************************************************************)
EXTENDS Naturals, Sequences

CONSTANTS
  Tables,          \* the monitored tables, each loaded and read on its own
  Limits,          \* row limits the dashboard asks for, one cache entry each
  DefaultLimit,    \* DEFAULT_LIMIT, the one the watchdog refreshes
  MaxRuns,         \* bound: batches opened
  MaxIterations,   \* bound: cycle numbers of one scheduler process
  MaxCrashes,      \* bound: scheduler processes that die
  MaxAppRestarts,  \* bound: restarts of the application
  MaxRequests,     \* bound: refreshes asked for by the dashboard
  MaxRaises,       \* bound: cycles and refreshes that raise
  MaxRotations,    \* bound: rollovers of scheduler.log
  MaxWriteErrors   \* bound: marker writes that raise

ASSUME LimitsAssumption == DefaultLimit \in Limits

ASSUME BoundsAssumption ==
  /\ MaxRuns \in Nat /\ MaxIterations \in Nat /\ MaxCrashes \in Nat
  /\ MaxAppRestarts \in Nat /\ MaxRequests \in Nat /\ MaxRaises \in Nat
  /\ MaxRotations \in Nat /\ MaxWriteErrors \in Nat

VARIABLES
  pc, cycle, previous,        \* the scheduler: step, cycle_number, marker read
  run, batch, tables,         \* Xactly: batches opened, STATUS of the newest,
                              \*   the run whose rows each table holds
  log, marker,                \* files: scheduler.log, the snapshot marker
  watch, seen, last,          \* the watchdog task: step, latest_run, last_completed_at
  lock,                       \* who holds _model_refresh_lock
  phase, limit, todo, got,    \* each refresh: step, row limit, tables to read, rows read
  cache,                      \* cache[l]: _run_cache entry for row limit l
  budget                      \* what is left of each bound on failures and requests

scheduler == <<pc, cycle, previous>>
xactly    == <<run, batch, tables>>
watchdog  == <<watch, seen, last>>
refresh   == <<lock, phase, limit, todo, got>>
vars      == <<pc, cycle, previous, run, batch, tables, log, marker, watch, seen,
               last, lock, phase, limit, todo, got, cache, budget>>

Workers == {"watchdog", "request"}

Entries  == [cycle : 0..MaxIterations, at : 0..MaxRuns]
NoEntry  == [cycle |-> 0, at |-> 0]
Versions == [Tables -> 0..MaxRuns]
Nothing  == [t \in Tables |-> 0]

Snapshots  == [status : {"none", "ok", "failed"}, rows : Versions]
NoSnapshot == [status |-> "none", rows |-> Nothing]

Failures == {"crash", "app", "request", "raise", "rotate", "write"}

TypeOK ==
  /\ pc \in {"down", "rest", "prepare", "load", "ended", "wait"}
  /\ cycle \in 0..(MaxIterations + 1)
  /\ previous \in Entries
  /\ run \in 0..MaxRuns
  /\ batch \in {"NO_BATCH", "IN_PROGRESS", "COMPLETED", "FAILED"}
  /\ tables \in Versions
  /\ log \in Seq(Entries)
  /\ marker \in Entries
  /\ watch \in {"poll", "start", "refresh", "publish", "dead"}
  /\ seen \in Entries
  /\ last \in 0..MaxRuns
  /\ lock \in Workers \cup {"free"}
  /\ phase \in [Workers -> {"off", "gate", "read"}]
  /\ limit \in [Workers -> Limits]
  /\ todo \in [Workers -> SUBSET Tables]
  /\ got \in [Workers -> Versions]
  /\ cache \in [Limits -> Snapshots]
  /\ budget \in [Failures -> Nat]

Init ==
  /\ pc = "down" /\ cycle = 0 /\ previous = NoEntry
  /\ run = 0 /\ batch = "NO_BATCH" /\ tables = Nothing
  /\ log = <<>> /\ marker = NoEntry
  /\ watch = "poll" /\ seen = NoEntry /\ last = 0
  /\ lock = "free"
  /\ phase = [w \in Workers |-> "off"]
  /\ limit = [w \in Workers |-> DefaultLimit]
  /\ todo = [w \in Workers |-> {}]
  /\ got = [w \in Workers |-> Nothing]
  /\ cache = [l \in Limits |-> NoSnapshot]
  /\ budget = [f \in Failures |->
       CASE f = "crash" -> MaxCrashes     [] f = "app" -> MaxAppRestarts
         [] f = "request" -> MaxRequests  [] f = "raise" -> MaxRaises
         [] f = "rotate" -> MaxRotations  [] f = "write" -> MaxWriteErrors]

Spend(f) == budget[f] > 0 /\ budget' = [budget EXCEPT ![f] = @ - 1]

----
(* The scheduler process: main() and run_cycle(). *)

\* ensure_scheduler_started: a new process counts its cycles from 1.
StartScheduler ==
  /\ pc = "down"
  /\ pc' = "rest" /\ cycle' = 1
  /\ previous' = NoEntry
  /\ UNCHANGED <<xactly, log, marker, watchdog, refresh, cache, budget>>

\* The marker is read before the cycle runs.
BeginCycle ==
  /\ pc = "rest" /\ cycle <= MaxIterations
  /\ pc' = "prepare"
  /\ previous' = marker
  /\ UNCHANGED <<cycle, xactly, log, marker, watchdog, refresh, cache, budget>>

\* cycle_number += 1
NextCycle ==
  /\ cycle' = cycle + 1
  /\ pc' = "rest"

\* prepare_batch found a batch in progress: nothing runs, nothing is awaited.
SkipCycle ==
  /\ pc = "prepare" /\ batch = "IN_PROGRESS"
  /\ NextCycle
  /\ UNCHANGED <<previous, xactly, log, marker, watchdog, refresh, cache, budget>>

\* Mutant: the batch is recorded completed while tables are still loading.
SettleBatchEarly ==
  /\ pc \in {"prepare", "load"} /\ batch = "IN_PROGRESS"
  /\ batch' \in {"COMPLETED", "FAILED"}
  /\ UNCHANGED <<scheduler, run, tables, log, marker, watchdog, refresh, cache,
                 budget>>

\* The batch left in progress is reconciled or timed out by prepare_batch, the
\* cycle's own is decided by wait_for_batch.
SettleBatch ==
  /\ pc \in {"prepare", "load"} /\ batch = "IN_PROGRESS"
  /\ \/ batch' = "COMPLETED" /\ \A t \in Tables : tables[t] = run
     \/ batch' = "FAILED"
  /\ UNCHANGED <<scheduler, run, tables, log, marker, watchdog, refresh, cache,
                 budget>>

\* prepare_batch found no batch in progress, or settled it, and opens one.
OpenBatch ==
  /\ pc = "prepare" /\ batch # "IN_PROGRESS"
  /\ run < MaxRuns
  /\ run' = run + 1
  /\ batch' = "IN_PROGRESS"
  /\ pc' = "load"
  /\ UNCHANGED <<cycle, previous, tables, log, marker, watchdog, refresh, cache,
                 budget>>

\* run_cycle raised: no line is logged, nothing is awaited, and the batch
\* stays as it is, settled or not.
CycleRaises ==
  /\ pc \in {"prepare", "load"}
  /\ Spend("raise")
  /\ NextCycle
  /\ UNCHANGED <<previous, xactly, log, marker, watchdog, refresh, cache>>

\* wait_for_batch has decided the batch: the cycle is logged complete.
EndCycle ==
  /\ pc = "load" /\ batch # "IN_PROGRESS"
  /\ log' = Append(log, [cycle |-> cycle, at |-> run])
  /\ pc' = "ended"
  /\ UNCHANGED <<cycle, previous, xactly, marker, watchdog, refresh, cache, budget>>

\* Mutant: the previous marker is the one found when the wait begins.
BeginWaitMarked ==
  /\ pc = "ended"
  /\ pc' = "wait"
  /\ previous' = marker
  /\ UNCHANGED <<cycle, xactly, log, marker, watchdog, refresh, cache, budget>>

\* "Waiting for Application Runs processing": the last line until it is done.
BeginWait ==
  /\ pc = "ended"
  /\ pc' = "wait"
  /\ UNCHANGED <<cycle, previous, xactly, log, marker, watchdog, refresh, cache,
                 budget>>

\* Mutant: an acknowledgement of the cycle before will do.
PassOneBehind ==
  /\ pc = "wait"
  /\ marker.cycle + 1 >= cycle
  /\ NextCycle
  /\ UNCHANGED <<previous, xactly, log, marker, watchdog, refresh, cache, budget>>

\* wait_for_model_snapshot returns.
PassBarrier ==
  /\ pc = "wait"
  /\ marker.cycle = cycle /\ marker # previous
  /\ NextCycle
  /\ UNCHANGED <<previous, xactly, log, marker, watchdog, refresh, cache, budget>>

\* RotatingFileHandler rolls over on a line it is about to write: readers of
\* scheduler.log see none of the earlier lines.
Rotate ==
  /\ pc \in {"rest", "prepare", "load", "ended"}
  /\ log # <<>>
  /\ Spend("rotate")
  /\ log' = <<>>
  /\ UNCHANGED <<scheduler, xactly, marker, watchdog, refresh, cache>>

SchedulerDies ==
  /\ pc # "down"
  /\ Spend("crash")
  /\ pc' = "down" /\ cycle' = 0 /\ previous' = NoEntry
  /\ UNCHANGED <<xactly, log, marker, watchdog, refresh, cache>>

\* The Obero process of a client loads its rows; it may do so late.
Load(t) ==
  /\ run > 0 /\ tables[t] # run
  /\ tables' = [tables EXCEPT ![t] = run]
  /\ UNCHANGED <<scheduler, run, batch, log, marker, watchdog, refresh, cache,
                 budget>>

----
(* refresh_model_snapshot, by the watchdog or by a request's thread. *)

Begin(w, l) ==
  /\ phase' = [phase EXCEPT ![w] = "gate"]
  /\ limit' = [limit EXCEPT ![w] = l]
  /\ UNCHANGED <<todo, got>>

\* Mutant: refreshes overlap.
AcquireShared(w, l) ==
  /\ phase[w] = "off"
  /\ lock' = w
  /\ Begin(w, l)

\* acquire(blocking=False) succeeds
Acquire(w, l) ==
  /\ lock = "free"
  /\ lock' = w
  /\ Begin(w, l)

Release(w) ==
  /\ lock' = "free"
  /\ phase' = [phase EXCEPT ![w] = "off"]
  /\ todo' = [todo EXCEPT ![w] = {}]
  /\ got' = [got EXCEPT ![w] = Nothing]
  /\ UNCHANGED limit

\* True lets the watchdog publish, False sends it back to its next poll.
Report(w, refreshed) ==
  IF w = "watchdog"
  THEN watch' = (IF refreshed THEN "publish" ELSE "poll") /\ UNCHANGED <<seen, last>>
  ELSE UNCHANGED watchdog

Keep(w, status, rows) ==
  cache' = [cache EXCEPT ![limit[w]] = [status |-> status, rows |-> rows]]

\* load_selected_model_context: the newest batch decides.  A failed batch is
\* itself the snapshot; one in progress is not kept and not acknowledged.
Gate(w) ==
  /\ phase[w] = "gate"
  /\ \/ /\ batch = "COMPLETED"
        /\ phase' = [phase EXCEPT ![w] = "read"]
        /\ todo' = [todo EXCEPT ![w] = Tables]
        /\ UNCHANGED <<lock, limit, got, watchdog, cache>>
     \/ /\ batch = "FAILED"
        /\ Keep(w, "failed", Nothing) /\ Release(w) /\ Report(w, TRUE)
     \/ /\ batch \in {"IN_PROGRESS", "NO_BATCH"}
        /\ Release(w) /\ Report(w, FALSE)
        /\ UNCHANGED cache
  /\ UNCHANGED <<scheduler, xactly, log, marker, budget>>

\* query_xactly_tables: the tables are queried in parallel.
ReadTable(w, t) ==
  /\ phase[w] = "read" /\ t \in todo[w]
  /\ got' = [got EXCEPT ![w][t] = tables[t]]
  /\ todo' = [todo EXCEPT ![w] = @ \ {t}]
  /\ UNCHANGED <<scheduler, xactly, log, marker, watchdog, lock, phase, limit,
                 cache, budget>>

Store(w) ==
  /\ phase[w] = "read" /\ todo[w] = {}
  /\ Keep(w, "ok", got[w]) /\ Release(w) /\ Report(w, TRUE)
  /\ UNCHANGED <<scheduler, xactly, log, marker, budget>>

\* Mutant: a refresh that failed counts as done.
RefreshRaisesDone(w) ==
  /\ phase[w] # "off"
  /\ Spend("raise")
  /\ Release(w) /\ Report(w, TRUE)
  /\ UNCHANGED <<scheduler, xactly, log, marker, cache>>

RefreshRaises(w) ==
  /\ phase[w] # "off"
  /\ Spend("raise")
  /\ Release(w) /\ Report(w, FALSE)
  /\ UNCHANGED <<scheduler, xactly, log, marker, cache>>

\* model_snapshot: a request starts a refresh; if one runs it has no effect.
Request(l) ==
  /\ phase["request"] = "off"
  /\ Spend("request")
  /\ Acquire("request", l)
  /\ UNCHANGED <<scheduler, xactly, log, marker, watchdog, cache>>

----
(* _model_snapshot_watchdog *)

Latest == log[Len(log)]

\* Mutant: a cycle that was seen is not looked at again, published or not.
PollOnce ==
  /\ watch = "poll"
  /\ log # <<>> /\ Latest.at # last
  /\ watch' = "start" /\ seen' = Latest /\ last' = Latest.at
  /\ UNCHANGED <<scheduler, xactly, log, marker, refresh, cache, budget>>

\* load_etl_run_history: a cycle completed since the last one published.
Poll ==
  /\ watch = "poll"
  /\ log # <<>> /\ Latest.at # last
  /\ watch' = "start" /\ seen' = Latest
  /\ UNCHANGED <<scheduler, xactly, log, marker, last, refresh, cache, budget>>

\* The forced refresh; another one in the way sends it back to its poll.
StartRefresh ==
  /\ watch = "start"
  /\ \/ Acquire("watchdog", DefaultLimit) /\ watch' = "refresh"
     \/ lock # "free" /\ watch' = "poll" /\ UNCHANGED refresh
  /\ UNCHANGED <<scheduler, xactly, log, marker, seen, last, cache, budget>>

\* Mutant: the log is read again for the cycle to acknowledge.
PublishLatest ==
  /\ watch = "publish" /\ log # <<>>
  /\ marker' = Latest /\ last' = Latest.at
  /\ watch' = "poll"
  /\ UNCHANGED <<scheduler, xactly, log, seen, refresh, cache, budget>>

\* publish_model_snapshot_complete: the marker file is replaced at once.
Publish ==
  /\ watch = "publish"
  /\ marker' = seen /\ last' = seen.at
  /\ watch' = "poll"
  /\ UNCHANGED <<scheduler, xactly, log, seen, refresh, cache, budget>>

\* The write raises, and with it the task: nobody awaits or restarts it.
PublishRaises ==
  /\ watch = "publish"
  /\ Spend("write")
  /\ watch' = "dead"
  /\ UNCHANGED <<scheduler, xactly, log, marker, seen, last, refresh, cache>>

\* The application ends, stopping its scheduler, and starts again.
AppRestarts ==
  /\ Spend("app")
  /\ pc' = "down" /\ cycle' = 0 /\ previous' = NoEntry
  /\ watch' = "poll" /\ seen' = NoEntry /\ last' = 0
  /\ lock' = "free"
  /\ phase' = [w \in Workers |-> "off"]
  /\ limit' = [w \in Workers |-> DefaultLimit]
  /\ todo' = [w \in Workers |-> {}]
  /\ got' = [w \in Workers |-> Nothing]
  /\ cache' = [l \in Limits |-> NoSnapshot]
  /\ UNCHANGED <<xactly, log, marker>>

----
Refresh(w) ==
  Gate(w) \/ Store(w) \/ \E t \in Tables : ReadTable(w, t)

Watch == Poll \/ StartRefresh \/ Publish

Next ==
  \/ StartScheduler \/ BeginCycle \/ SkipCycle \/ OpenBatch \/ CycleRaises
  \/ SettleBatch \/ EndCycle \/ BeginWait \/ PassBarrier \/ Rotate \/ SchedulerDies
  \/ \E t \in Tables : Load(t)
  \/ \E w \in Workers : Refresh(w) \/ RefreshRaises(w)
  \/ \E l \in Limits : Request(l)
  \/ Watch \/ PublishRaises \/ AppRestarts

Spec == Init /\ [][Next]_vars

\* The watchdog task and the refresh threads keep running and their queries
\* return; the scheduler polls the marker.
Fairness ==
  /\ WF_vars(BeginWait) /\ WF_vars(PassBarrier)
  /\ WF_vars(Watch)
  /\ \A w \in Workers : WF_vars(Refresh(w))

FairSpec == Spec /\ Fairness

----
(* Safety *)

\* What the marker acknowledges the dashboard shows: the snapshot in the
\* cache was built from the data of that cycle or of a later one, or says
\* that the refresh failed.
AcknowledgedIsShown ==
  cache[DefaultLimit].status = "ok" =>
    \A t \in Tables : cache[DefaultLimit].rows[t] >= marker.at

\* A refresh never replaces a snapshot by one built from older rows,
\* although requests and the watchdog refresh the same entry.
CacheNeverGoesBack ==
  [][\A l \in Limits :
       cache[l].status = "ok" /\ cache'[l].status = "ok" =>
         \A t \in Tables : cache'[l].rows[t] >= cache[l].rows[t]]_cache

Passes == pc = "wait" /\ pc' = "rest"

\* "Hold the next ETL until Application Runs acknowledges this cycle."
HeldUntilAcknowledged ==
  [][Passes => marker = [cycle |-> cycle, at |-> run]]_vars

\* No scheduler process has died or been stopped so far.
FirstScheduler == budget["crash"] = MaxCrashes /\ budget["app"] = MaxAppRestarts

\* The first scheduler process is held until its own cycle is acknowledged.
\* (A later one counts its cycles from 1 again.)
FirstHeldUntilAcknowledged ==
  [][Passes /\ FirstScheduler => marker = [cycle |-> cycle, at |-> run]]_vars

\* When it goes on, the dashboard shows the cycle it just ended, every table
\* of it from that cycle and none from the next, or its failure.
PassesWithWholeSnapshot ==
  [][Passes /\ FirstScheduler =>
       \/ cache[DefaultLimit].status = "failed"
       \/ /\ cache[DefaultLimit].status = "ok"
          /\ \A t \in Tables : cache[DefaultLimit].rows[t] = run]_vars

\* While the scheduler waits, the end of its cycle is not lost on the way to
\* the marker: it is acknowledged, or it is the latest line of the log and the
\* watchdog has yet to see it or is at work.
CompletionIsNotLost ==
  pc = "wait" /\ log # <<>> /\ watch # "dead" =>
    \/ marker.cycle = cycle /\ marker # previous
    \/ /\ Latest = [cycle |-> cycle, at |-> run]
       /\ watch = "poll" => last # Latest.at

\* The abstract state: tables, cache and the run that the marker names.
Replica == INSTANCE SnapshotReplica WITH
  source <- tables, shown <- cache, acknowledged <- marker.at

\* Dashboard, watchdog and marker together are a lagging copy of the tables
\* that never goes back and acknowledges nothing it does not show.
ImplementsReplica == Replica!Spec

----
(* Liveness *)

\* A scheduler that waits goes on, after refreshes that raised, were in each
\* other's way or died with the application; unless scheduler.log rolled over,
\* so that the watchdog does not see that the cycle has ended, or the watchdog
\* ended with a marker write.
BarrierOpens ==
  pc = "wait" ~> (pc # "wait" \/ log = <<>> \/ watch = "dead")
====
