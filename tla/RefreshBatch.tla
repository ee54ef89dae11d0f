---- MODULE RefreshBatch ----
(***************************************************************************)
(* Refresh-batch coordination (refresh_batch.py), the part of a scheduler  *)
(* cycle that drives it (process_scheduler.run_cycle), and the Obero       *)
(* process of each client that reports back through the control tables.    *)
(*                                                                         *)
(* Every query of a coordinator is a step of its own: the two control      *)
(* tables live in Xactly, no statement spans both, and the client          *)
(* processes and other schedulers write between any two queries.  A batch  *)
(* is named by its rank in STARTED_AT order, so the latest batch is the    *)
(* last one inserted.  The client processes do not know the batch they     *)
(* run for: load[b][k] records which launch an instance came from, and no  *)
(* statement of the instance reads it.                                     *)
(***************************************************************************)
EXTENDS Naturals, FiniteSets

CONSTANTS
  Clients,        \* enabled clients, by monitoring client id
  Coordinators,   \* scheduler processes sharing the control tables
  MaxBatches,     \* bound: batches ever inserted
  MaxAbandons     \* bound: crashes, failed queries and shutdowns

ASSUME BoundsAssumption == MaxBatches \in Nat /\ MaxAbandons \in Nat

ASSUME ClientsAssumption == IsFiniteSet(Clients) /\ Clients # {}

VARIABLES
  inserted,   \* batches inserted so far
  batch,      \* batch[b]: STATUS of its row in delta.cea_refresh_batch
  row,        \* row[b][k]: STATUS of its row in delta.cea_refresh_client
  stale,      \* batches older than the batch timeout
  load,       \* load[b][k]: the Obero instance launched for k in batch b
  pc,         \* pc[c]: the query coordinator c makes next
  cur,        \* cur[c]: the batch c is working on
  verdict,    \* verdict[c]: the status c is about to record for cur[c]
  resume,     \* resume[c]: what c does once cur[c] is settled
  runner,     \* runner[c][k]: what the launcher of client k returned to c
  abandons    \* crashes, failed queries and shutdowns so far

tables == <<inserted, batch, row>>
local  == <<pc, cur, verdict, resume, runner>>
vars   == <<inserted, batch, row, stale, load, pc, cur, verdict, resume,
            runner, abandons>>

Batches == 1..MaxBatches

ActiveRow      == {"PENDING", "IN_PROGRESS"}
FailedRow      == {"FAILED", "TIMED_OUT"}
TerminalRow    == FailedRow \cup {"COMPLETED"}
RowStatus      == {"NONE"} \cup ActiveRow \cup TerminalRow
TerminalBatch  == {"COMPLETED", "FAILED", "TIMED_OUT"}
BatchStatus    == {"NONE", "IN_PROGRESS"} \cup TerminalBatch
LoadPhase      == {"none", "queued", "loading", "loaded", "lost"}
RunnerResult   == {"unlaunched", "ok", "failed"}
Step == {"idle", "reconcile", "finish", "timeoutRows", "timeoutBatch",
         "insertBatch", "insertRows", "launch", "mark", "wait"}

TypeOK ==
  /\ inserted \in 0..MaxBatches
  /\ batch \in [Batches -> BatchStatus]
  /\ row \in [Batches -> [Clients -> RowStatus]]
  /\ stale \in SUBSET Batches
  /\ load \in [Batches -> [Clients -> LoadPhase]]
  /\ pc \in [Coordinators -> Step]
  /\ cur \in [Coordinators -> 0..MaxBatches]
  /\ verdict \in [Coordinators -> TerminalBatch \cup {"none"}]
  /\ resume \in [Coordinators -> {"idle", "insertBatch"}]
  /\ runner \in [Coordinators -> [Clients -> RunnerResult]]
  /\ abandons \in 0..MaxAbandons

Init ==
  /\ inserted = 0
  /\ batch = [b \in Batches |-> "NONE"]
  /\ row = [b \in Batches |-> [k \in Clients |-> "NONE"]]
  /\ stale = {}
  /\ load = [b \in Batches |-> [k \in Clients |-> "none"]]
  /\ pc = [c \in Coordinators |-> "idle"]
  /\ cur = [c \in Coordinators |-> 0]
  /\ verdict = [c \in Coordinators |-> "none"]
  /\ resume = [c \in Coordinators |-> "idle"]
  /\ runner = [c \in Coordinators |-> [k \in Clients |-> "unlaunched"]]
  /\ abandons = 0

----
(* What a reader of the client rows of a batch sees. *)

\* Mutant: a client that has not started counts as failed.
SomeFailedOrPending(b) ==
  \E k \in Clients : row[b][k] \in FailedRow \cup {"PENDING"}

SomeFailed(b) == \E k \in Clients : row[b][k] \in FailedRow

NoRows(b) == \A k \in Clients : row[b][k] = "NONE"

\* Mutant: one completed client completes the batch.
AnyCompleted(b) == \E k \in Clients : row[b][k] = "COMPLETED"

AllCompleted(b) == \A k \in Clients : row[b][k] = "COMPLETED"

\* Rows of one statement: every row of `rows` (a set of <<batch, client>>)
\* whose status is in `from` gets status `to`.
UpdateRows(rows, from, to) ==
  row' = [b \in Batches |-> [k \in Clients |->
            IF <<b, k>> \in rows /\ row[b][k] \in from THEN to ELSE row[b][k]]]

RowsOf(b) == {b} \X Clients

Goto(c, step) == pc' = [pc EXCEPT ![c] = step]

\* c's cycle is over, or its process is: it remembers nothing of the batch.
Forget(c) ==
  /\ cur' = [cur EXCEPT ![c] = 0]
  /\ verdict' = [verdict EXCEPT ![c] = "none"]
  /\ resume' = [resume EXCEPT ![c] = "idle"]
  /\ runner' = [runner EXCEPT ![c] = [k \in Clients |-> "unlaunched"]]

\* c has decided: it records v for its batch, then goes on with `next`.
Settle(c, b, v, next) ==
  /\ cur' = [cur EXCEPT ![c] = b]
  /\ verdict' = [verdict EXCEPT ![c] = v]
  /\ resume' = [resume EXCEPT ![c] = next]

----
(* prepare_batch: settle what an earlier batch left, then open a new one. *)

NewestOpen == inserted > 0 /\ batch[inserted] = "IN_PROGRESS"

\* latest_batch(): only a batch still IN_PROGRESS needs reconciling.
ReadLatest(c) ==
  /\ pc[c] = "idle"
  /\ \/ /\ NewestOpen
        /\ Goto(c, "reconcile")
        /\ cur' = [cur EXCEPT ![c] = inserted]
     \/ /\ ~NewestOpen
        /\ Goto(c, "insertBatch")
        /\ UNCHANGED cur
  /\ UNCHANGED <<tables, stale, load, verdict, resume, runner, abandons>>

\* _reconcile_active_batch: a batch without rows, or with a failed one, is
\* failed; one whose rows are all there and completed is completed.
Reconciled(b) ==
  IF NoRows(b) \/ SomeFailed(b) THEN "FAILED"
  ELSE IF AllCompleted(b) THEN "COMPLETED"
  ELSE "IN_PROGRESS"

\* Mutant: a batch is never too old.
NeverStale(b) == FALSE

IsStale(b) == b \in stale

Reconcile(c) ==
  /\ pc[c] = "reconcile"
  /\ LET b == cur[c]
         found == Reconciled(b)
     IN \/ /\ found # "IN_PROGRESS"
           /\ Settle(c, b, found, "insertBatch")
           /\ Goto(c, "finish")
        \/ /\ found = "IN_PROGRESS" /\ IsStale(b)
           /\ Settle(c, b, "TIMED_OUT", "insertBatch")
           /\ Goto(c, "timeoutRows")
        \/ /\ found = "IN_PROGRESS" /\ ~IsStale(b)   \* prepare_batch returns None
           /\ Goto(c, "idle")
           /\ cur' = [cur EXCEPT ![c] = 0]
           /\ UNCHANGED <<verdict, resume>>
  /\ UNCHANGED <<tables, stale, load, runner, abandons>>

InsertBatch(c) ==
  /\ pc[c] = "insertBatch"
  /\ inserted < MaxBatches
  /\ inserted' = inserted + 1
  /\ batch' = [batch EXCEPT ![inserted + 1] = "IN_PROGRESS"]
  /\ cur' = [cur EXCEPT ![c] = inserted + 1]
  /\ Goto(c, "insertRows")
  /\ UNCHANGED <<row, stale, load, verdict, resume, runner, abandons>>

InsertRows(c) ==
  /\ pc[c] = "insertRows"
  /\ row' = [row EXCEPT ![cur[c]] = [k \in Clients |-> "PENDING"]]
  /\ Goto(c, "launch")
  /\ UNCHANGED <<inserted, batch, stale, load, cur, verdict, resume, runner,
                 abandons>>

\* The insert raised: the batch is failed and the cycle with it.  A helper
\* that timed out may have executed the statement all the same.
InsertRowsFails(c) ==
  /\ pc[c] = "insertRows"
  /\ abandons < MaxAbandons
  /\ abandons' = abandons + 1
  /\ \/ row' = [row EXCEPT ![cur[c]] = [k \in Clients |-> "PENDING"]]
     \/ UNCHANGED row
  /\ Settle(c, cur[c], "FAILED", "idle")
  /\ Goto(c, "finish")
  /\ UNCHANGED <<inserted, batch, stale, load, runner>>

----
(* Recording a decision.  Both statements spare what is already terminal. *)

\* WHERE BATCH_ID = b AND STATUS = 'IN_PROGRESS'
CloseBatch(b, v) ==
  \/ batch[b] = "IN_PROGRESS" /\ batch' = [batch EXCEPT ![b] = v]
  \/ batch[b] # "IN_PROGRESS" /\ UNCHANGED batch

\* _finish_batch
Finish(c) ==
  /\ pc[c] = "finish"
  /\ CloseBatch(cur[c], verdict[c])
  /\ Goto(c, resume[c])
  /\ Forget(c)
  /\ UNCHANGED <<inserted, row, stale, load, abandons>>

\* Mutant: only the clients already loading are timed out.
TimeoutStartedRows(c) ==
  /\ pc[c] = "timeoutRows"
  /\ UpdateRows(RowsOf(cur[c]), {"IN_PROGRESS"}, "TIMED_OUT")
  /\ Goto(c, "timeoutBatch")
  /\ UNCHANGED <<inserted, batch, stale, load, cur, verdict, resume, runner,
                 abandons>>

\* Mutant: every client row is timed out, whatever its status.
TimeoutEveryRow(c) ==
  /\ pc[c] = "timeoutRows"
  /\ UpdateRows(RowsOf(cur[c]), RowStatus, "TIMED_OUT")
  /\ Goto(c, "timeoutBatch")
  /\ UNCHANGED <<inserted, batch, stale, load, cur, verdict, resume, runner,
                 abandons>>

\* _timeout_batch, first statement: the client rows still active.
TimeoutRows(c) ==
  /\ pc[c] = "timeoutRows"
  /\ UpdateRows(RowsOf(cur[c]), ActiveRow, "TIMED_OUT")
  /\ Goto(c, "timeoutBatch")
  /\ UNCHANGED <<inserted, batch, stale, load, cur, verdict, resume, runner,
                 abandons>>

\* Mutant: the rows are timed out and the batch is left as it is.
TimeoutRowsOnly(c) ==
  /\ pc[c] = "timeoutBatch"
  /\ Goto(c, resume[c])
  /\ Forget(c)
  /\ UNCHANGED <<tables, stale, load, abandons>>

\* _timeout_batch, second statement: the batch itself.
TimeoutBatch(c) ==
  /\ pc[c] = "timeoutBatch"
  /\ CloseBatch(cur[c], verdict[c])
  /\ Goto(c, resume[c])
  /\ Forget(c)
  /\ UNCHANGED <<inserted, row, stale, load, abandons>>

----
(* run_cycle: launch every client, mark the failed launchers, wait. *)

\* One client's launcher: its RunProcess request reached Obero or not, and
\* it exited 0 or not.  A launcher killed at its timeout may have submitted.
Launch(c, k) ==
  /\ pc[c] = "launch"
  /\ runner[c][k] = "unlaunched"
  /\ \/ /\ load' = [load EXCEPT ![cur[c]][k] = "queued"]
        /\ runner' = [runner EXCEPT ![c][k] = "ok"]
     \/ /\ load' = [load EXCEPT ![cur[c]][k] = "queued"]
        /\ runner' = [runner EXCEPT ![c][k] = "failed"]
     \/ /\ runner' = [runner EXCEPT ![c][k] = "failed"]
        /\ UNCHANGED load
  /\ UNCHANGED <<tables, stale, pc, cur, verdict, resume, abandons>>

\* The last wave returned, or a shutdown request cut the remaining waves.
LaunchesEnd(c) ==
  /\ pc[c] = "launch"
  /\ \/ /\ \A k \in Clients : runner[c][k] # "unlaunched"
        /\ UNCHANGED abandons
     \/ /\ \E k \in Clients : runner[c][k] = "unlaunched"
        /\ abandons < MaxAbandons
        /\ abandons' = abandons + 1
  /\ Goto(c, "mark")
  /\ UNCHANGED <<tables, stale, load, cur, verdict, resume, runner>>

\* Mutant: the launcher's failure overrides what the client reported.
MarkAnyRunnerFailed(c, k) ==
  /\ pc[c] = "mark"
  /\ runner[c][k] = "failed"
  /\ UpdateRows({<<cur[c], k>>}, RowStatus, "FAILED")
  /\ runner' = [runner EXCEPT ![c][k] = "ok"]
  /\ UNCHANGED <<inserted, batch, stale, load, pc, cur, verdict, resume,
                 abandons>>

\* mark_runner_failed
MarkRunnerFailed(c, k) ==
  /\ pc[c] = "mark"
  /\ runner[c][k] = "failed"
  /\ UpdateRows({<<cur[c], k>>}, ActiveRow, "FAILED")
  /\ runner' = [runner EXCEPT ![c][k] = "ok"]
  /\ UNCHANGED <<inserted, batch, stale, load, pc, cur, verdict, resume,
                 abandons>>

StartWaiting(c) ==
  /\ pc[c] = "mark"
  /\ \A k \in Clients : runner[c][k] # "failed"
  /\ Goto(c, "wait")
  /\ runner' = [runner EXCEPT ![c] = [k \in Clients |-> "unlaunched"]]
  /\ UNCHANGED <<tables, stale, load, cur, verdict, resume, abandons>>

\* wait_for_batch, one poll: any failure decides at once, then completion,
\* then the deadline; a poll that decides nothing changes nothing.
Poll(c) ==
  /\ pc[c] = "wait"
  /\ LET b == cur[c]
     IN \/ /\ SomeFailed(b)
           /\ Settle(c, b, "FAILED", "idle")
           /\ Goto(c, "finish")
        \/ /\ ~SomeFailed(b) /\ AllCompleted(b)
           /\ Settle(c, b, "COMPLETED", "idle")
           /\ Goto(c, "finish")
        \/ /\ ~SomeFailed(b) /\ ~AllCompleted(b) /\ IsStale(b)
           /\ Settle(c, b, "TIMED_OUT", "idle")
           /\ Goto(c, "timeoutRows")
  /\ UNCHANGED <<tables, stale, load, runner, abandons>>

----
(* The coordinator's environment. *)

\* The process dies, or a query raises and run_cycle with it: what was
\* written stays, what was known is gone, and prepare_batch runs again.
Abandon(c) ==
  /\ pc[c] # "idle"
  /\ abandons < MaxAbandons
  /\ abandons' = abandons + 1
  /\ Goto(c, "idle")
  /\ Forget(c)
  /\ UNCHANGED <<tables, stale, load>>

\* A batch outlives CEA_REFRESH_BATCH_TIMEOUT_SECONDS.
GrowsStale(b) ==
  /\ batch[b] = "IN_PROGRESS"
  /\ b \notin stale
  /\ stale' = stale \cup {b}
  /\ UNCHANGED <<tables, load, local, abandons>>

\* "Mark Refresh Started": WHERE clientid = k AND status = 'PENDING'.
LoadStarts(b, k) ==
  /\ load[b][k] = "queued"
  /\ load' = [load EXCEPT ![b][k] = "loading"]
  /\ UpdateRows(Batches \X {k}, {"PENDING"}, "IN_PROGRESS")
  /\ UNCHANGED <<inserted, batch, stale, local, abandons>>

\* "Validate And Complete Client": WHERE clientid = k AND
\* status = 'IN_PROGRESS', COMPLETED if the loaded counts match.
LoadEnds(b, k) ==
  /\ load[b][k] = "loading"
  /\ \/ /\ load' = [load EXCEPT ![b][k] = "loaded"]
        /\ UpdateRows(Batches \X {k}, {"IN_PROGRESS"}, "COMPLETED")
     \/ /\ load' = [load EXCEPT ![b][k] = "lost"]
        /\ UpdateRows(Batches \X {k}, {"IN_PROGRESS"}, "FAILED")
  /\ UNCHANGED <<inserted, batch, stale, local, abandons>>

\* The Obero process stops before its last task and reports nothing.
LoadDies(b, k) ==
  /\ load[b][k] \in {"queued", "loading"}
  /\ load' = [load EXCEPT ![b][k] = "lost"]
  /\ UNCHANGED <<tables, stale, local, abandons>>

----
Coordinate(c) ==
  \/ ReadLatest(c) \/ Reconcile(c) \/ InsertBatch(c) \/ InsertRows(c)
  \/ Finish(c) \/ TimeoutRows(c) \/ TimeoutBatch(c)
  \/ LaunchesEnd(c) \/ StartWaiting(c) \/ Poll(c)
  \/ \E k \in Clients : Launch(c, k) \/ MarkRunnerFailed(c, k)

Next ==
  \/ \E c \in Coordinators :
       Coordinate(c) \/ InsertRowsFails(c) \/ Abandon(c)
  \/ \E b \in Batches :
       \/ GrowsStale(b)
       \/ \E k \in Clients : LoadStarts(b, k) \/ LoadEnds(b, k) \/ LoadDies(b, k)

Spec == Init /\ [][Next]_vars

\* A live scheduler keeps making its next query, and time passes.  Nothing
\* is assumed of the Obero processes: they may never answer.
Fairness ==
  /\ \A c \in Coordinators : WF_vars(Coordinate(c))
  /\ \A b \in Batches : WF_vars(GrowsStale(b))

FairSpec == Spec /\ Fairness

----
(* Safety *)

\* No two refresh batches are open at once, and the open one is the newest:
\* prepare_batch settles what it finds IN_PROGRESS before it inserts, also
\* after a crash between any two of its statements.
OnlyNewestOpen ==
  \A b \in Batches : batch[b] = "IN_PROGRESS" => b = inserted

\* A batch recorded COMPLETED had every client row COMPLETED, and still has:
\* the rows were read one step before the batch was written.
CompletedBatchIsComplete ==
  \A b \in Batches : batch[b] = "COMPLETED" =>
    \A k \in Clients : row[b][k] = "COMPLETED"

\* A timed-out batch leaves no client row for a late Obero process to
\* resurrect: _timeout_batch closes the rows before the batch.
TimedOutLeavesNothingActive ==
  \A b \in Batches : batch[b] = "TIMED_OUT" =>
    \A k \in Clients : row[b][k] \notin ActiveRow

\* A batch that launched anything is FAILED only because a client row is.
FailureHasACause ==
  \A b \in Batches :
    /\ batch[b] = "FAILED"
    /\ \E k \in Clients : load[b][k] # "none"
    => \E k \in Clients : row[b][k] \in FailedRow

\* What a batch or a client row was decided to be is never revised, whoever
\* writes: the coordinator, another scheduler, or a late Obero process.
DecisionsAreFinal ==
  [][\A b \in Batches :
       /\ batch[b] \in TerminalBatch => batch'[b] = batch[b]
       /\ \A k \in Clients :
            row[b][k] \in TerminalRow => row'[b][k] = row[b][k]]_<<batch, row>>

\* A batch launches a client once, whoever crashes and whoever finds the batch
\* open: the Obero instance goes from queued to its end and never starts anew.
LaunchedOnce ==
  [][\A b \in Batches, k \in Clients :
       load[b][k] # "none" =>
         \/ load'[b][k] = load[b][k]
         \/ load[b][k] = "queued" /\ load'[b][k] \in {"loading", "lost"}
         \/ load[b][k] = "loading" /\ load'[b][k] \in {"loaded", "lost"}]_vars

\* A client row is COMPLETED only by an Obero instance of that client that
\* validated its load, if not always by that of its own batch (see below); so
\* behind a COMPLETED batch there is a load of every client.
CompletedBySomeLoad ==
  \A b \in Batches, k \in Clients :
    row[b][k] = "COMPLETED" => \E a \in 1..inserted : load[a][k] = "loaded"

----
(* The control tables implement a commit decision over client votes. *)

Outcome(status) ==
  CASE status = "NONE"        -> "none"
    [] status = "IN_PROGRESS" -> "open"
    [] status = "COMPLETED"   -> "committed"
    [] OTHER                  -> "aborted"

Vote(status) ==
  CASE status = "NONE"        -> "none"
    [] status \in ActiveRow   -> "working"
    [] status = "COMPLETED"   -> "yes"
    [] OTHER                  -> "no"

Commitment == INSTANCE BatchCommit WITH
  outcome <- [b \in Batches |-> Outcome(batch[b])],
  vote    <- [b \in Batches |-> [k \in Clients |-> Vote(row[b][k])]]

\* Every behaviour of coordination is a behaviour of BatchCommit.
ImplementsCommit == Commitment!Spec

----
(* Liveness *)

\* Whatever crashes (finitely often) and whatever the Obero processes do or
\* fail to do, an open batch is decided in the end, by the scheduler that
\* opened it or by one that finds it.
OpenBatchIsDecided == []<>(\A b \in Batches : batch[b] # "IN_PROGRESS")

----
(* What the documentation says, and the code does not do. *)

\* "Overlapping batches are prevented, so only one pending/in-progress row
\* can exist for a client."
OneActiveRowPerClient ==
  \A k \in Clients : Cardinality({b \in Batches : row[b][k] \in ActiveRow}) <= 1

\* A client row marked COMPLETED stands for a load of that batch that ended.
CompletedRowWasLoaded ==
  \A b \in Batches, k \in Clients :
    row[b][k] = "COMPLETED" => load[b][k] = "loaded"
====
