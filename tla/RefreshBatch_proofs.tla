---- MODULE RefreshBatch_proofs ----
(***************************************************************************)
(* Proofs about RefreshBatch, for any set of clients, any number of        *)
(* schedulers sharing the tables, and any bounds.                          *)
(***************************************************************************)
EXTENDS RefreshBatch, TLAPS

----
(***************************************************************************)
(* Type correctness.  TypeOK is not inductive: Finish writes verdict[c]    *)
(* into the table, and cur[c] names the row, so a coordinator that is past *)
(* prepare_batch must have a batch, and one that records a decision must   *)
(* have made it.                                                           *)
(***************************************************************************)
Working == Step \ {"idle", "insertBatch"}

Recording == {"finish", "timeoutRows", "timeoutBatch"}

HasBatch ==
  \A c \in Coordinators : pc[c] \in Working => cur[c] \in 1..inserted

HasDecided ==
  \A c \in Coordinators :
    /\ pc[c] = "finish" => verdict[c] \in {"COMPLETED", "FAILED"}
    /\ pc[c] \in {"timeoutRows", "timeoutBatch"} => verdict[c] = "TIMED_OUT"

TypeInv == TypeOK /\ HasBatch /\ HasDecided

LEMMA InitTypeInv == Init => TypeInv
  BY BoundsAssumption
     DEF Init, TypeInv, TypeOK, HasBatch, HasDecided, Working, Batches,
         BatchStatus, RowStatus, LoadPhase, Step, RunnerResult

LEMMA WorkingBatch ==
  ASSUME TypeInv, NEW c \in Coordinators,
         pc[c] \in Step, pc[c] # "idle", pc[c] # "insertBatch"
  PROVE  cur[c] \in 1..inserted /\ cur[c] \in Batches
<1>1. cur[c] \in 1..inserted /\ inserted \in 0..MaxBatches
  BY DEF TypeInv, TypeOK, HasBatch, Working
<1>2. QED
  BY <1>1, BoundsAssumption DEF Batches

LEMMA UpdateRowsType ==
  ASSUME NEW rows, NEW from, NEW to \in RowStatus,
         row \in [Batches -> [Clients -> RowStatus]], UpdateRows(rows, from, to)
  PROVE  row' \in [Batches -> [Clients -> RowStatus]]
  BY DEF UpdateRows

LEMMA TableExcept ==
  ASSUME NEW S, NEW T, NEW V, NEW f \in [S -> [T -> V]],
         NEW x \in S, NEW y \in T, NEW v \in V
  PROVE  [f EXCEPT ![x][y] = v] \in [S -> [T -> V]]
<1>1. [f[x] EXCEPT ![y] = v] \in [T -> V]
  OBVIOUS
<1>2. QED
  BY <1>1

LEMMA NewRowsType ==
  ASSUME NEW b, row \in [Batches -> [Clients -> RowStatus]],
         row' = [row EXCEPT ![b] = [k \in Clients |-> "PENDING"]]
  PROVE  row' \in [Batches -> [Clients -> RowStatus]]
  BY DEF RowStatus, ActiveRow

LEMMA CloseBatchType ==
  ASSUME NEW b, NEW v \in BatchStatus,
         batch \in [Batches -> BatchStatus], CloseBatch(b, v)
  PROVE  batch' \in [Batches -> BatchStatus]
  BY DEF CloseBatch

LEMMA ReconciledCases ==
  ASSUME NEW b
  PROVE  /\ Reconciled(b) \in {"FAILED", "COMPLETED", "IN_PROGRESS"}
         /\ Reconciled(b) = "COMPLETED" => AllCompleted(b) /\ ~NoRows(b)
         /\ Reconciled(b) = "IN_PROGRESS" => ~NoRows(b)
  BY DEF Reconciled

LEMMA NextTypeInv == TypeInv /\ [Next]_vars => TypeInv'
<1> SUFFICES ASSUME TypeInv, [Next]_vars PROVE TypeInv'
  OBVIOUS
<1> USE BoundsAssumption
    DEF TypeInv, TypeOK, HasBatch, HasDecided, Working, Batches, tables, local,
        Goto, Forget, Settle, Step
<1>1. ASSUME NEW c \in Coordinators, ReadLatest(c) PROVE TypeInv'
  <2>1. CASE NewestOpen
    <3>1. inserted \in 1..inserted /\ pc' = [pc EXCEPT ![c] = "reconcile"]
      BY <1>1, <2>1 DEF ReadLatest, NewestOpen
    <3>2. QED
      BY <1>1, <2>1, <3>1 DEF ReadLatest
  <2>2. CASE ~NewestOpen
    BY <1>1, <2>2 DEF ReadLatest
  <2>3. QED
    BY <2>1, <2>2
<1>2. ASSUME NEW c \in Coordinators, Reconcile(c) PROVE TypeInv'
  <2>1. cur[c] \in 1..inserted
    BY <1>2 DEF Reconcile
  <2>2. CASE Settle(c, cur[c], Reconciled(cur[c]), "insertBatch") /\ Goto(c, "finish")
             /\ Reconciled(cur[c]) # "IN_PROGRESS"
    BY <1>2, <2>1, <2>2, ReconciledCases DEF Reconcile, TerminalBatch
  <2>3. CASE Settle(c, cur[c], "TIMED_OUT", "insertBatch") /\ Goto(c, "timeoutRows")
    BY <1>2, <2>1, <2>3 DEF Reconcile, TerminalBatch
  <2>4. CASE Goto(c, "idle") /\ cur' = [cur EXCEPT ![c] = 0] /\ UNCHANGED <<verdict, resume>>
    BY <1>2, <2>1, <2>4 DEF Reconcile
  <2>5. QED
    BY <1>2, <2>2, <2>3, <2>4 DEF Reconcile
<1>3. ASSUME NEW c \in Coordinators, InsertBatch(c) PROVE TypeInv'
  BY <1>3 DEF InsertBatch, BatchStatus
<1>4. ASSUME NEW c \in Coordinators, InsertRows(c) PROVE TypeInv'
  BY <1>4 DEF InsertRows, RowStatus, ActiveRow
<1>5. ASSUME NEW c \in Coordinators, InsertRowsFails(c) PROVE TypeInv'
  <2>1. row' \in [Batches -> [Clients -> RowStatus]]
    BY <1>5, NewRowsType DEF InsertRowsFails
  <2>2. QED
    BY <1>5, <2>1 DEF InsertRowsFails, TerminalBatch
<1>6. ASSUME NEW c \in Coordinators, Finish(c) PROVE TypeInv'
  BY <1>6, CloseBatchType DEF Finish, BatchStatus, TerminalBatch, RunnerResult
<1>7. ASSUME NEW c \in Coordinators, TimeoutRows(c) PROVE TypeInv'
  BY <1>7, UpdateRowsType DEF TimeoutRows, RowStatus, TerminalRow, FailedRow
<1>8. ASSUME NEW c \in Coordinators, TimeoutBatch(c) PROVE TypeInv'
  BY <1>8, CloseBatchType
     DEF TimeoutBatch, BatchStatus, TerminalBatch, RunnerResult
<1>9. ASSUME NEW c \in Coordinators, NEW k \in Clients, Launch(c, k)
      PROVE TypeInv'
  <2>1. load' \in [Batches -> [Clients -> LoadPhase]]
    <3>1. cur[c] \in Batches
      <4>1. pc[c] = "launch"
        BY <1>9 DEF Launch
      <4>2. QED
        BY <4>1, WorkingBatch
    <3>2. "queued" \in LoadPhase
      BY DEF LoadPhase
    <3>3. [load EXCEPT ![cur[c]][k] = "queued"] \in [Batches -> [Clients -> LoadPhase]]
      BY <3>1, <3>2, TableExcept
    <3>4. QED
      BY <1>9, <3>3 DEF Launch
  <2>2. runner' \in [Coordinators -> [Clients -> RunnerResult]]
    <3>1. \A r \in {"ok", "failed"} :
            [runner EXCEPT ![c][k] = r] \in [Coordinators -> [Clients -> RunnerResult]]
      <4>1. {"ok", "failed"} \subseteq RunnerResult
        BY DEF RunnerResult
      <4>2. QED
        BY <4>1, TableExcept
    <3>2. QED
      BY <1>9, <3>1 DEF Launch
  <2>3. QED
    BY <1>9, <2>1, <2>2 DEF Launch
<1>10. ASSUME NEW c \in Coordinators, LaunchesEnd(c) PROVE TypeInv'
  BY <1>10 DEF LaunchesEnd
<1>11. ASSUME NEW c \in Coordinators, NEW k \in Clients, MarkRunnerFailed(c, k)
       PROVE TypeInv'
  BY <1>11, UpdateRowsType
     DEF MarkRunnerFailed, RunnerResult, RowStatus, TerminalRow, FailedRow
<1>12. ASSUME NEW c \in Coordinators, StartWaiting(c) PROVE TypeInv'
  BY <1>12 DEF StartWaiting, RunnerResult
<1>13. ASSUME NEW c \in Coordinators, Poll(c) PROVE TypeInv'
  <2>1. cur[c] \in 1..inserted
    BY <1>13 DEF Poll
  <2>2. PICK v \in TerminalBatch, s \in {"finish", "timeoutRows"} :
          /\ Settle(c, cur[c], v, "idle") /\ Goto(c, s)
          /\ s = "finish" <=> v # "TIMED_OUT"
    BY <1>13 DEF Poll, TerminalBatch
  <2>3. QED
    BY <1>13, <2>1, <2>2 DEF Poll, TerminalBatch
<1>14. ASSUME NEW c \in Coordinators, Abandon(c) PROVE TypeInv'
  BY <1>14 DEF Abandon, RunnerResult
<1>15. ASSUME NEW b \in Batches, GrowsStale(b) PROVE TypeInv'
  BY <1>15 DEF GrowsStale
<1>16. ASSUME NEW b \in Batches, NEW k \in Clients, LoadStarts(b, k)
       PROVE TypeInv'
  BY <1>16, UpdateRowsType DEF LoadStarts, LoadPhase, RowStatus, ActiveRow
<1>17. ASSUME NEW b \in Batches, NEW k \in Clients, LoadEnds(b, k)
       PROVE TypeInv'
  <2>1. row' \in [Batches -> [Clients -> RowStatus]]
    BY <1>17, UpdateRowsType DEF LoadEnds, RowStatus, TerminalRow, FailedRow
  <2>2. QED
    <3>1. load' \in [Batches -> [Clients -> LoadPhase]]
      <4>1. \A p \in {"loaded", "lost"} :
              [load EXCEPT ![b][k] = p] \in [Batches -> [Clients -> LoadPhase]]
        BY TableExcept DEF LoadPhase
      <4>2. QED
        BY <1>17, <4>1 DEF LoadEnds
    <3>2. QED
      BY <1>17, <2>1, <3>1 DEF LoadEnds
<1>18. ASSUME NEW b \in Batches, NEW k \in Clients, LoadDies(b, k)
       PROVE TypeInv'
  BY <1>18 DEF LoadDies, LoadPhase
<1>19. CASE UNCHANGED vars
  BY <1>19 DEF vars
<1>20. QED
  BY <1>1, <1>2, <1>3, <1>4, <1>5, <1>6, <1>7, <1>8, <1>9, <1>10, <1>11,
     <1>12, <1>13, <1>14, <1>15, <1>16, <1>17, <1>18, <1>19
     DEF Next, Coordinate

LEMMA TypeInvariance == Spec => []TypeInv
  BY InitTypeInv, NextTypeInv, PTL DEF Spec

\* Every variable keeps its type: in particular no coordinator ever writes a
\* status it has not decided on, or into a batch it does not have.
THEOREM TypeCorrect == Spec => []TypeOK
  BY TypeInvariance, PTL DEF TypeInv

----
(***************************************************************************)
(* What one step does to the two tables.  These summaries are the only     *)
(* place where the safety proofs look at the actions.                      *)
(***************************************************************************)
Inserting(b) ==
  \E c \in Coordinators :
    pc[c] = "insertRows" /\ pc'[c] # "insertRows" /\ cur[c] = b

\* A client row is created with its batch's other rows, then moves between
\* the active statuses until it is terminal, and then never again.
RowStep(b, k) ==
  \/ row'[b][k] = row[b][k]
  \/ row[b][k] \in ActiveRow /\ row'[b][k] \in ActiveRow \cup TerminalRow
  \/ /\ Inserting(b)
     /\ \A j \in Clients : row'[b][j] = "PENDING"

LEMMA UpdateRowsStep ==
  ASSUME NEW rows, NEW from, NEW to \in ActiveRow \cup TerminalRow,
         from \subseteq ActiveRow, UpdateRows(rows, from, to),
         NEW b \in Batches, NEW k \in Clients
  PROVE  RowStep(b, k)
  BY DEF UpdateRows, RowStep

LEMMA NewRowsStep ==
  ASSUME TypeInv, NEW c \in Coordinators,
         pc[c] = "insertRows", pc'[c] # "insertRows",
         row' = [row EXCEPT ![cur[c]] = [j \in Clients |-> "PENDING"]],
         NEW b \in Batches, NEW k \in Clients
  PROVE  RowStep(b, k)
<1>1. CASE b = cur[c]
  <2>1. row'[b] = [j \in Clients |-> "PENDING"]
    BY <1>1 DEF TypeInv, TypeOK
  <2>2. QED
    BY <1>1, <2>1 DEF RowStep, Inserting
<1>2. CASE b # cur[c]
  BY <1>2 DEF TypeInv, TypeOK, RowStep
<1>3. QED
  BY <1>1, <1>2

LEMMA RowsStep ==
  ASSUME TypeInv, [Next]_vars, NEW b \in Batches, NEW k \in Clients
  PROVE  RowStep(b, k)
<1>1. CASE UNCHANGED row
  BY <1>1 DEF RowStep
<1>2. ASSUME NEW c \in Coordinators, InsertRows(c) \/ InsertRowsFails(c)
      PROVE  RowStep(b, k)
  <2>1. pc[c] = "insertRows" /\ pc'[c] # "insertRows"
    BY <1>2 DEF InsertRows, InsertRowsFails, Goto, TypeInv, TypeOK
  <2>2. QED
    BY <1>1, <1>2, <2>1, NewRowsStep DEF InsertRows, InsertRowsFails
<1>3. ASSUME NEW c \in Coordinators, TimeoutRows(c) PROVE RowStep(b, k)
  BY <1>3, UpdateRowsStep DEF TimeoutRows, TerminalRow, FailedRow
<1>4. ASSUME NEW c \in Coordinators, NEW j \in Clients, MarkRunnerFailed(c, j)
      PROVE  RowStep(b, k)
  BY <1>4, UpdateRowsStep DEF MarkRunnerFailed, TerminalRow, FailedRow
<1>5. ASSUME NEW a \in Batches, NEW j \in Clients, LoadStarts(a, j)
      PROVE  RowStep(b, k)
  BY <1>5, UpdateRowsStep DEF LoadStarts, ActiveRow
<1>6. ASSUME NEW a \in Batches, NEW j \in Clients, LoadEnds(a, j)
      PROVE  RowStep(b, k)
  BY <1>6, UpdateRowsStep DEF LoadEnds, ActiveRow, TerminalRow, FailedRow
<1>7. QED
  <2>1. ASSUME NEW c \in Coordinators,
               \/ ReadLatest(c) \/ Reconcile(c) \/ InsertBatch(c) \/ Finish(c)
               \/ TimeoutBatch(c) \/ LaunchesEnd(c) \/ StartWaiting(c)
               \/ Poll(c) \/ Abandon(c) \/ \E j \in Clients : Launch(c, j)
        PROVE  UNCHANGED row
    BY <2>1 DEF tables, ReadLatest, Reconcile, InsertBatch, Finish,
                TimeoutBatch, LaunchesEnd, StartWaiting, Poll, Abandon, Launch
  <2>2. ASSUME NEW a \in Batches,
               GrowsStale(a) \/ \E j \in Clients : LoadDies(a, j)
        PROVE  UNCHANGED row
    BY <2>2 DEF tables, GrowsStale, LoadDies
  <2>3. CASE UNCHANGED vars
    BY <2>3 DEF vars, RowStep
  <2>4. CASE Next
    BY <1>1, <1>2, <1>3, <1>4, <1>5, <1>6, <2>1, <2>2, <2>4
       DEF Next, Coordinate
  <2>5. QED
    BY <2>3, <2>4

\* A batch is created by the insertion of the newest, and closed by a
\* coordinator that holds a decision about it.
BatchStep(b) ==
  \/ batch'[b] = batch[b]
  \/ b = inserted + 1 /\ inserted' = b /\ batch'[b] = "IN_PROGRESS"
  \/ /\ batch[b] = "IN_PROGRESS"
     /\ \E c \in Coordinators :
          /\ pc[c] \in {"finish", "timeoutBatch"}
          /\ cur[c] = b
          /\ batch'[b] = verdict[c]

LEMMA BatchesStep ==
  ASSUME TypeInv, [Next]_vars, NEW b \in Batches
  PROVE  BatchStep(b)
<1>1. CASE UNCHANGED batch
  BY <1>1 DEF BatchStep
<1>2. ASSUME NEW c \in Coordinators, InsertBatch(c) PROVE BatchStep(b)
  <2>1. inserted + 1 \in Batches /\ inserted' = inserted + 1
    BY <1>2, BoundsAssumption DEF InsertBatch, TypeInv, TypeOK, Batches
  <2>2. batch' = [batch EXCEPT ![inserted + 1] = "IN_PROGRESS"]
    BY <1>2 DEF InsertBatch
  <2>3. QED
    BY <2>1, <2>2 DEF TypeInv, TypeOK, BatchStep
<1>3. ASSUME NEW c \in Coordinators, pc[c] \in {"finish", "timeoutBatch"},
             CloseBatch(cur[c], verdict[c])
      PROVE  BatchStep(b)
  BY <1>3 DEF CloseBatch, TypeInv, TypeOK, BatchStep
<1>4. ASSUME NEW c \in Coordinators, Finish(c) \/ TimeoutBatch(c)
      PROVE  BatchStep(b)
  BY <1>3, <1>4 DEF Finish, TimeoutBatch
<1>5. ASSUME NEW c \in Coordinators,
             \/ ReadLatest(c) \/ Reconcile(c) \/ InsertRows(c)
             \/ InsertRowsFails(c) \/ TimeoutRows(c) \/ LaunchesEnd(c)
             \/ StartWaiting(c) \/ Poll(c) \/ Abandon(c)
             \/ \E k \in Clients : Launch(c, k) \/ MarkRunnerFailed(c, k)
      PROVE  UNCHANGED batch
  BY <1>5 DEF tables, ReadLatest, Reconcile, InsertRows, InsertRowsFails,
              TimeoutRows, LaunchesEnd, StartWaiting, Poll, Abandon, Launch,
              MarkRunnerFailed
<1>6. ASSUME NEW a \in Batches,
             \/ GrowsStale(a)
             \/ \E k \in Clients : LoadStarts(a, k) \/ LoadEnds(a, k) \/ LoadDies(a, k)
      PROVE  UNCHANGED batch
  BY <1>6 DEF tables, GrowsStale, LoadStarts, LoadEnds, LoadDies
<1>7. CASE UNCHANGED vars
  BY <1>1, <1>7 DEF vars
<1>8. CASE Next
  BY <1>1, <1>2, <1>4, <1>5, <1>6, <1>8 DEF Next, Coordinate
<1>9. QED
  BY <1>7, <1>8

LEMMA InsertedGrows ==
  ASSUME TypeInv, [Next]_vars
  PROVE  \/ inserted' = inserted
         \/ /\ inserted' = inserted + 1
            /\ inserted' \in Batches
            /\ batch'[inserted'] = "IN_PROGRESS"
<1>1. ASSUME NEW c \in Coordinators, Coordinate(c), ~InsertBatch(c)
      PROVE  inserted' = inserted
  BY <1>1 DEF tables, Coordinate, ReadLatest, Reconcile, InsertRows,
              Finish, TimeoutRows, TimeoutBatch, LaunchesEnd, StartWaiting,
              Poll, Launch, MarkRunnerFailed
<1>0. ASSUME NEW c \in Coordinators, InsertBatch(c)
      PROVE  /\ inserted' = inserted + 1
             /\ inserted' \in Batches
             /\ batch'[inserted'] = "IN_PROGRESS"
  BY <1>0, BoundsAssumption DEF InsertBatch, TypeInv, TypeOK, Batches
<1>2. ASSUME NEW c \in Coordinators, InsertRowsFails(c) \/ Abandon(c)
      PROVE  inserted' = inserted
  BY <1>2 DEF tables, InsertRowsFails, Abandon
<1>3. ASSUME NEW a \in Batches,
             \/ GrowsStale(a)
             \/ \E k \in Clients : LoadStarts(a, k) \/ LoadEnds(a, k) \/ LoadDies(a, k)
      PROVE  inserted' = inserted
  BY <1>3 DEF tables, GrowsStale, LoadStarts, LoadEnds, LoadDies
<1>4. CASE UNCHANGED vars
  BY <1>4 DEF vars
<1>5. CASE Next
  BY <1>0, <1>1, <1>2, <1>3, <1>5 DEF Next
<1>6. QED
  BY <1>4, <1>5

\* What a step does to coordinator c itself.
ControlStep(c) ==
  \/ pc'[c] = pc[c] /\ cur'[c] = cur[c] /\ verdict'[c] = verdict[c]
  \/ pc'[c] \in {"idle", "insertBatch", "reconcile"}
  \/ /\ pc'[c] = "insertRows" /\ cur'[c] = inserted + 1
     /\ inserted' = inserted + 1 /\ UNCHANGED row
     /\ \A d \in Coordinators \ {c} : pc'[d] = pc[d] /\ cur'[d] = cur[d]
  \/ /\ pc'[c] = "launch" /\ cur'[c] = cur[c] /\ cur[c] \in Batches
     /\ \A k \in Clients : row'[cur[c]][k] = "PENDING"
  \/ /\ pc[c] \in {"launch", "mark"} /\ pc'[c] \in {"mark", "wait"}
     /\ cur'[c] = cur[c]
  \/ /\ pc'[c] = "finish" /\ cur'[c] = cur[c] /\ cur[c] \in Batches
     /\ verdict'[c] = "COMPLETED" => AllCompleted(cur[c])
  \/ /\ pc'[c] = "timeoutRows" /\ cur'[c] = cur[c] /\ cur[c] \in Batches
     /\ pc[c] = "wait" \/ ~NoRows(cur[c])
  \/ /\ pc[c] = "timeoutRows" /\ pc'[c] = "timeoutBatch" /\ cur'[c] = cur[c]
     /\ \A k \in Clients : row'[cur[c]][k] \notin ActiveRow

LEMMA CurrentBatch ==
  ASSUME TypeInv, NEW c \in Coordinators, pc[c] \in Working
  PROVE  cur[c] \in Batches
  BY BoundsAssumption DEF TypeInv, TypeOK, HasBatch, Batches

LEMMA ControlsStep ==
  ASSUME TypeInv, [Next]_vars, NEW c \in Coordinators
  PROVE  ControlStep(c)
<1>1. CASE UNCHANGED <<pc, cur, verdict>>
  BY <1>1 DEF ControlStep
<1>2. ASSUME NEW d \in Coordinators, ReadLatest(d) PROVE ControlStep(c)
  BY <1>2 DEF ReadLatest, Goto, TypeInv, TypeOK, ControlStep
<1>3. ASSUME NEW d \in Coordinators, Reconcile(d) PROVE ControlStep(c)
  <2>1. cur[d] \in Batches
    BY <1>3, CurrentBatch DEF Reconcile, Working, Step
  <2>2. CASE Settle(d, cur[d], Reconciled(cur[d]), "insertBatch") /\ Goto(d, "finish")
    BY <2>1, <2>2, ReconciledCases DEF Settle, Goto, TypeInv, TypeOK, ControlStep
  <2>3. CASE /\ Settle(d, cur[d], "TIMED_OUT", "insertBatch")
             /\ Goto(d, "timeoutRows") /\ Reconciled(cur[d]) = "IN_PROGRESS"
    BY <2>1, <2>3, ReconciledCases DEF Settle, Goto, TypeInv, TypeOK, ControlStep
  <2>4. CASE Goto(d, "idle") /\ cur' = [cur EXCEPT ![d] = 0] /\ UNCHANGED verdict
    BY <2>4 DEF Goto, TypeInv, TypeOK, ControlStep
  <2>5. QED
    BY <1>3, <2>2, <2>3, <2>4 DEF Reconcile
<1>4. ASSUME NEW d \in Coordinators, InsertBatch(d) PROVE ControlStep(c)
  BY <1>4 DEF InsertBatch, Goto, TypeInv, TypeOK, ControlStep
<1>5. ASSUME NEW d \in Coordinators, InsertRows(d) PROVE ControlStep(c)
  <2>1. cur[d] \in Batches
    BY <1>5, CurrentBatch DEF InsertRows, Working, Step
  <2>2. row'[cur[d]] = [k \in Clients |-> "PENDING"]
    BY <1>5, <2>1 DEF InsertRows, TypeInv, TypeOK
  <2>3. QED
    BY <1>5, <2>1, <2>2 DEF InsertRows, Goto, TypeInv, TypeOK, ControlStep
<1>6. ASSUME NEW d \in Coordinators, InsertRowsFails(d) PROVE ControlStep(c)
  <2>1. cur[d] \in Batches
    BY <1>6, CurrentBatch DEF InsertRowsFails, Working, Step
  <2>2. Settle(d, cur[d], "FAILED", "idle") /\ Goto(d, "finish")
    BY <1>6 DEF InsertRowsFails
  <2>3. QED
    BY <2>1, <2>2 DEF Settle, Goto, TypeInv, TypeOK, ControlStep
<1>7. ASSUME NEW d \in Coordinators, Finish(d) \/ TimeoutBatch(d)
      PROVE  ControlStep(c)
  BY <1>7 DEF Finish, TimeoutBatch, Goto, Forget, TypeInv, TypeOK, ControlStep
<1>8. ASSUME NEW d \in Coordinators, TimeoutRows(d) PROVE ControlStep(c)
  <2>1. cur[d] \in Batches
    BY <1>8, CurrentBatch DEF TimeoutRows, Working, Step
  <2>2. \A k \in Clients : row'[cur[d]][k] \notin ActiveRow
    BY <1>8, <2>1 DEF TimeoutRows, UpdateRows, RowsOf, ActiveRow
  <2>3. QED
    BY <1>8, <2>2 DEF TimeoutRows, Goto, TypeInv, TypeOK, ControlStep
<1>9. ASSUME NEW d \in Coordinators, LaunchesEnd(d) \/ StartWaiting(d)
      PROVE  ControlStep(c)
  BY <1>9 DEF LaunchesEnd, StartWaiting, Goto, TypeInv, TypeOK, ControlStep
<1>10. ASSUME NEW d \in Coordinators, Poll(d) PROVE ControlStep(c)
  <2>1. cur[d] \in Batches
    BY <1>10, CurrentBatch DEF Poll, Working, Step
  <2>2. PICK v \in TerminalBatch, s \in {"finish", "timeoutRows"} :
          /\ Settle(d, cur[d], v, "idle") /\ Goto(d, s)
          /\ v = "COMPLETED" => AllCompleted(cur[d])
    BY <1>10 DEF Poll, TerminalBatch
  <2>3. QED
    BY <1>10, <2>1, <2>2 DEF Poll, Settle, Goto, TypeInv, TypeOK, ControlStep
<1>11. ASSUME NEW d \in Coordinators, Abandon(d) PROVE ControlStep(c)
  BY <1>11 DEF Abandon, Goto, Forget, TypeInv, TypeOK, ControlStep
<1>12. ASSUME NEW d \in Coordinators,
              \E k \in Clients : Launch(d, k) \/ MarkRunnerFailed(d, k)
       PROVE  UNCHANGED <<pc, cur, verdict>>
  BY <1>12 DEF Launch, MarkRunnerFailed
<1>13. ASSUME NEW a \in Batches,
              \/ GrowsStale(a)
              \/ \E k \in Clients : LoadStarts(a, k) \/ LoadEnds(a, k) \/ LoadDies(a, k)
       PROVE  UNCHANGED <<pc, cur, verdict>>
  BY <1>13 DEF local, GrowsStale, LoadStarts, LoadEnds, LoadDies
<1>14. CASE UNCHANGED vars
  BY <1>1, <1>14 DEF vars
<1>15. CASE Next
  BY <1>1, <1>2, <1>3, <1>4, <1>5, <1>6, <1>7, <1>8, <1>9, <1>10, <1>11,
     <1>12, <1>13, <1>15 DEF Next, Coordinate
<1>16. QED
  BY <1>14, <1>15

----
(***************************************************************************)
(* Safety with any number of schedulers.                                   *)
(***************************************************************************)

\* Batches not inserted yet are blank, and inserted ones have a status.
Rank ==
  \A b \in Batches :
    /\ b > inserted => batch[b] = "NONE" /\ NoRows(b)
    /\ b <= inserted => batch[b] # "NONE"

\* The coordinator about to create rows is alone to do so for its batch.
SoleInserter ==
  \A c, d \in Coordinators :
    pc[c] = "insertRows" =>
      /\ NoRows(cur[c])
      /\ pc[d] = "insertRows" /\ cur[d] = cur[c] => d = c

HasRows ==
  \A c \in Coordinators :
    pc[c] \in {"launch", "mark", "wait", "timeoutRows", "timeoutBatch"} =>
      ~NoRows(cur[c])

\* What a coordinator read before it decided is still true when it writes.
StillTrue ==
  \A c \in Coordinators :
    /\ pc[c] = "finish" /\ verdict[c] = "COMPLETED" =>
         \A k \in Clients : row[cur[c]][k] = "COMPLETED"
    /\ pc[c] = "timeoutBatch" => \A k \in Clients : row[cur[c]][k] \notin ActiveRow

TimedOutHasRows == \A b \in Batches : batch[b] = "TIMED_OUT" => ~NoRows(b)

SafeInv ==
  /\ TypeInv /\ Rank /\ SoleInserter /\ HasRows /\ StillTrue
  /\ CompletedBatchIsComplete /\ TimedOutHasRows /\ TimedOutLeavesNothingActive

LEMMA InitSafeInv == Init => SafeInv
<1> SUFFICES ASSUME Init PROVE SafeInv
  OBVIOUS
<1>1. TypeInv
  BY InitTypeInv
<1>2. QED
  BY <1>1, BoundsAssumption
     DEF Init, SafeInv, Rank, NoRows, SoleInserter, HasRows, StillTrue, Batches,
         CompletedBatchIsComplete, TimedOutHasRows, TimedOutLeavesNothingActive

\* A terminal row, and the existence of rows, survive every step.
LEMMA RowsKept ==
  ASSUME SafeInv, [Next]_vars, NEW b \in Batches
  PROVE  /\ \A k \in Clients : row[b][k] \in TerminalRow => row'[b][k] = row[b][k]
         /\ ~NoRows(b) => ~NoRows(b)'
         /\ ~NoRows(b) => \A k \in Clients :
              row[b][k] \notin ActiveRow => row'[b][k] \notin ActiveRow
         /\ NoRows(b) /\ ~Inserting(b) => NoRows(b)'
<1>1. ~NoRows(b) => ~Inserting(b)
  BY DEF SafeInv, SoleInserter, Inserting
<1>2. \A k \in Clients : RowStep(b, k)
  BY RowsStep DEF SafeInv
<1>3. CASE Inserting(b)
  <2>1. NoRows(b)
    BY <1>1, <1>3
  <2>2. QED
    BY <1>3, <2>1 DEF NoRows, TerminalRow, FailedRow
<1>4. CASE ~Inserting(b)
  BY <1>2, <1>4 DEF RowStep, NoRows, ActiveRow, TerminalRow, FailedRow
<1>5. QED
  BY <1>3, <1>4

LEMMA NextSafeInv == SafeInv /\ [Next]_vars => SafeInv'
<1> SUFFICES ASSUME SafeInv, [Next]_vars PROVE SafeInv'
  OBVIOUS
<1> USE BoundsAssumption
<1>1. TypeInv'
  BY NextTypeInv DEF SafeInv
<1>2. Rank'
  <2> SUFFICES ASSUME NEW b \in Batches
               PROVE  /\ b > inserted' => batch'[b] = "NONE" /\ NoRows(b)'
                      /\ b <= inserted' => batch'[b] # "NONE"
    BY DEF Rank
  <2>1. inserted \in Nat /\ b \in Nat
    BY DEF SafeInv, TypeInv, TypeOK, Batches
  <2>2. BatchStep(b)
    BY BatchesStep DEF SafeInv
  <2>3. \/ inserted' = inserted
        \/ inserted' = inserted + 1 /\ batch'[inserted'] = "IN_PROGRESS"
    BY InsertedGrows DEF SafeInv
  <2>4. b > inserted => ~Inserting(b)
    BY <2>1 DEF SafeInv, TypeInv, HasBatch, Inserting, Working, Step
  <2>5. b > inserted' => NoRows(b)'
    BY <2>1, <2>3, <2>4, RowsKept DEF SafeInv, Rank
  <2>6. batch[b] = "IN_PROGRESS" => batch'[b] # "NONE"
    BY <2>2 DEF BatchStep, SafeInv, TypeInv, HasDecided
  <2>7. QED
    BY <2>1, <2>2, <2>3, <2>5, <2>6 DEF BatchStep, SafeInv, Rank
<1>3. SoleInserter'
  <2> SUFFICES ASSUME NEW c \in Coordinators, NEW d \in Coordinators,
                      pc'[c] = "insertRows"
               PROVE  /\ NoRows(cur[c])'
                      /\ pc'[d] = "insertRows" /\ cur'[d] = cur'[c] => d = c
    BY DEF SoleInserter
  <2>1. ControlStep(c) /\ ControlStep(d)
    BY ControlsStep DEF SafeInv
  <2>2. \A e \in Coordinators : pc[e] = "insertRows" => cur[e] \in 1..inserted
    BY DEF SafeInv, TypeInv, HasBatch, Working, Step
  <2>3. inserted \in Nat
    BY DEF SafeInv, TypeInv, TypeOK
  <2>4. CASE pc[c] = "insertRows" /\ cur'[c] = cur[c]
    <3>1. cur[c] \in Batches /\ ~Inserting(cur[c])
      <4>1. cur[c] \in Batches
        BY <2>4, CurrentBatch DEF SafeInv, Working, Step
      <4>2. QED
        BY <2>4, <4>1 DEF Inserting, SafeInv, SoleInserter
    <3>2. NoRows(cur[c])'
      BY <2>4, <3>1, RowsKept DEF SafeInv, SoleInserter, NoRows
    <3>3. QED
      BY <2>1, <2>2, <2>3, <2>4, <3>2 DEF ControlStep, SafeInv, SoleInserter
  <2>5. CASE /\ cur'[c] = inserted + 1 /\ inserted' = inserted + 1 /\ UNCHANGED row
             /\ \A e \in Coordinators \ {c} : pc'[e] = pc[e] /\ cur'[e] = cur[e]
    <3>1. inserted + 1 \in Batches
      BY <2>5, <1>1, <2>3 DEF TypeInv, TypeOK, Batches
    <3>2. NoRows(inserted + 1)
      BY <2>3, <3>1 DEF SafeInv, Rank
    <3>3. QED
      BY <2>2, <2>3, <2>5, <3>2 DEF NoRows
  <2>6. QED
    BY <2>1, <2>4, <2>5 DEF ControlStep
<1>4. HasRows'
  <2> SUFFICES ASSUME NEW c \in Coordinators,
                      pc'[c] \in {"launch", "mark", "wait", "timeoutRows",
                                  "timeoutBatch"}
               PROVE  ~NoRows(cur[c])'
    BY DEF HasRows
  <2>1. ControlStep(c)
    BY ControlsStep DEF SafeInv
  <2>2. CASE pc'[c] = "launch" /\ \A k \in Clients : row'[cur[c]][k] = "PENDING"
                               /\ cur'[c] = cur[c]
    BY <2>2, ClientsAssumption DEF NoRows
  <2>3. CASE cur'[c] = cur[c] /\ cur[c] \in Batches /\ ~NoRows(cur[c])
    BY <2>3, RowsKept DEF NoRows
  <2>4. pc[c] \in Working => cur[c] \in Batches
    BY CurrentBatch DEF SafeInv
  <2>5. QED
    BY <2>1, <2>2, <2>3, <2>4
       DEF ControlStep, SafeInv, HasRows, Working, Step
<1>5. StillTrue'
  <2> SUFFICES ASSUME NEW c \in Coordinators
               PROVE  /\ pc'[c] = "finish" /\ verdict'[c] = "COMPLETED" =>
                           \A k \in Clients : row'[cur'[c]][k] = "COMPLETED"
                      /\ pc'[c] = "timeoutBatch" =>
                           \A k \in Clients : row'[cur'[c]][k] \notin ActiveRow
    BY DEF StillTrue
  <2>1. ControlStep(c)
    BY ControlsStep DEF SafeInv
  <2>2. pc[c] \in Working => cur[c] \in Batches
    BY CurrentBatch DEF SafeInv
  <2>3. CASE pc'[c] = "finish" /\ verdict'[c] = "COMPLETED"
    <3>1. /\ cur'[c] = cur[c] /\ cur[c] \in Batches
          /\ \A k \in Clients : row[cur[c]][k] = "COMPLETED"
      BY <2>1, <2>2, <2>3
         DEF ControlStep, AllCompleted, SafeInv, StillTrue, Working, Step
    <3>2. QED
      BY <2>3, <3>1, RowsKept DEF TerminalRow
  <2>4. CASE pc'[c] = "timeoutBatch"
    <3>1. CASE cur'[c] = cur[c] /\ \A k \in Clients : row'[cur[c]][k] \notin ActiveRow
      BY <2>4, <3>1
    <3>2. CASE pc[c] = "timeoutBatch" /\ cur'[c] = cur[c]
      <4>1. /\ cur[c] \in Batches /\ ~NoRows(cur[c])
            /\ \A k \in Clients : row[cur[c]][k] \notin ActiveRow
        BY <2>2, <3>2 DEF SafeInv, HasRows, StillTrue, Working, Step
      <4>2. QED
        BY <2>4, <3>2, <4>1, RowsKept
    <3>3. QED
      BY <2>1, <2>4, <3>1, <3>2 DEF ControlStep
  <2>5. QED
    BY <2>3, <2>4
<1>6. CompletedBatchIsComplete'
  <2> SUFFICES ASSUME NEW b \in Batches, batch'[b] = "COMPLETED"
               PROVE  \A k \in Clients : row'[b][k] = "COMPLETED"
    BY DEF CompletedBatchIsComplete
  <2>1. BatchStep(b)
    BY BatchesStep DEF SafeInv
  <2>2. \A k \in Clients : row[b][k] = "COMPLETED"
    BY <2>1 DEF BatchStep, SafeInv, CompletedBatchIsComplete, StillTrue,
                TypeInv, HasDecided
  <2>3. QED
    BY <2>2, RowsKept DEF TerminalRow
<1>7. TimedOutHasRows' /\ TimedOutLeavesNothingActive'
  <2> SUFFICES ASSUME NEW b \in Batches, batch'[b] = "TIMED_OUT"
               PROVE  ~NoRows(b)' /\ \A k \in Clients : row'[b][k] \notin ActiveRow
    BY DEF TimedOutHasRows, TimedOutLeavesNothingActive
  <2>1. BatchStep(b)
    BY BatchesStep DEF SafeInv
  <2>2. ~NoRows(b) /\ \A k \in Clients : row[b][k] \notin ActiveRow
    BY <2>1 DEF BatchStep, SafeInv, TimedOutHasRows, TimedOutLeavesNothingActive,
                StillTrue, HasRows, TypeInv, HasDecided
  <2>3. QED
    BY <2>2, RowsKept
<1>8. QED
  BY <1>1, <1>2, <1>3, <1>4, <1>5, <1>6, <1>7 DEF SafeInv

LEMMA SafeInvariance == Spec => []SafeInv
  BY InitSafeInv, NextSafeInv, PTL DEF Spec

\* A batch recorded COMPLETED has all its client rows COMPLETED, whatever
\* other schedulers and late Obero processes wrote between the poll that read
\* the rows and the update that closed the batch.
THEOREM CompletedIsComplete == Spec => []CompletedBatchIsComplete
  BY SafeInvariance, PTL DEF SafeInv

\* A batch recorded TIMED_OUT has no client row left PENDING or IN_PROGRESS
\* that a late Obero process could move.
THEOREM TimedOutIsClosed == Spec => []TimedOutLeavesNothingActive
  BY SafeInvariance, PTL DEF SafeInv

\* No step of any process revises a terminal batch or a terminal client row.
THEOREM DecisionsFinal == Spec => DecisionsAreFinal
<1>1. SafeInv /\ [Next]_vars =>
        [\A b \in Batches :
           /\ batch[b] \in TerminalBatch => batch'[b] = batch[b]
           /\ \A k \in Clients :
                row[b][k] \in TerminalRow => row'[b][k] = row[b][k]]_<<batch, row>>
  <2> SUFFICES ASSUME SafeInv, [Next]_vars, NEW b \in Batches
               PROVE  /\ batch[b] \in TerminalBatch => batch'[b] = batch[b]
                      /\ \A k \in Clients :
                           row[b][k] \in TerminalRow => row'[b][k] = row[b][k]
    OBVIOUS
  <2>1. batch[b] \in TerminalBatch => batch'[b] = batch[b]
    <3>1. BatchStep(b)
      BY BatchesStep DEF SafeInv
    <3>2. b = inserted + 1 => batch[b] = "NONE"
      <4>1. inserted \in Nat
        BY DEF SafeInv, TypeInv, TypeOK
      <4>2. QED
        BY <4>1 DEF SafeInv, Rank
    <3>3. QED
      BY <3>1, <3>2 DEF BatchStep, TerminalBatch
  <2>2. QED
    BY <2>1, RowsKept
<1>2. QED
  BY <1>1, SafeInvariance, PTL DEF Spec, DecisionsAreFinal

----
(***************************************************************************)
(* One scheduler.  Whatever it was doing when it died, the batch it left   *)
(* open is the newest, and it closes it before it inserts another.         *)
(***************************************************************************)
ClosedBeforeInsert ==
  \A c \in Coordinators :
    /\ pc[c] = "insertBatch" => ~NewestOpen
    /\ pc[c] \in Working => cur[c] = inserted

OneSchedulerInv == TypeInv /\ OnlyNewestOpen /\ ClosedBeforeInsert

LEMMA InitOneScheduler == Init => OneSchedulerInv
<1> SUFFICES ASSUME Init PROVE OneSchedulerInv
  OBVIOUS
<1>1. TypeInv
  BY InitTypeInv
<1>2. QED
  BY <1>1 DEF Init, OneSchedulerInv, OnlyNewestOpen, ClosedBeforeInsert, Working

LEMMA NextOneScheduler ==
  ASSUME NEW s, Coordinators = {s}, OneSchedulerInv, [Next]_vars
  PROVE  OneSchedulerInv'
<1> USE DEF OneSchedulerInv
<1>1. TypeInv'
  BY NextTypeInv
<1>2. s \in Coordinators /\ pc[s] \in Step /\ inserted \in Nat
  BY DEF TypeInv, TypeOK
<1>3. CASE InsertBatch(s)
  <2>1. /\ inserted' = inserted + 1 /\ pc' = [pc EXCEPT ![s] = "insertRows"]
        /\ batch' = [batch EXCEPT ![inserted + 1] = "IN_PROGRESS"]
        /\ cur' = [cur EXCEPT ![s] = inserted + 1] /\ ~NewestOpen
    BY <1>2, <1>3 DEF InsertBatch, Goto, ClosedBeforeInsert
  <2>2. \A b \in Batches : batch[b] # "IN_PROGRESS"
    BY <1>2, <2>1 DEF OnlyNewestOpen, NewestOpen, Batches
  <2>3. OnlyNewestOpen'
    BY <2>1, <2>2 DEF OnlyNewestOpen, TypeInv, TypeOK
  <2>4. ClosedBeforeInsert'
    BY <2>1 DEF ClosedBeforeInsert, Working, TypeInv, TypeOK
  <2>5. QED
    BY <1>1, <2>3, <2>4
<1>4. CASE ReadLatest(s)
  <2>1. UNCHANGED <<inserted, batch>>
    BY <1>4 DEF ReadLatest, tables
  <2>2. ClosedBeforeInsert'
    BY <1>4, <2>1 DEF ReadLatest, Goto, ClosedBeforeInsert, NewestOpen, Working,
                      TypeInv, TypeOK
  <2>3. QED
    BY <1>1, <2>1, <2>2 DEF OnlyNewestOpen
<1>5. CASE Finish(s) \/ TimeoutBatch(s)
  <2>1. /\ CloseBatch(inserted, verdict[s]) /\ verdict[s] # "IN_PROGRESS"
        /\ inserted' = inserted /\ inserted \in Batches
        /\ pc' = [pc EXCEPT ![s] = resume[s]]
        /\ resume[s] \in {"idle", "insertBatch"}
    BY <1>1, <1>2, <1>5, CurrentBatch
       DEF Finish, TimeoutBatch, Goto, ClosedBeforeInsert, Working, Step, TypeInv,
           TypeOK, HasDecided
  <2>2. /\ batch'[inserted] # "IN_PROGRESS"
        /\ \A b \in Batches : b # inserted => batch'[b] = batch[b]
    BY <2>1 DEF CloseBatch, TypeInv, TypeOK
  <2>3. OnlyNewestOpen'
    BY <2>1, <2>2 DEF OnlyNewestOpen
  <2>4. ClosedBeforeInsert'
    BY <2>1, <2>2 DEF ClosedBeforeInsert, NewestOpen, Working, TypeInv, TypeOK
  <2>5. QED
    BY <1>1, <2>3, <2>4
<1>6. ASSUME UNCHANGED <<inserted, batch>>,
             \/ UNCHANGED <<pc, cur>>
             \/ pc' = [pc EXCEPT ![s] = "idle"]
             \/ /\ pc[s] \in Working /\ pc'[s] \in Working /\ cur'[s] = cur[s]
      PROVE  OneSchedulerInv'
  <2>1. ClosedBeforeInsert'
    BY <1>2, <1>6 DEF ClosedBeforeInsert, NewestOpen, Working, TypeInv, TypeOK
  <2>2. QED
    BY <1>1, <1>6, <2>1 DEF OnlyNewestOpen
<1>7. CASE Reconcile(s) \/ Poll(s)
  <2>1. UNCHANGED <<inserted, batch>> /\ pc[s] \in Working
    BY <1>7 DEF Reconcile, Poll, tables, Working, Step
  <2>2. \/ pc' = [pc EXCEPT ![s] = "idle"]
        \/ \E step \in {"finish", "timeoutRows"} :
             /\ pc' = [pc EXCEPT ![s] = step]
             /\ cur' = [cur EXCEPT ![s] = cur[s]]
    BY <1>7 DEF Reconcile, Poll, Goto, Settle
  <2>3. QED
    BY <1>2, <1>6, <2>1, <2>2 DEF Working, Step, TypeInv, TypeOK
<1>8. CASE InsertRows(s) \/ LaunchesEnd(s) \/ StartWaiting(s) \/ TimeoutRows(s)
  <2>1. UNCHANGED <<inserted, batch, cur>> /\ pc[s] \in Working
    BY <1>8 DEF InsertRows, LaunchesEnd, StartWaiting, TimeoutRows, tables,
                Working, Step
  <2>2. \E step \in Working : pc' = [pc EXCEPT ![s] = step]
    BY <1>8 DEF InsertRows, LaunchesEnd, StartWaiting, TimeoutRows, Goto,
                Working, Step
  <2>3. QED
    BY <1>2, <1>6, <2>1, <2>2 DEF TypeInv, TypeOK
<1>9. CASE InsertRowsFails(s)
  <2>1. /\ UNCHANGED <<inserted, batch>> /\ pc[s] \in Working
        /\ pc' = [pc EXCEPT ![s] = "finish"]
        /\ cur' = [cur EXCEPT ![s] = cur[s]]
    BY <1>9 DEF InsertRowsFails, Goto, Settle, Working, Step
  <2>2. QED
    BY <1>2, <1>6, <2>1 DEF Working, Step, TypeInv, TypeOK
<1>10. CASE Abandon(s)
  BY <1>6, <1>10 DEF Abandon, Goto, tables
<1>11. CASE \E k \in Clients : Launch(s, k) \/ MarkRunnerFailed(s, k)
  BY <1>6, <1>11 DEF Launch, MarkRunnerFailed, tables
<1>12. ASSUME NEW a \in Batches,
              \/ GrowsStale(a)
              \/ \E k \in Clients : LoadStarts(a, k) \/ LoadEnds(a, k) \/ LoadDies(a, k)
       PROVE  OneSchedulerInv'
  BY <1>6, <1>12 DEF tables, local, GrowsStale, LoadStarts, LoadEnds, LoadDies
<1>13. CASE UNCHANGED vars
  BY <1>6, <1>13 DEF vars
<1>14. CASE Next
  BY <1>3, <1>4, <1>5, <1>7, <1>8, <1>9, <1>10, <1>11, <1>12, <1>14
     DEF Next, Coordinate
<1>15. QED
  BY <1>13, <1>14

\* With one scheduler, two refresh batches are never open at once, across
\* any number of crashes, failed queries and restarts.
THEOREM OneSchedulerOneOpenBatch ==
  ASSUME NEW s, Coordinators = {s}
  PROVE  Spec => []OnlyNewestOpen
<1>1. OneSchedulerInv /\ [Next]_vars => OneSchedulerInv'
  BY NextOneScheduler
<1>2. OneSchedulerInv => OnlyNewestOpen
  BY DEF OneSchedulerInv
<1>3. QED
  BY <1>1, <1>2, InitOneScheduler, PTL DEF Spec

----
(***************************************************************************)
(* With one scheduler, a failure has a cause.  FailureHasACause is not     *)
(* inductive: the verdict FAILED is written one step after the rows were   *)
(* read, and a launch could follow it if two coordinators drove a batch.   *)
(***************************************************************************)
Launched(b) == \E k \in Clients : load[b][k] # "none"

LaunchedHasRows == \A b \in Batches : Launched(b) => ~NoRows(b)

\* The batch being opened or launched is still undecided.
OpenUntilDecided ==
  \A c \in Coordinators :
    pc[c] \in {"insertRows", "launch"} => batch[cur[c]] = "IN_PROGRESS"

\* The cause of a failure to be recorded is already in the client rows.
FailedRowFirst ==
  \A c \in Coordinators :
    /\ pc[c] = "finish" /\ verdict[c] = "FAILED"
    /\ Launched(cur[c])
    => SomeFailed(cur[c])

CauseInv ==
  /\ SafeInv /\ LaunchedHasRows /\ OpenUntilDecided /\ FailedRowFirst
  /\ FailureHasACause

LEMMA InitCauseInv == Init => CauseInv
<1> SUFFICES ASSUME Init PROVE CauseInv
  OBVIOUS
<1>1. SafeInv
  BY InitSafeInv
<1>2. QED
  BY <1>1 DEF Init, CauseInv, LaunchedHasRows, OpenUntilDecided, FailedRowFirst,
              FailureHasACause, Launched

\* Only the launches of a coordinator give a batch its first instance.
LEMMA LoadsStep ==
  ASSUME TypeInv, [Next]_vars, NEW b \in Batches, Launched(b)', ~Launched(b)
  PROVE  \E c \in Coordinators :
           pc[c] = "launch" /\ cur[c] = b /\ UNCHANGED <<pc, cur>>
<1> USE DEF Launched
<1>1. CASE UNCHANGED load
  BY <1>1
<1>2. ASSUME NEW c \in Coordinators, NEW k \in Clients, Launch(c, k), ~UNCHANGED load
      PROVE  pc[c] = "launch" /\ cur[c] = b /\ UNCHANGED <<pc, cur>>
  <2>1. /\ pc[c] = "launch" /\ UNCHANGED <<pc, cur>>
        /\ load' = [load EXCEPT ![cur[c]][k] = "queued"]
    BY <1>2 DEF Launch
  <2>2. cur[c] # b => load'[b] = load[b]
    BY <2>1 DEF TypeInv, TypeOK
  <2>3. QED
    BY <2>1, <2>2
<1>3. ASSUME NEW a \in Batches, NEW k \in Clients,
             LoadStarts(a, k) \/ LoadEnds(a, k) \/ LoadDies(a, k)
      PROVE  FALSE
  <2>1. PICK phase \in LoadPhase :
          load[a][k] # "none" /\ load' = [load EXCEPT ![a][k] = phase]
    BY <1>3 DEF LoadStarts, LoadEnds, LoadDies, LoadPhase
  <2>2. load'[b] = load[b]
    BY <2>1 DEF TypeInv, TypeOK
  <2>3. QED
    BY <2>2
<1>4. ASSUME NEW c \in Coordinators,
             \/ ReadLatest(c) \/ Reconcile(c) \/ InsertBatch(c) \/ InsertRows(c)
             \/ Finish(c) \/ TimeoutRows(c) \/ TimeoutBatch(c) \/ LaunchesEnd(c)
             \/ StartWaiting(c) \/ Poll(c) \/ InsertRowsFails(c) \/ Abandon(c)
             \/ \E k \in Clients : MarkRunnerFailed(c, k)
      PROVE  UNCHANGED load
  BY <1>4 DEF ReadLatest, Reconcile, InsertBatch, InsertRows, Finish, TimeoutRows,
              TimeoutBatch, LaunchesEnd, StartWaiting, Poll, InsertRowsFails,
              Abandon, MarkRunnerFailed
<1>5. ASSUME NEW a \in Batches, GrowsStale(a) PROVE UNCHANGED load
  BY <1>5 DEF GrowsStale
<1>6. CASE UNCHANGED vars
  BY <1>1, <1>6 DEF vars
<1>7. CASE Next
  BY <1>1, <1>2, <1>3, <1>4, <1>5, <1>7 DEF Next, Coordinate
<1>8. QED
  BY <1>6, <1>7

\* How a coordinator comes to launch, and to record a decision.
DecideStep(c) ==
  /\ pc'[c] = "launch" =>
       pc[c] \in {"insertRows", "launch"} /\ cur'[c] = cur[c]
  /\ pc'[c] = "insertRows" =>
       \/ pc[c] = "insertRows" /\ cur'[c] = cur[c]
       \/ cur'[c] = inserted' /\ inserted' = inserted + 1
  /\ pc'[c] = "finish" =>
       \/ pc[c] = "finish" /\ cur'[c] = cur[c] /\ verdict'[c] = verdict[c]
       \/ /\ pc[c] # "finish" /\ pc[c] # "launch" /\ cur'[c] = cur[c]
          /\ verdict'[c] = "FAILED" => NoRows(cur[c]) \/ SomeFailed(cur[c])

LEMMA DecidesStep ==
  ASSUME SafeInv, [Next]_vars, NEW c \in Coordinators
  PROVE  DecideStep(c)
<1> USE DEF SafeInv
<1>1. CASE UNCHANGED <<pc, cur, verdict>>
  BY <1>1 DEF DecideStep
<1>2. ASSUME NEW d \in Coordinators, Reconcile(d) PROVE DecideStep(c)
  <2>1. CASE Settle(d, cur[d], Reconciled(cur[d]), "insertBatch") /\ Goto(d, "finish")
    <3>1. Reconciled(cur[d]) = "FAILED" => NoRows(cur[d]) \/ SomeFailed(cur[d])
      BY DEF Reconciled
    <3>2. QED
      BY <1>2, <2>1, <3>1 DEF Reconcile, Settle, Goto, TypeInv, TypeOK, DecideStep
  <2>2. CASE Settle(d, cur[d], "TIMED_OUT", "insertBatch") /\ Goto(d, "timeoutRows")
    BY <2>2 DEF Settle, Goto, TypeInv, TypeOK, DecideStep
  <2>3. CASE Goto(d, "idle") /\ cur' = [cur EXCEPT ![d] = 0] /\ UNCHANGED verdict
    BY <2>3 DEF Goto, TypeInv, TypeOK, DecideStep
  <2>4. QED
    BY <1>2, <2>1, <2>2, <2>3 DEF Reconcile
<1>3. ASSUME NEW d \in Coordinators, Poll(d) PROVE DecideStep(c)
  <2>1. PICK v \in TerminalBatch, s \in {"finish", "timeoutRows"} :
          /\ Settle(d, cur[d], v, "idle") /\ Goto(d, s)
          /\ v = "FAILED" => SomeFailed(cur[d])
    BY <1>3 DEF Poll, TerminalBatch
  <2>2. QED
    BY <1>3, <2>1 DEF Poll, Settle, Goto, TypeInv, TypeOK, DecideStep
<1>4. ASSUME NEW d \in Coordinators, InsertRowsFails(d) PROVE DecideStep(c)
  <2>1. NoRows(cur[d])
    BY <1>4 DEF InsertRowsFails, SoleInserter
  <2>2. /\ pc[d] = "insertRows" /\ Settle(d, cur[d], "FAILED", "idle")
        /\ Goto(d, "finish")
    BY <1>4 DEF InsertRowsFails
  <2>3. QED
    BY <2>1, <2>2 DEF Settle, Goto, TypeInv, TypeOK, DecideStep
<1>5. ASSUME NEW d \in Coordinators, InsertBatch(d) PROVE DecideStep(c)
  BY <1>5 DEF InsertBatch, Goto, TypeInv, TypeOK, DecideStep
<1>6. ASSUME NEW d \in Coordinators,
             \/ ReadLatest(d) \/ Finish(d) \/ TimeoutBatch(d) \/ Abandon(d)
      PROVE  DecideStep(c)
  BY <1>6 DEF ReadLatest, Finish, TimeoutBatch, Abandon, Goto, Forget, TypeInv,
              TypeOK, DecideStep
<1>7. ASSUME NEW d \in Coordinators,
             InsertRows(d) \/ TimeoutRows(d) \/ LaunchesEnd(d) \/ StartWaiting(d)
      PROVE  DecideStep(c)
  BY <1>7 DEF InsertRows, TimeoutRows, LaunchesEnd, StartWaiting, Goto, TypeInv,
              TypeOK, DecideStep
<1>8. ASSUME NEW d \in Coordinators,
             \E k \in Clients : Launch(d, k) \/ MarkRunnerFailed(d, k)
      PROVE  UNCHANGED <<pc, cur, verdict>>
  BY <1>8 DEF Launch, MarkRunnerFailed
<1>9. ASSUME NEW a \in Batches,
             \/ GrowsStale(a)
             \/ \E k \in Clients : LoadStarts(a, k) \/ LoadEnds(a, k) \/ LoadDies(a, k)
      PROVE  UNCHANGED <<pc, cur, verdict>>
  BY <1>9 DEF local, GrowsStale, LoadStarts, LoadEnds, LoadDies
<1>10. CASE UNCHANGED vars
  BY <1>1, <1>10 DEF vars
<1>11. CASE Next
  BY <1>1, <1>2, <1>3, <1>4, <1>5, <1>6, <1>7, <1>8, <1>9, <1>11
     DEF Next, Coordinate
<1>12. QED
  BY <1>10, <1>11

LEMMA SomeFailedKept ==
  ASSUME SafeInv, [Next]_vars, NEW b \in Batches, SomeFailed(b)
  PROVE  SomeFailed(b)'
  BY RowsKept DEF SomeFailed, TerminalRow

LEMMA NextCauseInv ==
  ASSUME NEW s, Coordinators = {s}, CauseInv, [Next]_vars
  PROVE  CauseInv'
<1> USE DEF CauseInv
<1>1. SafeInv' /\ TypeInv /\ TypeInv'
  BY NextSafeInv DEF SafeInv
<1>2. s \in Coordinators /\ pc[s] \in Step
  BY <1>1 DEF TypeInv, TypeOK
<1>3. \A b \in Batches :
        Launched(b)' => Launched(b) \/ (pc[s] = "launch" /\ cur[s] = b /\ pc'[s] = "launch")
  BY <1>1, <1>2, LoadsStep
<1>4. \A c \in Coordinators : pc'[c] \in Working => cur'[c] \in Batches
  BY <1>1, BoundsAssumption DEF TypeInv, TypeOK, HasBatch, Batches
<1>5. DecideStep(s)
  BY <1>2, DecidesStep
<1>6. LaunchedHasRows'
  <2> SUFFICES ASSUME NEW b \in Batches, Launched(b)' PROVE ~NoRows(b)'
    BY DEF LaunchedHasRows
  <2>1. ~NoRows(b)
    BY <1>2, <1>3 DEF LaunchedHasRows, SafeInv, HasRows
  <2>2. QED
    BY <2>1, RowsKept
<1>7. OpenUntilDecided'
  <2> SUFFICES ASSUME pc'[s] \in {"insertRows", "launch"}
               PROVE  batch'[cur'[s]] = "IN_PROGRESS"
    BY DEF OpenUntilDecided
  <2>1. CASE cur'[s] = inserted' /\ inserted' = inserted + 1
    BY <1>1, <2>1, InsertedGrows DEF TypeInv, TypeOK
  <2>2. CASE pc[s] \in {"insertRows", "launch"} /\ cur'[s] = cur[s]
    <3>1. batch[cur[s]] = "IN_PROGRESS" /\ cur[s] \in Batches
      BY <1>2, <1>4, <2>2 DEF OpenUntilDecided, Working, Step
    <3>2. BatchStep(cur[s])
      BY <1>1, <3>1, BatchesStep
    <3>3. QED
      BY <2>2, <3>1, <3>2 DEF BatchStep
  <2>3. QED
    BY <1>5, <2>1, <2>2 DEF DecideStep
<1>8. FailedRowFirst'
  <2> SUFFICES ASSUME pc'[s] = "finish", verdict'[s] = "FAILED", Launched(cur[s])',
                      cur'[s] = cur[s]
               PROVE  SomeFailed(cur[s])'
    BY <1>5 DEF FailedRowFirst, Launched, SomeFailed, DecideStep
  <2>1. cur[s] \in Batches
    BY <1>2, <1>4 DEF Working, Step
  <2>2. Launched(cur[s])
    BY <1>3, <2>1
  <2>3. SomeFailed(cur[s])
    BY <1>2, <1>5, <2>1, <2>2 DEF DecideStep, FailedRowFirst, LaunchedHasRows
  <2>4. QED
    BY <2>1, <2>3, SomeFailedKept
<1>9. FailureHasACause'
  <2> SUFFICES ASSUME NEW b \in Batches, batch'[b] = "FAILED", Launched(b)'
               PROVE  SomeFailed(b)'
    BY DEF FailureHasACause, Launched, SomeFailed
  <2>1. BatchStep(b)
    BY <1>1, BatchesStep
  <2>2. CASE batch'[b] = batch[b]
    <3>1. Launched(b)
      BY <1>2, <1>3, <2>2 DEF OpenUntilDecided
    <3>2. SomeFailed(b)
      BY <2>2, <3>1 DEF FailureHasACause, Launched, SomeFailed
    <3>3. QED
      BY <3>2, SomeFailedKept
  <2>3. CASE pc[s] \in {"finish", "timeoutBatch"} /\ cur[s] = b /\ verdict[s] = "FAILED"
    <3>1. pc[s] = "finish"
      BY <1>1, <1>2, <2>3 DEF TypeInv, HasDecided
    <3>2. Launched(b)
      BY <1>3, <3>1
    <3>3. SomeFailed(b)
      BY <1>2, <2>3, <3>1, <3>2 DEF FailedRowFirst
    <3>4. QED
      BY <3>3, SomeFailedKept
  <2>4. QED
    BY <2>1, <2>2, <2>3 DEF BatchStep
<1>10. QED
  BY <1>1, <1>6, <1>7, <1>8, <1>9

\* With one scheduler, a batch that launched anything and is FAILED has a
\* failed client row, whenever the scheduler died or lost a statement.
THEOREM FailureCaused ==
  ASSUME NEW s, Coordinators = {s}
  PROVE  Spec => []FailureHasACause
<1>1. CauseInv /\ [Next]_vars => CauseInv'
  BY NextCauseInv
<1>2. CauseInv => FailureHasACause
  BY DEF CauseInv
<1>3. QED
  BY <1>1, <1>2, InitCauseInv, PTL DEF Spec

----
(***************************************************************************)
(* Launching, with any number of schedulers.  A batch is launched by the   *)
(* one coordinator that inserted it, which launches each client once; what *)
(* another coordinator finds IN_PROGRESS it only settles.                  *)
(***************************************************************************)
Opening == {"insertRows", "launch"}

SoleLauncher ==
  \A c, d \in Coordinators :
    pc[c] \in Opening /\ pc[d] \in Opening /\ cur[c] = cur[d] => c = d

LaunchedWasInserted ==
  \A b \in Batches, k \in Clients : load[b][k] # "none" => b <= inserted

\* A client whose launcher has not run yet has no instance in the batch.
NotYetLaunched ==
  \A c \in Coordinators, k \in Clients :
    \/ pc[c] = "insertRows"
    \/ pc[c] = "launch" /\ runner[c][k] = "unlaunched"
    => load[cur[c]][k] = "none"

LaunchInv ==
  /\ SafeInv /\ SoleLauncher /\ LaunchedWasInserted /\ NotYetLaunched
  /\ CompletedBySomeLoad

LEMMA InitLaunchInv == Init => LaunchInv
<1> SUFFICES ASSUME Init PROVE LaunchInv
  OBVIOUS
<1>1. SafeInv
  BY InitSafeInv
<1>2. QED
  BY <1>1 DEF Init, LaunchInv, SoleLauncher, LaunchedWasInserted, NotYetLaunched,
              CompletedBySomeLoad, Opening

\* How coordinator c comes to insert rows, and to launch.
OpenStep(c) ==
  /\ pc'[c] = "insertRows" =>
       \/ pc[c] = "insertRows" /\ cur'[c] = cur[c]
       \/ cur'[c] = inserted + 1 /\ inserted' = inserted + 1 /\ UNCHANGED load
  /\ pc'[c] = "launch" =>
       /\ cur'[c] = cur[c]
       /\ \/ pc[c] = "insertRows"
          \/ /\ pc[c] = "launch"
             /\ \A k \in Clients :
                  runner'[c][k] = "unlaunched" => runner[c][k] = "unlaunched"

LEMMA OpensStep ==
  ASSUME TypeInv, [Next]_vars, NEW c \in Coordinators
  PROVE  OpenStep(c)
<1> USE DEF TypeInv, TypeOK, Goto, OpenStep
<1>1. CASE UNCHANGED <<pc, cur, runner>>
  BY <1>1
<1>2. ASSUME NEW d \in Coordinators, InsertBatch(d) PROVE OpenStep(c)
  BY <1>2 DEF InsertBatch
<1>3. ASSUME NEW d \in Coordinators, InsertRows(d) PROVE OpenStep(c)
  BY <1>3 DEF InsertRows
<1>4. ASSUME NEW d \in Coordinators,
             ReadLatest(d) \/ TimeoutRows(d) \/ LaunchesEnd(d)
      PROVE  OpenStep(c)
  BY <1>4 DEF ReadLatest, TimeoutRows, LaunchesEnd
<1>5. ASSUME NEW d \in Coordinators,
             \/ Finish(d) \/ TimeoutBatch(d) \/ Abandon(d) \/ StartWaiting(d)
      PROVE  OpenStep(c)
  BY <1>5 DEF Finish, TimeoutBatch, Abandon, StartWaiting, Forget
<1>6. ASSUME NEW d \in Coordinators, Reconcile(d) \/ Poll(d) \/ InsertRowsFails(d)
      PROVE  OpenStep(c)
  <2>1. PICK step \in {"finish", "timeoutRows", "idle"}, b \in 0..MaxBatches :
          /\ pc' = [pc EXCEPT ![d] = step] /\ cur' = [cur EXCEPT ![d] = b]
          /\ UNCHANGED runner
    BY <1>6, BoundsAssumption DEF Reconcile, Poll, InsertRowsFails, Settle
  <2>2. QED
    BY <2>1
<1>7. ASSUME NEW d \in Coordinators, NEW j \in Clients,
             Launch(d, j) \/ MarkRunnerFailed(d, j)
      PROVE  OpenStep(c)
  <2>1. PICK r \in {"ok", "failed"} :
          runner' = [runner EXCEPT ![d][j] = r] /\ UNCHANGED <<pc, cur>>
    BY <1>7 DEF Launch, MarkRunnerFailed
  <2>2. \A k \in Clients :
          runner'[c][k] = "unlaunched" => runner[c][k] = "unlaunched"
    BY <2>1
  <2>3. QED
    BY <2>1, <2>2
<1>8. ASSUME NEW a \in Batches,
             \/ GrowsStale(a)
             \/ \E k \in Clients : LoadStarts(a, k) \/ LoadEnds(a, k) \/ LoadDies(a, k)
      PROVE  UNCHANGED <<pc, cur, runner>>
  BY <1>8 DEF local, GrowsStale, LoadStarts, LoadEnds, LoadDies
<1>9. CASE UNCHANGED vars
  BY <1>1, <1>9 DEF vars
<1>10. CASE Next
  BY <1>1, <1>2, <1>3, <1>4, <1>5, <1>6, <1>7, <1>8, <1>10 DEF Next, Coordinate
<1>11. QED
  BY <1>9, <1>10

\* What a step does to the instance of client k in batch b: its launcher has
\* not run yet, or it moves on.
Launching(b, k) ==
  /\ UNCHANGED <<pc, cur>>
  /\ \E c \in Coordinators :
       /\ pc[c] = "launch" /\ cur[c] = b
       /\ runner[c][k] = "unlaunched" /\ runner'[c][k] # "unlaunched"

MovesOn(b, k) ==
  \/ load'[b][k] = load[b][k]
  \/ load[b][k] = "queued" /\ load'[b][k] \in {"loading", "lost"}
  \/ load[b][k] = "loading" /\ load'[b][k] \in {"loaded", "lost"}

LEMMA InstanceStep ==
  ASSUME TypeInv, [Next]_vars, NEW b \in Batches, NEW k \in Clients
  PROVE  MovesOn(b, k) \/ Launching(b, k)
<1> USE DEF MovesOn
<1>1. CASE UNCHANGED load
  BY <1>1
<1>2. ASSUME NEW c \in Coordinators, NEW j \in Clients, Launch(c, j)
      PROVE  MovesOn(b, k) \/ Launching(b, k)
  <2>1. PICK r \in {"ok", "failed"} : runner' = [runner EXCEPT ![c][j] = r]
    BY <1>2 DEF Launch
  <2>2. /\ pc[c] = "launch" /\ UNCHANGED <<pc, cur>> /\ runner[c][j] = "unlaunched"
        /\ load' = [load EXCEPT ![cur[c]][j] = "queued"] \/ UNCHANGED load
    BY <1>2 DEF Launch
  <2>3. runner'[c][j] # "unlaunched"
    BY <2>1 DEF TypeInv, TypeOK
  <2>4. CASE cur[c] = b /\ j = k
    BY <2>2, <2>3, <2>4 DEF Launching
  <2>5. CASE ~(cur[c] = b /\ j = k)
    BY <2>2, <2>5 DEF TypeInv, TypeOK
  <2>6. QED
    BY <2>4, <2>5
<1>3. ASSUME NEW a \in Batches, NEW j \in Clients,
             LoadStarts(a, j) \/ LoadEnds(a, j) \/ LoadDies(a, j)
      PROVE  MovesOn(b, k)
  <2>1. PICK phase :
          /\ load' = [load EXCEPT ![a][j] = phase]
          /\ \/ load[a][j] = "queued" /\ phase \in {"loading", "lost"}
             \/ load[a][j] = "loading" /\ phase \in {"loaded", "lost"}
    BY <1>3 DEF LoadStarts, LoadEnds, LoadDies
  <2>2. CASE a = b /\ j = k
    BY <2>1, <2>2 DEF TypeInv, TypeOK
  <2>3. CASE ~(a = b /\ j = k)
    BY <2>1, <2>3 DEF TypeInv, TypeOK
  <2>4. QED
    BY <2>2, <2>3
<1>4. ASSUME NEW c \in Coordinators,
             \/ ReadLatest(c) \/ Reconcile(c) \/ InsertBatch(c) \/ InsertRows(c)
             \/ Finish(c) \/ TimeoutRows(c) \/ TimeoutBatch(c) \/ LaunchesEnd(c)
             \/ StartWaiting(c) \/ Poll(c) \/ InsertRowsFails(c) \/ Abandon(c)
             \/ \E j \in Clients : MarkRunnerFailed(c, j)
      PROVE  UNCHANGED load
  BY <1>4 DEF ReadLatest, Reconcile, InsertBatch, InsertRows, Finish, TimeoutRows,
              TimeoutBatch, LaunchesEnd, StartWaiting, Poll, InsertRowsFails,
              Abandon, MarkRunnerFailed
<1>5. ASSUME NEW a \in Batches, GrowsStale(a) PROVE UNCHANGED load
  BY <1>5 DEF GrowsStale
<1>6. CASE UNCHANGED vars
  BY <1>1, <1>6 DEF vars
<1>7. CASE Next
  BY <1>1, <1>2, <1>3, <1>4, <1>5, <1>7 DEF Next, Coordinate
<1>8. QED
  BY <1>6, <1>7

\* A row is completed by an instance that validates its load in this step.
LEMMA CompletingStep ==
  ASSUME TypeInv, [Next]_vars, NEW b \in Batches, NEW k \in Clients,
         row'[b][k] = "COMPLETED", row[b][k] # "COMPLETED"
  PROVE  \E a \in Batches : load'[a][k] = "loaded"
<1>1. ASSUME NEW rows, NEW from, NEW to, to # "COMPLETED", UpdateRows(rows, from, to)
      PROVE  FALSE
  BY <1>1 DEF UpdateRows
<1>2. ASSUME NEW x, row' = [row EXCEPT ![x] = [j \in Clients |-> "PENDING"]]
      PROVE  FALSE
  <2>1. row'[b] = row[b] \/ row'[b] = [j \in Clients |-> "PENDING"]
    BY <1>2 DEF TypeInv, TypeOK
  <2>2. QED
    BY <2>1
<1>3. ASSUME NEW a \in Batches, NEW j \in Clients, LoadEnds(a, j)
      PROVE  \E e \in Batches : load'[e][k] = "loaded"
  <2>1. /\ load' = [load EXCEPT ![a][j] = "loaded"]
        /\ UpdateRows(Batches \X {j}, {"IN_PROGRESS"}, "COMPLETED")
    BY <1>1, <1>3 DEF LoadEnds
  <2>2. j = k
    BY <2>1 DEF UpdateRows
  <2>3. load'[a][k] = "loaded"
    BY <2>1, <2>2 DEF TypeInv, TypeOK
  <2>4. QED
    BY <2>3
<1>4. ASSUME NEW a \in Batches, NEW j \in Clients, LoadStarts(a, j) PROVE FALSE
  BY <1>1, <1>4 DEF LoadStarts
<1>5. ASSUME NEW c \in Coordinators,
             TimeoutRows(c) \/ \E j \in Clients : MarkRunnerFailed(c, j)
      PROVE  FALSE
  BY <1>1, <1>5 DEF TimeoutRows, MarkRunnerFailed
<1>6. ASSUME NEW c \in Coordinators, InsertRows(c) \/ InsertRowsFails(c)
      PROVE  FALSE
  BY <1>2, <1>6 DEF InsertRows, InsertRowsFails
<1>7. ASSUME NEW c \in Coordinators,
             \/ ReadLatest(c) \/ Reconcile(c) \/ InsertBatch(c) \/ Finish(c)
             \/ TimeoutBatch(c) \/ LaunchesEnd(c) \/ StartWaiting(c)
             \/ Poll(c) \/ Abandon(c) \/ \E j \in Clients : Launch(c, j)
      PROVE  UNCHANGED row
  BY <1>7 DEF tables, ReadLatest, Reconcile, InsertBatch, Finish, TimeoutBatch,
              LaunchesEnd, StartWaiting, Poll, Abandon, Launch
<1>8. ASSUME NEW a \in Batches, GrowsStale(a) \/ \E j \in Clients : LoadDies(a, j)
      PROVE  UNCHANGED row
  BY <1>8 DEF tables, GrowsStale, LoadDies
<1>9. Next
  BY DEF vars
<1>10. QED
  BY <1>3, <1>4, <1>5, <1>6, <1>7, <1>8, <1>9 DEF Next, Coordinate

LEMMA NextLaunchInv == LaunchInv /\ [Next]_vars => LaunchInv'
<1> SUFFICES ASSUME LaunchInv, [Next]_vars PROVE LaunchInv'
  OBVIOUS
<1> USE DEF LaunchInv
<1>1. SafeInv' /\ TypeInv /\ TypeInv'
  BY NextSafeInv DEF SafeInv
<1>2. inserted \in Nat /\ inserted' \in Nat /\ inserted' >= inserted
  BY <1>1, InsertedGrows DEF TypeInv, TypeOK
<1>3. \A c \in Coordinators : pc[c] \in Opening =>
        cur[c] \in Batches /\ cur[c] \in Nat /\ cur[c] <= inserted
  <2> SUFFICES ASSUME NEW c \in Coordinators, pc[c] \in Opening
               PROVE  cur[c] \in Batches /\ cur[c] \in Nat /\ cur[c] <= inserted
    OBVIOUS
  <2>1. cur[c] \in 1..inserted /\ cur[c] \in Batches
    BY <1>1, WorkingBatch DEF Opening, Step
  <2>2. QED
    BY <1>2, <2>1
<1>4. \A c \in Coordinators : OpenStep(c)
  BY <1>1, OpensStep
<1>5. \A b \in Batches, k \in Clients : MovesOn(b, k) \/ Launching(b, k)
  BY <1>1, InstanceStep
<1>6. LaunchedWasInserted'
  <2> SUFFICES ASSUME NEW b \in Batches, NEW k \in Clients, load'[b][k] # "none"
               PROVE  b <= inserted'
    BY DEF LaunchedWasInserted
  <2>1. b \in Nat
    BY DEF Batches
  <2>2. load[b][k] # "none" \/ Launching(b, k)
    BY <1>5 DEF MovesOn
  <2>3. b <= inserted
    BY <1>3, <2>2 DEF Launching, LaunchedWasInserted, Opening
  <2>4. QED
    BY <1>2, <2>1, <2>3
<1>7. SoleLauncher'
  <2> SUFFICES ASSUME NEW c \in Coordinators, NEW d \in Coordinators, c # d,
                      pc'[c] \in Opening, pc'[d] \in Opening, cur'[c] = cur'[d]
               PROVE  FALSE
    BY DEF SoleLauncher
  <2>1. ASSUME NEW e \in Coordinators, pc'[e] \in Opening
        PROVE  \/ pc[e] \in Opening /\ cur'[e] = cur[e]
               \/ pc'[e] = "insertRows" /\ cur'[e] = inserted + 1
    BY <1>4, <2>1 DEF OpenStep, Opening
  <2>2. CASE pc[c] \in Opening /\ cur'[c] = cur[c]
             /\ pc[d] \in Opening /\ cur'[d] = cur[d]
    BY <2>2 DEF SoleLauncher
  <2>a. \A e \in Coordinators : pc[e] \in Opening => cur[e] # inserted + 1
    BY <1>2, <1>3
  <2>3. CASE cur'[c] = inserted + 1 /\ pc[d] \in Opening /\ cur'[d] = cur[d]
    BY <2>a, <2>3
  <2>4. CASE cur'[d] = inserted + 1 /\ pc[c] \in Opening /\ cur'[c] = cur[c]
    BY <2>a, <2>4
  <2>5. CASE pc'[c] = "insertRows" /\ pc'[d] = "insertRows"
    BY <1>1, <2>5 DEF SafeInv, SoleInserter
  <2>6. QED
    BY <2>1, <2>2, <2>3, <2>4, <2>5
<1>8. NotYetLaunched'
  <2> SUFFICES ASSUME NEW c \in Coordinators, NEW k \in Clients,
                      \/ pc'[c] = "insertRows"
                      \/ pc'[c] = "launch" /\ runner'[c][k] = "unlaunched"
               PROVE  load'[cur'[c]][k] = "none"
    BY DEF NotYetLaunched
  <2>1. CASE cur'[c] = inserted + 1 /\ inserted' = inserted + 1 /\ UNCHANGED load
    <3>1. inserted + 1 \in Batches
      BY <1>1, <1>2, <2>1 DEF TypeInv, TypeOK, Batches
    <3>2. ~(inserted + 1 <= inserted)
      BY <1>2
    <3>3. QED
      BY <2>1, <3>1, <3>2 DEF LaunchedWasInserted
  <2>2. CASE /\ pc[c] \in Opening /\ cur'[c] = cur[c]
             /\ pc[c] = "launch" => runner[c][k] = "unlaunched"
    <3>1. load[cur[c]][k] = "none" /\ cur[c] \in Batches
      BY <1>3, <2>2 DEF NotYetLaunched, Opening
    <3>2. ~Launching(cur[c], k)
      <4> SUFFICES ASSUME Launching(cur[c], k) PROVE FALSE
        OBVIOUS
      <4>1. PICK d \in Coordinators :
              /\ pc[d] = "launch" /\ cur[d] = cur[c]
              /\ runner'[d][k] # "unlaunched"
        BY DEF Launching
      <4>2. d = c
        BY <2>2, <4>1 DEF SoleLauncher, Opening
      <4>3. pc'[c] = "launch"
        BY <4>1, <4>2 DEF Launching
      <4>4. QED
        BY <4>1, <4>2, <4>3
    <3>3. QED
      BY <1>5, <2>2, <3>1, <3>2 DEF MovesOn
  <2>3. QED
    BY <1>4, <2>1, <2>2 DEF OpenStep, Opening
<1>9. CompletedBySomeLoad'
  <2> SUFFICES ASSUME NEW b \in Batches, NEW k \in Clients,
                      row'[b][k] = "COMPLETED"
               PROVE  \E a \in 1..inserted' : load'[a][k] = "loaded"
    BY DEF CompletedBySomeLoad
  <2>1. PICK a \in Batches : load'[a][k] = "loaded"
    <3>1. CASE row[b][k] = "COMPLETED"
      <4>1. PICK a \in 1..inserted : load[a][k] = "loaded"
        BY <3>1 DEF CompletedBySomeLoad
      <4>2. a \in Batches
        BY <1>1, <1>2, BoundsAssumption DEF TypeInv, TypeOK, Batches
      <4>3. ~Launching(a, k)
        BY <4>1 DEF Launching, NotYetLaunched
      <4>4. load'[a][k] = "loaded"
        BY <1>5, <4>1, <4>2, <4>3 DEF MovesOn
      <4>5. QED
        BY <4>2, <4>4
    <3>2. CASE row[b][k] # "COMPLETED"
      BY <1>1, <3>2, CompletingStep
    <3>3. QED
      BY <3>1, <3>2
  <2>2. a \in 1..inserted'
    BY <1>2, <1>6, <2>1 DEF LaunchedWasInserted, Batches
  <2>3. QED
    BY <2>1, <2>2
<1>10. QED
  BY <1>1, <1>6, <1>7, <1>8, <1>9

LEMMA LaunchInvariance == Spec => []LaunchInv
  BY InitLaunchInv, NextLaunchInv, PTL DEF Spec

\* No batch launches a client twice, whatever schedulers crash, restart or
\* share the tables: an instance is queued at most once and then moves on.
THEOREM LoadsRunOnce == Spec => LaunchedOnce
<1>1. LaunchInv /\ [Next]_vars =>
        [\A b \in Batches, k \in Clients :
           load[b][k] # "none" =>
             \/ load'[b][k] = load[b][k]
             \/ load[b][k] = "queued" /\ load'[b][k] \in {"loading", "lost"}
             \/ load[b][k] = "loading" /\ load'[b][k] \in {"loaded", "lost"}]_vars
  <2> SUFFICES ASSUME LaunchInv, [Next]_vars, NEW b \in Batches, NEW k \in Clients,
                      load[b][k] # "none"
               PROVE  MovesOn(b, k)
    BY DEF MovesOn
  <2>1. ~Launching(b, k)
    BY DEF Launching, LaunchInv, NotYetLaunched
  <2>2. QED
    BY <2>1, InstanceStep DEF LaunchInv, SafeInv
<1>2. QED
  BY <1>1, LaunchInvariance, PTL DEF Spec, LaunchedOnce

\* A COMPLETED client row has behind it an instance of that client, of this
\* or of another batch, that validated its load.
THEOREM CompletedHasALoad == Spec => []CompletedBySomeLoad
  BY LaunchInvariance, PTL DEF LaunchInv

----
(***************************************************************************)
(* The control tables implement BatchCommit.                               *)
(***************************************************************************)
AbsOutcome == [b \in Batches |-> Outcome(batch[b])]

AbsVote == [b \in Batches |-> [k \in Clients |-> Vote(row[b][k])]]

LEMMA OutcomeValues ==
  /\ Outcome("NONE") = "none" /\ Outcome("IN_PROGRESS") = "open"
  /\ Outcome("COMPLETED") = "committed"
  /\ Outcome("FAILED") = "aborted" /\ Outcome("TIMED_OUT") = "aborted"
  BY DEF Outcome

LEMMA VoteValues ==
  /\ Vote("NONE") = "none" /\ Vote("COMPLETED") = "yes"
  /\ \A s \in ActiveRow : Vote(s) = "working"
  /\ \A s \in FailedRow : Vote(s) = "no"
  BY DEF Vote, ActiveRow, FailedRow

\* No step writes both tables, and a step writes the row of one batch.
LEMMA OneTable ==
  ASSUME TypeInv, [Next]_vars
  PROVE  \/ UNCHANGED batch
         \/ /\ UNCHANGED row
            /\ \E b \in Batches, v \in BatchStatus : batch' = [batch EXCEPT ![b] = v]
<1>1. ASSUME NEW c \in Coordinators, Finish(c) \/ TimeoutBatch(c)
      PROVE  /\ UNCHANGED row
             /\ \/ UNCHANGED batch
                \/ \E b \in Batches, v \in BatchStatus :
                     batch' = [batch EXCEPT ![b] = v]
  <2>1. cur[c] \in Batches /\ verdict[c] \in BatchStatus
    BY <1>1, CurrentBatch
       DEF Finish, TimeoutBatch, Working, Step, TypeInv, HasDecided,
           BatchStatus, TerminalBatch
  <2>2. CloseBatch(cur[c], verdict[c]) /\ UNCHANGED row
    BY <1>1 DEF Finish, TimeoutBatch
  <2>3. QED
    BY <2>1, <2>2 DEF CloseBatch
<1>2. ASSUME NEW c \in Coordinators, InsertBatch(c)
      PROVE  /\ UNCHANGED row
             /\ \E b \in Batches, v \in BatchStatus : batch' = [batch EXCEPT ![b] = v]
  <2>1. inserted + 1 \in Batches
    BY <1>2, BoundsAssumption DEF InsertBatch, TypeInv, TypeOK, Batches
  <2>2. QED
    BY <1>2, <2>1 DEF InsertBatch, BatchStatus
<1>3. ASSUME NEW c \in Coordinators,
             \/ ReadLatest(c) \/ Reconcile(c) \/ InsertRows(c)
             \/ InsertRowsFails(c) \/ TimeoutRows(c) \/ LaunchesEnd(c)
             \/ StartWaiting(c) \/ Poll(c) \/ Abandon(c)
             \/ \E k \in Clients : Launch(c, k) \/ MarkRunnerFailed(c, k)
      PROVE  UNCHANGED batch
  BY <1>3 DEF tables, ReadLatest, Reconcile, InsertRows, InsertRowsFails,
              TimeoutRows, LaunchesEnd, StartWaiting, Poll, Abandon, Launch,
              MarkRunnerFailed
<1>4. ASSUME NEW a \in Batches,
             \/ GrowsStale(a)
             \/ \E k \in Clients : LoadStarts(a, k) \/ LoadEnds(a, k) \/ LoadDies(a, k)
      PROVE  UNCHANGED batch
  BY <1>4 DEF tables, GrowsStale, LoadStarts, LoadEnds, LoadDies
<1>5. CASE UNCHANGED vars
  BY <1>5 DEF vars
<1>6. CASE Next
  BY <1>1, <1>2, <1>3, <1>4, <1>6 DEF Next, Coordinate
<1>7. QED
  BY <1>5, <1>6

\* All the rows of a new batch are created by one statement.
LEMMA InsertingRows ==
  ASSUME TypeInv, [Next]_vars, NEW b \in Batches, Inserting(b)
  PROVE  UNCHANGED row \/ row' = [row EXCEPT ![b] = [k \in Clients |-> "PENDING"]]
<1>1. PICK c \in Coordinators :
        pc[c] = "insertRows" /\ pc'[c] # "insertRows" /\ cur[c] = b
  BY DEF Inserting
<1>2. InsertRows(c) \/ InsertRowsFails(c) \/ Abandon(c)
  <2>1. pc' # pc
    BY <1>1
  <2>2. Next
    BY <2>1 DEF vars
  <2>3. ASSUME NEW d \in Coordinators, Coordinate(d), ~InsertRows(c)
        PROVE  pc'[c] = "insertRows"
    BY <1>1, <2>3
       DEF Coordinate, ReadLatest, Reconcile, InsertBatch, InsertRows, Finish,
           TimeoutRows, TimeoutBatch, LaunchesEnd, StartWaiting, Poll, Launch,
           MarkRunnerFailed, Goto, TypeInv, TypeOK
  <2>4. ASSUME NEW d \in Coordinators, InsertRowsFails(d) \/ Abandon(d), d # c
        PROVE  pc'[c] = "insertRows"
    BY <1>1, <2>4 DEF InsertRowsFails, Abandon, Goto, TypeInv, TypeOK
  <2>5. ASSUME NEW a \in Batches,
               \/ GrowsStale(a)
               \/ \E k \in Clients : LoadStarts(a, k) \/ LoadEnds(a, k) \/ LoadDies(a, k)
        PROVE  pc' = pc
    BY <2>5 DEF local, GrowsStale, LoadStarts, LoadEnds, LoadDies
  <2>6. QED
    BY <1>1, <2>1, <2>2, <2>3, <2>4, <2>5 DEF Next
<1>3. QED
  BY <1>1, <1>2 DEF InsertRows, InsertRowsFails, Abandon, tables

LEMMA StepImplements ==
  ASSUME SafeInv, [Next]_vars
  PROVE  [Commitment!Next]_(Commitment!vars)
<1>a. Commitment!Batches = Batches
  BY DEF Commitment!Batches, Batches
<1>1. CASE UNCHANGED batch /\ \E b \in Batches : Inserting(b)
  <2>1. PICK b \in Batches : Inserting(b)
    BY <1>1
  <2>2. CASE UNCHANGED row
    BY <1>1, <2>2 DEF Commitment!vars
  <2>3. CASE row' = [row EXCEPT ![b] = [k \in Clients |-> "PENDING"]]
    <3>1. NoRows(b) /\ batch[b] # "NONE" /\ batch[b] \in BatchStatus
      BY <2>1, SMTT(30) DEF Inserting, SafeInv, SoleInserter, Rank, TypeInv, TypeOK,
                            HasBatch, Working, Step
    <3>2. Outcome(batch[b]) # "none"
      BY <3>1, OutcomeValues DEF BatchStatus, TerminalBatch
    <3>3. [k \in Clients |-> Vote(row[b][k])] = [k \in Clients |-> "none"]
      BY <3>1, VoteValues DEF NoRows
    <3>4. row \in [Batches -> [Clients -> RowStatus]]
      BY DEF SafeInv, TypeInv, TypeOK
    <3>5. AbsVote' = [AbsVote EXCEPT ![b] = [k \in Clients |-> "working"]]
      <4>1. Vote("PENDING") = "working"
        BY VoteValues DEF ActiveRow
      <4>2. [k \in Clients |-> Vote(row'[b][k])] = [k \in Clients |-> "working"]
        BY <2>3, <3>4, <4>1
      <4>3. \A a \in Batches : a # b => row'[a] = row[a]
        BY <2>3, <3>4
      <4>4. QED
        BY <4>2, <4>3 DEF AbsVote
    <3>6. UNCHANGED AbsOutcome
      BY <1>1 DEF AbsOutcome
    <3>7. Commitment!Enrol(b)
      BY <3>2, <3>3, <3>5, <3>6 DEF Commitment!Enrol, AbsOutcome, AbsVote
    <3>8. QED
      BY <1>a, <3>7 DEF Commitment!Next
  <2>4. QED
    BY <2>1, <2>2, <2>3, InsertingRows DEF SafeInv
<1>2. CASE UNCHANGED batch /\ \A b \in Batches : ~Inserting(b)
  <2>1. UNCHANGED AbsOutcome
    BY <1>2 DEF AbsOutcome
  <2>2. row \in [Batches -> [Clients -> RowStatus]]
        /\ row' \in [Batches -> [Clients -> RowStatus]]
    BY NextTypeInv DEF SafeInv, TypeInv, TypeOK
  <2>3. \A s \in RowStatus : Vote(s) \in Commitment!Votes
    BY VoteValues DEF RowStatus, TerminalRow, Commitment!Votes
  <2>4. AbsVote' \in [Batches -> [Clients -> Commitment!Votes]]
    BY <2>2, <2>3 DEF AbsVote
  <2>5. ASSUME NEW b \in Batches, NEW k \in Clients
        PROVE  \/ AbsVote'[b][k] = AbsVote[b][k]
               \/ AbsVote[b][k] = "working" /\ AbsVote'[b][k] \in {"yes", "no"}
    <3>1. AbsVote[b][k] = Vote(row[b][k]) /\ AbsVote'[b][k] = Vote(row'[b][k])
      BY DEF AbsVote
    <3>2. \/ row'[b][k] = row[b][k]
          \/ row[b][k] \in ActiveRow /\ row'[b][k] \in ActiveRow \cup TerminalRow
      BY <1>2, RowsStep DEF RowStep, SafeInv
    <3>3. QED
      BY <3>1, <3>2, VoteValues DEF TerminalRow
  <2>6. Commitment!CastVotes
    BY <1>a, <2>1, <2>4, <2>5 DEF Commitment!CastVotes, AbsOutcome, AbsVote
  <2>7. QED
    BY <2>6 DEF Commitment!Next
<1>3. ASSUME UNCHANGED row, NEW b \in Batches, NEW v \in BatchStatus,
             batch' = [batch EXCEPT ![b] = v], batch' # batch
      PROVE  Commitment!Next
  <2>1. batch \in [Batches -> BatchStatus]
    BY DEF SafeInv, TypeInv, TypeOK
  <2>2. UNCHANGED AbsVote
    BY <1>3 DEF AbsVote
  <2>3. AbsOutcome' = [AbsOutcome EXCEPT ![b] = Outcome(v)]
    BY <1>3, <2>1 DEF AbsOutcome
  <2>4. batch'[b] = v /\ batch[b] # v
    BY <1>3, <2>1
  <2>5. BatchStep(b)
    BY BatchesStep DEF SafeInv
  <2>6. CASE b = inserted + 1 /\ v = "IN_PROGRESS"
    <3>1. batch[b] = "NONE"
      BY <2>6 DEF SafeInv, Rank, TypeInv, TypeOK
    <3>2. Commitment!Open(b)
      BY <2>2, <2>3, <2>6, <3>1, OutcomeValues
         DEF Commitment!Open, AbsOutcome, AbsVote
    <3>3. QED
      BY <1>a, <3>2 DEF Commitment!Next
  <2>7. CASE batch[b] = "IN_PROGRESS" /\ v = "COMPLETED"
    <3>1. \A k \in Clients : row[b][k] = "COMPLETED"
      BY <1>3, <2>4, <2>7, NextSafeInv DEF SafeInv, CompletedBatchIsComplete
    <3>2. Commitment!Commit(b)
      BY <2>2, <2>3, <2>7, <3>1, OutcomeValues, VoteValues
         DEF Commitment!Commit, AbsOutcome, AbsVote
    <3>3. QED
      BY <1>a, <3>2 DEF Commitment!Next
  <2>8. CASE batch[b] = "IN_PROGRESS" /\ v \in {"FAILED", "TIMED_OUT"}
    <3>1. Commitment!Abort(b)
      BY <2>2, <2>3, <2>8, OutcomeValues
         DEF Commitment!Abort, AbsOutcome, AbsVote
    <3>2. QED
      BY <1>a, <3>1 DEF Commitment!Next
  <2>9. QED
    BY <2>4, <2>5, <2>6, <2>7, <2>8
       DEF BatchStep, SafeInv, TypeInv, HasDecided
<1>4. QED
  BY <1>1, <1>2, <1>3, OneTable DEF SafeInv

\* Every step of coordination, of any number of schedulers and of the Obero
\* processes, is a step of BatchCommit or leaves its state as it was.
THEOREM RefreshImplementsCommit == Spec => ImplementsCommit
<1>1. Init => Commitment!Init
  BY OutcomeValues, VoteValues DEF Init, Commitment!Init, Commitment!Batches, Batches
<1>2. SafeInv /\ [Next]_vars => [Commitment!Next]_(Commitment!vars)
  BY StepImplements
<1>3. QED
  BY <1>1, <1>2, SafeInvariance, PTL DEF Spec, ImplementsCommit, Commitment!Spec
====
