---- MODULE RunMonitor ----
(***************************************************************************)
(* The monitoring of model runs: which log rows are loaded for the active  *)
(* run of a client and for the earlier runs it is compared with            *)
(* (project.py), what the agent concludes from them                        *)
(* (model_monitoring_agent.py), and how the conclusion is saved            *)
(* (model_run_history.py).                                                 *)
(*                                                                         *)
(* The runs and the rows they leave in the four delta tables are external; *)
(* the tables are those of one client.  A refresh reads them as one batch  *)
(* left them: torn reads are the subject of SnapshotBarrier.  Time is      *)
(* counted in minutes, the unit of IST_TILL_MINUTES.                       *)
(***************************************************************************)
EXTENDS Integers, Sequences, SequencesExt

CONSTANTS
  Types,            \* (model, calculation type, reporting layer) of a run
  Steps,            \* the steps a run's log names
  Threshold,        \* 20 minutes over the average
  HistoryLimit,     \* earlier runs compared with: 4
  RowsPerRun,       \* MODEL_MONITORING_CEALOG_ROWS_PER_RUN
  OldRowsPerRun,    \* MODEL_MONITORING_HISTORICAL_BOUNDARY_ROWS_PER_RUN
  StartScanLimit,   \* MODEL_MONITORING_CEALOG_START_SCAN_LIMIT
  EndScanLimit,     \* MODEL_MONITORING_CEALOG_END_SCAN_LIMIT
  FallbackLimit,    \* MODEL_MONITORING_CEALOG_LIMIT
  Kept,             \* how many rows limit_per_table may leave of the client
  FirstId,          \* the rows' IDs follow this one
  PastRuns,         \* runs of the client before those that are monitored
  Shapes,           \* how the past runs went
  MaxRuns, MaxMinutes, MaxRows, MaxDeaths   \* bounds

ASSUME LimitsAssumption ==
  /\ Threshold \in Nat /\ HistoryLimit \in Nat \ {0}
  /\ RowsPerRun \in Nat \ {0} /\ OldRowsPerRun \in Nat /\ OldRowsPerRun >= 4
  /\ StartScanLimit \in Nat \ {0} /\ EndScanLimit \in Nat \ {0}
  /\ FallbackLimit \in Nat \ {0} /\ Kept \subseteq Nat

ASSUME BoundsAssumption ==
  /\ PastRuns \in Nat \ {0} /\ MaxRuns \in Nat /\ PastRuns <= MaxRuns
  /\ MaxMinutes \in Nat /\ MaxRows \in Nat
  /\ MaxDeaths \in Nat /\ FirstId \in 0..(10^8)

\* -START- may be logged in the minute of the form or in the next one.
Shape == [type : Types, late : 0..1, took : 0..1, ended : BOOLEAN]

ASSUME ShapesAssumption == Shapes \subseteq Shape /\ Steps # {}

VARIABLES
  now,        \* the minute
  runs,       \* the client's runs, with their rows in the first three tables
  active,     \* ISRUNNING of the last run
  log,        \* cea_cealog: the IDs follow FirstId
  open,       \* the steps the last run is in, outermost first
  deaths,     \* runs that ended without -END-
  history     \* CEA_Modelrun_History

vars == <<now, runs, active, log, open, deaths, history>>

None   == "none"
Never  == -1
Minute == 0..(3 * PastRuns + MaxMinutes)

Run == [trigger : Minute, session : Minute \cup {Never}, form : Minute \cup {Never},
        type : Types, over : Minute \cup {Never}]
Row == [minute : Minute, run : 1..MaxRuns, step : Steps \cup {None},
        what : {"-START-", "-END-", "before", "after", "detail"}]

Identity == [run : 1..MaxRuns] \cup [key : Types \cup {None}, minute : Minute]
Saved    == [runs : SUBSET (1..MaxRuns), notified : BOOLEAN]

TypeOK ==
  /\ now \in Minute
  /\ runs \in Seq(Run) /\ Len(runs) <= MaxRuns
  /\ active \in BOOLEAN
  /\ log \in Seq(Row) /\ Len(log) <= 5 * PastRuns + MaxRows
  /\ open \in Seq(Steps)
  /\ deaths \in SUBSET (1..MaxRuns)
  /\ DOMAIN history \subseteq Identity
  /\ \A id \in DOMAIN history : history[id] \in Saved

----
(* The past: a run every three minutes, of one step, that ended or died,   *)
(* and was saved before and after its -START- was seen.                    *)

PastRun(k, shape) ==
  LET minute == 3 * (k - 1)
  IN  [trigger |-> minute, session |-> minute, form |-> minute, type |-> shape.type,
       over |-> minute + shape.late + shape.took]

LogRow(minute, run, what, step) ==
  [minute |-> minute, run |-> run, what |-> what, step |-> step]

\* A run that died has no "after" and no -END-.
PastRows(k, shape) ==
  LET start == 3 * (k - 1) + shape.late
      over  == start + shape.took
      step  == CHOOSE step \in Steps : TRUE
  IN  <<LogRow(start, k, "-START-", None),
        LogRow(start, k, "before", step),
        LogRow(start, k, "detail", None),
        IF shape.ended THEN LogRow(over, k, "after", step) ELSE LogRow(over, k, "detail", None),
        LogRow(over, k, IF shape.ended THEN "-END-" ELSE "detail", None)>>

PastHistory ==
  [id \in [run : 1..PastRuns] \cup {[key |-> None, minute |-> 3 * (k - 1)] : k \in 1..PastRuns}
     |-> [runs |-> {k \in 1..PastRuns :
                      id \in {[run |-> k], [key |-> None, minute |-> 3 * (k - 1)]}},
          notified |-> FALSE]]

Init ==
  /\ \E shapes \in [1..PastRuns -> Shapes] :
       /\ runs = [k \in 1..PastRuns |-> PastRun(k, shapes[k])]
       /\ log = [i \in 1..(5 * PastRuns) |->
                   LET k == 1 + ((i - 1) \div 5)
                   IN  PastRows(k, shapes[k])[1 + ((i - 1) % 5)]]
       /\ deaths = {k \in 1..PastRuns : ~shapes[k].ended}
       /\ now = runs[PastRuns].over
  /\ active = FALSE /\ open = <<>>
  /\ history = PastHistory

----
(* What is read.  Rows and runs are named by their place.                  *)

Ids     == DOMAIN log
Id(i)   == FirstId + i
Newest  == Len(runs)
Trigger == runs[Newest].trigger

\* The first and the last n rows of a query ordered by ID.
FirstRows(S, n) == {i \in S : Cardinality({j \in S : j < i}) < n}
LastRows(S, n)  == {i \in S : Cardinality({j \in S : j > i}) < n}

Is(i, what) == log[i].what = what
Earliest(S) == IF S = {} THEN 0 ELSE Min(S)

\* minute_matches_trigger_window
InWindow(minute) == minute \in {Trigger, Trigger + 1}

\* A row is there from its minute on.
Appeared(minute) == minute # Never /\ minute <= now

\* The rows of cea_sessionquery that match; a query lasts as long as its run.
Sessions == {r \in 1..Newest : Appeared(runs[r].session) /\ InWindow(runs[r].session)}

Duration(r) == (IF runs[r].over = Never THEN now ELSE runs[r].over) - runs[r].session

\* extract_form_metadata: the rows whose FULL_RESULT can be parsed; one that
\* cannot counts as none.
Metadata == {r \in 1..Newest : Appeared(runs[r].form)}

\* cea_formenginelog is read in descending order of IST_TILL_MINUTES.
Newer(q, r) ==
  \/ runs[q].form > runs[r].form
  \/ runs[q].form = runs[r].form /\ q > r

\* metadata_for
Matching == {r \in Metadata : InWindow(runs[r].form)}
Current  == CHOOSE r \in Matching : \A q \in Matching : ~Newer(q, r)

\* Mutant: runs of any type are compared with.
PreviousOfAnyType ==
  LET earlier == {r \in Metadata : runs[r].form < runs[Current].form}
  IN  {r \in earlier : Cardinality({q \in earlier : Newer(q, r)}) < HistoryLimit}

\* previous_same_type_times; a form row stands for its minute.
Previous ==
  LET current == Current
      same == {r \in Metadata : /\ runs[r].form < runs[current].form
                                /\ runs[r].type = runs[current].type}
  IN  {r \in same : Cardinality({q \in same : Newer(q, r)}) < HistoryLimit}

----
(* load_relevant_cealog                                                    *)

\* Mutant: only the minute of the trigger is looked at.
CandidatesOfTheMinute(minutes) ==
  FirstRows({i \in Ids : log[i].minute \in minutes \cup {Trigger}}, StartScanLimit)

\* load_cealog_start_candidates, for the minutes of the earlier runs.
Candidates(minutes) ==
  FirstRows({i \in Ids : InWindow(log[i].minute) \/ log[i].minute \in minutes},
            StartScanLimit)

\* The -START- of the run that was triggered, or that has a form, then.
StartAt(rows, minutes) ==
  Earliest({i \in rows : Is(i, "-START-") /\ log[i].minute \in minutes})

\* The format ":g" in which IDs are written into queries: six digits, the last
\* one rounded to even.
Written(id) ==
  LET unit == Min({u \in {1, 10, 100, 1000} : id < 1000000 * u})
      q    == id \div unit
      rest == id % unit
  IN  unit * (IF 2 * rest > unit \/ (2 * rest = unit /\ q % 2 = 1) THEN q + 1 ELSE q)

\* load_cealog_end_candidates
EndCandidates(starts) ==
  LET since == Written(Id(Min(starts)))
  IN  FirstRows({i \in Ids : Id(i) > since /\ Is(i, "-END-")}, EndScanLimit)

\* cealog_run_ranges_for_client: up to the next end; else to the newest row, if
\* latest_cealog_id finds one.
RangeOf(start, starts, ends) ==
  LET later  == {i \in ends : i > start}
      newest == Max(Ids)
      last   == IF later # {} THEN Min(later)
                ELSE IF Id(newest) >= Written(Id(Min(starts))) THEN newest ELSE start
  IN  Written(Id(start))..Written(Id(last))

\* sql_targeted_range_filter, load_cealog_ranges_for_client: all rows of the
\* current run, the boundaries of the old ones.
Targeted(current, old, ends) ==
  LET range == [start \in current \cup old |-> RangeOf(start, current \cup old, ends)]
  IN  FirstRows(
        {i \in Ids : \/ \E start \in current : Id(i) \in range[start]
                     \/ ~Is(i, "detail") /\ \E start \in old : Id(i) \in range[start]},
        RowsPerRun * Cardinality(current) + OldRowsPerRun * Cardinality(old))

\* load_cealog_fallback, from relevant_cealog_start_time on.
Fallback(minutes) ==
  LastRows({i \in Ids : log[i].minute >= Min({Trigger} \cup minutes)}, FallbackLimit)

\* The rows, whether a query returned as many as it asked for, and whether rows
\* were cut: of the rows of all clients limit_per_table are left, the newest
\* ones, and so `kept` of the client's.
Cealog(kept) ==
  LET minutes    == {runs[r].form : r \in Previous}
      candidates == Candidates(minutes)
      \* choose_run_starts takes the current run first.
      current    == {StartAt(candidates, {Trigger, Trigger + 1})} \ {0}
      old        == {StartAt(candidates, {m}) : m \in minutes} \ ({0} \cup current)
      starts     == current \cup old
      ends       == EndCandidates(starts)
      targeted   == Targeted(current, old, ends)
      fallback   == Fallback(minutes)
  IN  IF starts = {} \/ targeted = {}
      THEN [rows |-> fallback,
            cut  |-> FALSE,
            full |-> \/ Cardinality(candidates) = StartScanLimit
                     \/ Cardinality(fallback) = FallbackLimit]
      ELSE [rows |-> LastRows(targeted, kept),
            cut  |-> Cardinality(targeted) > kept,
            full |-> \/ Cardinality(candidates) = StartScanLimit
                     \/ Cardinality(ends) = EndScanLimit
                     \/ Cardinality(targeted) = RowsPerRun * Cardinality(current)
                                                + OldRowsPerRun * Cardinality(old)]

----
(* What the agent concludes from the rows it is given                      *)

\* Mutant: the outermost step is taken.
OutermostStep(rows) ==
  LET opened == {i \in rows : Is(i, "before")
                   /\ ~\E j \in rows : j > i /\ Is(j, "after") /\ log[j].step = log[i].step}
  IN  IF opened = {} \/ (\E i \in rows : Is(i, "-END-"))
      THEN None ELSE log[Min(opened)].step

\* find_open_step: an "after" row closes all earlier "before" rows of its step.
OpenStep(rows) ==
  LET opened == {i \in rows : Is(i, "before")
                   /\ ~\E j \in rows : j > i /\ Is(j, "after") /\ log[j].step = log[i].step}
  IN  IF opened = {} \/ (\E i \in rows : Is(i, "-END-"))
      THEN None ELSE log[Max(opened)].step

\* historical_step_duration: the minutes between the boundaries of the step in
\* the run that started then, if its log has both.
StepDuration(rows, minute, step) ==
  LET start  == StartAt(rows, {minute})
      ends   == {i \in rows : i > start /\ Is(i, "-END-")}
      run    == {i \in rows : i >= start /\ (ends # {} => i <= Min(ends))}
      before == Earliest({i \in run : Is(i, "before") /\ log[i].step = step})
      after  == Earliest({i \in run : /\ i > before
                                      /\ Is(i, "after") /\ log[i].step = step})
  IN  IF start = 0 \/ before = 0 \/ after = 0
      THEN Never ELSE log[after].minute - log[before].minute

\* More than the threshold over the average, or over nothing if there is none.
OverAverage(minutes, took) ==
  LET compared == {r \in DOMAIN took : took[r] # Never}
      n == Cardinality(compared)
  IN  IF n = 0 THEN minutes > Threshold
      ELSE n * minutes - SumFunction([r \in compared |-> took[r]]) > n * Threshold

\* analyze_trigger; start is 0 if the run's start was not found.
Analyzed(read) ==
  LET rows     == read.rows
      start    == StartAt(rows, {Trigger, Trigger + 1})
      step     == OpenStep({i \in rows : i >= start})
      took     == [r \in Previous |-> StepDuration(rows, runs[r].form, step)]
      longest  == Max({Duration(r) : r \in Sessions})
      Outcome(status, found, at) == [status |-> status, full |-> found, start |-> at,
                                 step |-> IF at = 0 THEN None ELSE step]
  IN  IF Sessions = {} THEN Outcome("STUCK_NOT_PROGRESSING", FALSE, 0)
      ELSE IF Matching = {} THEN Outcome("NEEDS_INVESTIGATION", FALSE, 0)
      ELSE IF rows = {} THEN Outcome("LOG_DATA_UNAVAILABLE", read.full, 0)
      ELSE IF start = 0 THEN Outcome("TRIGGERED_NOT_STARTED", read.full, 0)
      ELSE IF step # None /\ OverAverage(longest, took)
           THEN Outcome("LONG_RUNNING", read.full, start)
      ELSE Outcome("RUNNING_NORMAL", read.full, start)

Report(kept) == Analyzed(Cealog(kept))

----
(* The program: _build_model_snapshot, as far as it changes the history    *)

\* Mutant: the trigger time is not part of the identity.
RunIdTimeless(report) ==
  IF report.start # 0 THEN [run |-> log[report.start].run]
  ELSE [key    |-> IF Sessions # {} /\ Matching # {} THEN runs[Current].type ELSE None,
        minute |-> 0]

\* ModelRunHistoryStore.run_id
RunId(report) ==
  IF report.start # 0 THEN [run |-> log[report.start].run]
  ELSE [key    |-> IF Sessions # {} /\ Matching # {} THEN runs[Current].type ELSE None,
        minute |-> Trigger]

\* Mutant: NOTIFIED_BY_AGENT is overwritten as the other columns are.
MergedOver(id, alert) ==
  IF id \in DOMAIN history
  THEN [runs |-> history[id].runs \cup {Newest}, notified |-> alert]
  ELSE [runs |-> {Newest}, notified |-> alert]

\* The merge of save_runs.
Merged(id, alert) ==
  IF id \in DOMAIN history
  THEN [runs     |-> history[id].runs \cup {Newest},
        notified |-> history[id].notified \/ alert]
  ELSE [runs |-> {Newest}, notified |-> alert]

Refresh ==
  /\ active
  /\ \E report \in {Report(kept) : kept \in Kept} :
       LET id == RunId(report)
       IN  history' = [i \in DOMAIN history \cup {id} |->
                         IF i = id THEN Merged(id, report.status = "LONG_RUNNING")
                         ELSE history[i]]
  /\ UNCHANGED <<now, runs, active, log, open, deaths>>

----
(* The client's runs, one after the other, and the rows they leave         *)

Tick ==
  /\ now < runs[PastRuns].over + MaxMinutes
  /\ now' = now + 1
  /\ UNCHANGED <<runs, active, log, open, deaths, history>>

\* The run's rows in cea_sessionquery and cea_formenginelog appear in one of
\* the two minutes they are looked for, or never.
TriggerRun ==
  /\ ~active /\ Newest < MaxRuns
  /\ \E session \in {now, Never}, form \in {now, now + 1, Never}, type \in Types :
       runs' = Append(runs, [trigger |-> now, session |-> session, form |-> form,
                             type |-> type, over |-> Never])
  /\ active' = TRUE
  /\ open' = <<>>
  /\ UNCHANGED <<now, log, deaths, history>>

HasLogged(r, what) == \E i \in Ids : log[i].run = r /\ Is(i, what)
IsOpen == active /\ HasLogged(Newest, "-START-") /\ ~HasLogged(Newest, "-END-")

AddRow(what, step) ==
  /\ Len(log) < 5 * PastRuns + MaxRows
  /\ log' = Append(log, LogRow(now, Newest, what, step))
  /\ UNCHANGED <<now, runs, active, deaths, history>>

LogStart ==
  /\ active /\ ~HasLogged(Newest, "-START-")
  /\ AddRow("-START-", None) /\ UNCHANGED open

LogBefore(step) ==
  /\ IsOpen /\ step \notin {open[i] : i \in DOMAIN open}
  /\ AddRow("before", step)
  /\ open' = Append(open, step)

\* Steps are nested.
LogAfter ==
  /\ IsOpen /\ open # <<>>
  /\ AddRow("after", open[Len(open)])
  /\ open' = SubSeq(open, 1, Len(open) - 1)

LogEnd == IsOpen /\ open = <<>> /\ AddRow("-END-", None) /\ UNCHANGED open

Leave ==
  /\ active' = FALSE
  /\ runs' = [runs EXCEPT ![Newest].over = now]
  /\ open' = <<>>
  /\ UNCHANGED <<now, log, history>>

Finish == active /\ HasLogged(Newest, "-END-") /\ Leave /\ UNCHANGED deaths

\* A run that fails logs no -END-.
Die ==
  /\ active /\ ~HasLogged(Newest, "-END-") /\ Cardinality(deaths \ (1..PastRuns)) < MaxDeaths
  /\ deaths' = deaths \cup {Newest}
  /\ Leave

Next ==
  \/ Refresh
  \/ Tick \/ TriggerRun
  \/ LogStart \/ \E step \in Steps : LogBefore(step)
  \/ LogAfter \/ LogEnd \/ Finish \/ Die

Spec == Init /\ [][Next]_vars

----
(* When the rows can mislead                                               *)

\* Run q left a row in the minute in which run r was triggered, which is the
\* first of the two minutes in which r's rows are looked for.
Shares(q, r) ==
  /\ q < r
  /\ \/ runs[r].trigger \in {runs[q].trigger, runs[q].session, runs[q].form}
     \/ \E i \in Ids : log[i].run = q /\ Is(i, "-START-") /\ log[i].minute = runs[r].trigger

Crowded == \E q, r \in 1..Newest : Shares(q, r)

\* The truth about the active run, by the RUN_ID of the rows.
TrulyStarted ==
  \E i \in Ids : log[i].run = Newest /\ Is(i, "-START-") /\ InWindow(log[i].minute)

TrueStep ==
  IF open = <<>> \/ HasLogged(Newest, "-END-") THEN None ELSE open[Len(open)]

\* The latest earlier runs of the active run's type that left a form row.
Peers ==
  LET same == {r \in 1..(Newest - 1) : /\ runs[r].type = runs[Newest].type
                                     /\ runs[r].form # Never}
  IN  {r \in same : Cardinality({q \in same : q > r}) < HistoryLimit}

\* The first execution of the step in run r.
FirstOf(r, what, step, since) ==
  Earliest({i \in Ids : i > since /\ log[i].run = r /\ Is(i, what) /\ log[i].step = step})

Execution(r) ==
  LET before == FirstOf(r, "before", TrueStep, 0)
      after  == IF before = 0 THEN 0 ELSE FirstOf(r, "after", TrueStep, before)
  IN  IF after = 0 THEN <<>> ELSE <<before, after>>

\* An earlier run is only found if it started in the minute of its form row.
Found(r) ==
  /\ \E i \in Ids : log[i].run = r /\ Is(i, "-START-") /\ log[i].minute = runs[r].form
  /\ Execution(r) # <<>>

TrulyOver ==
  LET sample == {r \in Peers : Found(r)}
      n      == Cardinality(sample)
      took   == [r \in sample |-> log[Execution(r)[2]].minute - log[Execution(r)[1]].minute]
  IN  IF n = 0 THEN Duration(Newest) > Threshold
      ELSE n * Duration(Newest) - SumFunction(took) > n * Threshold

----
(* Properties                                                              *)

LogRead == {"LOG_DATA_UNAVAILABLE", "TRIGGERED_NOT_STARTED", "LONG_RUNNING", "RUNNING_NORMAL"}

\* A run is reported as started only if its log has a -START- in the trigger
\* minute or the next one, and as not started only if it has none, unless rows
\* were cut.
StartIsTrue ==
  active /\ ~Crowded =>
    \A kept \in Kept :
      LET report == Report(kept)
      IN  report.status \in LogRead /\ ~report.full =>
            /\ report.start # 0 => TrulyStarted
            /\ TrulyStarted => report.start # 0 \/ Cealog(kept).cut

\* The step reported is the innermost step the run is in, whatever earlier
\* runs left in the log, with or without an end, and whatever rows were cut.
StepIsTrue ==
  active /\ ~Crowded =>
    \A kept \in Kept :
      LET report == Report(kept)
      IN  report.start # 0 /\ ~report.full => report.step = TrueStep

\* A run is reported as long running exactly if its session is over the
\* average of the step in the latest runs of its type, unless one of them died
\* or rows were cut.
AlertIsTrue ==
  active /\ ~Crowded /\ Peers \cap deaths = {} =>
    \A kept \in Kept :
      LET report == Report(kept)
      IN  report.start # 0 /\ ~report.full =>
            \/ report.status = "LONG_RUNNING" <=> TrueStep # None /\ TrulyOver
            \/ Cealog(kept).cut

\* Different runs are saved in different rows of the history.
RowIsOfOneRun ==
  \A id \in DOMAIN history : \A q, r \in history[id].runs : q < r => Shares(q, r)

\* README.md of the repository, on TRIGGERED_NOT_STARTED: "no ... -START- exists
\* in the trigger minute or one minute later".
NotStartedAsDocumented ==
  active /\ (\E kept \in Kept : Report(kept).status = "TRIGGERED_NOT_STARTED") =>
    ~ \E i \in Ids : Is(i, "-START-") /\ InWindow(log[i].minute)

\* The history never loses a row or the mark that its run was alerted on,
\* whatever the run's status becomes.
AlertsAreKept ==
  [][\A id \in DOMAIN history :
       /\ id \in DOMAIN history'
       /\ history[id].notified => history'[id].notified]_history
====
