---- MODULE LaunchWave ----
(***************************************************************************)
(* One cycle's launches in the scheduler (process_scheduler.py: run_cycle  *)
(* from line 379, run_client, _stop_process, request_shutdown and          *)
(* memory_aware_wave_size).                                                *)
(*                                                                         *)
(* The clients are launched in waves; a wave has a thread per client, and  *)
(* the threads start their runner processes when all of them have reached  *)
(* a barrier.  A thread reads its runner's output until nobody holds the   *)
(* pipe any more, neither the runner nor a driver or browser it leaves     *)
(* behind; a timer stops a runner that takes too long.  SIGTERM and SIGINT *)
(* run request_shutdown in the main thread, on top of whatever that thread *)
(* is doing, another request_shutdown or the wait between two waves        *)
(* included.  It takes two locks that are not reentrant: the one inside    *)
(* the event SHUTDOWN, which the wait takes too, and ACTIVE_LOCK, under    *)
(* which it finds the runners it stops.                                    *)
(***************************************************************************)
EXTENDS Naturals, Sequences, FiniteSets

CONSTANTS
  NumClients,       \* enabled clients of clients.json
  LaunchWaveSize,   \* CEA_CLIENT_LAUNCH_WAVE_SIZE
  BrowserMemory,    \* CEA_BROWSER_MEMORY_ESTIMATE_MB
  MemoryReserve,    \* CEA_HOST_MEMORY_RESERVE_MB
  TotalMemory,      \* physical memory in MB, 0 if sysconf does not tell
  MaxSignals,       \* bound: signals received
  MaxFaults         \* bound: runners that do not start, cannot be read or
                    \* leave a child that holds their pipe

\* What main() and load_clients() check before the first cycle.
ASSUME SettingsAssumption ==
  /\ NumClients \in Nat \ {0} /\ LaunchWaveSize \in Nat \ {0}
  /\ BrowserMemory \in Nat \ {0} /\ MemoryReserve \in Nat
  /\ TotalMemory \in Nat

ASSUME BoundsAssumption == MaxSignals \in Nat /\ MaxFaults \in Nat

VARIABLES
  main,       \* what the thread of run_cycle does next
  before,     \* clients of the waves before the present one
  wave,       \* clients of the present wave
  thread,     \* thread[k]: what the thread of client k does next
  result,     \* result[k]: the result of run_client for k
  barrier,    \* the launch barrier of the wave
  proc,       \* proc[k]: the runner process of k, with its exit code
  held,       \* clients whose thread has yet to read the pipe to its end, while
              \* a child of the exited runner holds it
  timer,      \* timer[k]: the timer of run_client, and its thread
  timedOut,   \* timedOut[k]: the event timed_out, until run_client returns
  active,     \* ACTIVE_PROCESSES
  shutdown,   \* SHUTDOWN
  handler,    \* calls of request_shutdown in progress, innermost last
  signals, faults

cycle  == <<main, before, wave>>
client == <<thread, result, barrier, proc, held, timer, timedOut, active>>
stop   == <<shutdown, handler, signals>>
vars   == <<main, before, wave, thread, result, barrier, proc, held, timer, timedOut,
            active, shutdown, handler, signals, faults>>

Clients == 1..NumClients

Smaller(a, b) == IF a < b THEN a ELSE b
Larger(a, b)  == IF a > b THEN a ELSE b

\* Reserved memory is only subtracted as far as there is any.
BrowserBudget ==
  IF TotalMemory > MemoryReserve
  THEN Larger(BrowserMemory, TotalMemory - MemoryReserve)
  ELSE BrowserMemory

MemoryLimit == Larger(1, BrowserBudget \div BrowserMemory)

\* memory_aware_wave_size
Workers ==
  IF TotalMemory = 0
  THEN Smaller(NumClients, LaunchWaveSize)
  ELSE Smaller(Smaller(NumClients, LaunchWaveSize), MemoryLimit)

\* The next slice of the client list.
NextWave == (before + 1)..Smaller(before + Workers, NumClients)

Threads  == {"none", "check", "arrive", "wait", "popen", "register", "read",
             "stop", "cleanup", "abort", "report", "done"}
Results  == {"none", "ok", "failed", "skipped", "unready", "raised"}
Steps    == {"next", "submit", "collect", "gap", "gapLock", "gapWait", "gapWake", "done"}
Timers   == {"off", "armed", "fired", "stop", "over"}
Calls    == [at : {"set", "setting", "lock", "holding", "stop"},
             todo : SUBSET Clients, of : {0} \cup Clients]

TypeOK ==
  /\ main \in Steps
  /\ before \in 0..NumClients
  /\ wave \in SUBSET Clients
  /\ thread \in [Clients -> Threads]
  /\ result \in [Clients -> Results]
  /\ barrier \in {"filling", "released", "broken"}
  /\ proc \in [Clients -> {"none", "up", "term", "zero", "nonzero"}]
  /\ held \in SUBSET Clients
  /\ timer \in [Clients -> Timers]
  /\ timedOut \in [Clients -> BOOLEAN]
  /\ active \in SUBSET Clients
  /\ shutdown \in BOOLEAN
  /\ handler \in Seq(Calls)
  /\ signals \in 0..MaxSignals /\ faults \in 0..MaxFaults

Init ==
  /\ main = "next" /\ before = 0 /\ wave = {}
  /\ thread = [k \in Clients |-> "none"]
  /\ result = [k \in Clients |-> "none"]
  /\ barrier = "filling"
  /\ proc = [k \in Clients |-> "none"]
  /\ held = {}
  /\ timer = [k \in Clients |-> "off"]
  /\ timedOut = [k \in Clients |-> FALSE]
  /\ active = {}
  /\ shutdown = FALSE /\ handler = <<>>
  /\ signals = 0 /\ faults = 0

----
Alive(k)  == proc[k] \in {"up", "term"}
Exited(k) == proc[k] \in {"zero", "nonzero"}

\* The innermost call of request_shutdown.
Top == handler[Len(handler)]
SetTop(call) == handler' = [handler EXCEPT ![Len(handler)] = call]

\* Only request_shutdown keeps ACTIVE_LOCK across a step.
LockFree == \A i \in DOMAIN handler : handler[i].at # "holding"

\* The lock inside SHUTDOWN: wait() holds it on its way in and out, set()
\* throughout; is_set() does not take it.
MainInEvent == main \in {"gapLock", "gapWake"}
EventFree   == ~MainInEvent /\ \A i \in DOMAIN handler : handler[i].at # "setting"

GoOn(k, step) == thread' = [thread EXCEPT ![k] = step]

\* run_client returns, or raises.
Return(k, r) ==
  /\ result' = [result EXCEPT ![k] = r]
  /\ GoOn(k, "done")

\* _stop_process begins: nothing to do unless poll() is None.
Terminate(k) ==
  proc' = [proc EXCEPT ![k] = IF @ = "up" THEN "term" ELSE @]

\* The thread that runs run_cycle is free of signal handlers.
MainRuns == handler = <<>>

----
(* run_cycle *)

\* The loop over the waves, up to its check of SHUTDOWN.
EnterWave ==
  /\ MainRuns /\ main = "next"
  /\ \/ before < NumClients /\ ~shutdown /\ main' = "submit"
     \/ (before >= NumClients \/ shutdown) /\ main' = "done"
  /\ UNCHANGED <<before, wave, client, stop, faults>>

SubmitWave ==
  /\ MainRuns /\ main = "submit"
  /\ wave' = NextWave
  /\ before' = Smaller(before + Workers, NumClients)
  /\ barrier' = "filling"
  /\ thread' = [k \in Clients |-> IF k \in NextWave THEN "check" ELSE thread[k]]
  /\ main' = "collect"
  /\ UNCHANGED <<result, proc, held, timer, timedOut, active, stop, faults>>

\* Mutant: the threads of the wave are not waited for.
CollectNothing ==
  /\ MainRuns /\ main = "collect"
  /\ \/ before < NumClients /\ ~shutdown /\ main' = "gap"
     \/ (before >= NumClients \/ shutdown) /\ main' = "next"
  /\ UNCHANGED <<before, wave, client, stop, faults>>

\* Every future of the wave has its result; a gap follows if a wave does.
CollectWave ==
  /\ MainRuns /\ main = "collect"
  /\ \A k \in wave : thread[k] = "done"
  /\ \/ before < NumClients /\ ~shutdown /\ main' = "gap"
     \/ (before >= NumClients \/ shutdown) /\ main' = "next"
  /\ UNCHANGED <<before, wave, client, stop, faults>>

\* SHUTDOWN.wait: it takes the lock of the event, and gives it back at once if
\* the event is set, or to wait; then it takes the lock again to return.
Gap ==
  /\ MainRuns
  /\ \/ main = "gap" /\ EventFree /\ main' = "gapLock"
     \/ main = "gapLock" /\ shutdown /\ main' = "next"
     \/ main = "gapLock" /\ ~shutdown /\ main' = "gapWait"
     \/ main = "gapWait" /\ EventFree /\ main' = "gapWake"
     \/ main = "gapWake" /\ main' = "next"
  /\ UNCHANGED <<before, wave, client, stop, faults>>

----
(* run_client *)

Check(k) ==
  /\ thread[k] = "check"
  /\ \/ shutdown /\ Return(k, "skipped")
     \/ ~shutdown /\ GoOn(k, "arrive") /\ UNCHANGED result
  /\ UNCHANGED <<cycle, barrier, proc, held, timer, timedOut, active, stop, faults>>

\* Mutant: a thread that is late for a broken barrier launches all the same.
ArriveAnyway(k) ==
  /\ thread[k] = "arrive"
  /\ \/ barrier = "broken" /\ GoOn(k, "popen") /\ UNCHANGED <<result, barrier>>
     \/ /\ barrier = "filling"
        /\ \A j \in wave \ {k} : thread[j] = "wait"
        /\ barrier' = "released" /\ GoOn(k, "popen") /\ UNCHANGED result
     \/ /\ barrier = "filling"
        /\ \E j \in wave \ {k} : thread[j] # "wait"
        /\ GoOn(k, "wait") /\ UNCHANGED <<result, barrier>>
  /\ UNCHANGED <<cycle, proc, held, timer, timedOut, active, stop, faults>>

\* Barrier.wait: the last of the wave releases the others.
Arrive(k) ==
  /\ thread[k] = "arrive"
  /\ \/ barrier = "broken" /\ Return(k, "unready") /\ UNCHANGED barrier
     \/ /\ barrier = "filling"
        /\ \A j \in wave \ {k} : thread[j] = "wait"
        /\ barrier' = "released" /\ GoOn(k, "popen") /\ UNCHANGED result
     \/ /\ barrier = "filling"
        /\ \E j \in wave \ {k} : thread[j] # "wait"
        /\ GoOn(k, "wait") /\ UNCHANGED <<result, barrier>>
  /\ UNCHANGED <<cycle, proc, held, timer, timedOut, active, stop, faults>>

Passes(k) ==
  /\ thread[k] = "wait"
  /\ \/ barrier = "released" /\ GoOn(k, "popen") /\ UNCHANGED result
     \/ barrier = "broken" /\ Return(k, "unready")
  /\ UNCHANGED <<cycle, barrier, proc, held, timer, timedOut, active, stop, faults>>


\* The first to have waited 30 seconds breaks the barrier.
BarrierTimeout(k) ==
  /\ thread[k] = "wait" /\ barrier = "filling"
  /\ barrier' = "broken"
  /\ Return(k, "unready")
  /\ UNCHANGED <<cycle, proc, held, timer, timedOut, active, stop, faults>>

Popen(k) ==
  /\ thread[k] = "popen"
  /\ proc' = [proc EXCEPT ![k] = "up"]
  /\ GoOn(k, "register")
  /\ UNCHANGED <<cycle, result, barrier, held, timer, timedOut, active, stop, faults>>

PopenFails(k) ==
  /\ thread[k] = "popen" /\ faults < MaxFaults
  /\ faults' = faults + 1
  /\ Return(k, "failed")
  /\ UNCHANGED <<cycle, barrier, proc, held, timer, timedOut, active, stop>>

\* Mutant: what starts during a shutdown is not registered.
RegisterUnlessStopping(k) ==
  /\ thread[k] = "register" /\ LockFree
  /\ active' = IF shutdown THEN active ELSE active \cup {k}
  /\ timer' = [timer EXCEPT ![k] = "armed"]
  /\ GoOn(k, "read")
  /\ UNCHANGED <<cycle, result, barrier, proc, held, timedOut, stop, faults>>

\* ACTIVE_PROCESSES, then the timer.
Register(k) ==
  /\ thread[k] = "register" /\ LockFree
  /\ active' = active \cup {k}
  /\ timer' = [timer EXCEPT ![k] = "armed"]
  /\ GoOn(k, "read")
  /\ UNCHANGED <<cycle, result, barrier, proc, held, timedOut, stop, faults>>

\* A line of output is where a thread sees the shutdown.
ReadLine(k) ==
  /\ thread[k] = "read" /\ shutdown
  /\ Terminate(k)
  /\ held' = held \ {k}
  /\ GoOn(k, "stop")
  /\ UNCHANGED <<cycle, result, barrier, timer, timedOut, active, stop, faults>>

\* A line that cannot be decoded raises out of the loop.
ReadFails(k) ==
  /\ thread[k] = "read" /\ faults < MaxFaults
  /\ faults' = faults + 1
  /\ held' = held \ {k}
  /\ GoOn(k, "abort")
  /\ UNCHANGED <<cycle, result, barrier, proc, timer, timedOut, active, stop>>

\* Mutant: the end of the output is taken for the end of the process, and
\* wait() is dropped.
ReadEndsUnwaited(k) ==
  /\ thread[k] \in {"read", "stop"}
  /\ proc[k] # "up" /\ k \notin held
  /\ GoOn(k, "cleanup")
  /\ UNCHANGED <<cycle, result, barrier, proc, held, timer, timedOut, active, stop, faults>>

\* wait(), after the end of the output, which takes all who hold the pipe, or
\* after _stop_process.
ReadEnds(k) ==
  /\ thread[k] \in {"read", "stop"}
  /\ Exited(k) /\ k \notin held
  /\ GoOn(k, "cleanup")
  /\ UNCHANGED <<cycle, result, barrier, proc, held, timer, timedOut, active, stop, faults>>

\* finally: the timer and ACTIVE_PROCESSES.
Cleanup(k) ==
  /\ thread[k] \in {"cleanup", "abort"} /\ LockFree
  /\ timer' = [timer EXCEPT ![k] = IF @ = "armed" THEN "over" ELSE @]
  /\ active' = active \ {k}
  /\ \/ thread[k] = "cleanup" /\ GoOn(k, "report") /\ UNCHANGED result
     \/ thread[k] = "abort" /\ Return(k, "raised")
  /\ timedOut' = [timedOut EXCEPT ![k] = @ /\ thread[k] = "cleanup"]
  /\ UNCHANGED <<cycle, barrier, proc, held, stop, faults>>

\* Mutant: the exit code alone decides.
ReportExitCode(k) ==
  /\ thread[k] = "report"
  /\ \/ proc[k] = "zero" /\ Return(k, "ok")
     \/ proc[k] # "zero" /\ Return(k, "failed")
  /\ timedOut' = [timedOut EXCEPT ![k] = FALSE]
  /\ UNCHANGED <<cycle, barrier, proc, held, timer, active, stop, faults>>

\* ClientResult.succeeded
Report(k) ==
  /\ thread[k] = "report"
  /\ \/ proc[k] = "zero" /\ ~timedOut[k] /\ Return(k, "ok")
     \/ (proc[k] # "zero" \/ timedOut[k]) /\ Return(k, "failed")
  /\ timedOut' = [timedOut EXCEPT ![k] = FALSE]
  /\ UNCHANGED <<cycle, barrier, proc, held, timer, active, stop, faults>>

----
(* The timer of run_client, and the runner process *)

\* The time is up and the timer's thread has seen that it was not cancelled:
\* past this point cancel() is of no effect.
TimerFires(k) ==
  /\ timer[k] = "armed"
  /\ timer' = [timer EXCEPT ![k] = "fired"]
  /\ UNCHANGED <<cycle, thread, result, barrier, proc, held, timedOut, active, stop, faults>>

\* expire, whatever the thread of run_client has done since.  Nobody reads
\* timed_out before the runner has exited, so it is set when _stop_process looks
\* whether it has: then there is nothing to do, else the timer waits for the
\* exit, and may kill.
Expire(k) ==
  /\ timer[k] = "fired"
  /\ timedOut' = [timedOut EXCEPT ![k] = thread[k] # "done"]
  /\ Terminate(k)
  /\ timer' = [timer EXCEPT ![k] = IF Alive(k) THEN "stop" ELSE "over"]
  /\ UNCHANGED <<cycle, thread, result, barrier, held, active, stop, faults>>

\* A runner that exits may leave a driver or a browser behind, which matters
\* to a thread that has not stopped reading.
LeavesChild(k) ==
  \/ UNCHANGED <<held, faults>>
  \/ /\ thread[k] \in {"register", "read"} /\ faults < MaxFaults
     /\ faults' = faults + 1
     /\ held' = held \cup {k}

\* The runner exits by itself, or on SIGTERM, with the code it likes.
RunnerExits(k) ==
  /\ Alive(k)
  /\ \E code \in {"zero", "nonzero"} : proc' = [proc EXCEPT ![k] = code]
  /\ LeavesChild(k)
  /\ UNCHANGED <<cycle, thread, result, barrier, timer, timedOut, active, stop>>

\* It has ignored SIGTERM for 5 seconds: whoever sent it kills the runner.
Kill(k) ==
  /\ proc[k] = "term"
  /\ \/ thread[k] = "stop"
     \/ timer[k] = "stop"
     \/ handler # <<>> /\ Top.at = "stop" /\ Top.of = k
  /\ proc' = [proc EXCEPT ![k] = "nonzero"]
  /\ LeavesChild(k)
  /\ UNCHANGED <<cycle, thread, result, barrier, timer, timedOut, active, stop>>

\* Nobody stops such a child: it exits when it likes.
ChildExits(k) ==
  /\ k \in held
  /\ held' = held \ {k}
  /\ UNCHANGED <<cycle, thread, result, barrier, proc, timer, timedOut, active, stop, faults>>

----
(* request_shutdown *)

\* A signal arrives: the main thread drops what it does, this handler too, and
\* calls SHUTDOWN.set, which takes the lock of the event, or waits for it.
Signal ==
  /\ main # "done" /\ signals < MaxSignals
  /\ signals' = signals + 1
  /\ handler' = Append(handler, [at |-> IF EventFree THEN "setting" ELSE "set",
                                todo |-> {}, of |-> 0])
  /\ UNCHANGED <<cycle, client, shutdown, faults>>

\* Every thread sees the event, and the lock is given back.
HandlerSets ==
  /\ handler # <<>> /\ Top.at = "setting"
  /\ shutdown' = TRUE
  /\ SetTop([Top EXCEPT !.at = "lock"])
  /\ UNCHANGED <<cycle, client, signals, faults>>

\* Takes ACTIVE_LOCK and copies ACTIVE_PROCESSES.
HandlerLocks ==
  /\ handler # <<>> /\ Top.at = "lock" /\ LockFree
  /\ SetTop([Top EXCEPT !.at = "holding", !.todo = active])
  /\ UNCHANGED <<cycle, client, shutdown, signals, faults>>

HandlerUnlocks ==
  /\ handler # <<>> /\ Top.at = "holding"
  /\ SetTop([Top EXCEPT !.at = "stop"])
  /\ UNCHANGED <<cycle, client, shutdown, signals, faults>>

\* _stop_process: the runner stopped last has exited.  One that has exited when
\* its turn comes needs nothing.
StopsNext == handler # <<>> /\ Top.at = "stop" /\ (Top.of # 0 => Exited(Top.of))


HandlerTerminates(k) ==
  /\ StopsNext /\ k \in Top.todo /\ Alive(k)
  /\ Terminate(k)
  /\ SetTop([Top EXCEPT !.of = k])
  /\ UNCHANGED <<cycle, thread, result, barrier, held, timer, timedOut, active, shutdown,
                 signals, faults>>

HandlerReturns ==
  /\ StopsNext /\ \A k \in Top.todo : Exited(k)
  /\ handler' = SubSeq(handler, 1, Len(handler) - 1)
  /\ UNCHANGED <<cycle, client, shutdown, signals, faults>>

----
Cycle == EnterWave \/ SubmitWave \/ CollectWave \/ Gap

RunClient(k) ==
  \/ Check(k) \/ Arrive(k) \/ Passes(k) \/ BarrierTimeout(k) \/ Popen(k)
  \/ PopenFails(k) \/ Register(k) \/ ReadEnds(k) \/ Cleanup(k) \/ Report(k)

Handle ==
  \/ HandlerSets \/ HandlerLocks \/ HandlerUnlocks \/ HandlerReturns
  \/ \E k \in Clients : HandlerTerminates(k)

Next ==
  \/ Cycle \/ Handle \/ Signal
  \/ \E k \in Clients :
       \/ RunClient(k) \/ ReadLine(k) \/ ReadFails(k)
       \/ TimerFires(k) \/ Expire(k)
       \/ RunnerExits(k) \/ Kill(k) \/ ChildExits(k)

Spec == Init /\ [][Next]_vars

\* Threads and handlers go on, a killed process dies.  A runner is assumed
\* neither to exit nor to print, and its child not to exit; a timer may be as
\* long as one likes.
Fairness ==
  /\ WF_vars(Cycle) /\ WF_vars(Handle)
  /\ \A k \in Clients :
       WF_vars(RunClient(k)) /\ WF_vars(Expire(k)) /\ WF_vars(Kill(k))

FairSpec == Spec /\ Fairness

----
(* Safety *)

\* All or none: a runner of a wave is started only when no thread of the wave
\* has left without one, for a shutdown or for a barrier that broke.
WaveStartsTogether ==
  \A j, k \in wave : proc[k] # "none" => result[j] \notin {"skipped", "unready"}

\* A client is reported successful only if its runner exited 0 and was not
\* stopped by its timer.  The timer may come due when the runner has exited,
\* and may set timed_out before the result is read, or after: then there is
\* nothing left to stop, now or later.
SuccessIsReal ==
  \A k \in Clients :
    result[k] = "ok" => proc[k] = "zero" /\ timer[k] # "stop"

\* There are never more runners than a wave may have, except those that a
\* thread left behind when it raised.
LiveWithinWave ==
  Cardinality({k \in Clients : Alive(k) /\ result[k] # "raised"}) <= Workers

\* request_shutdown can find every runner, but for one just started and for
\* those that a thread left behind.
RunnersAreRegistered ==
  \A k \in Clients :
    Alive(k) => k \in active \/ thread[k] = "register" \/ result[k] = "raised"

\* A cycle that was not shut down has a result for each client, and one that
\* ended has no thread or runner left, but for what a thread left behind.
CycleIsWhole ==
  main = "done" =>
    /\ ~shutdown => \A k \in Clients : result[k] \notin {"none", "skipped"}
    /\ \A k \in Clients : Alive(k) => result[k] = "raised"
    /\ active = {}

----
(* Deadlock *)

\* A call of the handler needs a lock that what it interrupted holds: the one
\* in SHUTDOWN, of the wait of run_cycle or of a call of set(), or ACTIVE_LOCK.
\* Each of the two waits for the other, for ever.
BlockedByOuter(i) ==
  \/ /\ handler[i].at = "set"
     /\ MainInEvent \/ \E j \in 1..(i - 1) : handler[j].at = "setting"
  \/ /\ handler[i].at = "lock"
     /\ \E j \in 1..(i - 1) : handler[j].at = "holding"

SelfDeadlocked == \E i \in DOMAIN handler : BlockedByOuter(i)

\* A thread still reads the pipe of a runner that has exited, as a child holds
\* it: there is nothing left that its timer or the handler would stop.
HeldOpen(k) == Exited(k) /\ k \in held

\* What a client's thread, timer or runner can do with no help: the thread goes
\* on, the timer comes due, the runner is killed.
ClientMoves(k) ==
  \/ thread[k] \in {"check", "wait", "popen", "report"}
  \/ thread[k] = "arrive" /\ barrier # "released"
  \/ thread[k] \in {"register", "cleanup", "abort"} /\ LockFree
  \/ thread[k] \in {"read", "stop"} /\ Exited(k) /\ k \notin held
  \/ timer[k] \in {"armed", "fired"}
  \/ proc[k] = "term" /\ (thread[k] = "stop" \/ timer[k] = "stop")

HandlerMoves ==
  /\ handler # <<>>
  /\ \/ Top.at = "lock" /\ LockFree
     \/ Top.at \in {"setting", "holding"}
     \/ StopsNext
     \/ Top.at = "stop" /\ proc[Top.of] = "term"

CycleMoves ==
  /\ MainRuns
  /\ main # "done" /\ (main = "collect" => \A k \in wave : thread[k] = "done")

\* Until the cycle has ended somebody can move, if only a timer or the one who
\* waits to kill a runner: no wave and no shutdown waits in a circle, except
\* for the handler that waits for itself and for a thread whose pipe a child
\* of an exited runner holds open.
NeverStuck ==
  main # "done" =>
    \/ SelfDeadlocked \/ \E k \in Clients : HeldOpen(k)
    \/ CycleMoves \/ HandlerMoves \/ \E k \in Clients : ClientMoves(k)

\* One signal is enough only when it comes while the cycle is on its way into
\* or out of the wait between two waves; elsewhere it takes a second one that
\* interrupts the first one's handler.
DeadlockTakesTwoOrGap == SelfDeadlocked => signals >= 2 \/ MainInEvent

\* Then only a kill of the scheduler helps: the cycle does not go on.
DeadlockIsForever == [][SelfDeadlocked => SelfDeadlocked' /\ UNCHANGED cycle]_vars

----
(* Liveness *)

FoundAlive(k) == Alive(k) /\ \E i \in DOMAIN handler : k \in handler[i].todo


====
