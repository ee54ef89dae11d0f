---- MODULE SchedulerService ----
(***************************************************************************)
(* The life of the scheduler process as a child of the application         *)
(* (service.py: ensure_scheduler_started, stop_scheduler; app.py: lifespan *)
(* and _scheduler_watchdog; process_scheduler.py: request_shutdown).       *)
(*                                                                         *)
(* The event loop, at startup and in its watchdog, and the threads of      *)
(* /api/health and /api/etl start a scheduler when there is none.  When    *)
(* the application ends, the scheduler gets SIGTERM and 10 seconds, in     *)
(* which it stops its runners one after another, up to 5 seconds each;     *)
(* then it is killed.  Time is counted in units of 5 seconds.              *)
(*                                                                         *)
(* uvicorn (external) raises the signal that stopped it again when it has  *)
(* done.  SIGTERM then ends the process on the spot; after SIGINT, or when *)
(* the process is the first of its container, for which the kernel ignores *)
(* it, the interpreter joins its threads and runs the atexit functions.    *)
(***************************************************************************)
EXTENDS Naturals, FiniteSets

CONSTANTS
  Requests,   \* threads that serve /api/health and /api/etl
  Loop,       \* the thread of the event loop
  Clients,    \* clients a scheduler starts runners for
  Processes,  \* scheduler processes, a finished one is used again
  None,       \* no process, no thread
  MaxFaults   \* bound: failures to start, by configuration or system

ASSUME CallersAssumption == Loop \notin Requests

ASSUME NoneAssumption ==
  None \notin Processes /\ None \notin Requests /\ None # Loop

ASSUME BoundsAssumption == MaxFaults \in Nat

\* One process more than _PROCESS and stop_scheduler can refer to.
ASSUME ProcessesAssumption ==
  Processes # {} /\ \A p, q \in Processes : Processes \ {p, q} # {}

VARIABLES
  main,       \* what the thread of the event loop does next
  lock,       \* who holds _LOCK
  at,         \* at[c]: what caller c of ensure_scheduler_started does next
  current,    \* _PROCESS
  victim,     \* process, in stop_scheduler
  waited,     \* time that stop_scheduler has waited for it
  failed,     \* _model_snapshot_watchdog has ended with an exception
  hurried,    \* SIGINT came while uvicorn waited for requests
  state,      \* state[p]: the scheduler process p
  runners,    \* runners[p]: clients whose runner p started and that runs
  cut,        \* processes that did not end by themselves
  faults

app       == <<main, failed, hurried>>
service   == <<lock, current, victim, waited>>
scheduler == <<state, runners, cut>>
vars      == <<main, lock, at, current, victim, waited, failed, hurried, state,
               runners, cut, faults>>

Callers == Requests \cup {Loop}

MainSteps == {"startup", "serving", "draining", "closing", "stop", "signal", "wait",
              "exiting", "atexit", "last signal", "last wait", "ended", "killed"}

\* "deaf": in wait_for_batch, which does not look at SHUTDOWN.
States == {"none", "starting", "running", "batch", "stopping", "deaf", "dead"}

Alive(p) == state[p] \notin {"none", "dead"}

TypeOK ==
  /\ main \in MainSteps
  /\ lock \in Callers \cup {None}
  /\ at \in [Callers -> {"idle", "lock", "start"}]
  /\ current \in Processes \cup {None} /\ victim \in Processes \cup {None}
  /\ waited \in 0..2
  /\ failed \in BOOLEAN /\ hurried \in BOOLEAN
  /\ state \in [Processes -> States]
  /\ runners \in [Processes -> SUBSET Clients]
  /\ cut \subseteq Processes
  /\ faults \in 0..MaxFaults

Init ==
  /\ main = "startup" /\ failed = FALSE /\ hurried = FALSE
  /\ lock = None /\ current = None /\ victim = None /\ waited = 0
  /\ at = [c \in Callers |-> "idle"]
  /\ state = [p \in Processes |-> "none"]
  /\ runners = [p \in Processes |-> {}]
  /\ cut = {} /\ faults = 0

----
(* ensure_scheduler_started *)

\* Startup and the watchdog call it in the event loop, which does nothing
\* else meanwhile; the watchdog ticks until lifespan cancels it.  Requests call
\* it in threads of their own, some time after they were accepted.
Call(c) ==
  /\ at[c] = "idle"
  /\ main = "serving" \/ (c = Loop /\ main \in {"startup", "draining"})
  /\ at' = [at EXCEPT ![c] = "lock"]
  /\ UNCHANGED <<app, service, scheduler, faults>>

Running == current # None /\ Alive(current)

\* The startup is over when its call has returned.
Return(c) ==
  /\ at' = [at EXCEPT ![c] = "idle"]
  /\ main' = IF c = Loop /\ main = "startup" THEN "serving" ELSE main

\* Mutant: poll() is not called, a process object is taken for a process.
EnterUnpolled(c) ==
  /\ at[c] = "lock" /\ lock = None /\ main # "killed"
  /\ \/ current # None /\ Return(c) /\ UNCHANGED lock
     \/ /\ current = None
        /\ lock' = c
        /\ at' = [at EXCEPT ![c] = "start"] /\ UNCHANGED main
  /\ UNCHANGED <<failed, hurried, current, victim, waited, scheduler, faults>>

\* Mutant: the check is made without the lock.
EnterUnlocked(c) ==
  /\ at[c] = "lock" /\ main # "killed"
  /\ \/ Running /\ Return(c) /\ UNCHANGED lock
     \/ /\ ~Running
        /\ lock' = c
        /\ at' = [at EXCEPT ![c] = "start"] /\ UNCHANGED main
  /\ UNCHANGED <<failed, hurried, current, victim, waited, scheduler, faults>>

\* with _LOCK: the process is polled.
Enter(c) ==
  /\ at[c] = "lock" /\ lock = None /\ main # "killed"
  /\ \/ Running /\ Return(c) /\ UNCHANGED lock
     \/ /\ ~Running
        /\ lock' = c
        /\ at' = [at EXCEPT ![c] = "start"] /\ UNCHANGED main
  /\ UNCHANGED <<failed, hurried, current, victim, waited, scheduler, faults>>

\* A process that is gone, with its runners, and that nobody refers to.
Free(p) == ~Alive(p) /\ runners[p] = {} /\ p \notin {current, victim}

NewProcess == CHOOSE p \in Processes : Free(p)

Start(c) ==
  /\ at[c] = "start" /\ main # "killed"
  /\ lock' = None
  /\ Return(c)
  /\ \E p \in Processes : Free(p)
  /\ current' = NewProcess
  /\ state' = [state EXCEPT ![NewProcess] = "starting"]
  /\ cut' = cut \ {NewProcess}
  /\ UNCHANGED <<failed, hurried, victim, waited, runners, faults>>

\* load_clients raises, or Popen does; the old process object stays.
StartFails(c) ==
  /\ at[c] = "start" /\ main # "killed"
  /\ faults < MaxFaults /\ faults' = faults + 1
  /\ lock' = None
  /\ Return(c)
  /\ UNCHANGED <<failed, hurried, current, victim, waited, scheduler>>

----
(* The end of the application *)

\* uvicorn is asked to stop and takes no more requests.
Shutdown ==
  /\ main = "serving" /\ at[Loop] = "idle"
  /\ main' = "draining"
  /\ UNCHANGED <<failed, hurried, service, at, scheduler, faults>>

\* It waits for the requests in progress ...
Drain ==
  /\ main = "draining" /\ \A c \in Callers : at[c] = "idle"
  /\ main' = "closing"
  /\ UNCHANGED <<failed, hurried, service, at, scheduler, faults>>

\* ... unless SIGINT comes meanwhile.  Then it does not run lifespan's end: if
\* SIGTERM came too the process ends, else lifespan is cancelled with its loop.
Hurry ==
  /\ main = "draining" /\ at[Loop] = "idle"
  /\ main' \in {"closing", "killed"}
  /\ hurried' = TRUE
  /\ UNCHANGED <<failed, service, at, scheduler, faults>>

\* publish_model_snapshot_complete raised in the model watchdog.
ModelWatchdogFails ==
  /\ main \in {"serving", "draining"} /\ ~failed
  /\ failed' = TRUE
  /\ UNCHANGED <<main, hurried, service, at, scheduler, faults>>

\* lifespan cancels and awaits both tasks.  Awaiting a task that has ended
\* with an exception raises it, and stop_scheduler is not reached.
CloseLifespan ==
  /\ main = "closing"
  /\ main' = IF failed THEN "exiting" ELSE "stop"
  /\ UNCHANGED <<failed, hurried, service, at, scheduler, faults>>

\* serve() has returned, or logged what lifespan raised, and raises SIGTERM,
\* which ends the process with its threads.
Reraise ==
  /\ main = "exiting" /\ ~hurried
  /\ main' = "killed"
  /\ UNCHANGED <<failed, hurried, service, at, scheduler, faults>>

\* Mutant: stop_scheduler is not registered with atexit.
JoinThreadsOnly ==
  /\ main = "exiting" /\ \A c \in Callers : at[c] = "idle"
  /\ main' = "ended"
  /\ UNCHANGED <<failed, hurried, service, at, scheduler, faults>>

\* The interpreter joins the threads of requests and calls stop_scheduler,
\* registered with atexit.
JoinThreads ==
  /\ main = "exiting" /\ \A c \in Callers : at[c] = "idle"
  /\ main' = "atexit"
  /\ UNCHANGED <<failed, hurried, service, at, scheduler, faults>>

After(step) == IF step \in {"stop", "signal", "wait"} THEN "exiting" ELSE "ended"

\* stop_scheduler takes the process out of _PROCESS.
TakeProcess ==
  /\ main \in {"stop", "atexit"} /\ lock = None
  /\ current' = None
  /\ \/ /\ Running
        /\ victim' = current /\ waited' = 0
        /\ main' = IF main = "stop" THEN "signal" ELSE "last signal"
     \/ /\ ~Running
        /\ main' = After(main) /\ UNCHANGED <<victim, waited>>
  /\ UNCHANGED <<failed, hurried, lock, at, scheduler, faults>>

\* process.terminate(): request_shutdown lists the runners that are active.
\* Before its handler is installed the signal ends the scheduler.
Terminate ==
  /\ main \in {"signal", "last signal"}
  /\ main' = IF main = "signal" THEN "wait" ELSE "last wait"
  /\ state' = [state EXCEPT ![victim] =
       CASE @ = "starting" -> "dead"  [] @ = "running" -> "stopping"
         [] @ = "batch" -> "deaf"     [] OTHER -> @]
  /\ UNCHANGED <<failed, hurried, service, at, runners, cut, faults>>

\* Mutant: process.wait() without a timeout.
WaitForEver ==
  /\ main \in {"wait", "last wait"}
  /\ ~Alive(victim) /\ UNCHANGED scheduler
  /\ main' = After(main)
  /\ victim' = None /\ waited' = 0
  /\ UNCHANGED <<failed, hurried, lock, at, current, faults>>

\* process.wait(timeout=10) returns, or the process is killed.
WaitEnds ==
  /\ main \in {"wait", "last wait"}
  /\ \/ ~Alive(victim) /\ UNCHANGED scheduler
     \/ /\ Alive(victim) /\ waited = 2
        /\ state' = [state EXCEPT ![victim] = "dead"]
        /\ cut' = cut \cup {victim} /\ UNCHANGED runners
  /\ main' = After(main)
  /\ victim' = None /\ waited' = 0
  /\ UNCHANGED <<failed, hurried, lock, at, current, faults>>

TimePasses ==
  /\ main \in {"wait", "last wait"} /\ waited < 2
  /\ waited' = waited + 1
  /\ UNCHANGED <<app, lock, at, current, victim, scheduler, faults>>

----
(* A scheduler process *)

Becomes(p, s) == state' = [state EXCEPT ![p] = s]

\* main() has read clients.json and installed its signal handlers.
Ready(p) ==
  /\ state[p] = "starting"
  /\ Becomes(p, "running")
  /\ UNCHANGED <<app, service, at, runners, cut, faults>>

\* run_client; also after the signal, by a thread that had looked at SHUTDOWN
\* before (LaunchWave bounds what is left open here).
StartRunner(p, k) ==
  /\ state[p] \in {"running", "stopping"} /\ k \notin runners[p]
  /\ runners' = [runners EXCEPT ![p] = @ \cup {k}]
  /\ UNCHANGED <<app, service, at, state, cut, faults>>

\* Done or timed out, or its next line met a broken pipe.
RunnerEnds(p, k) ==
  /\ k \in runners[p]
  /\ runners' = [runners EXCEPT ![p] = @ \ {k}]
  /\ UNCHANGED <<app, service, at, state, cut, faults>>

\* The runners of the cycle have ended, or were stopped, and its batch is
\* awaited ...
AwaitBatch(p) ==
  /\ runners[p] = {}
  /\ \/ state[p] = "running" /\ Becomes(p, "batch")
     \/ state[p] = "stopping" /\ Becomes(p, "deaf")
  /\ UNCHANGED <<app, service, at, runners, cut, faults>>

\* ... and decided: the next cycle, or the end if one was asked for.
BatchDecided(p) ==
  /\ \/ state[p] = "batch" /\ Becomes(p, "running")
     \/ state[p] = "deaf" /\ Becomes(p, "dead")
  /\ UNCHANGED <<app, service, at, runners, cut, faults>>

\* _stop_process in request_shutdown: a runner that ignores SIGTERM is
\* killed after 5 seconds.
StopRunner(p, k) ==
  /\ state[p] = "stopping" /\ k \in runners[p]
  /\ runners' = [runners EXCEPT ![p] = @ \ {k}]
  /\ \/ UNCHANGED waited
     \/ waited < 2 /\ waited' = waited + 1
  /\ UNCHANGED <<app, lock, at, current, victim, state, cut, faults>>

\* The wave's threads end with their runners, and main() with them, between
\* cycles or when there is no batch to wait for.
Exit(p) ==
  /\ state[p] = "stopping" /\ runners[p] = {}
  /\ Becomes(p, "dead")
  /\ UNCHANGED <<app, service, at, runners, cut, faults>>

Crash(p) ==
  /\ Alive(p)
  /\ Becomes(p, "dead")
  /\ cut' = cut \cup {p}
  /\ UNCHANGED <<app, service, at, runners, faults>>

----
Ensure(c) == Enter(c) \/ Start(c) \/ StartFails(c)

Stop == TakeProcess \/ Terminate \/ WaitEnds

End == Drain \/ CloseLifespan \/ Reraise \/ JoinThreads \/ Stop

Scheduler(p) ==
  \/ Ready(p) \/ AwaitBatch(p) \/ BatchDecided(p) \/ Exit(p) \/ Crash(p)
  \/ \E k \in Clients : StartRunner(p, k) \/ RunnerEnds(p, k) \/ StopRunner(p, k)

Next ==
  \/ \E c \in Callers : Call(c) \/ Ensure(c)
  \/ Shutdown \/ Hurry \/ ModelWatchdogFails \/ End \/ TimePasses
  \/ \E p \in Processes : Scheduler(p)

Spec == Init /\ [][Next]_vars

\* The application's threads go on, the watchdog calls again and again, time
\* passes, and a runner ends.  Between two calls of the watchdog there are 15
\* seconds, in which _LOCK goes to a thread that waits for it and the event loop
\* sees that the requests are done.  Nothing is assumed of a scheduler.
Fairness ==
  /\ \A c \in Callers : WF_vars(Ensure(c)) /\ SF_vars(Enter(c))
  /\ WF_vars(Call(Loop)) /\ SF_vars(Drain)
  /\ WF_vars(End) /\ WF_vars(TimePasses)
  /\ \A p \in Processes, k \in Clients : WF_vars(RunnerEnds(p, k))

FairSpec == Spec /\ Fairness

----
(* Safety *)

\* No scheduler is lost: one that is alive is the one of _PROCESS or the one
\* being stopped, whoever calls ensure_scheduler_started at the same time.
EverySchedulerIsHeld ==
  \A p \in Processes : Alive(p) => p \in {current, victim}

\* One scheduler at a time: two live at once only while stop_scheduler waits
\* for the end of one of them, and a request started the other meanwhile.
OneScheduler ==
  \A p, q \in Processes :
    Alive(p) /\ Alive(q) /\ p # q => main \in {"signal", "wait", "last signal", "last wait"}

\* "Stop the scheduler and allow it to terminate active client runners": when
\* the application has ended, its scheduler has, although a failed marker write
\* makes lifespan skip stop_scheduler and requests may start one while another
\* is being stopped; and so have the runners, except those of a scheduler that
\* was killed at 10 seconds or crashed.  If SIGTERM ended the application this
\* takes a lifespan that reached stop_scheduler and no second signal before.
EndIsClean ==
  main = "ended" \/ (main = "killed" /\ ~failed /\ ~hurried) =>
    \A p \in Processes : ~Alive(p) /\ (runners[p] # {} => p \in cut)

----
(* Deadlock *)

\* What the application can do with no help of a scheduler: a call goes on, the
\* shutdown does, or a runner whose scheduler is gone ends and frees its place.
CallMoves(c) ==
  \/ at[c] = "idle" /\ (main = "serving" \/ (c = Loop /\ main = "startup"))
  \/ at[c] = "lock" /\ lock = None
  \/ at[c] = "start" /\ \E p \in Processes : Free(p) \/ runners[p] # {}

EndMoves ==
  \/ main \in {"closing", "signal", "wait", "last signal", "last wait"}
  \/ main \in {"draining", "exiting"} /\ \A c \in Callers : at[c] = "idle"
  \/ main \in {"stop", "atexit"} /\ lock = None

\* The event loop, the threads of requests, the interpreter that joins them and
\* stop_scheduler never wait for each other in a circle over _LOCK.
NeverStuck ==
  main \notin {"ended", "killed"} => EndMoves \/ \E c \in Callers : CallMoves(c)

----
(* Liveness *)

\* While the application serves, a scheduler that is gone is started again.
SchedulerIsRestored ==
  main = "serving" /\ ~Running ~> Running \/ main # "serving"

\* The application ends, whatever its scheduler waits for.
ShutdownEnds == main = "draining" ~> main \in {"ended", "killed"}
====
