---- MODULE SchedulerService_proofs ----
(***************************************************************************)
(* No scheduler is lost and none is left, for any number of requests,      *)
(* clients, processes and failures to start.                               *)
(***************************************************************************)
EXTENDS SchedulerService, TLAPS

\* stop_scheduler has taken a process out of _PROCESS and not yet seen its end.
Signalling == {"signal", "wait", "last signal", "last wait"}

\* The interpreter has joined the threads of requests.
Joined == {"atexit", "last signal", "last wait", "ended"}

\* uvicorn has waited for the requests, and lifespan then for the scheduler.
Drained == {"closing", "stop", "signal", "wait", "exiting", "killed"}
Stopped == {"signal", "wait", "exiting", "killed"}

VictimIsTaken ==
  /\ main \in Signalling => victim \in Processes
  /\ main \notin Signalling => victim = None

\* Between the check and the start of a process nobody else starts one.
StarterHasChecked ==
  \A c \in Callers : at[c] = "start" => lock = c /\ ~Running

JoinedIsFinal ==
  /\ main \in Joined => \A c \in Callers : at[c] = "idle"
  /\ main \in Joined \ {"atexit"} => current = None

DrainedIsFinal ==
  ~hurried =>
    /\ main \in Drained => \A c \in Callers : at[c] = "idle"
    /\ main \in Stopped /\ ~failed => current = None

\* Runners outlive only a scheduler that did not end by itself.
RunnersAreHeld ==
  \A p \in Processes :
    /\ state[p] \in {"starting", "batch", "deaf"} => runners[p] = {}
    /\ ~Alive(p) /\ runners[p] # {} => p \in cut

ServiceInv ==
  /\ TypeOK
  /\ VictimIsTaken
  /\ StarterHasChecked
  /\ JoinedIsFinal
  /\ DrainedIsFinal
  /\ EverySchedulerIsHeld
  /\ RunnersAreHeld

----
LEMMA InitService == Init => ServiceInv
<1> SUFFICES ASSUME Init PROVE ServiceInv
  OBVIOUS
<1>1. TypeOK
  <2>1. main \in MainSteps /\ waited \in 0..2 /\ faults \in 0..MaxFaults
    BY BoundsAssumption DEF Init, MainSteps
  <2>2. state \in [Processes -> States] /\ runners \in [Processes -> SUBSET Clients]
    BY DEF Init, States
  <2>3. failed \in BOOLEAN /\ hurried \in BOOLEAN
    BY Zenon DEF Init
  <2> QED BY <2>1, <2>2, <2>3 DEF Init, TypeOK
<1>2. VictimIsTaken /\ StarterHasChecked /\ JoinedIsFinal /\ DrainedIsFinal
  BY DEF Init, VictimIsTaken, StarterHasChecked, JoinedIsFinal, DrainedIsFinal, Signalling,
     Joined, Drained, Stopped
<1>3. EverySchedulerIsHeld /\ RunnersAreHeld
  BY DEF Init, EverySchedulerIsHeld, RunnersAreHeld, Alive
<1> QED BY <1>1, <1>2, <1>3 DEF ServiceInv

\* A free process is found when there is one.
LEMMA NewProcessIsFree ==
  ASSUME \E p \in Processes : Free(p)
  PROVE  NewProcess \in Processes /\ Free(NewProcess)
BY DEF NewProcess

\* Where the event loop is after a call has returned.
LEMMA ReturnTypes ==
  ASSUME TypeOK, NEW c \in Callers, Return(c)
  PROVE  at' \in [Callers -> {"idle", "lock", "start"}] /\ main' \in MainSteps
BY DEF Return, TypeOK, MainSteps

\* stop_scheduler returns to where it was called from.
LEMMA AfterTypes ==
  ASSUME NEW step PROVE After(step) \in {"exiting", "ended"} /\ After(step) \in MainSteps
BY DEF After, MainSteps

\* The types are preserved by every step.
LEMMA TypeStep == TypeOK /\ VictimIsTaken /\ [Next]_vars => TypeOK'
<1> SUFFICES ASSUME TypeOK, VictimIsTaken, [Next]_vars PROVE TypeOK'
  OBVIOUS
<1>0. MaxFaults \in Nat
  BY BoundsAssumption
<1>1. ASSUME NEW c \in Callers, Call(c) PROVE TypeOK'
  BY <1>1 DEF Call, app, service, scheduler, TypeOK
<1>2. ASSUME NEW c \in Callers, Enter(c) PROVE TypeOK'
  <2>1. CASE Return(c)
    BY <1>2, <2>1, ReturnTypes DEF Enter, scheduler, TypeOK
  <2>2. CASE lock' = c /\ at' = [at EXCEPT ![c] = "start"] /\ UNCHANGED main
    BY <1>2, <2>2 DEF Enter, scheduler, TypeOK
  <2> QED BY <1>2, <2>1, <2>2 DEF Enter
<1>3. ASSUME NEW c \in Callers, Start(c) PROVE TypeOK'
  <2>1. NewProcess \in Processes
    BY <1>3, NewProcessIsFree DEF Start
  <2>2. state' \in [Processes -> States] /\ cut' \subseteq Processes
    BY <1>3, <2>1 DEF Start, TypeOK, States
  <2> QED BY <1>3, <2>1, <2>2, ReturnTypes DEF Start, TypeOK
<1>4. ASSUME NEW c \in Callers, StartFails(c) PROVE TypeOK'
  BY <1>0, <1>4, ReturnTypes DEF StartFails, scheduler, TypeOK
<1>5. CASE Shutdown \/ Hurry \/ ModelWatchdogFails \/ Drain \/ CloseLifespan \/ Reraise
           \/ JoinThreads
  <2>1. main' \in MainSteps /\ UNCHANGED <<service, at, scheduler, faults>>
    BY <1>5 DEF Shutdown, Hurry, ModelWatchdogFails, Drain, CloseLifespan, Reraise,
       JoinThreads, TypeOK, MainSteps
  <2>2. failed' \in BOOLEAN /\ hurried' \in BOOLEAN
    BY <1>5, Zenon DEF Shutdown, Hurry, ModelWatchdogFails, Drain, CloseLifespan, Reraise,
       JoinThreads, TypeOK
  <2> QED BY <2>1, <2>2 DEF service, scheduler, TypeOK
<1>6. CASE TakeProcess
  <2>1. main' \in MainSteps
    BY <1>6, AfterTypes DEF TakeProcess, MainSteps
  <2>2. victim' \in Processes \cup {None} /\ waited' \in 0..2
    <3>1. waited \in 0..2 /\ victim \in Processes \cup {None} /\ current \in Processes \cup {None}
      BY DEF TypeOK
    <3>2. (victim' = current /\ waited' = 0) \/ UNCHANGED <<victim, waited>>
      BY <1>6 DEF TakeProcess
    <3> QED BY <3>1, <3>2
  <2>3. current' = None /\ UNCHANGED <<failed, hurried, lock, at, scheduler, faults>>
    BY <1>6 DEF TakeProcess
  <2> QED BY <2>1, <2>2, <2>3 DEF scheduler, TypeOK
<1>7. CASE Terminate
  <2>1. state' \in [Processes -> States]
    BY <1>7 DEF Terminate, TypeOK, States
  <2> QED BY <1>7, <2>1 DEF Terminate, service, TypeOK, MainSteps
<1>8. CASE WaitEnds
  <2>1. victim \in Processes
    BY <1>8 DEF WaitEnds, VictimIsTaken, Signalling
  <2>2. state' \in [Processes -> States] /\ cut' \subseteq Processes
        /\ runners' \in [Processes -> SUBSET Clients]
    BY <1>8, <2>1 DEF WaitEnds, scheduler, TypeOK, States
  <2>3. main' \in MainSteps
    BY <1>8, AfterTypes DEF WaitEnds
  <2>4. victim' = None /\ waited' = 0 /\ UNCHANGED <<failed, hurried, lock, at, current, faults>>
    BY <1>8 DEF WaitEnds
  <2> QED BY <2>2, <2>3, <2>4 DEF TypeOK
<1>9. CASE TimePasses
  <2>1. waited \in 0..2
    BY DEF TypeOK
  <2>2. waited < 2 /\ waited' = waited + 1
    BY <1>9 DEF TimePasses
  <2>3. waited' \in 0..2
    BY <2>1, <2>2
  <2> QED BY <1>9, <2>3 DEF TimePasses, app, scheduler, TypeOK
<1>10. ASSUME NEW p \in Processes,
              Ready(p) \/ AwaitBatch(p) \/ BatchDecided(p) \/ Exit(p) \/ Crash(p)
       PROVE  TypeOK'
  <2>1. /\ state' \in [Processes -> States] /\ cut' \subseteq Processes
        /\ UNCHANGED <<runners, app, service, at, faults>>
    BY <1>10 DEF Ready, AwaitBatch, BatchDecided, Exit, Crash, Becomes, TypeOK, States
  <2> QED BY <2>1 DEF app, service, TypeOK
<1>11. ASSUME NEW p \in Processes, NEW k \in Clients,
              StartRunner(p, k) \/ RunnerEnds(p, k) \/ StopRunner(p, k)
       PROVE  TypeOK'
  <2>1. /\ runners' \in [Processes -> SUBSET Clients] /\ waited' \in 0..2
        /\ UNCHANGED <<state, cut, app, at, faults, lock, current, victim>>
    BY <1>11 DEF StartRunner, RunnerEnds, StopRunner, service, app, TypeOK
  <2> QED BY <2>1 DEF app, TypeOK
<1>12. CASE UNCHANGED vars
  BY <1>12 DEF vars, TypeOK
<1> QED BY <1>1, <1>2, <1>3, <1>4, <1>5, <1>6, <1>7, <1>8, <1>9, <1>10, <1>11,
           <1>12 DEF Next, Ensure, End, Stop, Scheduler

----
\* Callers, while the application ends or serves.
LEMMA CallersStep ==
  ASSUME ServiceInv, NEW c \in Callers, Call(c) \/ Enter(c) \/ StartFails(c)
  PROVE  VictimIsTaken' /\ StarterHasChecked' /\ JoinedIsFinal' /\ DrainedIsFinal'
         /\ EverySchedulerIsHeld' /\ RunnersAreHeld'
<1>1. /\ UNCHANGED <<current, victim, waited, failed, hurried, state, runners, cut>>
      /\ main' = main \/ (main = "startup" /\ main' = "serving")
  BY DEF Call, Enter, StartFails, Return, app, service, scheduler
<1>2. VictimIsTaken'
  BY <1>1 DEF ServiceInv, VictimIsTaken, Signalling
<1>3. EverySchedulerIsHeld' /\ RunnersAreHeld'
  BY <1>1 DEF ServiceInv, EverySchedulerIsHeld, RunnersAreHeld, Alive
<1>4. Running' <=> Running
  BY <1>1 DEF Running, Alive
<1>5. at \in [Callers -> {"idle", "lock", "start"}]
  BY DEF ServiceInv, TypeOK
<1>6. \/ Call(c) /\ lock' = lock /\ at' = [at EXCEPT ![c] = "lock"]
      \/ at[c] = "lock" /\ lock = None /\ lock' = lock /\ at' = [at EXCEPT ![c] = "idle"]
      \/ at[c] = "lock" /\ lock = None /\ ~Running /\ lock' = c
         /\ at' = [at EXCEPT ![c] = "start"]
      \/ at[c] = "start" /\ lock' = None /\ at' = [at EXCEPT ![c] = "idle"]
  BY DEF Call, Enter, StartFails, Return, service
<1>7. StarterHasChecked'
  <2> SUFFICES ASSUME NEW d \in Callers, at'[d] = "start"
               PROVE  lock' = d /\ ~Running'
    BY DEF StarterHasChecked
  <2>1. CASE d = c
    BY <2>1, <1>4, <1>5, <1>6
  <2>2. CASE d # c
    <3>1. at[d] = "start" /\ lock = d /\ ~Running
      BY <2>2, <1>5, <1>6 DEF ServiceInv, StarterHasChecked
    <3>2. at[c] = "start" => lock = c
      BY DEF ServiceInv, StarterHasChecked
    <3>3. d # None
      BY NoneAssumption DEF Callers
    <3> QED BY <3>1, <3>2, <3>3, <2>2, <1>4, <1>6
  <2> QED BY <2>1, <2>2
<1>8. JoinedIsFinal'
  <2>1. CASE main \in Joined
    <3>1. at[c] = "idle" /\ ~Call(c)
      BY <2>1 DEF ServiceInv, JoinedIsFinal, Call, Joined
    <3> QED BY <3>1, <1>6
  <2>2. CASE main \notin Joined
    BY <2>2, <1>1 DEF JoinedIsFinal, Joined
  <2> QED BY <2>1, <2>2
<1>9. DrainedIsFinal'
  <2>1. CASE ~hurried /\ main \in Drained
    <3>1. at[c] = "idle" /\ ~Call(c)
      BY <2>1 DEF ServiceInv, DrainedIsFinal, Call, Drained
    <3> QED BY <3>1, <1>6
  <2>2. CASE hurried
    BY <2>2, <1>1 DEF DrainedIsFinal
  <2>3. CASE main \notin Drained
    BY <2>3, <1>1 DEF DrainedIsFinal, Drained, Stopped
  <2> QED BY <2>1, <2>2, <2>3
<1> QED BY <1>2, <1>3, <1>7, <1>8, <1>9

\* A new process takes the place of one that is gone.
LEMMA StartStep ==
  ASSUME ServiceInv, NEW c \in Callers, Start(c)
  PROVE  VictimIsTaken' /\ StarterHasChecked' /\ JoinedIsFinal' /\ DrainedIsFinal'
         /\ EverySchedulerIsHeld' /\ RunnersAreHeld'
<1>1. NewProcess \in Processes /\ Free(NewProcess)
  BY NewProcessIsFree DEF Start
<1> DEFINE n == NewProcess
<1> HIDE DEF n
<1>2. /\ at[c] = "start" /\ lock' = None /\ at' = [at EXCEPT ![c] = "idle"]
      /\ current' = n /\ state' = [state EXCEPT ![n] = "starting"] /\ cut' = cut \ {n}
      /\ UNCHANGED <<victim, runners, hurried>>
      /\ main' = main \/ (main = "startup" /\ main' = "serving")
  BY DEF Start, Return, n
<1>3. /\ n \in Processes /\ ~Alive(n) /\ runners[n] = {} /\ n # victim
  BY <1>1 DEF Free, n
<1>4. /\ at \in [Callers -> {"idle", "lock", "start"}] /\ state \in [Processes -> States]
  BY DEF ServiceInv, TypeOK
<1>5. lock = c /\ ~Running
  BY <1>2 DEF ServiceInv, StarterHasChecked
<1>6. VictimIsTaken'
  BY <1>2 DEF ServiceInv, VictimIsTaken, Signalling
<1>7. StarterHasChecked'
  BY <1>2, <1>4, <1>5 DEF ServiceInv, StarterHasChecked
<1>8. JoinedIsFinal' /\ DrainedIsFinal'
  BY <1>2 DEF ServiceInv, JoinedIsFinal, DrainedIsFinal, Joined, Drained, Stopped
<1>9. \A p \in Processes : p # n => (Alive(p)' <=> Alive(p)) /\ state'[p] = state[p]
  BY <1>2, <1>4 DEF Alive
<1>10. EverySchedulerIsHeld'
  <2> SUFFICES ASSUME NEW p \in Processes, Alive(p)' PROVE p \in {current', victim'}
    BY DEF EverySchedulerIsHeld
  <2>1. p # n => p \in {current, victim} /\ Alive(p)
    BY <1>9 DEF ServiceInv, EverySchedulerIsHeld
  <2>2. p # n => p # current
    BY <2>1, <1>5, NoneAssumption DEF Running
  <2> QED BY <2>1, <2>2, <1>2
<1>11. RunnersAreHeld'
  <2> SUFFICES ASSUME NEW p \in Processes
               PROVE  /\ state'[p] \in {"starting", "batch", "deaf"} => runners'[p] = {}
                      /\ ~Alive(p)' /\ runners'[p] # {} => p \in cut'
    BY DEF RunnersAreHeld
  <2>1. CASE p = n
    BY <2>1, <1>2, <1>3
  <2>2. CASE p # n
    BY <2>2, <1>2, <1>9 DEF ServiceInv, RunnersAreHeld
  <2> QED BY <2>1, <2>2
<1> QED BY <1>6, <1>7, <1>8, <1>10, <1>11

\* The event loop ends the application step by step.
LEMMA ClosingStep ==
  ASSUME ServiceInv,
         \/ Shutdown \/ Hurry \/ ModelWatchdogFails \/ Drain \/ CloseLifespan \/ Reraise
         \/ JoinThreads \/ TimePasses
  PROVE  VictimIsTaken' /\ StarterHasChecked' /\ JoinedIsFinal' /\ DrainedIsFinal'
         /\ EverySchedulerIsHeld' /\ RunnersAreHeld'
<1>1. /\ UNCHANGED <<lock, at, current, victim, state, runners, cut>>
      /\ \/ main' = main
         \/ main \in {"serving", "draining", "closing", "exiting"}
            /\ main' \in {"draining", "closing", "exiting", "stop", "killed"}
         \/ main' = "atexit" /\ main = "exiting" /\ \A c \in Callers : at[c] = "idle"
  BY DEF Shutdown, Hurry, ModelWatchdogFails, Drain, CloseLifespan, Reraise, JoinThreads,
         TimePasses, app, service, scheduler
<1>2. VictimIsTaken' /\ JoinedIsFinal'
  BY <1>1 DEF ServiceInv, VictimIsTaken, JoinedIsFinal, Signalling, Joined
<1>3. StarterHasChecked' /\ EverySchedulerIsHeld' /\ RunnersAreHeld'
  BY <1>1 DEF ServiceInv, StarterHasChecked, EverySchedulerIsHeld, RunnersAreHeld,
              Running, Alive
<1>4. DrainedIsFinal'
  <2>1. CASE Hurry
    BY <2>1 DEF Hurry, DrainedIsFinal
  <2>2. CASE Shutdown \/ ModelWatchdogFails \/ JoinThreads
    <3>1. main' \notin Drained
      BY <2>2 DEF Shutdown, ModelWatchdogFails, JoinThreads, Drained
    <3> QED BY <3>1 DEF DrainedIsFinal, Drained, Stopped
  <2>3. CASE Drain
    BY <2>3, <1>1 DEF Drain, DrainedIsFinal, Stopped
  <2>4. CASE CloseLifespan
    <3>1. main = "closing" /\ main' = (IF failed THEN "exiting" ELSE "stop")
          /\ UNCHANGED <<failed, hurried>>
      BY <2>4 DEF CloseLifespan
    <3> QED BY <3>1, <1>1 DEF ServiceInv, DrainedIsFinal, Drained, Stopped
  <2>5. CASE Reraise \/ TimePasses
    <3>1. /\ UNCHANGED <<failed, hurried>>
          /\ main' = main \/ (main = "exiting" /\ main' = "killed")
      BY <2>5 DEF Reraise, TimePasses, app
    <3> QED BY <3>1, <1>1 DEF ServiceInv, DrainedIsFinal, Drained, Stopped
  <2> QED BY <2>1, <2>2, <2>3, <2>4, <2>5
<1> QED BY <1>2, <1>3, <1>4

\* Before it is stopped a process is taken out of _PROCESS, while nobody is
\* about to start one.
LEMMA TakeProcessStep ==
  ASSUME ServiceInv, TakeProcess
  PROVE  VictimIsTaken' /\ StarterHasChecked' /\ JoinedIsFinal' /\ DrainedIsFinal'
         /\ EverySchedulerIsHeld' /\ RunnersAreHeld'
<1>1. /\ main \in {"stop", "atexit"} /\ lock = None /\ current' = None
      /\ UNCHANGED <<lock, at, state, runners, cut, failed, hurried>>
      /\ \/ Running /\ victim' = current
            /\ \/ main = "stop" /\ main' = "signal"
               \/ main = "atexit" /\ main' = "last signal"
         \/ ~Running /\ UNCHANGED victim
            /\ \/ main = "stop" /\ main' = "exiting"
               \/ main = "atexit" /\ main' = "ended"
  BY DEF TakeProcess, scheduler, After
<1>2. victim = None /\ current \in Processes \cup {None}
  BY <1>1 DEF ServiceInv, TypeOK, VictimIsTaken, Signalling
<1>3. VictimIsTaken'
  BY <1>1, <1>2 DEF VictimIsTaken, Signalling, Running
<1>4. StarterHasChecked'
  BY <1>1 DEF ServiceInv, StarterHasChecked, Running
<1>5. JoinedIsFinal' /\ DrainedIsFinal'
  BY <1>1 DEF ServiceInv, JoinedIsFinal, DrainedIsFinal, Joined, Drained, Stopped
<1>6. EverySchedulerIsHeld'
  <2> SUFFICES ASSUME NEW p \in Processes, Alive(p)' PROVE p \in {current', victim'}
    BY DEF EverySchedulerIsHeld
  <2>1. Alive(p) /\ p \in {current, None} /\ p # None
    BY <1>1, <1>2, NoneAssumption DEF ServiceInv, EverySchedulerIsHeld, Alive
  <2> QED BY <2>1, <1>1 DEF Running
<1>7. RunnersAreHeld'
  BY <1>1 DEF ServiceInv, RunnersAreHeld, Alive
<1> QED BY <1>3, <1>4, <1>5, <1>6, <1>7

\* The scheduler gets the signal.
LEMMA TerminateStep ==
  ASSUME ServiceInv, Terminate
  PROVE  VictimIsTaken' /\ StarterHasChecked' /\ JoinedIsFinal' /\ DrainedIsFinal'
         /\ EverySchedulerIsHeld' /\ RunnersAreHeld'
<1>1. /\ \/ main = "signal" /\ main' = "wait"
         \/ main = "last signal" /\ main' = "last wait"
      /\ UNCHANGED <<lock, at, current, victim, runners, cut, failed, hurried>>
  BY DEF Terminate, service
<1>2. state \in [Processes -> States] /\ state' \in [Processes -> States]
  BY DEF ServiceInv, TypeOK, Terminate, States
<1>3. \A p \in Processes :
        \/ state'[p] = state[p]
        \/ state[p] = "starting" /\ state'[p] = "dead"
        \/ state[p] = "running" /\ state'[p] = "stopping"
        \/ state[p] = "batch" /\ state'[p] = "deaf"
  BY <1>2 DEF Terminate
<1>4. VictimIsTaken' /\ JoinedIsFinal' /\ DrainedIsFinal'
  BY <1>1 DEF ServiceInv, VictimIsTaken, JoinedIsFinal, DrainedIsFinal, Signalling, Joined,
              Drained, Stopped
<1>5. \A p \in Processes : Alive(p)' => Alive(p)
  BY <1>3 DEF Alive
<1>6. StarterHasChecked'
  BY <1>1, <1>5 DEF ServiceInv, TypeOK, StarterHasChecked, Running
<1>7. EverySchedulerIsHeld'
  BY <1>1, <1>5 DEF ServiceInv, EverySchedulerIsHeld
<1>8. RunnersAreHeld'
  BY <1>1, <1>3 DEF ServiceInv, RunnersAreHeld, Alive
<1> QED BY <1>4, <1>6, <1>7, <1>8

\* It has ended, or is killed.
LEMMA WaitEndsStep ==
  ASSUME ServiceInv, WaitEnds
  PROVE  VictimIsTaken' /\ StarterHasChecked' /\ JoinedIsFinal' /\ DrainedIsFinal'
         /\ EverySchedulerIsHeld' /\ RunnersAreHeld'
<1>1. /\ \/ main = "wait" /\ main' = "exiting"
         \/ main = "last wait" /\ main' = "ended"
      /\ victim \in Processes /\ victim' = None
      /\ UNCHANGED <<lock, at, current, runners, failed, hurried>>
  BY DEF WaitEnds, After, ServiceInv, VictimIsTaken, Signalling, scheduler
<1>2. /\ cut \subseteq cut'
      /\ \/ ~Alive(victim) /\ state' = state
         \/ state' = [state EXCEPT ![victim] = "dead"] /\ victim \in cut'
  BY DEF WaitEnds, scheduler
<1>3. state \in [Processes -> States] /\ current \in Processes \cup {None}
  BY DEF ServiceInv, TypeOK
<1>4. \A p \in Processes :
        \/ state'[p] = state[p] /\ (p = victim => ~Alive(p))
        \/ p = victim /\ state'[p] = "dead" /\ p \in cut'
  BY <1>2, <1>3
<1>5. VictimIsTaken' /\ JoinedIsFinal' /\ DrainedIsFinal'
  BY <1>1 DEF ServiceInv, VictimIsTaken, JoinedIsFinal, DrainedIsFinal, Signalling, Joined,
              Drained, Stopped
<1>6. \A p \in Processes : Alive(p)' => Alive(p) /\ p # victim
  BY <1>4 DEF Alive
<1>7. StarterHasChecked'
  BY <1>1, <1>3, <1>6 DEF ServiceInv, StarterHasChecked, Running
<1>8. EverySchedulerIsHeld'
  BY <1>1, <1>6 DEF ServiceInv, EverySchedulerIsHeld
<1>9. RunnersAreHeld'
  BY <1>1, <1>2, <1>4 DEF ServiceInv, RunnersAreHeld, Alive
<1> QED BY <1>5, <1>7, <1>8, <1>9

\* Schedulers start and stop runners and end, and never begin again.
LEMMA SchedulerStep ==
  ASSUME ServiceInv, NEW p \in Processes, Scheduler(p)
  PROVE  VictimIsTaken' /\ StarterHasChecked' /\ JoinedIsFinal' /\ DrainedIsFinal'
         /\ EverySchedulerIsHeld' /\ RunnersAreHeld'
<1>1. UNCHANGED <<main, failed, hurried, lock, at, current, victim>> /\ cut \subseteq cut'
  BY DEF Scheduler, Ready, AwaitBatch, BatchDecided, Exit, Crash, StartRunner,
         RunnerEnds, StopRunner, app, service
<1>2. /\ state \in [Processes -> States] /\ runners \in [Processes -> SUBSET Clients]
      /\ current \in Processes \cup {None}
  BY DEF ServiceInv, TypeOK
<1>3. /\ \A q \in Processes : q # p => state'[q] = state[q] /\ runners'[q] = runners[q]
      /\ \/ state'[p] = state[p] /\ runners'[p] \subseteq runners[p]
         \/ state'[p] = state[p] /\ state[p] \in {"running", "stopping"}
         \/ Alive(p) /\ state'[p] \in {"running", "stopping"}
         \/ Alive(p) /\ state'[p] \in {"batch", "deaf", "dead"} /\ runners'[p] = {}
         \/ Alive(p) /\ state'[p] = "dead" /\ p \in cut'
  <2>1. CASE Ready(p) \/ AwaitBatch(p) \/ BatchDecided(p) \/ Exit(p) \/ Crash(p)
    <3>1. state[p] \in {"batch", "deaf"} => runners[p] = {}
      BY DEF ServiceInv, RunnersAreHeld
    <3> QED BY <2>1, <3>1, <1>2 DEF Ready, AwaitBatch, BatchDecided, Exit, Crash, Becomes, Alive
  <2>2. ASSUME NEW k \in Clients, StartRunner(p, k) \/ RunnerEnds(p, k) \/ StopRunner(p, k)
        PROVE  /\ \A q \in Processes : q # p => runners'[q] = runners[q]
               /\ state' = state
               /\ runners'[p] \subseteq runners[p] \/ state[p] \in {"running", "stopping"}
    BY <2>2, <1>2 DEF StartRunner, RunnerEnds, StopRunner
  <2> QED BY <2>1, <2>2 DEF Scheduler
<1>4. \A q \in Processes : Alive(q)' => Alive(q)
  BY <1>3 DEF Alive
<1>5. VictimIsTaken' /\ JoinedIsFinal' /\ DrainedIsFinal'
  BY <1>1 DEF ServiceInv, VictimIsTaken, JoinedIsFinal, DrainedIsFinal
<1>6. StarterHasChecked'
  BY <1>1, <1>2, <1>4 DEF ServiceInv, StarterHasChecked, Running
<1>7. EverySchedulerIsHeld'
  BY <1>1, <1>4 DEF ServiceInv, EverySchedulerIsHeld
<1>8. RunnersAreHeld'
  BY <1>1, <1>3 DEF ServiceInv, RunnersAreHeld, Alive
<1> QED BY <1>5, <1>6, <1>7, <1>8

LEMMA ServiceStep == ServiceInv /\ [Next]_vars => ServiceInv'
<1> SUFFICES ASSUME ServiceInv, [Next]_vars PROVE ServiceInv'
  OBVIOUS
<1>1. TypeOK'
  BY TypeStep DEF ServiceInv
<1>2. CASE UNCHANGED vars
  BY <1>1, <1>2 DEF ServiceInv, vars, VictimIsTaken, StarterHasChecked, JoinedIsFinal,
     DrainedIsFinal, EverySchedulerIsHeld, RunnersAreHeld, Running, Alive
<1>3. CASE Next
  BY <1>1, <1>3, CallersStep, StartStep, ClosingStep, TakeProcessStep, TerminateStep,
     WaitEndsStep, SchedulerStep DEF ServiceInv, Next, Ensure, End, Stop
<1> QED BY <1>2, <1>3

THEOREM ServiceInvariant == Spec => []ServiceInv
BY InitService, ServiceStep, PTL DEF Spec

----
\* The types of the service, for any requests, clients, processes and bounds.
THEOREM TypeCorrect == Spec => []TypeOK
<1>1. ServiceInv => TypeOK
  BY DEF ServiceInv
<1> QED BY <1>1, ServiceInvariant, PTL

\* There is never a scheduler that ensure_scheduler_started does not see and
\* stop_scheduler does not stop, for any number of threads that call them.
THEOREM SchedulersAreHeld == Spec => []EverySchedulerIsHeld
<1>1. ServiceInv => EverySchedulerIsHeld
  BY DEF ServiceInv
<1> QED BY <1>1, ServiceInvariant, PTL

\* One scheduler at a time: there is a second one only while the first is being
\* stopped, whoever calls ensure_scheduler_started at once.
THEOREM SchedulersDoNotMultiply == Spec => []OneScheduler
<1>1. ServiceInv => OneScheduler
  <2> SUFFICES ASSUME ServiceInv, main \notin Signalling,
                      NEW p \in Processes, NEW q \in Processes, Alive(p), Alive(q)
               PROVE  p = q
    BY DEF OneScheduler, Signalling
  <2>1. victim = None
    BY DEF ServiceInv, VictimIsTaken
  <2> QED BY <2>1, NoneAssumption DEF ServiceInv, EverySchedulerIsHeld
<1> QED BY <1>1, ServiceInvariant, PTL

\* "Stop the scheduler and allow it to terminate active client runners": an
\* application that has ended leaves no scheduler, and no runners but those
\* of a scheduler that was killed or crashed.  One that SIGTERM ended does so if
\* lifespan reached stop_scheduler and no second signal came before.
THEOREM CleanEnd == Spec => []EndIsClean
<1>1. ServiceInv => EndIsClean
  <2> SUFFICES ASSUME ServiceInv, main = "ended" \/ (main = "killed" /\ ~failed /\ ~hurried),
                      NEW p \in Processes
               PROVE  ~Alive(p) /\ (runners[p] # {} => p \in cut)
    BY DEF EndIsClean
  <2>1. current = None /\ victim = None
    BY DEF ServiceInv, VictimIsTaken, JoinedIsFinal, DrainedIsFinal, Signalling, Joined,
           Stopped
  <2>2. ~Alive(p)
    BY <2>1, NoneAssumption DEF ServiceInv, EverySchedulerIsHeld
  <2> QED BY <2>2 DEF ServiceInv, RunnersAreHeld
<1> QED BY <1>1, ServiceInvariant, PTL

----
(***************************************************************************)
(* Deadlock.  Whoever holds _LOCK is about to start a process, which no    *)
(* other thread holds up.                                                  *)
(***************************************************************************)
LockIsHeld == lock # None => lock \in Callers /\ at[lock] = "start"

LEMMA LockStep == ServiceInv /\ LockIsHeld /\ [Next]_vars => LockIsHeld'
<1> SUFFICES ASSUME ServiceInv, LockIsHeld, [Next]_vars PROVE LockIsHeld'
  OBVIOUS
<1>0. /\ at \in [Callers -> {"idle", "lock", "start"}]
      /\ \A c \in Callers : at[c] = "start" => lock = c
  BY DEF ServiceInv, TypeOK, StarterHasChecked
<1>1. ASSUME NEW c \in Callers, Call(c) PROVE LockIsHeld'
  BY <1>0, <1>1 DEF Call, service, LockIsHeld
<1>2. ASSUME NEW c \in Callers, Enter(c) PROVE LockIsHeld'
  <2>1. CASE Return(c) /\ UNCHANGED lock
    BY <1>2, <2>1 DEF Enter, LockIsHeld
  <2>2. CASE lock' = c /\ at' = [at EXCEPT ![c] = "start"]
    BY <1>0, <2>2 DEF LockIsHeld
  <2> QED BY <1>2, <2>1, <2>2 DEF Enter
<1>3. ASSUME NEW c \in Callers, Start(c) \/ StartFails(c) PROVE LockIsHeld'
  BY <1>3 DEF Start, StartFails, LockIsHeld
<1>4. CASE Shutdown \/ Hurry \/ ModelWatchdogFails \/ End \/ TimePasses
  <2>1. UNCHANGED <<lock, at>>
    BY <1>4 DEF Shutdown, Hurry, ModelWatchdogFails, End, Drain, CloseLifespan, Reraise,
       JoinThreads, Stop, TakeProcess, Terminate, WaitEnds, TimePasses, service
  <2> QED BY <2>1 DEF LockIsHeld
<1>5. ASSUME NEW p \in Processes, Scheduler(p) PROVE LockIsHeld'
  <2>1. UNCHANGED <<lock, at>>
    BY <1>5 DEF Scheduler, Ready, AwaitBatch, BatchDecided, Exit, Crash, StartRunner,
       RunnerEnds, StopRunner, service
  <2> QED BY <2>1 DEF LockIsHeld
<1>6. CASE UNCHANGED vars
  BY <1>6 DEF vars, LockIsHeld
<1> QED BY <1>1, <1>2, <1>3, <1>4, <1>5, <1>6 DEF Next, Ensure

\* A process that is neither _PROCESS nor being stopped is gone.
LEMMA StarterMoves ==
  ASSUME ServiceInv, NEW c \in Callers, at[c] = "start"
  PROVE  CallMoves(c)
<1>1. PICK p \in Processes : p \notin {current, victim}
  <2>1. current \in Processes \cup {None} /\ victim \in Processes \cup {None}
    BY DEF ServiceInv, TypeOK
  <2>2. PICK q \in Processes : TRUE
    BY ProcessesAssumption
  <2> DEFINE held(r) == IF r = None THEN q ELSE r
  <2>3. held(current) \in Processes /\ held(victim) \in Processes
    BY <2>1
  <2> HIDE DEF held
  <2>4. PICK p \in Processes : p # held(current) /\ p # held(victim)
    BY <2>3, ProcessesAssumption
  <2>5. p # None
    BY NoneAssumption
  <2> QED BY <2>4, <2>5 DEF held
<1>2. ~Alive(p)
  BY <1>1 DEF ServiceInv, EverySchedulerIsHeld
<1>3. Free(p) \/ runners[p] # {}
  BY <1>1, <1>2 DEF Free
<1> QED BY <1>3 DEF CallMoves

\* Until the application has ended the event loop, a request or the interpreter
\* can go on, however many of them call ensure_scheduler_started at once and
\* whatever the schedulers do.
THEOREM ServiceNeverStuck == Spec => []NeverStuck
<1>1. Init => LockIsHeld
  BY DEF Init, LockIsHeld
<1>2. ServiceInv /\ LockIsHeld => NeverStuck
  <2> SUFFICES ASSUME ServiceInv, LockIsHeld, main \notin {"ended", "killed"}, ~EndMoves
               PROVE  \E c \in Callers : CallMoves(c)
    BY DEF NeverStuck
  <2>1. CASE lock # None
    BY <2>1, StarterMoves DEF LockIsHeld
  <2>2. CASE lock = None
    <3>1. \A c \in Callers : at[c] \in {"idle", "lock", "start"}
      BY DEF ServiceInv, TypeOK
    <3>2. \A c \in Callers : at[c] \in {"lock", "start"} => CallMoves(c)
      BY <2>2, StarterMoves DEF CallMoves
    <3>3. CASE main \in {"startup", "serving"}
      BY <3>1, <3>2, <3>3 DEF Callers, CallMoves
    <3>4. CASE main \in {"draining", "exiting"}
      BY <3>1, <3>2, <3>4 DEF EndMoves
    <3>5. main \in {"startup", "serving", "draining", "exiting"}
      BY <2>2 DEF EndMoves, ServiceInv, TypeOK, MainSteps
    <3> QED BY <3>3, <3>4, <3>5
  <2> QED BY <2>1, <2>2
<1> QED BY <1>1, <1>2, LockStep, ServiceInvariant, PTL DEF Spec
====
