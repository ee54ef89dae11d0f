---- MODULE LaunchWave_proofs ----
(***************************************************************************)
(* Theorems about LaunchWave, for any number of clients, any memory and    *)
(* settings main() accepts, and any number of signals and faults.          *)
(***************************************************************************)
EXTENDS LaunchWave, FiniteSetTheorems, SequenceTheorems, TLAPS

----
(* Sizes of waves *)

\* memory_aware_wave_size: whatever the host and its settings, a wave has at
\* least one client, so that the cycle advances, and at most the configured
\* number.
THEOREM WorkersWithinLimits ==
  /\ Workers \in 1..LaunchWaveSize
  /\ Workers <= NumClients
<1>1. BrowserBudget \in Nat
  BY SettingsAssumption DEF BrowserBudget, Larger
<1>2. BrowserBudget \div BrowserMemory \in Int
  BY <1>1, SettingsAssumption
<1>3. MemoryLimit \in Nat \ {0}
  BY <1>2 DEF MemoryLimit, Larger
<1>4. QED
  BY <1>3, SettingsAssumption DEF Workers, Smaller

\* The browsers of a wave of more than one fit in the memory that the reserve
\* leaves, when the amount of memory is known.
THEOREM BrowsersFitMemory ==
  ASSUME TotalMemory # 0, Workers # 1
  PROVE  Workers * BrowserMemory + MemoryReserve <= TotalMemory
<1> DEFINE quotient == BrowserBudget \div BrowserMemory
<1>1. BrowserBudget \in Nat /\ Workers \in Nat /\ Workers > 1 /\ quotient \in Int
  BY WorkersWithinLimits, SettingsAssumption DEF BrowserBudget, Larger
<1>2. Workers <= quotient
  BY <1>1, SettingsAssumption DEF Workers, MemoryLimit, Smaller, Larger
<1>3. quotient * BrowserMemory <= BrowserBudget
  BY <1>1, SettingsAssumption
<1> HIDE DEF quotient
<1>4. Workers * BrowserMemory <= quotient * BrowserMemory
  BY <1>1, <1>2, SettingsAssumption
<1>5. Workers * BrowserMemory > BrowserMemory
  BY <1>1, SettingsAssumption
<1>6. BrowserBudget > BrowserMemory
  BY <1>1, <1>3, <1>4, <1>5, SettingsAssumption
<1>7. BrowserBudget + MemoryReserve = TotalMemory
  BY <1>6, SettingsAssumption DEF BrowserBudget, Larger
<1>8. QED
  BY <1>1, <1>3, <1>4, <1>7, SettingsAssumption

LEMMA NextIndex ==
  ASSUME before \in 0..NumClients
  PROVE  /\ Smaller(before + Workers, NumClients) \in before..NumClients
         /\ Smaller(before + Workers, NumClients) <= before + Workers
         /\ before < NumClients => Smaller(before + Workers, NumClients) > before
         /\ NextWave \subseteq Clients
         /\ \A k \in NextWave : k > before
  BY WorkersWithinLimits, SettingsAssumption DEF Smaller, NextWave, Clients

----
(* Types *)

LEMMA InitTypeOK == Init => TypeOK
<1>1. <<>> \in Seq(Calls)
  OBVIOUS
<1>2. 0 \in 0..NumClients /\ 0 \in 0..MaxSignals /\ 0 \in 0..MaxFaults
  BY SettingsAssumption, BoundsAssumption
<1>3. QED
  BY <1>1, <1>2, ZenonT(60) DEF Init, TypeOK, Threads, Results, Steps, Timers

\* The stack of handlers after each of its operations.
LEMMA StackType ==
  ASSUME handler \in Seq(Calls)
  PROVE  /\ \A call \in Calls : Append(handler, call) \in Seq(Calls)
         /\ handler # <<>> =>
              /\ Top \in Calls /\ Len(handler) \in 1..Len(handler)
              /\ \A call \in Calls :
                   [handler EXCEPT ![Len(handler)] = call] \in Seq(Calls)
              /\ SubSeq(handler, 1, Len(handler) - 1) \in Seq(Calls)
<1>1. \A call \in Calls : Append(handler, call) \in Seq(Calls)
  OBVIOUS
<1>2. ASSUME handler # <<>>
      PROVE  /\ Top \in Calls /\ Len(handler) \in 1..Len(handler)
             /\ \A call \in Calls :
                  [handler EXCEPT ![Len(handler)] = call] \in Seq(Calls)
             /\ SubSeq(handler, 1, Len(handler) - 1) \in Seq(Calls)
  <2>1. Len(handler) \in Nat /\ Len(handler) # 0
    BY <1>2, EmptySeq
  <2>2. Top \in Calls
    BY <2>1 DEF Top
  <2>3. \A call \in Calls : [handler EXCEPT ![Len(handler)] = call] \in Seq(Calls)
    BY <2>1, ExceptSeq
  <2>4. SubSeq(handler, 1, Len(handler) - 1) \in Seq(Calls)
    <3>1. \A i \in 1..(Len(handler) - 1) : handler[i] \in Calls
      BY <2>1
    <3>2. QED
      BY <2>1, <3>1, SubSeqProperties
  <2>5. QED
    BY <2>1, <2>2, <2>3, <2>4
<1>3. QED
  BY <1>1, <1>2

\* The parts of the state a client's own steps write.
ClientsType ==
  /\ thread \in [Clients -> Threads] /\ result \in [Clients -> Results]
  /\ barrier \in {"filling", "released", "broken"}
  /\ proc \in [Clients -> {"none", "up", "term", "zero", "nonzero"}]
  /\ held \in SUBSET Clients
  /\ timer \in [Clients -> Timers]
  /\ timedOut \in [Clients -> BOOLEAN]
  /\ active \in SUBSET Clients

LEMMA NextTypeOK == TypeOK /\ [Next]_vars => TypeOK'
<1> SUFFICES ASSUME TypeOK, [Next]_vars PROVE TypeOK'
  OBVIOUS
<1>o. ClientsType
  BY DEF TypeOK, ClientsType
<1>h. handler \in Seq(Calls)
  BY DEF TypeOK
<1>c. ASSUME ClientsType', UNCHANGED <<cycle, stop>>, faults' \in 0..MaxFaults
      PROVE  TypeOK'
  BY <1>c DEF TypeOK, ClientsType, cycle, stop
<1>s. ASSUME ClientsType', handler' \in Seq(Calls), UNCHANGED <<cycle, faults>>,
             shutdown' \in BOOLEAN, signals' \in 0..MaxSignals
      PROVE  TypeOK'
  BY <1>s DEF TypeOK, ClientsType, cycle
<1>f. faults \in 0..MaxFaults /\ (faults < MaxFaults => faults + 1 \in 0..MaxFaults)
  BY BoundsAssumption DEF TypeOK
<1>1. CASE EnterWave
  <2>1. main' \in {"submit", "done"} /\ UNCHANGED <<before, wave, client, stop, faults>>
    BY <1>1 DEF EnterWave
  <2>2. QED
    BY <2>1 DEF TypeOK, client, stop, Steps
<1>2. CASE SubmitWave
  <2>1. /\ main' = "collect" /\ wave' = NextWave
        /\ before' = Smaller(before + Workers, NumClients) /\ barrier' = "filling"
        /\ thread' = [k \in Clients |-> IF k \in NextWave THEN "check" ELSE thread[k]]
        /\ UNCHANGED <<result, proc, held, timer, timedOut, active, stop, faults>>
    BY <1>2 DEF SubmitWave
  <2>2. before' \in 0..NumClients /\ wave' \in SUBSET Clients
    BY <2>1, NextIndex, SettingsAssumption DEF TypeOK
  <2>3. thread' \in [Clients -> Threads]
    BY <1>o, <2>1 DEF ClientsType, Threads
  <2>4. QED
    BY <2>1, <2>2, <2>3 DEF TypeOK, stop, Steps
<1>3. CASE CollectWave \/ Gap
  BY <1>3 DEF CollectWave, Gap, TypeOK, client, stop, Steps
<1>4. ASSUME NEW k \in Clients,
             Check(k) \/ Arrive(k) \/ Passes(k) \/ BarrierTimeout(k) \/ Report(k)
      PROVE  TypeOK'
  <2>1. /\ UNCHANGED <<cycle, proc, held, timer, active, stop, faults>>
        /\ timedOut' \in [Clients -> BOOLEAN]
        /\ barrier' \in {"filling", "released", "broken"}
    BY <1>o, <1>4 DEF Check, Arrive, Passes, BarrierTimeout, Report, ClientsType
  <2>2. \/ \E r \in Results : Return(k, r)
        \/ (\E step \in Threads : GoOn(k, step)) /\ UNCHANGED result
    BY <1>4 DEF Check, Arrive, Passes, BarrierTimeout, Report, Results, Threads
  <2>3. thread' \in [Clients -> Threads] /\ result' \in [Clients -> Results]
    BY <1>o, <2>2 DEF Return, GoOn, ClientsType, Threads
  <2>4. QED
    BY <1>o, <1>c, <1>f, <2>1, <2>3 DEF ClientsType
<1>5. ASSUME NEW k \in Clients, Popen(k) \/ PopenFails(k) PROVE TypeOK'
  <2>1. CASE Popen(k)
    BY <1>o, <1>c, <1>f, <2>1 DEF Popen, GoOn, ClientsType, Threads
  <2>2. CASE PopenFails(k)
    BY <1>o, <1>c, <1>f, <2>2 DEF PopenFails, Return, GoOn, ClientsType, Threads, Results
  <2>3. QED
    BY <1>5, <2>1, <2>2
<1>6. ASSUME NEW k \in Clients, Register(k) PROVE TypeOK'
  BY <1>o, <1>c, <1>f, <1>6 DEF Register, GoOn, ClientsType, Threads, Timers
<1>7. ASSUME NEW k \in Clients, ReadLine(k) \/ ReadEnds(k) \/ ReadFails(k) PROVE TypeOK'
  <2>1. CASE ReadLine(k)
    BY <1>o, <1>c, <1>f, <2>1 DEF ReadLine, Terminate, GoOn, ClientsType, Threads
  <2>2. CASE ReadEnds(k)
    BY <1>o, <1>c, <1>f, <2>2 DEF ReadEnds, GoOn, ClientsType, Threads
  <2>3. CASE ReadFails(k)
    BY <1>o, <1>c, <1>f, <2>3 DEF ReadFails, GoOn, ClientsType, Threads
  <2>4. QED
    BY <1>7, <2>1, <2>2, <2>3
<1>8. ASSUME NEW k \in Clients, Cleanup(k) PROVE TypeOK'
  <2>1. /\ timer' = [timer EXCEPT ![k] = IF @ = "armed" THEN "over" ELSE @]
        /\ active' = active \ {k}
        /\ timedOut' = [timedOut EXCEPT ![k] = @ /\ thread[k] = "cleanup"]
        /\ UNCHANGED <<cycle, barrier, proc, held, stop, faults>>
    BY <1>8 DEF Cleanup
  <2>2. \/ GoOn(k, "report") /\ UNCHANGED result
        \/ Return(k, "raised")
    BY <1>8 DEF Cleanup
  <2>3. thread' \in [Clients -> Threads] /\ result' \in [Clients -> Results]
    BY <1>o, <2>2 DEF Return, GoOn, ClientsType, Threads, Results
  <2>4. timer' \in [Clients -> Timers] /\ timedOut' \in [Clients -> BOOLEAN]
    BY <1>o, <2>1 DEF ClientsType, Timers
  <2>5. QED
    BY <1>o, <1>c, <1>f, <2>1, <2>3, <2>4 DEF ClientsType
<1>9. ASSUME NEW k \in Clients,
             TimerFires(k) \/ Expire(k) \/ RunnerExits(k) \/ Kill(k) \/ ChildExits(k)
      PROVE  TypeOK'
  <2>1. CASE TimerFires(k) \/ ChildExits(k)
    BY <1>o, <1>c, <1>f, <2>1 DEF TimerFires, ChildExits, ClientsType, Timers
  <2>2. CASE Expire(k)
    BY <1>o, <1>c, <1>f, <2>2 DEF Expire, Terminate, ClientsType, Timers
  <2>3. CASE RunnerExits(k)
    BY <1>o, <1>c, <1>f, <2>3 DEF RunnerExits, LeavesChild, ClientsType
  <2>4. CASE Kill(k)
    BY <1>o, <1>c, <1>f, <2>4 DEF Kill, LeavesChild, ClientsType
  <2>5. QED
    BY <1>9, <2>1, <2>2, <2>3, <2>4
<1>10. CASE Signal
  <2>1. [at |-> IF EventFree THEN "setting" ELSE "set", todo |-> {}, of |-> 0] \in Calls
    BY DEF Calls
  <2>2. handler' \in Seq(Calls)
    BY <1>10, <1>h, <2>1, StackType DEF Signal
  <2>3. signals' \in 0..MaxSignals
    BY <1>10, BoundsAssumption DEF Signal, TypeOK
  <2>4. QED
    BY <1>10, <1>o, <1>s, <2>2, <2>3 DEF Signal, client, ClientsType, TypeOK
<1>11. ASSUME HandlerSets \/ HandlerLocks \/ HandlerUnlocks \/ HandlerReturns
              \/ \E k \in Clients : HandlerTerminates(k)
       PROVE  TypeOK'
  <2>1. handler' \in Seq(Calls)
    <3>1. \/ \E call \in Calls : SetTop(call)
          \/ handler' = SubSeq(handler, 1, Len(handler) - 1)
      <4>1. CASE HandlerReturns
        BY <4>1 DEF HandlerReturns
      <4>2. CASE HandlerLocks
        <5>1. [Top EXCEPT !.at = "holding", !.todo = active] \in Calls
          BY <1>h, <1>o, <4>2, StackType DEF HandlerLocks, Calls, ClientsType
        <5>2. QED
          BY <4>2, <5>1 DEF HandlerLocks
      <4>3. CASE HandlerUnlocks
        <5>1. [Top EXCEPT !.at = "stop"] \in Calls
          BY <1>h, <4>3, StackType DEF HandlerUnlocks, Calls
        <5>2. QED
          BY <4>3, <5>1 DEF HandlerUnlocks
      <4>4. ASSUME NEW k \in Clients, HandlerTerminates(k) PROVE \E call \in Calls : SetTop(call)
        <5>1. [Top EXCEPT !.of = k] \in Calls
          BY <1>h, <4>4, StackType DEF HandlerTerminates, StopsNext, Calls
        <5>2. QED
          BY <4>4, <5>1 DEF HandlerTerminates
      <4>5. CASE HandlerSets
        <5>1. [Top EXCEPT !.at = "lock"] \in Calls
          BY <1>h, <4>5, StackType DEF HandlerSets, Calls
        <5>2. QED
          BY <4>5, <5>1 DEF HandlerSets
      <4>6. QED
        BY <1>11, <4>1, <4>2, <4>3, <4>4, <4>5
    <3>2. handler # <<>>
      BY <1>11 DEF HandlerSets, HandlerLocks, HandlerUnlocks, HandlerReturns,
                   HandlerTerminates, StopsNext
    <3>3. QED
      BY <1>h, <3>1, <3>2, StackType DEF SetTop
  <2>2. /\ UNCHANGED <<cycle, thread, result, barrier, held, timer, timedOut, active,
                       signals, faults>>
        /\ shutdown' \in {shutdown, TRUE}
        /\ UNCHANGED proc \/ \E k \in Clients : Terminate(k)
    BY <1>11 DEF HandlerSets, HandlerLocks, HandlerUnlocks, HandlerReturns,
                 HandlerTerminates, client
  <2>3. ClientsType'
    BY <1>o, <2>2 DEF ClientsType, Terminate
  <2>4. QED
    BY <1>s, <2>1, <2>2, <2>3 DEF TypeOK
<1>12. CASE UNCHANGED vars
  BY <1>12 DEF vars, TypeOK
<1>13. QED
  BY <1>1, <1>2, <1>3, <1>4, <1>5, <1>6, <1>7, <1>8, <1>9, <1>10, <1>11, <1>12
     DEF Next, Cycle, Handle, RunClient

\* Type correctness.
THEOREM TypeCorrect == Spec => []TypeOK
  BY InitTypeOK, NextTypeOK, PTL DEF Spec

----
(* The inductive invariant *)

\* What the step of its thread says of a client.
ClientOK(k) ==
  /\ result[k] # "none" <=> thread[k] = "done"
  /\ k \in active <=> thread[k] \in {"read", "stop", "cleanup", "abort"}
  /\ timer[k] = "armed" => k \in active
  /\ timer[k] # "off" =>
       thread[k] \notin {"none", "check", "arrive", "wait", "popen", "register"}
  /\ timer[k] = "stop" => timedOut[k] \/ thread[k] = "done"
  /\ thread[k] \in {"none", "check", "arrive", "wait", "popen"} => proc[k] = "none"
  /\ thread[k] \in {"cleanup", "report"} => Exited(k)
  /\ result[k] = "ok" => proc[k] = "zero" /\ timer[k] # "stop"
  /\ result[k] = "failed" => ~Alive(k)
  /\ result[k] \in {"skipped", "unready"} => proc[k] = "none"

ClientsOK == \A k \in Clients : ClientOK(k)

\* The clients up to before have been in a wave, and those of earlier waves
\* are done.
WavesOK ==
  /\ \A k \in Clients : thread[k] = "none" <=> k > before
  /\ \A k \in Clients : thread[k] \notin {"none", "done"} => k \in wave /\ main = "collect"
  /\ \A k \in wave : k <= before
  /\ main = "submit" => before < NumClients
  /\ main = "done" => shutdown \/ before = NumClients

\* A wave is not larger than Workers.
WaveSizeOK == \E b \in 0..NumClients : wave = (b + 1)..before /\ before <= b + Workers

\* Once the barrier is released nobody of the wave is short of it, and as long
\* as it is not nobody is past it.
BarrierOK ==
  /\ barrier = "released" => \A k \in wave :
       thread[k] \notin {"check", "arrive"} /\ result[k] \notin {"skipped", "unready"}
  /\ barrier # "released" => \A k \in wave :
       thread[k] \in {"check", "arrive", "wait", "done"} /\ proc[k] = "none"

\* Nothing is skipped before a shutdown.
SkipsOK == \A k \in Clients : result[k] = "skipped" => shutdown

LaunchInv == ClientsOK /\ WavesOK /\ WaveSizeOK /\ BarrierOK /\ SkipsOK

LEMMA InitLaunchInv == Init => LaunchInv
<1> SUFFICES ASSUME Init PROVE LaunchInv
  OBVIOUS
<1>1. ClientsOK /\ SkipsOK /\ BarrierOK
  BY DEF Init, ClientsOK, ClientOK, Exited, Alive, SkipsOK, BarrierOK
<1>2. WavesOK
  BY SettingsAssumption DEF Init, WavesOK, Clients
<1>3. WaveSizeOK
  BY WorkersWithinLimits, SettingsAssumption DEF Init, WaveSizeOK
<1>4. QED
  BY <1>1, <1>2, <1>3 DEF LaunchInv

\* A step of client k, seen from the others and from the cycle.
OnlyClient(k) ==
  /\ UNCHANGED cycle
  /\ shutdown => shutdown'
  /\ \A j \in Clients \ {k} :
       /\ thread'[j] = thread[j] /\ result'[j] = result[j] /\ proc'[j] = proc[j]
       /\ timer'[j] = timer[j] /\ timedOut'[j] = timedOut[j]
       /\ j \in active' <=> j \in active

\* It preserves the invariant if it does for k and for the barrier.
LEMMA ClientStep ==
  ASSUME TypeOK, LaunchInv, NEW k \in Clients, OnlyClient(k),
         ClientOK(k)', BarrierOK', result'[k] = "skipped" => shutdown',
         thread'[k] # "none", thread'[k] = "done" \/ (k \in wave /\ main = "collect"),
         thread[k] # "none"
  PROVE  LaunchInv'
<1> USE DEF LaunchInv
<1>1. ClientsOK'
  BY DEF ClientsOK, ClientOK, OnlyClient, Exited, Alive
<1>2. WavesOK'
  <2>1. main' = main /\ before' = before /\ wave' = wave
    BY DEF OnlyClient, cycle
  <2>2. \A j \in Clients : thread'[j] = "none" <=> thread[j] = "none"
    BY DEF OnlyClient
  <2>3. \A j \in Clients : thread'[j] \notin {"none", "done"} => j \in wave /\ main = "collect"
    BY DEF OnlyClient, WavesOK
  <2>4. QED
    BY <2>1, <2>2, <2>3 DEF WavesOK, OnlyClient
<1>3. WaveSizeOK'
  BY DEF WaveSizeOK, OnlyClient, cycle
<1>4. SkipsOK'
  BY DEF SkipsOK, OnlyClient
<1>5. QED
  BY <1>1, <1>2, <1>3, <1>4

\* A client past the barrier, whose barrier nothing can break any more.
LEMMA PastBarrier ==
  ASSUME LaunchInv, NEW k \in Clients,
         thread[k] \notin {"none", "check", "arrive", "wait", "done"}
  PROVE  k \in wave /\ main = "collect" /\ barrier = "released"
  BY DEF LaunchInv, WavesOK, BarrierOK

\* A step of a client past the barrier.
Past(k) ==
  /\ UNCHANGED barrier
  /\ thread[k] \notin {"none", "check", "arrive", "wait"}
  /\ k \in wave => barrier = "released" \/ (thread[k] = "done" /\ proc'[k] = "none")
  /\ thread'[k] \notin {"none", "check", "arrive", "wait"}
  /\ thread'[k] = "done" \/ thread[k] # "done"
  /\ result'[k] = result[k] \/ result'[k] \notin {"skipped", "unready"}

LEMMA PastStep ==
  ASSUME TypeOK, LaunchInv, NEW k \in Clients, OnlyClient(k), Past(k), ClientOK(k)'
  PROVE  LaunchInv'
<1> USE DEF Past
<1>1. thread'[k] = "done" \/ (k \in wave /\ main = "collect")
  <2>1. CASE thread[k] # "done"
    <3>1. thread[k] \notin {"none", "check", "arrive", "wait", "done"}
      BY <2>1
    <3>2. QED
      BY <3>1, PastBarrier
  <2>2. CASE thread[k] = "done"
    BY <2>2
  <2>3. QED
    BY <2>1, <2>2
<1>2. BarrierOK'
  <2>1. wave' = wave /\ wave \subseteq Clients
    BY DEF OnlyClient, cycle, TypeOK
  <2>2. CASE barrier = "released"
    BY <2>1, <2>2 DEF LaunchInv, BarrierOK, OnlyClient
  <2>3. CASE barrier # "released"
    <3>1. k \in wave => thread'[k] = "done" /\ proc'[k] = "none"
      BY <2>3
    <3>2. QED
      BY <2>1, <2>3, <3>1 DEF LaunchInv, BarrierOK, OnlyClient
  <2>4. QED
    BY <2>2, <2>3
<1>3. result'[k] = "skipped" => shutdown'
  BY DEF LaunchInv, SkipsOK, OnlyClient
<1>4. QED
  BY <1>1, <1>2, <1>3, ClientStep

LEMMA NextLaunchInv ==
  ASSUME TypeOK, LaunchInv, [Next]_vars
  PROVE  LaunchInv'
<1>o. ClientsType
  BY DEF TypeOK, ClientsType
<1>k. \A k \in Clients : ClientOK(k)
  BY DEF LaunchInv, ClientsOK
<1>1. ASSUME NEW k \in Clients, Check(k) PROVE LaunchInv'
  <2>1. thread[k] = "check" /\ k \in wave /\ main = "collect" /\ barrier # "released"
        /\ UNCHANGED <<cycle, barrier, proc, timer, timedOut, active, stop>>
    BY <1>1 DEF Check, LaunchInv, WavesOK, BarrierOK
  <2>2. \/ /\ shutdown
           /\ thread' = [thread EXCEPT ![k] = "done"]
           /\ result' = [result EXCEPT ![k] = "skipped"]
        \/ /\ thread' = [thread EXCEPT ![k] = "arrive"]
           /\ result' = result
    BY <1>1 DEF Check, Return, GoOn
  <2>3. OnlyClient(k)
    BY <1>o, <2>1, <2>2 DEF OnlyClient, ClientsType, stop
  <2>4. ClientOK(k)'
    BY <1>o, <1>k, <2>1, <2>2 DEF ClientOK, ClientsType, Exited, Alive
  <2>5. BarrierOK'
    <3>1. wave' = wave /\ wave \subseteq Clients
      BY <2>1 DEF cycle, TypeOK
    <3>2. thread'[k] \in {"arrive", "done"} /\ proc'[k] = proc[k]
      BY <1>o, <2>1, <2>2 DEF ClientsType
    <3>3. QED
      BY <2>1, <2>3, <3>1, <3>2 DEF LaunchInv, BarrierOK, OnlyClient
  <2>6. /\ thread'[k] \in {"arrive", "done"}
        /\ result'[k] = "skipped" => shutdown'
    BY <1>o, <1>k, <2>1, <2>2 DEF ClientsType, ClientOK, stop
  <2>7. QED
    BY <2>1, <2>3, <2>4, <2>5, <2>6, ClientStep
<1>2. ASSUME NEW k \in Clients, Arrive(k) PROVE LaunchInv'
  <2>1. thread[k] = "arrive" /\ k \in wave /\ main = "collect" /\ barrier # "released"
        /\ UNCHANGED <<cycle, proc, timer, timedOut, active, stop>>
    BY <1>2 DEF Arrive, LaunchInv, WavesOK, BarrierOK
  <2>2. \/ /\ UNCHANGED barrier
           /\ thread' = [thread EXCEPT ![k] = "done"]
           /\ result' = [result EXCEPT ![k] = "unready"]
        \/ /\ \A j \in wave \ {k} : thread[j] = "wait"
           /\ barrier' = "released" /\ result' = result
           /\ thread' = [thread EXCEPT ![k] = "popen"]
        \/ /\ UNCHANGED <<result, barrier>>
           /\ thread' = [thread EXCEPT ![k] = "wait"]
    BY <1>2 DEF Arrive, Return, GoOn
  <2>3. OnlyClient(k)
    BY <1>o, <2>1, <2>2 DEF OnlyClient, ClientsType, stop
  <2>4. ClientOK(k)'
    BY <1>o, <1>k, <2>1, <2>2 DEF ClientOK, ClientsType, Exited, Alive
  <2>5. BarrierOK'
    <3>1. wave' = wave /\ wave \subseteq Clients
      BY <2>1 DEF cycle, TypeOK
    <3>2. CASE barrier' = "released" /\ \A j \in wave \ {k} : thread[j] = "wait"
      <4>1. \A j \in wave : result[j] = "none"
        BY <1>k, <2>1, <3>1, <3>2 DEF ClientOK
      <4>2. \A j \in wave : thread'[j] \in {"popen", "wait"} /\ result'[j] = "none"
        BY <1>o, <2>1, <2>2, <3>1, <3>2, <4>1 DEF ClientsType
      <4>3. QED
        BY <3>1, <3>2, <4>2 DEF BarrierOK
    <3>3. CASE UNCHANGED barrier /\ thread'[k] \in {"wait", "done"}
      BY <2>1, <2>3, <3>1, <3>3 DEF LaunchInv, BarrierOK, OnlyClient
    <3>4. QED
      BY <1>o, <2>2, <3>2, <3>3 DEF ClientsType
  <2>6. thread'[k] \in {"wait", "popen", "done"} /\ result'[k] # "skipped"
    BY <1>o, <1>k, <2>1, <2>2 DEF ClientsType, ClientOK
  <2>7. QED
    BY <2>1, <2>3, <2>4, <2>5, <2>6, ClientStep
<1>3. ASSUME NEW k \in Clients, Passes(k) \/ BarrierTimeout(k) PROVE LaunchInv'
  <2>1. thread[k] = "wait" /\ k \in wave /\ main = "collect"
        /\ UNCHANGED <<cycle, proc, timer, timedOut, active, stop>>
    BY <1>3 DEF Passes, BarrierTimeout, LaunchInv, WavesOK
  <2>2. \/ /\ barrier = "released" /\ UNCHANGED <<barrier, result>>
           /\ thread' = [thread EXCEPT ![k] = "popen"]
        \/ /\ barrier # "released" /\ barrier' # "released"
           /\ thread' = [thread EXCEPT ![k] = "done"]
           /\ result' = [result EXCEPT ![k] = "unready"]
    BY <1>3 DEF Passes, BarrierTimeout, Return, GoOn
  <2>3. OnlyClient(k)
    BY <1>o, <2>1, <2>2 DEF OnlyClient, ClientsType, stop
  <2>4. ClientOK(k)'
    BY <1>o, <1>k, <2>1, <2>2 DEF ClientOK, ClientsType, Exited, Alive
  <2>5. BarrierOK'
    <3>1. /\ barrier = "released" <=> barrier' = "released"
          /\ barrier = "released" => thread'[k] = "popen" /\ result'[k] = result[k]
          /\ barrier # "released" => thread'[k] = "done" /\ proc'[k] = proc[k]
      BY <1>o, <2>1, <2>2 DEF ClientsType
    <3>2. wave' = wave /\ wave \subseteq Clients
      BY <2>1 DEF cycle, TypeOK
    <3>3. QED
      BY <2>1, <2>3, <3>1, <3>2 DEF LaunchInv, BarrierOK, OnlyClient
  <2>6. thread'[k] \in {"popen", "done"} /\ result'[k] # "skipped"
    BY <1>o, <1>k, <2>1, <2>2 DEF ClientsType, ClientOK
  <2>7. QED
    BY <2>1, <2>3, <2>4, <2>5, <2>6, ClientStep
<1>4. ASSUME NEW k \in Clients, Popen(k) \/ PopenFails(k) PROVE LaunchInv'
  <2>1. thread[k] = "popen" /\ barrier = "released"
        /\ UNCHANGED <<cycle, barrier, timer, timedOut, active, stop>>
    BY <1>4, PastBarrier DEF Popen, PopenFails
  <2>2. \/ /\ proc' = [proc EXCEPT ![k] = "up"] /\ result' = result
           /\ thread' = [thread EXCEPT ![k] = "register"]
        \/ /\ result' = [result EXCEPT ![k] = "failed"] /\ proc' = proc
           /\ thread' = [thread EXCEPT ![k] = "done"]
    BY <1>4 DEF Popen, PopenFails, Return, GoOn
  <2>3. OnlyClient(k)
    BY <1>o, <2>1, <2>2 DEF OnlyClient, ClientsType, stop
  <2>4. ClientOK(k)'
    BY <1>o, <1>k, <2>1, <2>2 DEF ClientOK, ClientsType, Exited, Alive
  <2>5. Past(k)
    BY <1>o, <2>1, <2>2 DEF Past, ClientsType
  <2>6. QED
    BY <2>3, <2>4, <2>5, PastStep
<1>5. ASSUME NEW k \in Clients, Register(k) PROVE LaunchInv'
  <2>1. /\ thread[k] = "register" /\ barrier = "released"
        /\ active' = active \cup {k} /\ timer' = [timer EXCEPT ![k] = "armed"]
        /\ thread' = [thread EXCEPT ![k] = "read"]
        /\ UNCHANGED <<cycle, result, barrier, proc, timedOut, stop>>
    BY <1>5, PastBarrier DEF Register, GoOn
  <2>2. OnlyClient(k)
    BY <1>o, <2>1 DEF OnlyClient, ClientsType, stop
  <2>3. ClientOK(k)'
    BY <1>o, <1>k, <2>1 DEF ClientOK, ClientsType, Exited, Alive
  <2>4. Past(k)
    BY <1>o, <2>1 DEF Past, ClientsType
  <2>5. QED
    BY <2>2, <2>3, <2>4, PastStep
<1>6. ASSUME NEW k \in Clients, ReadLine(k) \/ ReadFails(k) \/ ReadEnds(k) PROVE LaunchInv'
  <2>1. /\ thread[k] \in {"read", "stop"} /\ barrier = "released"
        /\ UNCHANGED <<cycle, result, barrier, timer, timedOut, active, stop>>
    BY <1>6, PastBarrier DEF ReadLine, ReadFails, ReadEnds
  <2>2. \/ /\ thread' = [thread EXCEPT ![k] = "stop"]
           /\ proc' = [proc EXCEPT ![k] = IF @ = "up" THEN "term" ELSE @]
        \/ thread' = [thread EXCEPT ![k] = "abort"] /\ proc' = proc
        \/ thread' = [thread EXCEPT ![k] = "cleanup"] /\ proc' = proc /\ Exited(k)
    BY <1>6 DEF ReadLine, ReadFails, ReadEnds, Terminate, GoOn
  <2>3. OnlyClient(k)
    BY <1>o, <2>1, <2>2 DEF OnlyClient, ClientsType, stop
  <2>4. ClientOK(k)'
    <3>1. /\ result[k] = "none" /\ k \in active
          /\ timer[k] = "stop" => timedOut[k]
      BY <1>k, <2>1 DEF ClientOK
    <3>2. /\ thread'[k] \in {"stop", "abort", "cleanup"}
          /\ thread'[k] = "cleanup" => proc'[k] \in {"zero", "nonzero"}
      BY <1>o, <2>2 DEF ClientsType, Exited
    <3>3. QED
      BY <2>1, <3>1, <3>2 DEF ClientOK, Exited, Alive
  <2>5. Past(k)
    BY <1>o, <2>1, <2>2 DEF Past, ClientsType
  <2>6. QED
    BY <2>3, <2>4, <2>5, PastStep

<1>7. ASSUME NEW k \in Clients, Cleanup(k) PROVE LaunchInv'
  <2>1. /\ thread[k] \in {"cleanup", "abort"} /\ barrier = "released"
        /\ timer' = [timer EXCEPT ![k] = IF @ = "armed" THEN "over" ELSE @]
        /\ active' = active \ {k}
        /\ timedOut' = [timedOut EXCEPT ![k] = @ /\ thread[k] = "cleanup"]
        /\ UNCHANGED <<cycle, barrier, proc, stop>>
    BY <1>7, PastBarrier DEF Cleanup
  <2>2. \/ /\ thread[k] = "cleanup" /\ result' = result
           /\ thread' = [thread EXCEPT ![k] = "report"]
        \/ /\ result' = [result EXCEPT ![k] = "raised"]
           /\ thread' = [thread EXCEPT ![k] = "done"]
    BY <1>7 DEF Cleanup, Return, GoOn
  <2>3. OnlyClient(k)
    BY <1>o, <2>1, <2>2 DEF OnlyClient, ClientsType, stop
  <2>4. ClientOK(k)'
    <3>1. /\ timer'[k] # "armed" /\ k \notin active' /\ timer'[k] \in {timer[k], "over"}
          /\ thread[k] = "cleanup" => timedOut'[k] = timedOut[k]
      BY <1>o, <2>1 DEF ClientsType
    <3>2. \/ /\ thread'[k] = "report" /\ result'[k] = "none"
             /\ proc'[k] \in {"zero", "nonzero"}
          \/ thread'[k] = "done" /\ result'[k] = "raised"
      BY <1>o, <1>k, <2>1, <2>2 DEF ClientsType, ClientOK, Exited
    <3>3. timer'[k] = "stop" => timedOut'[k] \/ thread'[k] = "done"
      <4>1. timer[k] = "stop" => timedOut[k]
        BY <1>k, <2>1 DEF ClientOK
      <4>2. thread'[k] = "report" => thread[k] = "cleanup"
        BY <1>o, <2>2 DEF ClientsType
      <4> QED BY <3>1, <3>2, <4>1, <4>2
    <3>4. QED
      BY <3>1, <3>2, <3>3 DEF ClientOK, Exited, Alive
  <2>5. Past(k)
    BY <1>o, <2>1, <2>2 DEF Past, ClientsType
  <2>6. QED
    BY <2>3, <2>4, <2>5, PastStep
<1>8. ASSUME NEW k \in Clients, Report(k) PROVE LaunchInv'
  <2>1. thread[k] = "report" /\ barrier = "released"
        /\ timedOut' = [timedOut EXCEPT ![k] = FALSE]
        /\ UNCHANGED <<cycle, barrier, proc, timer, active, stop>>
    BY <1>8, PastBarrier DEF Report
  <2>2. /\ thread' = [thread EXCEPT ![k] = "done"]
        /\ \/ /\ proc[k] = "zero" /\ ~timedOut[k]
              /\ result' = [result EXCEPT ![k] = "ok"]
           \/ result' = [result EXCEPT ![k] = "failed"]
    BY <1>8 DEF Report, Return, GoOn
  <2>3. OnlyClient(k)
    BY <1>o, <2>1, <2>2 DEF OnlyClient, ClientsType, stop
  <2>4. ClientOK(k)'
    BY <1>o, <1>k, <2>1, <2>2 DEF ClientOK, ClientsType, Exited, Alive
  <2>5. Past(k)
    BY <1>o, <2>1, <2>2 DEF Past, ClientsType
  <2>6. QED
    BY <2>3, <2>4, <2>5, PastStep
\* The runner or the timer of a client goes on, its thread does not.
<1>p. ASSUME NEW k \in Clients, thread[k] \notin {"none", "check", "arrive", "wait"},
             UNCHANGED <<cycle, thread, result, barrier, active, shutdown>>,
             \A j \in Clients \ {k} :
               proc'[j] = proc[j] /\ timer'[j] = timer[j] /\ timedOut'[j] = timedOut[j],
             proc[k] = "none" => proc'[k] = "none", ClientOK(k)'
      PROVE  LaunchInv'
  <2>1. OnlyClient(k)
    BY <1>p DEF OnlyClient
  <2>2. k \in wave => barrier = "released" \/ (thread[k] = "done" /\ proc[k] = "none")
    BY <1>p DEF LaunchInv, BarrierOK
  <2>3. Past(k)
    BY <1>p, <2>2 DEF Past
  <2>4. QED
    BY <1>p, <2>1, <2>3, PastStep
<1>9. ASSUME NEW k \in Clients, TimerFires(k) \/ Expire(k) PROVE LaunchInv'
  <2>1. /\ UNCHANGED <<cycle, thread, result, barrier, active, stop>>
        /\ timer[k] \in {"armed", "fired"}
        /\ \/ /\ timer' = [timer EXCEPT ![k] = "fired"]
              /\ UNCHANGED <<timedOut, proc>>
           \/ /\ timer' = [timer EXCEPT ![k] = IF Alive(k) THEN "stop" ELSE "over"]
              /\ timedOut' = [timedOut EXCEPT ![k] = thread[k] # "done"]
              /\ Terminate(k)
    BY <1>9 DEF TimerFires, Expire
  <2>2. proc[k] = "none" => proc'[k] = "none"
    BY <1>o, <2>1 DEF Terminate, ClientsType
  <2>3. thread[k] \notin {"none", "check", "arrive", "wait", "popen", "register"}
    BY <1>k, <2>1 DEF ClientOK
  <2>4. \A j \in Clients \ {k} :
          proc'[j] = proc[j] /\ timer'[j] = timer[j] /\ timedOut'[j] = timedOut[j]
    BY <1>o, <2>1 DEF Terminate, ClientsType
  <2>5. ClientOK(k)'
    <3>1. CASE timer' = [timer EXCEPT ![k] = "fired"] /\ UNCHANGED <<timedOut, proc>>
      <4>1. timer'[k] = "fired"
        BY <1>o, <3>1 DEF ClientsType
      <4>2. QED
        BY <1>k, <2>1, <2>3, <3>1, <4>1 DEF ClientOK, Exited, Alive
    <3>2. CASE /\ timer' = [timer EXCEPT ![k] = IF Alive(k) THEN "stop" ELSE "over"]
               /\ timedOut' = [timedOut EXCEPT ![k] = thread[k] # "done"]
               /\ Terminate(k)
      <4>1. /\ timer'[k] = IF Alive(k) THEN "stop" ELSE "over"
            /\ timedOut'[k] = (thread[k] # "done")
            /\ proc'[k] = IF proc[k] = "up" THEN "term" ELSE proc[k]
        BY <1>o, <3>2 DEF Terminate, ClientsType
      <4>2. QED
        BY <1>k, <2>1, <2>3, <4>1 DEF ClientOK, Exited, Alive
    <3>3. QED
      BY <2>1, <3>1, <3>2
  <2>6. QED
    BY <2>1, <2>2, <2>3, <2>4, <2>5, <1>p DEF stop
\* A process goes on: only a live one does, and it never comes back to life.
<1>q. ASSUME NEW k \in Clients,
             UNCHANGED <<cycle, thread, result, barrier, timer, timedOut, active>>,
             shutdown => shutdown',
             \E state \in {"term", "zero", "nonzero"} :
               proc' = [proc EXCEPT ![k] = state] /\ Alive(k)
      PROVE  LaunchInv'
  <2>1. /\ proc[k] \in {"up", "term"} /\ proc'[k] \in {"term", "zero", "nonzero"}
        /\ \A j \in Clients \ {k} : proc'[j] = proc[j]
    BY <1>o, <1>q DEF Alive, ClientsType
  <2>2. thread[k] \notin {"none", "check", "arrive", "wait", "cleanup", "report"}
    BY <1>k, <2>1 DEF ClientOK, Exited
  <2>3. ClientOK(k)'
    BY <1>k, <1>q, <2>1, <2>2 DEF ClientOK, Exited, Alive
  <2>4. OnlyClient(k)
    BY <1>q, <2>1 DEF OnlyClient
  <2>5. k \in wave => barrier = "released"
    BY <2>1, <2>2 DEF LaunchInv, BarrierOK
  <2>6. Past(k)
    BY <1>q, <2>2, <2>5 DEF Past
  <2>7. QED
    BY <2>3, <2>4, <2>6, PastStep
<1>10. ASSUME NEW k \in Clients, RunnerExits(k) \/ Kill(k) PROVE LaunchInv'
  BY <1>10, <1>q DEF RunnerExits, Kill, Alive, stop
\* A step that changes nothing of the clients and the cycle.
<1>u. ASSUME UNCHANGED <<cycle, thread, result, barrier, proc, timer, timedOut, active>>,
             shutdown => shutdown'
      PROVE  LaunchInv'
  <2>1. ClientsOK' /\ SkipsOK' /\ BarrierOK' /\ WaveSizeOK'
    BY <1>u DEF LaunchInv, ClientsOK, ClientOK, Exited, Alive, SkipsOK, BarrierOK,
               WaveSizeOK, cycle
  <2>2. WavesOK'
    BY <1>u DEF LaunchInv, WavesOK, cycle
  <2>3. QED
    BY <2>1, <2>2 DEF LaunchInv
<1>11. CASE Handle
  <2>1. /\ UNCHANGED <<cycle, thread, result, barrier, timer, timedOut, active>>
        /\ shutdown => shutdown'
    <3>1. CASE HandlerSets
      BY <3>1 DEF HandlerSets, client
    <3>2. CASE HandlerLocks \/ HandlerUnlocks \/ HandlerReturns
      BY <3>2 DEF HandlerLocks, HandlerUnlocks, HandlerReturns, client
    <3>3. CASE \E k \in Clients : HandlerTerminates(k)
      BY <3>3 DEF HandlerTerminates
    <3> QED BY <1>11, <3>1, <3>2, <3>3 DEF Handle
  <2>2. CASE UNCHANGED proc
    BY <2>1, <2>2, <1>u
  <2>3. CASE \E k \in Clients : proc[k] = "up" /\ proc' = [proc EXCEPT ![k] = "term"]
    BY <2>1, <2>3, <1>q DEF Alive
  <2>4. UNCHANGED proc \/ \E k \in Clients : Terminate(k)
    BY <1>11 DEF Handle, HandlerSets, HandlerLocks, HandlerUnlocks, HandlerReturns,
                 HandlerTerminates, client
  <2>5. ASSUME NEW k \in Clients, Terminate(k)
        PROVE  \/ UNCHANGED proc
               \/ proc[k] = "up" /\ proc' = [proc EXCEPT ![k] = "term"]
    BY <1>o, <2>5 DEF Terminate, ClientsType
  <2>6. QED
    BY <2>2, <2>3, <2>4, <2>5
<1>12. CASE Signal \/ UNCHANGED vars \/ \E k \in Clients : ChildExits(k)
  BY <1>12, <1>u DEF Signal, ChildExits, vars, client, cycle, stop
<1>13. CASE EnterWave
  <2>1. /\ UNCHANGED <<before, wave, thread, result, barrier, proc, timer, timedOut,
                       active, shutdown>>
        /\ main = "next"
        /\ \/ main' = "submit" /\ before < NumClients
           \/ main' = "done" /\ (shutdown \/ before >= NumClients)
    BY <1>13 DEF EnterWave, client, stop
  <2>2. ClientsOK' /\ SkipsOK' /\ BarrierOK' /\ WaveSizeOK'
    BY <2>1 DEF LaunchInv, ClientsOK, ClientOK, Exited, Alive, SkipsOK, BarrierOK,
               WaveSizeOK
  <2>3. before \in 0..NumClients /\ NumClients \in Nat
    BY SettingsAssumption DEF TypeOK
  <2>4. WavesOK'
    BY <2>1, <2>3 DEF LaunchInv, WavesOK
  <2>5. QED
    BY <2>2, <2>4 DEF LaunchInv
<1>14. CASE CollectWave \/ Gap
  <2>1. /\ UNCHANGED <<before, wave, thread, result, barrier, proc, timer, timedOut,
                       active, shutdown>>
        /\ main' \notin {"submit", "done"}
        /\ main = "collect" => \A k \in wave : thread[k] = "done"
    BY <1>14 DEF CollectWave, Gap, client, stop
  <2>2. ClientsOK' /\ SkipsOK' /\ BarrierOK' /\ WaveSizeOK'
    BY <2>1 DEF LaunchInv, ClientsOK, ClientOK, Exited, Alive, SkipsOK, BarrierOK,
               WaveSizeOK
  <2>3. WavesOK'
    BY <2>1 DEF LaunchInv, WavesOK
  <2>4. QED
    BY <2>2, <2>3 DEF LaunchInv
<1>15. CASE SubmitWave
  <2>1. /\ main = "submit" /\ main' = "collect" /\ barrier' = "filling"
        /\ wave' = NextWave /\ before' = Smaller(before + Workers, NumClients)
        /\ \A k \in Clients :
             thread'[k] = IF k \in NextWave THEN "check" ELSE thread[k]
        /\ UNCHANGED <<result, proc, timer, timedOut, active, shutdown>>
    BY <1>15 DEF SubmitWave, stop
  <2>2. before \in 0..NumClients /\ NumClients \in Nat /\ before < NumClients
    BY <2>1, SettingsAssumption DEF TypeOK, LaunchInv, WavesOK
  <2>3. /\ NextWave = (before + 1)..before' /\ before' \in 0..NumClients
        /\ before' <= before + Workers /\ before' >= before
    BY <2>1, <2>2, NextIndex DEF NextWave
  <2>4. \A k \in NextWave : k \in Clients /\ thread[k] = "none" /\ result[k] = "none"
    BY <1>k, <2>2, NextIndex DEF LaunchInv, WavesOK, ClientOK
  <2>5. ClientsOK'
    <3>1. ASSUME NEW k \in Clients PROVE ClientOK(k)'
      <4>1. CASE k \in NextWave
        BY <1>k, <2>1, <2>4, <4>1 DEF ClientOK, Exited, Alive
      <4>2. CASE k \notin NextWave
        BY <1>k, <2>1, <4>2 DEF ClientOK, Exited, Alive
      <4>3. QED
        BY <4>1, <4>2
    <3>2. QED
      BY <3>1 DEF ClientsOK
  <2>6. WavesOK'
    <3>1. \A k \in Clients : thread[k] \in {"none", "done"}
      BY <2>1 DEF LaunchInv, WavesOK
    <3>2. \A k \in Clients : k > before' <=> k > before /\ k \notin NextWave
      BY <2>2, <2>3 DEF Clients
    <3>3. \A k \in Clients : thread'[k] = "none" <=> k > before'
      BY <2>1, <3>2, <2>4 DEF LaunchInv, WavesOK
    <3>4. \A k \in wave' : k <= before'
      BY <2>1, <2>2, <2>3
    <3>5. \A k \in Clients : thread'[k] \notin {"none", "done"} => k \in wave'
      BY <2>1, <3>1
    <3>6. QED
      BY <2>1, <3>3, <3>4, <3>5 DEF WavesOK
  <2>7. WaveSizeOK'
    BY <2>1, <2>2, <2>3 DEF WaveSizeOK
  <2>8. BarrierOK'
    BY <1>k, <2>1, <2>4 DEF BarrierOK, ClientOK
  <2>9. SkipsOK'
    BY <2>1 DEF LaunchInv, SkipsOK
  <2>10. QED
    BY <2>5, <2>6, <2>7, <2>8, <2>9 DEF LaunchInv
<1>16. QED
  BY <1>1, <1>2, <1>3, <1>4, <1>5, <1>6, <1>7, <1>8, <1>9, <1>10, <1>11, <1>12,
     <1>13, <1>14, <1>15 DEF Next, Cycle, RunClient

LEMMA AlwaysLaunchInv == Spec => [](TypeOK /\ LaunchInv)
<1>1. Init => TypeOK /\ LaunchInv
  BY InitTypeOK, InitLaunchInv
<1>2. TypeOK /\ LaunchInv /\ [Next]_vars => (TypeOK /\ LaunchInv)'
  BY NextTypeOK, NextLaunchInv
<1>3. QED
  BY <1>1, <1>2, PTL DEF Spec

----
(* What follows from it *)

\* All runners of a wave are started or none: none is started in a wave that
\* lost a thread to a shutdown or to a broken barrier.
THEOREM WavesStartTogether == Spec => []WaveStartsTogether
<1>1. TypeOK /\ LaunchInv => WaveStartsTogether
  BY DEF LaunchInv, BarrierOK, WaveStartsTogether
<1>2. QED
  BY <1>1, AlwaysLaunchInv, PTL

\* Only a runner that exited 0 and that its timer did not stop is a success,
\* though the timer may come due at any step from the start of the runner to
\* long after the report.
THEOREM SuccessesAreReal == Spec => []SuccessIsReal
<1>1. TypeOK /\ LaunchInv => SuccessIsReal
  BY DEF LaunchInv, ClientsOK, ClientOK, SuccessIsReal
<1>2. QED
  BY <1>1, AlwaysLaunchInv, PTL

\* The handler can find every running runner whose thread did not raise,
\* but for one that was just started.
THEOREM RunnersRegistered == Spec => []RunnersAreRegistered
<1>1. TypeOK /\ LaunchInv => RunnersAreRegistered
  <2> SUFFICES ASSUME TypeOK, LaunchInv, NEW k \in Clients, Alive(k),
                      result[k] # "raised", thread[k] # "register"
               PROVE  k \in active
    BY DEF RunnersAreRegistered
  <2>1. ClientOK(k) /\ thread[k] \in Threads /\ result[k] \in Results
    BY DEF LaunchInv, ClientsOK, TypeOK
  <2>2. QED
    BY <2>1 DEF ClientOK, Threads, Results, Alive, Exited
<1>2. QED
  BY <1>1, AlwaysLaunchInv, PTL

\* The number of runners is bounded by the size of a wave, whatever the number
\* of clients, except for those whose thread raised.
THEOREM RunnersWithinWave == Spec => []LiveWithinWave
<1>1. ASSUME TypeOK, LaunchInv PROVE LiveWithinWave
  <2> DEFINE live == {k \in Clients : Alive(k) /\ result[k] # "raised"}
  <2>1. live \subseteq wave
    <3>1. ASSUME NEW k \in Clients, Alive(k), result[k] # "raised" PROVE k \in wave
      <4>1. ClientOK(k) /\ thread[k] \in Threads /\ result[k] \in Results
        BY <1>1 DEF LaunchInv, ClientsOK, TypeOK
      <4>2. thread[k] \notin {"none", "done"}
        BY <3>1, <4>1 DEF ClientOK, Results, Alive
      <4>3. QED
        BY <1>1, <4>2 DEF LaunchInv, WavesOK
    <3>2. QED
      BY <3>1
  <2>2. IsFiniteSet(wave) /\ Cardinality(wave) <= Workers
    <3>1. PICK b \in 0..NumClients : wave = (b + 1)..before /\ before <= b + Workers
      BY <1>1 DEF LaunchInv, WaveSizeOK
    <3>2. b \in Nat /\ before \in Nat /\ Workers \in Nat
      BY <1>1, WorkersWithinLimits, SettingsAssumption DEF TypeOK
    <3>3. /\ IsFiniteSet((b + 1)..before)
          /\ Cardinality((b + 1)..before) =
               IF b + 1 > before THEN 0 ELSE before - (b + 1) + 1
      BY <3>2, FS_Interval
    <3>4. QED
      BY <3>1, <3>2, <3>3
  <2>3. IsFiniteSet(live) /\ Cardinality(live) <= Cardinality(wave)
    BY <2>1, <2>2, FS_Subset
  <2>4. Cardinality(live) \in Nat /\ Cardinality(wave) \in Nat /\ Workers \in Nat
    BY <2>2, <2>3, FS_CardinalityType, WorkersWithinLimits, SettingsAssumption
  <2>5. Cardinality(live) <= Workers
    BY <2>2, <2>3, <2>4
  <2>6. QED
    BY <2>5 DEF LiveWithinWave
<1>2. QED
  BY <1>1, AlwaysLaunchInv, PTL

\* When the cycle ends every client has been launched, unless a shutdown cut
\* it short, and no runner is left, unless its thread raised.
THEOREM CyclesAreWhole == Spec => []CycleIsWhole
<1>1. ASSUME TypeOK, LaunchInv, main = "done" PROVE CycleIsWhole
  <2>1. \A k \in Clients : thread[k] \in {"none", "done"} /\ ClientOK(k) /\ result[k] \in Results
    BY <1>1 DEF LaunchInv, WavesOK, ClientsOK, TypeOK
  <2>2. ASSUME ~shutdown, NEW k \in Clients PROVE result[k] \notin {"none", "skipped"}
    <3>1. before = NumClients
      BY <1>1, <2>2 DEF LaunchInv, WavesOK
    <3>2. thread[k] = "done"
      BY <1>1, <2>1, <3>1, SettingsAssumption DEF LaunchInv, WavesOK, Clients
    <3>3. QED
      BY <1>1, <2>1, <2>2, <3>2 DEF LaunchInv, SkipsOK, ClientOK
  <2>3. \A k \in Clients : Alive(k) => result[k] = "raised"
    BY <2>1 DEF ClientOK, Alive, Results
  <2>4. active = {}
    BY <1>1, <2>1 DEF ClientOK, TypeOK
  <2>5. QED
    BY <2>2, <2>3, <2>4 DEF CycleIsWhole
<1>2. TypeOK /\ LaunchInv => CycleIsWhole
  BY <1>1 DEF CycleIsWhole
<1>3. QED
  BY <1>2, AlwaysLaunchInv, PTL

----
(* Deadlock *)

Stopping == {"term", "zero", "nonzero"}

\* Whoever waits for the end of a runner has seen to it, or its timer will; a
\* pipe is held only while it is read.
StopOK(k) ==
  /\ thread[k] \in {"register", "read", "stop", "abort"} => proc[k] # "none"
  /\ thread[k] = "stop" \/ timer[k] = "stop" => proc[k] \in Stopping
  /\ thread[k] = "read" => timer[k] # "off"
  /\ thread[k] = "read" /\ timer[k] = "over" => Exited(k)
  /\ k \in held => Exited(k) /\ thread[k] \in {"register", "read"}

StopsOK == \A k \in Clients : StopOK(k)

\* A handler stops only runners that were started.
CallOK(call) ==
  /\ \A k \in call.todo : proc[k] # "none"
  /\ call.of = 0 \/ (call.at = "stop" /\ proc[call.of] \in Stopping)

HandlersOK == \A i \in DOMAIN handler : CallOK(handler[i])

\* A call that waits for the lock of the event waits for what it interrupted.
SetsBlocked == \A i \in DOMAIN handler : handler[i].at = "set" => BlockedByOuter(i)

\* Each call of the handler is a signal's.
StackBounded == Len(handler) <= signals

StuckInv == StopsOK /\ HandlersOK /\ SetsBlocked /\ StackBounded

\* A process that was started is never not started, and one that is being
\* stopped never runs again.
LEMMA ProcStep ==
  ASSUME TypeOK, LaunchInv, [Next]_vars, NEW k \in Clients
  PROVE  /\ proc[k] # "none" => proc'[k] # "none"
         /\ proc[k] \in Stopping => proc'[k] \in Stopping
<1>o. ClientsType /\ \A j \in Clients : ClientOK(j)
  BY DEF TypeOK, ClientsType, LaunchInv, ClientsOK
<1>1. \/ UNCHANGED proc
      \/ \E j \in Clients : Popen(j) \/ Terminate(j) \/ RunnerExits(j) \/ Kill(j)
  BY DEF Next, vars, Cycle, EnterWave, SubmitWave, CollectWave, Gap, Handle, HandlerSets,
     HandlerLocks, HandlerUnlocks, HandlerReturns, HandlerTerminates, Signal, RunClient,
     Check, Arrive, Passes, BarrierTimeout, PopenFails, Register, ReadEnds, Cleanup, Report,
     ReadLine, ReadFails, TimerFires, Expire, ChildExits, client
<1>2. ASSUME NEW j \in Clients, Popen(j)
      PROVE  proc[j] = "none" /\ proc' = [proc EXCEPT ![j] = "up"]
  BY <1>o, <1>2 DEF Popen, ClientOK
<1>3. ASSUME NEW j \in Clients, Terminate(j) \/ RunnerExits(j) \/ Kill(j)
      PROVE  \E state \in Stopping \cup {proc[j]} :
               /\ proc' = [proc EXCEPT ![j] = state]
               /\ state # proc[j] => state \in Stopping
  BY <1>3 DEF Terminate, RunnerExits, Kill, Stopping
<1> QED BY <1>o, <1>1, <1>2, <1>3 DEF ClientsType, Stopping

\* What a step writes of the thread and the timer of a client.
LEMMA NextStopsOK ==
  ASSUME TypeOK, LaunchInv, StopsOK, [Next]_vars
  PROVE  StopsOK'
<1>o. ClientsType /\ \A j \in Clients : ClientOK(j) /\ StopOK(j)
  BY DEF TypeOK, ClientsType, LaunchInv, ClientsOK, StopsOK
<1> SUFFICES ASSUME NEW k \in Clients PROVE StopOK(k)'
  BY DEF StopsOK
<1>p. /\ proc[k] # "none" => proc'[k] # "none"
      /\ proc[k] \in Stopping => proc'[k] \in Stopping
      /\ Exited(k) => Exited(k)'
  <2>1. Exited(k) => Exited(k)'
    <3>1. \/ UNCHANGED proc
          \/ \E j \in Clients : Popen(j) \/ Terminate(j) \/ RunnerExits(j) \/ Kill(j)
      BY DEF Next, vars, Cycle, EnterWave, SubmitWave, CollectWave, Gap, Handle, HandlerSets,
         HandlerLocks, HandlerUnlocks, HandlerReturns, HandlerTerminates, Signal, RunClient,
         Check, Arrive, Passes, BarrierTimeout, PopenFails, Register, ReadEnds, Cleanup, Report,
         ReadLine, ReadFails, TimerFires, Expire, ChildExits, client
    <3> QED BY <1>o, <3>1 DEF Popen, Terminate, RunnerExits, Kill, Exited, ClientOK, ClientsType,
                              Alive
  <2> QED BY <2>1, ProcStep
<1>1. CASE thread'[k] = thread[k] /\ timer'[k] = timer[k] /\ (k \in held' => k \in held)
  BY <1>o, <1>1, <1>p DEF StopOK
<1>2. CASE thread'[k] \in {"check", "arrive", "wait", "popen", "done", "report", "cleanup"}
           /\ timer'[k] \in {timer[k], "over"} /\ k \notin held'
  BY <1>o, <1>2, <1>p DEF StopOK
<1>3. CASE Popen(k)
  BY <1>o, <1>3 DEF Popen, GoOn, StopOK, ClientOK, ClientsType, Stopping
<1>4. CASE Register(k)
  BY <1>o, <1>4 DEF Register, GoOn, StopOK, ClientOK, ClientsType, Stopping, Exited
<1>5. CASE ReadLine(k)
  <2>1. /\ thread'[k] = "stop" /\ timer'[k] = timer[k] /\ proc'[k] \in Stopping
        /\ k \notin held'
    BY <1>o, <1>5 DEF ReadLine, GoOn, Terminate, StopOK, ClientsType, Stopping
  <2> QED BY <2>1 DEF StopOK, Stopping
<1>6. CASE ReadFails(k)
  BY <1>o, <1>6 DEF ReadFails, GoOn, StopOK, ClientsType
<1>7. CASE Expire(k)
  <2>1. /\ thread'[k] = thread[k] /\ held' = held
        /\ timer'[k] = "stop" => proc'[k] \in Stopping
        /\ timer'[k] = "over" => ~Alive(k) /\ proc'[k] = proc[k]
        /\ timer'[k] \in {"stop", "over"}
    BY <1>o, <1>7 DEF Expire, Terminate, ClientsType, Stopping, Alive
  <2>2. thread[k] = "read" /\ ~Alive(k) => Exited(k)
    BY <1>o DEF StopOK, Alive, Exited, ClientsType
  <2> QED BY <1>o, <1>p, <2>1, <2>2 DEF StopOK, Exited
<1>8. CASE TimerFires(k)
  BY <1>o, <1>8, <1>p DEF TimerFires, StopOK, ClientsType
<1>9. CASE RunnerExits(k) \/ Kill(k)
  <2>1. /\ thread'[k] = thread[k] /\ timer'[k] = timer[k] /\ Exited(k)'
        /\ k \in held' => k \in held \/ thread[k] \in {"register", "read"}
    BY <1>o, <1>9 DEF RunnerExits, Kill, LeavesChild, Exited, ClientsType
  <2> QED BY <1>o, <1>p, <2>1 DEF StopOK
<1>10. CASE SubmitWave
  BY <1>o, <1>1, <1>2, <1>10 DEF SubmitWave, NextWave, LaunchInv, WavesOK, StopOK, TypeOK
<1>11. \/ thread'[k] = thread[k] /\ timer'[k] = timer[k] /\ (k \in held' => k \in held)
       \/ thread'[k] \in {"check", "arrive", "wait", "popen", "done", "report", "cleanup"}
          /\ timer'[k] \in {timer[k], "over"} /\ k \notin held'
       \/ Popen(k) \/ Register(k) \/ ReadLine(k) \/ ReadFails(k) \/ Expire(k)
       \/ TimerFires(k) \/ RunnerExits(k) \/ Kill(k) \/ SubmitWave
  <2>1. CASE \E j \in Clients \ {k} : RunClient(j) \/ ReadLine(j) \/ ReadFails(j)
                                      \/ TimerFires(j) \/ Expire(j) \/ RunnerExits(j)
                                      \/ Kill(j)
    BY <1>o, <2>1 DEF ClientsType, RunClient, Check, Arrive, Passes, BarrierTimeout, Popen,
       PopenFails, Register, ReadEnds, Cleanup, Report, ReadLine, ReadFails, TimerFires,
       Expire, RunnerExits, Kill, LeavesChild, GoOn, Return
  <2>2. CASE RunClient(k) /\ ~Popen(k) /\ ~Register(k)
    BY <1>o, <2>2 DEF ClientsType, RunClient, Check, Arrive, Passes, BarrierTimeout,
       PopenFails, ReadEnds, Cleanup, Report, GoOn, Return, StopOK
  <2>3. CASE (\E j \in Clients : ChildExits(j)) \/ Handle \/ Signal \/ EnterWave
             \/ CollectWave \/ Gap \/ UNCHANGED vars
    BY <2>3 DEF ChildExits, Handle, HandlerSets, HandlerLocks, HandlerUnlocks, HandlerReturns,
       HandlerTerminates, Signal, EnterWave, CollectWave, Gap, client, vars
  <2> QED BY <2>1, <2>2, <2>3 DEF Next, Cycle
<1> QED BY <1>1, <1>2, <1>3, <1>4, <1>5, <1>6, <1>7, <1>8, <1>9, <1>10, <1>11

\* CallOK of a call, in the state after the step.
CallNext(call) ==
  /\ \A k \in call.todo : proc'[k] # "none"
  /\ call.of = 0 \/ (call.at = "stop" /\ proc'[call.of] \in Stopping)

\* The calls on the stack after a step: those there were, or the innermost
\* one, which went on.
LEMMA NextHandlersOK ==
  ASSUME TypeOK, LaunchInv, StopsOK, HandlersOK, StackBounded, [Next]_vars
  PROVE  HandlersOK' /\ StackBounded'
<1>t. /\ handler \in Seq(Calls) /\ Len(handler) \in Nat /\ signals \in Nat
      /\ DOMAIN handler = 1..Len(handler)
  BY BoundsAssumption DEF TypeOK
<1>k. \A call \in Calls : CallOK(call) => CallNext(call)
  <2> SUFFICES ASSUME NEW call \in Calls, CallOK(call) PROVE CallNext(call)
    OBVIOUS
  <2>1. call.todo \subseteq Clients /\ call.of \in {0} \cup Clients
    BY DEF Calls
  <2> QED BY <2>1, ProcStep DEF CallOK, CallNext
<1>o. \A i \in DOMAIN handler : handler[i] \in Calls /\ CallNext(handler[i])
  BY <1>t, <1>k DEF HandlersOK
<1>1. CASE UNCHANGED <<handler, signals>>
  BY <1>o, <1>1 DEF HandlersOK, CallOK, CallNext, StackBounded
<1>2. CASE Signal
  <2> DEFINE call == [at |-> IF EventFree THEN "setting" ELSE "set", todo |-> {}, of |-> 0]
  <2>1. /\ handler' = Append(handler, call) /\ signals' = signals + 1
        /\ call.todo = {} /\ call.of = 0
    BY <1>2 DEF Signal
  <2>2. CallNext(call)
    BY <2>1 DEF CallNext
  <2>3. Len(handler') = Len(handler) + 1
        /\ \A i \in DOMAIN handler' :
             handler'[i] = call \/ (i \in DOMAIN handler /\ handler'[i] = handler[i])
    BY <1>t, <2>1
  <2> HIDE DEF call
  <2> QED BY <1>o, <1>t, <2>1, <2>2, <2>3 DEF HandlersOK, CallOK, CallNext, StackBounded
<1>3. ASSUME NEW call \in Calls, handler # <<>>, SetTop(call), CallNext(call), UNCHANGED signals
      PROVE  HandlersOK' /\ StackBounded'
  <2>1. /\ Len(handler') = Len(handler) /\ DOMAIN handler' = DOMAIN handler
        /\ \A i \in DOMAIN handler' : handler'[i] = call \/ handler'[i] = handler[i]
    BY <1>t, <1>3 DEF SetTop
  <2> QED BY <1>o, <1>t, <1>3, <2>1 DEF HandlersOK, CallOK, CallNext, StackBounded
<1>4. ASSUME handler # <<>>
      PROVE  Top \in Calls /\ CallNext(Top) /\ CallOK(Top) /\ Len(handler) \in DOMAIN handler
  <2>1. Len(handler) \in DOMAIN handler
    BY <1>t, <1>4
  <2> QED BY <1>o, <2>1 DEF Top, HandlersOK, CallOK
<1>5. CASE HandlerLocks
  <2> DEFINE call == [Top EXCEPT !.at = "holding", !.todo = active]
  <2>1. /\ handler # <<>> /\ SetTop(call) /\ UNCHANGED <<client, proc, signals>> /\ Top.at = "lock"
        /\ active \subseteq Clients
    BY <1>5 DEF HandlerLocks, TypeOK, client
  <2>2. call \in Calls /\ call.todo = active /\ call.of = Top.of
    BY <1>4, <2>1 DEF Calls
  <2>3. \A k \in active : proc[k] # "none"
    BY <2>1 DEF LaunchInv, ClientsOK, ClientOK, Exited, StopsOK, StopOK
  <2>4. Top.of = 0
    BY <1>4, <2>1 DEF CallOK
  <2> HIDE DEF call
  <2>5. CallNext(call)
    BY <2>1, <2>2, <2>3, <2>4 DEF CallNext
  <2> QED BY <1>3, <2>1, <2>2, <2>5
<1>6. CASE HandlerUnlocks
  <2> DEFINE call == [Top EXCEPT !.at = "stop"]
  <2>1. handler # <<>> /\ SetTop(call) /\ UNCHANGED <<client, proc, signals>> /\ Top.at = "holding"
    BY <1>6 DEF HandlerUnlocks, client
  <2>2. call \in Calls /\ call.todo = Top.todo /\ call.of = Top.of
    BY <1>4, <2>1 DEF Calls
  <2>3. Top.of = 0
    BY <1>4, <2>1 DEF CallOK
  <2> HIDE DEF call
  <2>4. CallNext(call)
    BY <1>4, <2>1, <2>2, <2>3 DEF CallNext
  <2> QED BY <1>3, <2>1, <2>2, <2>4
<1>7. ASSUME NEW k \in Clients, HandlerTerminates(k) PROVE HandlersOK' /\ StackBounded'
  <2> DEFINE call == [Top EXCEPT !.of = k]
  <2>1. /\ handler # <<>> /\ SetTop(call) /\ UNCHANGED signals /\ Top.at = "stop"
        /\ k \in Top.todo /\ Terminate(k)
    BY <1>7 DEF HandlerTerminates, StopsNext
  <2>2. call \in Calls /\ call.todo = Top.todo /\ call.of = k /\ call.at = "stop"
    BY <1>4, <2>1 DEF Calls
  <2>3. proc'[k] \in Stopping
    BY <1>4, <2>1 DEF CallOK, Terminate, Stopping, TypeOK
  <2> HIDE DEF call
  <2>4. CallNext(call)
    BY <1>4, <2>1, <2>2, <2>3 DEF CallNext
  <2> QED BY <1>3, <2>1, <2>2, <2>4
<1>8. CASE HandlerSets
  <2> DEFINE call == [Top EXCEPT !.at = "lock"]
  <2>1. /\ handler # <<>> /\ SetTop(call) /\ UNCHANGED <<client, proc, signals>>
        /\ Top.at = "setting"
    BY <1>8 DEF HandlerSets, client
  <2>2. call \in Calls /\ call.todo = Top.todo /\ call.of = Top.of
    BY <1>4, <2>1 DEF Calls
  <2>3. Top.of = 0
    BY <1>4, <2>1 DEF CallOK
  <2> HIDE DEF call
  <2>4. CallNext(call)
    BY <1>4, <2>1, <2>2, <2>3 DEF CallNext
  <2> QED BY <1>3, <2>1, <2>2, <2>4
<1>9. CASE HandlerReturns
  <2>1. handler # <<>> /\ handler' = SubSeq(handler, 1, Len(handler) - 1) /\ UNCHANGED signals
    BY <1>9 DEF HandlerReturns, StopsNext
  <2>2. /\ Len(handler') = Len(handler) - 1
        /\ \A i \in DOMAIN handler' : i \in DOMAIN handler /\ handler'[i] = handler[i]
    BY <1>t, <1>4, <2>1
  <2> QED BY <1>o, <1>t, <2>1, <2>2 DEF HandlersOK, CallOK, CallNext, StackBounded
<1>10. \/ UNCHANGED <<handler, signals>> \/ Signal \/ HandlerSets \/ HandlerLocks
       \/ HandlerUnlocks \/ HandlerReturns \/ \E k \in Clients : HandlerTerminates(k)
  BY DEF Next, Cycle, EnterWave, SubmitWave, CollectWave, Gap, Handle, RunClient, Check, Arrive,
     Passes, BarrierTimeout, Popen, PopenFails, Register, ReadEnds, Cleanup, Report, ReadLine,
     ReadFails, TimerFires, Expire, RunnerExits, Kill, ChildExits, stop, vars
<1> QED BY <1>1, <1>2, <1>5, <1>6, <1>7, <1>8, <1>9, <1>10

\* The stack after a step: a new call on top, or the innermost call went on or
\* returned.
Interrupted ==
  /\ Len(handler') = Len(handler) + 1
  /\ \A i \in 1..Len(handler) : handler'[i] = handler[i]
  /\ handler'[Len(handler) + 1].at = "set" => ~EventFree
TopMoved ==
  /\ \/ Len(handler') = Len(handler) - 1
     \/ Len(handler') = Len(handler) /\ handler'[Len(handler)].at # "set"
  /\ \A i \in 1..(Len(handler) - 1) : handler'[i] = handler[i]
  /\ Top.at # "set" /\ (Top.at = "lock" => LockFree)

\* Below the innermost call nothing moves, the cycle included, and that call
\* does not move while it waits for what it interrupted.
LEMMA OuterCallsStand ==
  ASSUME TypeOK, [Next]_vars, handler # <<>>
  PROVE  /\ UNCHANGED cycle
         /\ Len(handler) \in Nat \ {0} /\ Len(handler') \in Nat
         /\ DOMAIN handler = 1..Len(handler) /\ DOMAIN handler' = 1..Len(handler')
         /\ handler' = handler \/ Interrupted \/ TopMoved
<1>1. handler \in Seq(Calls) /\ Len(handler) \in Nat \ {0} /\ DOMAIN handler = 1..Len(handler)
  BY EmptySeq DEF TypeOK
<1>n. handler' \in Seq(Calls) /\ Len(handler') \in Nat /\ DOMAIN handler' = 1..Len(handler')
  BY NextTypeOK DEF TypeOK
<1>2. CASE UNCHANGED <<cycle, handler>>
  BY <1>1, <1>n, <1>2
<1>3. CASE Signal
  <2> DEFINE call == [at |-> IF EventFree THEN "setting" ELSE "set", todo |-> {}, of |-> 0]
  <2>1. /\ handler' = Append(handler, call) /\ UNCHANGED cycle
        /\ call.at = "set" => ~EventFree
    BY <1>3 DEF Signal
  <2>2. call \in Calls
    BY DEF Calls
  <2> HIDE DEF call
  <2>3. Interrupted
    BY <1>1, <2>1, <2>2 DEF Interrupted
  <2> QED BY <1>1, <1>n, <2>1, <2>3
<1>t. Top \in Calls
  BY <1>1 DEF Top
<1>4. ASSUME UNCHANGED cycle, NEW call \in Calls, SetTop(call), call.at # "set",
             Top.at # "set", Top.at = "lock" => LockFree
      PROVE  UNCHANGED cycle /\ TopMoved
  <2>1. Len(handler') = Len(handler) /\ handler'[Len(handler)] = call
        /\ \A i \in 1..(Len(handler) - 1) : handler'[i] = handler[i]
    <3>1. Len(handler) \in 1..Len(handler) /\ handler' = [handler EXCEPT ![Len(handler)] = call]
      BY <1>1, <1>4 DEF SetTop
    <3> DEFINE n == Len(handler)
    <3>2. /\ Len(handler') = n /\ n \in Nat /\ n \in 1..n
          /\ \A j \in 1..n : handler'[j] = IF j = n THEN call ELSE handler[j]
      BY <1>1, <3>1, ExceptSeq
    <3> HIDE DEF n
    <3>3. handler'[n] = call /\ \A j \in 1..(n - 1) : handler'[j] = handler[j]
      BY <3>2
    <3> QED BY <3>2, <3>3 DEF n
  <2> QED BY <1>4, <2>1 DEF TopMoved
<1>5. CASE HandlerSets
  <2> DEFINE call == [Top EXCEPT !.at = "lock"]
  <2>1. call \in Calls /\ call.at # "set"
    BY <1>t DEF Calls
  <2>2. SetTop(call) /\ UNCHANGED cycle /\ Top.at = "setting"
    BY <1>5 DEF HandlerSets
  <2> HIDE DEF call
  <2> QED BY <1>1, <1>n, <1>4, <2>1, <2>2
<1>6. CASE HandlerLocks
  <2> DEFINE call == [Top EXCEPT !.at = "holding", !.todo = active]
  <2>1. call \in Calls /\ call.at # "set"
    BY <1>t DEF Calls, TypeOK
  <2>2. SetTop(call) /\ UNCHANGED cycle /\ Top.at = "lock" /\ LockFree
    BY <1>6 DEF HandlerLocks
  <2> HIDE DEF call
  <2> QED BY <1>1, <1>n, <1>4, <2>1, <2>2
<1>7. CASE HandlerUnlocks
  <2> DEFINE call == [Top EXCEPT !.at = "stop"]
  <2>1. call \in Calls /\ call.at # "set"
    BY <1>t DEF Calls
  <2>2. SetTop(call) /\ UNCHANGED cycle /\ Top.at = "holding"
    BY <1>7 DEF HandlerUnlocks
  <2> HIDE DEF call
  <2> QED BY <1>1, <1>n, <1>4, <2>1, <2>2
<1>8. ASSUME NEW k \in Clients, HandlerTerminates(k)
      PROVE  UNCHANGED cycle /\ TopMoved
  <2> DEFINE call == [Top EXCEPT !.of = k]
  <2>1. call \in Calls /\ call.at = Top.at
    BY <1>t DEF Calls
  <2>2. SetTop(call) /\ UNCHANGED cycle /\ Top.at = "stop"
    BY <1>8 DEF HandlerTerminates, StopsNext
  <2> HIDE DEF call
  <2> QED BY <1>4, <2>1, <2>2
<1>9. CASE HandlerReturns
  <2>1. /\ handler' = SubSeq(handler, 1, Len(handler) - 1) /\ UNCHANGED cycle
        /\ Top.at = "stop"
    BY <1>9 DEF HandlerReturns, StopsNext
  <2>2. /\ Len(handler') = Len(handler) - 1
        /\ \A i \in 1..(Len(handler) - 1) : handler'[i] = handler[i]
    BY <1>1, <2>1
  <2>3. TopMoved
    BY <2>1, <2>2 DEF TopMoved
  <2> QED BY <1>1, <1>n, <2>1, <2>3
<1>10. \/ UNCHANGED <<cycle, handler>> \/ Signal \/ HandlerSets \/ HandlerLocks
       \/ HandlerUnlocks \/ HandlerReturns \/ \E k \in Clients : HandlerTerminates(k)
  <2>1. CASE Handle \/ Signal \/ UNCHANGED vars
    BY <2>1 DEF Handle, vars, cycle
  <2>2. CASE \E k \in Clients : RunClient(k) \/ ReadLine(k) \/ ReadFails(k) \/ TimerFires(k)
                                \/ Expire(k) \/ RunnerExits(k) \/ Kill(k) \/ ChildExits(k)
    BY <2>2 DEF RunClient, Check, Arrive, Passes, BarrierTimeout, Popen, PopenFails, Register,
       ReadEnds, Cleanup, Report, ReadLine, ReadFails, TimerFires, Expire, RunnerExits, Kill,
       ChildExits, stop
  <2>3. ~Cycle
    BY DEF Cycle, EnterWave, SubmitWave, CollectWave, Gap, MainRuns
  <2> QED BY <2>1, <2>2, <2>3 DEF Next
<1> QED BY <1>1, <1>n, <1>2, <1>3, <1>5, <1>6, <1>7, <1>8, <1>9, <1>10

\* A call that waits for what it interrupted does so for ever.
LEMMA BlockedStays ==
  ASSUME TypeOK, [Next]_vars, NEW i \in DOMAIN handler, BlockedByOuter(i)
  PROVE  i \in DOMAIN handler' /\ BlockedByOuter(i)' /\ UNCHANGED cycle
<1>1. handler # <<>>
  BY DEF TypeOK
<1>2. /\ UNCHANGED cycle /\ Len(handler) \in Nat \ {0} /\ Len(handler') \in Nat
      /\ DOMAIN handler = 1..Len(handler) /\ DOMAIN handler' = 1..Len(handler')
      /\ handler' = handler \/ Interrupted \/ TopMoved
  BY <1>1, OuterCallsStand
<1>3. /\ i \in DOMAIN handler' /\ handler'[i] = handler[i]
      /\ \A j \in 1..(i - 1) : handler'[j] = handler[j]
  <2>1. CASE handler' = handler
    BY <2>1
  <2>2. CASE Interrupted
    BY <1>2, <2>2 DEF Interrupted
  <2>3. CASE TopMoved
    <3>1. i # Len(handler)
      <4>1. i = Len(handler) => Top.at = "set" \/ (Top.at = "lock" /\ ~LockFree)
        BY <1>2 DEF BlockedByOuter, Top, LockFree
      <4> QED BY <2>3, <4>1 DEF TopMoved
    <3> DEFINE n == Len(handler)
               m == Len(handler')
    <3>2. (m = n - 1 \/ m = n) /\ \A j \in 1..(n - 1) : handler'[j] = handler[j]
      BY <2>3 DEF TopMoved
    <3>3. n \in Nat /\ m \in Nat /\ DOMAIN handler' = 1..m /\ i \in 1..n /\ i # n
      BY <1>2, <3>1
    <3> HIDE DEF n, m
    <3>4. i \in 1..(n - 1) /\ i \in 1..m /\ \A j \in 1..(i - 1) : j \in 1..(n - 1)
      BY <3>2, <3>3
    <3> QED BY <3>2, <3>3, <3>4
  <2> QED BY <1>2, <2>1, <2>2, <2>3
<1>4. MainInEvent' = MainInEvent
  BY <1>2 DEF MainInEvent, cycle
<1> QED BY <1>2, <1>3, <1>4 DEF BlockedByOuter

LEMMA NextSetsBlocked ==
  ASSUME TypeOK, SetsBlocked, [Next]_vars
  PROVE  SetsBlocked'
<1> SUFFICES ASSUME NEW i \in DOMAIN handler', handler'[i].at = "set"
             PROVE  BlockedByOuter(i)'
  BY DEF SetsBlocked
<1>t. handler \in Seq(Calls) /\ Len(handler) \in Nat /\ DOMAIN handler = 1..Len(handler)
  BY DEF TypeOK
<1>1. CASE i \in DOMAIN handler /\ handler'[i] = handler[i]
  BY <1>1, BlockedStays DEF SetsBlocked
<1>2. CASE Signal /\ i = Len(handler) + 1
  <2> DEFINE call == [at |-> IF EventFree THEN "setting" ELSE "set", todo |-> {}, of |-> 0]
  <2>1. handler' = Append(handler, call) /\ UNCHANGED cycle
    BY <1>2 DEF Signal
  <2>2. call \in Calls /\ (call.at = "set" => ~EventFree)
    BY DEF Calls
  <2> HIDE DEF call
  <2>3. /\ handler'[i] = call /\ \A j \in 1..(i - 1) : handler'[j] = handler[j]
        /\ DOMAIN handler = 1..(i - 1)
    BY <1>2, <1>t, <2>1, <2>2
  <2>4. MainInEvent' = MainInEvent
    BY <2>1 DEF MainInEvent, cycle
  <2> QED BY <2>2, <2>3, <2>4 DEF BlockedByOuter, EventFree
<1>3. CASE handler = <<>>
  <2>1. handler' = <<>> \/ Signal
    BY <1>3 DEF Next, Cycle, EnterWave, SubmitWave, CollectWave, Gap, Handle, HandlerSets,
       HandlerLocks, HandlerUnlocks, HandlerReturns, HandlerTerminates, StopsNext, RunClient,
       Check, Arrive, Passes, BarrierTimeout, Popen, PopenFails, Register, ReadEnds, Cleanup,
       Report, ReadLine, ReadFails, TimerFires, Expire, RunnerExits, Kill, ChildExits, stop, vars
  <2>2. CASE handler' = <<>>
    BY <2>2
  <2>3. CASE Signal
    <3>1. i = Len(handler) + 1
      <4> DEFINE call == [at |-> IF EventFree THEN "setting" ELSE "set", todo |-> {}, of |-> 0]
      <4>1. handler' = Append(<<>>, call)
        BY <1>3, <2>3 DEF Signal
      <4> HIDE DEF call
      <4>2. DOMAIN handler' = {1}
        BY <4>1
      <4> QED BY <1>3, <4>2
    <3> QED BY <1>2, <2>3, <3>1
  <2> QED BY <2>1, <2>2, <2>3
<1>4. CASE handler # <<>>
  <2>1. /\ UNCHANGED cycle /\ DOMAIN handler' = 1..Len(handler') /\ Len(handler') \in Nat
        /\ handler' = handler \/ Interrupted \/ TopMoved
    BY <1>4, OuterCallsStand
  <2>2. CASE handler' = handler
    BY <1>1, <2>2
  <2>3. CASE Interrupted
    <3>1. CASE i \in DOMAIN handler
      BY <1>t, <1>1, <2>3, <3>1 DEF Interrupted
    <3>2. CASE i = Len(handler) + 1
      <4>1. ~EventFree /\ \A j \in 1..(i - 1) : handler'[j] = handler[j]
        BY <1>t, <2>3, <3>2 DEF Interrupted
      <4>2. DOMAIN handler = 1..(i - 1)
        BY <1>t, <3>2
      <4>3. MainInEvent' = MainInEvent
        BY <2>1 DEF MainInEvent, cycle
      <4> QED BY <4>1, <4>2, <4>3 DEF BlockedByOuter, EventFree
    <3> QED BY <1>t, <2>1, <2>3, <3>1, <3>2 DEF Interrupted
  <2>4. CASE TopMoved
    <3> DEFINE n == Len(handler)
               m == Len(handler')
    <3>1. /\ m = n - 1 \/ (m = n /\ handler'[n].at # "set")
          /\ \A j \in 1..(n - 1) : handler'[j] = handler[j]
      BY <2>4 DEF TopMoved
    <3>2. n \in Nat /\ m \in Nat /\ DOMAIN handler = 1..n /\ i \in 1..m
      BY <1>t, <2>1
    <3> HIDE DEF n, m
    <3>3. i = n => m = n - 1
      BY <3>1
    <3>4. i \in 1..(n - 1) /\ i \in 1..n
      BY <3>1, <3>2, <3>3
    <3> QED BY <1>1, <3>1, <3>2, <3>4
  <2> QED BY <2>1, <2>2, <2>3, <2>4
<1> QED BY <1>3, <1>4

LEMMA AlwaysStuckInv == Spec => [](TypeOK /\ LaunchInv /\ StuckInv)
<1>1. Init => StuckInv
  BY DEF Init, StuckInv, StopsOK, StopOK, HandlersOK, SetsBlocked, StackBounded
<1>2. TypeOK /\ LaunchInv /\ StuckInv /\ [Next]_vars => StuckInv'
  BY NextStopsOK, NextHandlersOK, NextSetsBlocked DEF StuckInv
<1> QED BY <1>1, <1>2, AlwaysLaunchInv, PTL DEF Spec

\* A thread of the wave that is not done can move, or its timer comes due, or
\* whoever stops its runner kills it.
LEMMA ClientNeverStuck ==
  ASSUME TypeOK, LaunchInv, StuckInv, LockFree, NEW k \in wave, thread[k] # "done"
  PROVE  ClientMoves(k) \/ HeldOpen(k)
<1>1. /\ k \in Clients /\ thread[k] \in Threads /\ timer[k] \in Timers
      /\ ClientOK(k) /\ StopOK(k)
  BY DEF TypeOK, LaunchInv, ClientsOK, StuckInv, StopsOK
<1>2. thread[k] # "none"
  BY <1>1, SettingsAssumption DEF LaunchInv, WavesOK, Clients, TypeOK
<1>3. thread[k] = "arrive" => barrier # "released"
  BY DEF LaunchInv, BarrierOK
<1>4. CASE thread[k] = "read"
  BY <1>1, <1>4 DEF StopOK, ClientMoves, HeldOpen, Stopping, Exited, Timers
<1>5. CASE thread[k] = "stop"
  BY <1>1, <1>5 DEF StopOK, ClientMoves, Stopping, Exited
<1> QED BY <1>1, <1>2, <1>3, <1>4, <1>5 DEF ClientMoves, Threads

\* Nobody of a cycle waits in a circle but the handler that waits for itself
\* and the reader of a pipe that outlived its runner: for any number of
\* clients, signals and faults.
THEOREM CycleNeverStuck == Spec => []NeverStuck
<1>1. ASSUME TypeOK, LaunchInv, StuckInv PROVE NeverStuck
  <2>1. CASE handler # <<>>
    <3>1. /\ Len(handler) \in DOMAIN handler /\ Top \in Calls /\ CallOK(Top)
          /\ Top.at = "set" => BlockedByOuter(Len(handler))
      <4>1. Len(handler) \in DOMAIN handler
        BY <1>1, <2>1, StackType DEF TypeOK
      <4> QED BY <1>1, <2>1, <4>1, StackType DEF TypeOK, Top, StuckInv, HandlersOK, SetsBlocked
    <3>2. CASE Top.at = "set"
      BY <3>1, <3>2 DEF NeverStuck, SelfDeadlocked
    <3>3. CASE Top.at = "lock" /\ ~LockFree
      <4>1. PICK j \in DOMAIN handler : handler[j].at = "holding"
        BY <3>3 DEF LockFree
      <4>2. j \in 1..(Len(handler) - 1)
        BY <1>1, <3>1, <3>3, <4>1 DEF Top, TypeOK
      <4>3. BlockedByOuter(Len(handler))
        BY <3>3, <4>1, <4>2 DEF BlockedByOuter, Top
      <4> QED BY <3>1, <4>3 DEF NeverStuck, SelfDeadlocked
    <3>4. CASE Top.at # "set" /\ (Top.at = "lock" => LockFree)
      <4>1. HandlerMoves
        BY <2>1, <3>1, <3>4 DEF HandlerMoves, StopsNext, CallOK, Calls, Stopping, Exited
      <4> QED BY <4>1 DEF NeverStuck
    <3> QED BY <3>2, <3>3, <3>4
  <2>2. CASE handler = <<>>
    <3>1. MainRuns /\ LockFree
      BY <2>2 DEF MainRuns, LockFree
    <3>2. ASSUME main = "collect", NEW k \in wave, thread[k] # "done" PROVE NeverStuck
      <4>1. k \in Clients
        BY <1>1 DEF TypeOK
      <4> QED BY <1>1, <3>1, <3>2, <4>1, ClientNeverStuck DEF NeverStuck
    <3> QED BY <3>1, <3>2 DEF NeverStuck, CycleMoves
  <2> QED BY <2>1, <2>2
<1>2. TypeOK /\ LaunchInv /\ StuckInv => NeverStuck
  BY <1>1
<1> QED BY <1>2, AlwaysStuckInv, PTL

\* One signal is enough for the handler to wait for itself only in the wait
\* between two waves, while the cycle holds the lock of the event.
THEOREM DeadlockTakesTwoSignalsOrGap == Spec => []DeadlockTakesTwoOrGap
<1>1. ASSUME TypeOK, StuckInv, SelfDeadlocked, ~MainInEvent PROVE signals >= 2
  <2>1. /\ handler \in Seq(Calls) /\ Len(handler) \in Nat /\ signals \in Nat
        /\ DOMAIN handler = 1..Len(handler)
    BY <1>1, BoundsAssumption DEF TypeOK
  <2>2. PICK i \in DOMAIN handler : BlockedByOuter(i)
    BY <1>1 DEF SelfDeadlocked
  <2>3. PICK j \in 1..(i - 1) : TRUE
    BY <1>1, <2>2 DEF BlockedByOuter
  <2> QED BY <1>1, <2>1, <2>2, <2>3 DEF StuckInv, StackBounded
<1>2. TypeOK /\ LaunchInv /\ StuckInv => DeadlockTakesTwoOrGap
  BY <1>1 DEF DeadlockTakesTwoOrGap
<1> QED BY <1>2, AlwaysStuckInv, PTL

\* Once the handler waits for itself the cycle never goes on.
THEOREM DeadlockStays == Spec => DeadlockIsForever
<1>1. ASSUME TypeOK, [Next]_vars, SelfDeadlocked PROVE SelfDeadlocked' /\ UNCHANGED cycle
  <2>1. PICK i \in DOMAIN handler : BlockedByOuter(i)
    BY <1>1 DEF SelfDeadlocked
  <2>2. i \in DOMAIN handler' /\ BlockedByOuter(i)' /\ UNCHANGED cycle
    BY <1>1, <2>1, BlockedStays
  <2> QED BY <2>2 DEF SelfDeadlocked
<1>2. TypeOK /\ [Next]_vars => [SelfDeadlocked => SelfDeadlocked' /\ UNCHANGED cycle]_vars
  BY <1>1
<1> QED BY <1>2, TypeCorrect, PTL DEF Spec, DeadlockIsForever
====
