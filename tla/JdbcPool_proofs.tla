---- MODULE JdbcPool_proofs ----
(***************************************************************************)
(* Theorems about JdbcPool, for any threads, pool size and bounds.         *)
(*                                                                         *)
(* The counter, the queue and the threads are related by one equation, and *)
(* exclusive use rests on helpers being numbered in the order in which     *)
(* they start: a new one is in nobody's hands.  That an answer is the      *)
(* query's own rests on request numbers: a line on any pipe that bears the *)
(* number a thread waits for was written for its query.                    *)
(***************************************************************************)
EXTENDS JdbcPool, FiniteSetTheorems, SequenceTheorems, TLAPS

----
(* Type correctness *)

\* Every helper in the queue, or accounted for by a caller, was started.
HelpersStarted ==
  /\ \A i \in DOMAIN idle : idle[i] <= started
  /\ \A c \in Callers : pc[c] \in Holding => slot[c] \in Helpers /\ slot[c] <= started

TypeInv == TypeOK /\ HelpersStarted

LEMMA InitTypeInv == Init => TypeInv
<1> SUFFICES ASSUME Init PROVE TypeInv
  OBVIOUS
<1> USE PoolSizeAssumption, BoundsAssumption DEF Init
<1>1. TypeOK
  BY CallersAssumption, FS_CardinalityType DEF TypeOK, Step, Helpers
<1>2. HelpersStarted
  BY DEF HelpersStarted, Holding
<1>3. QED
  BY <1>1, <1>2 DEF TypeInv

LEMMA OneFewerType ==
  ASSUME created \in 0..PoolSize
  PROVE  /\ OneFewer \in 0..PoolSize
         /\ created # 0 => OneFewer = created - 1
  BY PoolSizeAssumption DEF OneFewer

\* The queue after its oldest helper is taken.
LEMMA TailOfIdle ==
  ASSUME TypeInv, idle # <<>>
  PROVE  /\ Head(idle) \in Helpers /\ Head(idle) <= started
         /\ Tail(idle) \in Seq(Helpers)
         /\ Len(Tail(idle)) = Len(idle) - 1
         /\ \A i \in DOMAIN Tail(idle) :
              i + 1 \in DOMAIN idle /\ Tail(idle)[i] = idle[i + 1]
         /\ 1 \in DOMAIN idle /\ Head(idle) = idle[1]
<1>1. idle \in Seq(Helpers)
  BY DEF TypeInv, TypeOK
<1>2. /\ Head(idle) \in Helpers /\ Tail(idle) \in Seq(Helpers)
      /\ Len(Tail(idle)) = Len(idle) - 1
      /\ \A i \in 1..Len(Tail(idle)) : Tail(idle)[i] = idle[i + 1]
  BY <1>1, HeadTailProperties
<1>3. Len(idle) \in Nat \ {0} /\ DOMAIN idle = 1..Len(idle)
      /\ DOMAIN Tail(idle) = 1..Len(Tail(idle)) /\ Len(Tail(idle)) \in Nat
  BY <1>1, <1>2, EmptySeq, LenProperties
<1>4. 1 \in DOMAIN idle /\ Head(idle) = idle[1]
  BY <1>1, <1>3
<1>5. Head(idle) <= started
  BY <1>4 DEF TypeInv, HelpersStarted
<1>6. QED
  BY <1>2, <1>3, <1>4, <1>5

\* The queue after a helper is checked in.
LEMMA AppendToIdle ==
  ASSUME TypeInv, NEW h \in Helpers
  PROVE  /\ Append(idle, h) \in Seq(Helpers)
         /\ Len(Append(idle, h)) = Len(idle) + 1
         /\ DOMAIN idle = 1..Len(idle) /\ Len(idle) \in Nat
         /\ DOMAIN Append(idle, h) = 1..(Len(idle) + 1)
         /\ \A i \in DOMAIN idle : Append(idle, h)[i] = idle[i]
         /\ Append(idle, h)[Len(idle) + 1] = h
<1>1. idle \in Seq(Helpers)
  BY DEF TypeInv, TypeOK
<1>2. QED
  BY <1>1

LEMMA TakeIdleType ==
  ASSUME TypeInv, NEW c \in Callers, NEW dead \in Step, TakeIdle(c, dead)
  PROVE  /\ idle' \in Seq(Helpers)
         /\ slot' \in [Callers -> {0} \cup Helpers]
         /\ pc' \in [Callers -> Step]
         /\ \A i \in DOMAIN idle' : idle'[i] <= started
         /\ \A d \in Callers : pc'[d] \in Holding =>
              slot'[d] \in Helpers /\ slot'[d] <= started
<1>1. idle # <<>> /\ idle' = Tail(idle) /\ slot' = [slot EXCEPT ![c] = Head(idle)]
  BY DEF TakeIdle
<1>2. PICK s \in Step : pc' = [pc EXCEPT ![c] = s]
  BY DEF TakeIdle, Goto, Step
<1>3. \A i \in DOMAIN idle : idle[i] <= started
  BY DEF TypeInv, HelpersStarted
<1>4. \A i \in DOMAIN idle' : idle'[i] <= started
  BY <1>1, <1>3, TailOfIdle
<1>5. QED
  BY <1>1, <1>2, <1>4, TailOfIdle DEF TypeInv, TypeOK, HelpersStarted

LEMMA BeginStartType ==
  ASSUME TypeInv, NEW c \in Callers, NEW n \in Nat, n < PoolSize, BeginStart(c, n)
  PROVE  /\ created' \in 0..PoolSize
         /\ started' \in Nat /\ started' = started + 1 /\ started' \in Helpers
         /\ slot' = [slot EXCEPT ![c] = started']
         /\ pc' = [pc EXCEPT ![c] = "starting"]
  BY PoolSizeAssumption DEF BeginStart, TypeInv, TypeOK, Goto

----
\* A step of c that leaves the queue and every slot but c's alone.
LEMMA StepType ==
  ASSUME TypeInv, NEW c \in Callers, NEW s \in Step,
         pc' = [pc EXCEPT ![c] = s], UNCHANGED <<idle, started>>,
         \/ UNCHANGED slot /\ (s \in Holding => pc[c] \in Holding)
         \/ slot' = [slot EXCEPT ![c] = 0] /\ s \notin Holding
  PROVE  /\ pc' \in [Callers -> Step]
         /\ slot' \in [Callers -> {0} \cup Helpers]
         /\ HelpersStarted'
  BY DEF TypeInv, TypeOK, HelpersStarted

LEMMA LeaveType ==
  ASSUME TypeInv, NEW c \in Callers, Leave(c)
  PROVE  /\ pc' = [pc EXCEPT ![c] = "done"]
         /\ slot' = [slot EXCEPT ![c] = 0]
         /\ request' \in [Callers -> Nat]
         /\ answer' \in [Callers -> Callers \cup {None}]
  BY DEF Leave, Goto, TypeInv, TypeOK

LEMMA SettlesType ==
  ASSUME TypeInv, NEW c \in Callers, NEW r \in Callers \cup {None}, Settles(c, r)
  PROVE  /\ pc' = [pc EXCEPT ![c] = "checkin"]
         /\ answer' \in [Callers -> Callers \cup {None}]
  BY DEF Settles, Goto, TypeInv, TypeOK

LEMMA PipeType ==
  ASSUME NEW f \in [Helpers -> Seq(Lines)], NEW h \in Helpers
  PROVE  /\ \A line \in Lines :
              [f EXCEPT ![h] = Append(@, line)] \in [Helpers -> Seq(Lines)]
         /\ f[h] # <<>> => /\ Head(f[h]) \in Lines
                           /\ [f EXCEPT ![h] = Tail(@)] \in [Helpers -> Seq(Lines)]
<1>1. f[h] \in Seq(Lines)
  OBVIOUS
<1>2. \A line \in Lines : Append(f[h], line) \in Seq(Lines)
  BY <1>1
<1>3. f[h] # <<>> => Head(f[h]) \in Lines /\ Tail(f[h]) \in Seq(Lines)
  BY <1>1, HeadTailProperties
<1>4. QED
  BY <1>2, <1>3

LEMMA NextTypeInv == TypeInv /\ [Next]_vars => TypeInv'
<1> SUFFICES ASSUME TypeInv, [Next]_vars PROVE TypeInv'
  OBVIOUS
<1> USE BoundsAssumption, PoolSizeAssumption DEF TypeInv
<1>1. ASSUME NEW c \in Callers, Call(c) PROVE TypeInv'
  <2>1. pc' = [pc EXCEPT ![c] = "get"] /\ "get" \in Step /\ "get" \notin Holding
    BY <1>1 DEF Call, Goto, Step, Holding
  <2>2. pc' \in [Callers -> Step] /\ HelpersStarted'
    BY <1>1, <2>1, StepType DEF Call, pool, bounds
  <2>3. QED
    BY <1>1, <2>2 DEF Call, TypeOK, pool, helper, bounds
<1>2. ASSUME NEW c \in Callers, Get(c) PROVE TypeInv'
  <2>1. CASE TakeIdle(c, "drop")
    <3>1. "drop" \in Step
      BY DEF Step
    <3>2. /\ idle' \in Seq(Helpers)
          /\ slot' \in [Callers -> {0} \cup Helpers]
          /\ pc' \in [Callers -> Step]
          /\ \A i \in DOMAIN idle' : idle'[i] <= started
          /\ \A d \in Callers : pc'[d] \in Holding =>
               slot'[d] \in Helpers /\ slot'[d] <= started
      BY <2>1, <3>1, TakeIdleType
    <3>3. started' = started
      BY <1>2 DEF Get, bounds
    <3>4. HelpersStarted'
      BY <3>2, <3>3 DEF HelpersStarted
    <3>5. QED
      BY <1>2, <3>2, <3>4 DEF Get, TypeOK, helper, bounds
  <2>2. CASE Goto(c, "grow") /\ UNCHANGED <<idle, slot>>
    <3>1. pc' = [pc EXCEPT ![c] = "grow"] /\ "grow" \in Step /\ "grow" \notin Holding
      BY <2>2 DEF Goto, Step, Holding
    <3>2. pc' \in [Callers -> Step] /\ HelpersStarted'
      BY <1>2, <2>2, <3>1, StepType DEF Get, bounds
    <3>3. QED
      BY <1>2, <2>2, <3>2 DEF Get, TypeOK, helper, bounds
  <2>3. QED
    BY <1>2, <2>1, <2>2 DEF Get
<1>3. ASSUME NEW c \in Callers, Drop(c) PROVE TypeInv'
  <2>1. pc' = [pc EXCEPT ![c] = "grow"] /\ "grow" \in Step /\ "grow" \notin Holding
    BY <1>3 DEF Drop, Goto, Step, Holding
  <2>2. /\ pc' \in [Callers -> Step] /\ HelpersStarted'
        /\ slot' \in [Callers -> {0} \cup Helpers]
    BY <1>3, <2>1, StepType DEF Drop, bounds
  <2>3. created' \in 0..PoolSize
    BY <1>3, OneFewerType DEF Drop, TypeOK
  <2>4. QED
    BY <1>3, <2>2, <2>3 DEF Drop, TypeOK, helper, bounds
<1>4. ASSUME NEW c \in Callers, NEW n \in Nat, n < PoolSize, BeginStart(c, n),
             UNCHANGED <<idle, request, answer, helper, numbered,
                         faults, noise>>
      PROVE  TypeInv'
  <2>1. /\ created' \in 0..PoolSize
        /\ started' \in Nat /\ started' = started + 1 /\ started' \in Helpers
        /\ slot' = [slot EXCEPT ![c] = started']
        /\ pc' = [pc EXCEPT ![c] = "starting"]
    BY <1>4, BeginStartType
  <2>2. "starting" \in Step
    BY DEF Step
  <2>3. TypeOK'
    BY <1>4, <2>1, <2>2 DEF TypeOK, helper
  <2>4. HelpersStarted'
    <3>1. \A i \in DOMAIN idle : idle[i] <= started /\ idle[i] \in Helpers
      BY LenProperties DEF TypeOK, HelpersStarted
    <3>2. \A i \in DOMAIN idle' : idle'[i] <= started'
      BY <1>4, <2>1, <3>1 DEF Helpers, TypeOK
    <3>3. ASSUME NEW d \in Callers, pc'[d] \in Holding
          PROVE  slot'[d] \in Helpers /\ slot'[d] <= started'
      <4>1. CASE d = c
        BY <2>1, <4>1 DEF TypeOK
      <4>2. CASE d # c
        <5>1. slot[d] \in Helpers /\ slot[d] <= started
          BY <2>1, <3>3, <4>2 DEF TypeOK, HelpersStarted
        <5>2. slot'[d] = slot[d]
          BY <2>1, <4>2 DEF TypeOK
        <5>3. QED
          BY <2>1, <5>1, <5>2, SMTT(30) DEF Helpers, TypeOK
      <4>3. QED
        BY <4>1, <4>2
    <3>4. QED
      BY <3>2, <3>3 DEF HelpersStarted
  <2>5. QED
    BY <2>3, <2>4
<1>5. ASSUME NEW c \in Callers, Grow(c) PROVE TypeInv'
  <2>1. CASE created < PoolSize /\ BeginStart(c, created)
    <3>1. created \in Nat
      BY DEF TypeOK
    <3>2. QED
      BY <1>4, <1>5, <2>1, <3>1 DEF Grow
  <2>2. CASE Goto(c, "block") /\ UNCHANGED <<created, slot, started>>
    <3>1. pc' = [pc EXCEPT ![c] = "block"] /\ "block" \in Step /\ "block" \notin Holding
      BY <2>2 DEF Goto, Step, Holding
    <3>2. pc' \in [Callers -> Step] /\ HelpersStarted'
      BY <1>5, <2>2, <3>1, StepType DEF Grow
    <3>3. QED
      BY <1>5, <2>2, <3>2 DEF Grow, TypeOK, helper
  <2>3. QED
    BY <1>5, <2>1, <2>2 DEF Grow
<1>6. ASSUME NEW c \in Callers, Block(c) PROVE TypeInv'
  <2>1. "regrow" \in Step
    BY DEF Step
  <2>2. /\ idle' \in Seq(Helpers)
        /\ slot' \in [Callers -> {0} \cup Helpers]
        /\ pc' \in [Callers -> Step]
        /\ \A i \in DOMAIN idle' : idle'[i] <= started
        /\ \A d \in Callers : pc'[d] \in Holding =>
             slot'[d] \in Helpers /\ slot'[d] <= started
    BY <1>6, <2>1, TakeIdleType DEF Block
  <2>3. started' = started
    BY <1>6 DEF Block, bounds
  <2>4. HelpersStarted'
    BY <2>2, <2>3 DEF HelpersStarted
  <2>5. QED
    BY <1>6, <2>2, <2>4 DEF Block, TypeOK, helper, bounds
<1>7. ASSUME NEW c \in Callers, Regrow(c) PROVE TypeInv'
  <2>1. OneFewer \in Nat /\ OneFewer \in 0..PoolSize
    BY OneFewerType DEF TypeOK
  <2>2. CASE OneFewer < PoolSize /\ BeginStart(c, OneFewer)
    BY <1>4, <1>7, <2>1, <2>2 DEF Regrow
  <2>3. CASE /\ created' = OneFewer /\ slot' = [slot EXCEPT ![c] = 0]
             /\ Goto(c, "block") /\ UNCHANGED started
    <3>1. pc' = [pc EXCEPT ![c] = "block"] /\ "block" \in Step /\ "block" \notin Holding
      BY <2>3 DEF Goto, Step, Holding
    <3>2. /\ pc' \in [Callers -> Step] /\ HelpersStarted'
          /\ slot' \in [Callers -> {0} \cup Helpers]
      BY <1>7, <2>3, <3>1, StepType DEF Regrow
    <3>3. QED
      BY <1>7, <2>1, <2>3, <3>2 DEF Regrow, TypeOK, helper
  <2>4. QED
    BY <1>7, <2>2, <2>3 DEF Regrow
<1>8. ASSUME NEW c \in Callers, StartEnds(c) PROVE TypeInv'
  <2>1. /\ pc' = [pc EXCEPT ![c] = "submit"] /\ "submit" \in Step
        /\ pc[c] \in Holding
    BY <1>8 DEF StartEnds, Goto, Step, Holding
  <2>2. pc' \in [Callers -> Step] /\ HelpersStarted'
    BY <1>8, <2>1, StepType DEF StartEnds, pool, bounds
  <2>3. proc' \in [Helpers -> {"none", "up", "dying", "dead"}]
    BY <1>8 DEF StartEnds, TypeOK
  <2>4. QED
    BY <1>8, <2>2, <2>3 DEF StartEnds, TypeOK, pool, bounds
<1>9. ASSUME NEW c \in Callers, StartFails(c) PROVE TypeInv'
  <2>1. "done" \in Step /\ "done" \notin Holding
    BY DEF Step, Holding
  <2>2. /\ pc' = [pc EXCEPT ![c] = "done"] /\ slot' = [slot EXCEPT ![c] = 0]
        /\ request' \in [Callers -> Nat]
        /\ answer' \in [Callers -> Callers \cup {None}]
    BY <1>9, LeaveType DEF StartFails
  <2>3. /\ pc' \in [Callers -> Step] /\ HelpersStarted'
        /\ slot' \in [Callers -> {0} \cup Helpers]
    BY <1>9, <2>1, <2>2, StepType DEF StartFails
  <2>4. created' \in 0..PoolSize
    BY <1>9, OneFewerType DEF StartFails, TypeOK
  <2>5. proc' \in [Helpers -> {"none", "up", "dying", "dead"}]
    BY <1>9 DEF StartFails, TypeOK
  <2>6. QED
    BY <1>9, <2>2, <2>3, <2>4, <2>5 DEF StartFails, TypeOK
<1>10. ASSUME NEW c \in Callers, Submit(c) PROVE TypeInv'
  <2>1. PICK s \in {"await", "checkin"} : pc' = [pc EXCEPT ![c] = s]
    BY <1>10 DEF Submit, Goto
  <2>2. s \in Step /\ pc[c] \in Holding
    BY <1>10, <2>1 DEF Submit, Step, Holding
  <2>3. pc' \in [Callers -> Step] /\ HelpersStarted'
    BY <1>10, <2>1, <2>2, StepType DEF Submit, pool
  <2>4. stdin' \in [Helpers -> Seq(Lines)]
    <3>1. slot[c] \in Helpers
      BY <2>2 DEF HelpersStarted
    <3>2. [id |-> numbered + 1, of |-> c] \in Lines
      BY DEF TypeOK, Lines
    <3>3. [stdin EXCEPT ![slot[c]] = Append(@, [id |-> numbered + 1, of |-> c])]
            \in [Helpers -> Seq(Lines)]
      BY <3>1, <3>2, PipeType DEF TypeOK
    <3>4. QED
      BY <1>10, <3>3 DEF Submit, TypeOK
  <2>5. numbered' \in Nat /\ request' \in [Callers -> Nat]
    BY <1>10 DEF Submit, TypeOK
  <2>6. QED
    BY <1>10, <2>3, <2>4, <2>5 DEF Submit, TypeOK, pool
<1>11. ASSUME NEW c \in Callers, NEW r \in Callers \cup {None}, Settles(c, r),
              pc[c] \in {"reading", "kill"},
              proc' \in [Helpers -> {"none", "up", "dying", "dead"}],
              stdout' \in [Helpers -> Seq(Lines)],
              UNCHANGED <<pool, slot, request, stdin, half, bounds>>
       PROVE  TypeInv'
  <2>1. "checkin" \in Step /\ pc[c] \in Holding
    BY <1>11 DEF Step, Holding
  <2>2. pc' = [pc EXCEPT ![c] = "checkin"] /\ answer' \in [Callers -> Callers \cup {None}]
    BY <1>11, SettlesType
  <2>3. pc' \in [Callers -> Step] /\ HelpersStarted'
    BY <1>11, <2>1, <2>2, StepType DEF pool, bounds
  <2>4. QED
    BY <1>11, <2>2, <2>3 DEF TypeOK, pool, bounds
<1>12. ASSUME NEW c \in Callers, Read(c) PROVE TypeInv'
  <2>1. slot[c] \in Helpers /\ pc[c] = "reading"
    BY <1>12 DEF Read, HelpersStarted, Holding
  <2>2. /\ stdout' \in [Helpers -> Seq(Lines)]
        /\ Head(stdout[slot[c]]).of \in Callers \cup {None}
    <3>1. stdout \in [Helpers -> Seq(Lines)] /\ stdout[slot[c]] # <<>>
      BY <1>12 DEF Read, LineEnded, TypeOK
    <3>2. /\ Head(stdout[slot[c]]) \in Lines
          /\ [stdout EXCEPT ![slot[c]] = Tail(@)] \in [Helpers -> Seq(Lines)]
      BY <2>1, <3>1, PipeType
    <3>3. QED
      BY <1>12, <3>2 DEF Read, Lines
  <2>3. PICK r \in Callers \cup {None} : Settles(c, r)
    BY <1>12, <2>2 DEF Read
  <2>4. proc' \in [Helpers -> {"none", "up", "dying", "dead"}]
    BY <1>12 DEF Read, TypeOK
  <2>5. QED
    BY <1>11, <1>12, <2>1, <2>2, <2>3, <2>4 DEF Read
<1>13. ASSUME NEW c \in Callers, ReadEnd(c) \/ Kill(c) PROVE TypeInv'
  <2>1. pc[c] \in {"reading", "kill"} /\ Settles(c, None)
    BY <1>13 DEF ReadEnd, Kill
  <2>2. /\ proc' \in [Helpers -> {"none", "up", "dying", "dead"}]
        /\ stdout' \in [Helpers -> Seq(Lines)]
    BY <1>13 DEF ReadEnd, Kill, TypeOK, helper
  <2>3. UNCHANGED <<pool, slot, request, stdin, half, bounds>>
    BY <1>13 DEF ReadEnd, Kill, helper
  <2>4. QED
    BY <1>11, <2>1, <2>2, <2>3
<1>22. ASSUME NEW c \in Callers, Select(c) \/ GiveUp(c) PROVE TypeInv'
  <2>1. PICK s \in {"reading", "kill"} : pc' = [pc EXCEPT ![c] = s]
    BY <1>22 DEF Select, GiveUp, Goto
  <2>2. s \in Step /\ pc[c] \in Holding /\ UNCHANGED <<idle, slot, started>>
    BY <1>22, <2>1 DEF Select, GiveUp, NoResponse, Step, Holding, pool, bounds
  <2>3. pc' \in [Callers -> Step] /\ HelpersStarted'
    BY <2>1, <2>2, StepType
  <2>4. QED
    BY <1>22, <2>3 DEF Select, GiveUp, TypeOK, pool, helper, bounds
<1>14. ASSUME NEW c \in Callers, Checkin(c) PROVE TypeInv'
  <2>1. /\ pc[c] \in Holding /\ "release" \in Step
        /\ "done" \in Step /\ "done" \notin Holding
    BY <1>14 DEF Checkin, Step, Holding
  <2>2. CASE idle' = Append(idle, slot[c]) /\ Leave(c)
    <3>1. slot[c] \in Helpers /\ slot[c] <= started
      BY <2>1 DEF HelpersStarted
    <3>2. /\ idle' \in Seq(Helpers)
          /\ \A i \in DOMAIN idle' : idle'[i] <= started
      BY <2>2, <3>1, AppendToIdle DEF HelpersStarted
    <3>3. /\ pc' = [pc EXCEPT ![c] = "done"] /\ slot' = [slot EXCEPT ![c] = 0]
          /\ request' \in [Callers -> Nat]
          /\ answer' \in [Callers -> Callers \cup {None}]
      BY <2>2, LeaveType
    <3>4. started' = started
      BY <1>14 DEF Checkin, bounds
    <3>5. /\ pc' \in [Callers -> Step] /\ slot' \in [Callers -> {0} \cup Helpers]
          /\ \A d \in Callers : pc'[d] \in Holding =>
               slot'[d] \in Helpers /\ slot'[d] <= started
      BY <2>1, <3>3 DEF TypeOK, HelpersStarted
    <3>6. HelpersStarted'
      BY <3>2, <3>4, <3>5 DEF HelpersStarted
    <3>7. QED
      BY <1>14, <3>2, <3>3, <3>5, <3>6 DEF Checkin, TypeOK, helper, bounds
  <2>3. CASE Goto(c, "release") /\ UNCHANGED <<idle, slot, request, answer>>
    <3>1. pc' = [pc EXCEPT ![c] = "release"]
      BY <2>3 DEF Goto
    <3>2. pc' \in [Callers -> Step] /\ HelpersStarted'
      BY <1>14, <2>1, <2>3, <3>1, StepType DEF Checkin, bounds
    <3>3. QED
      BY <1>14, <2>3, <3>2 DEF Checkin, TypeOK, helper, bounds
  <2>4. QED
    BY <1>14, <2>2, <2>3 DEF Checkin
<1>15. ASSUME NEW c \in Callers, Release(c) PROVE TypeInv'
  <2>1. "done" \in Step /\ "done" \notin Holding
    BY DEF Step, Holding
  <2>2. /\ pc' = [pc EXCEPT ![c] = "done"] /\ slot' = [slot EXCEPT ![c] = 0]
        /\ request' \in [Callers -> Nat]
        /\ answer' \in [Callers -> Callers \cup {None}]
    BY <1>15, LeaveType DEF Release
  <2>3. /\ pc' \in [Callers -> Step] /\ HelpersStarted'
        /\ slot' \in [Callers -> {0} \cup Helpers]
    BY <1>15, <2>1, <2>2, StepType DEF Release, bounds
  <2>4. created' \in 0..PoolSize
    BY <1>15, OneFewerType DEF Release, TypeOK
  <2>5. QED
    BY <1>15, <2>2, <2>3, <2>4 DEF Release, TypeOK, helper, bounds
<1>16. ASSUME UNCHANGED <<pool, caller, started>>, TypeOK' PROVE TypeInv'
  BY <1>16 DEF HelpersStarted, pool, caller
<1>17. ASSUME NEW h \in Helpers, Respond(h) PROVE TypeInv'
  <2>1. /\ stdin \in [Helpers -> Seq(Lines)] /\ stdout \in [Helpers -> Seq(Lines)]
        /\ stdin[h] # <<>>
    BY <1>17 DEF Respond, TypeOK
  <2>2. Head(stdin[h]) \in Lines /\ stdin' \in [Helpers -> Seq(Lines)]
    BY <1>17, <2>1, PipeType DEF Respond
  <2>3. stdout' \in [Helpers -> Seq(Lines)]
    BY <1>17, <2>1, <2>2, PipeType DEF Respond
  <2>4. TypeOK'
    BY <1>17, <2>2, <2>3 DEF Respond, TypeOK, pool, caller, bounds
  <2>5. QED
    BY <1>16, <1>17, <2>4 DEF Respond, bounds
<1>23. ASSUME NEW h \in Helpers, EndLine(h) PROVE TypeInv'
  <2>1. TypeOK'
    BY <1>23 DEF EndLine, TypeOK, pool, caller, bounds
  <2>2. QED
    BY <1>16, <1>23, <2>1 DEF EndLine, bounds
<1>18. ASSUME NEW h \in Helpers, Crash(h) \/ Exits(h) PROVE TypeInv'
  <2>1. TypeOK'
    <3>1. CASE Crash(h)
      BY <3>1 DEF Crash, TypeOK, pool, caller
    <3>2. CASE Exits(h)
      BY <3>2 DEF Exits, TypeOK, pool, caller, bounds
    <3>3. QED
      BY <1>18, <3>1, <3>2
  <2>2. QED
    BY <1>16, <1>18, <2>1 DEF Crash, Exits, bounds
<1>19. ASSUME NEW h \in Helpers, Prints(h) PROVE TypeInv'
  <2>1. Noise \in Lines
    BY DEF Noise, Lines
  <2>2. stdout' \in [Helpers -> Seq(Lines)]
    BY <1>19, <2>1, PipeType DEF Prints, TypeOK
  <2>3. TypeOK'
    BY <1>19, <2>2 DEF Prints, TypeOK, pool, caller
  <2>4. QED
    BY <1>16, <1>19, <2>3 DEF Prints
<1>20. CASE UNCHANGED vars
  BY <1>20 DEF TypeOK, HelpersStarted, vars
<1>21. QED
  BY <1>1, <1>2, <1>3, <1>5, <1>6, <1>7, <1>8, <1>9, <1>10, <1>12, <1>13,
     <1>14, <1>15, <1>17, <1>18, <1>19, <1>20, <1>22, <1>23
     DEF Next, Proceed

\* The pool is well formed at every step: in particular no more helpers are
\* counted than XACTLY_JDBC_POOL_SIZE.
THEOREM TypeCorrect == Spec => []TypeOK
<1>1. TypeInv => TypeOK
  BY DEF TypeInv
<1>2. QED
  BY <1>1, InitTypeInv, NextTypeInv, PTL DEF Spec

----
(* The counter is exact. *)

LEMMA HoldersCount ==
  ASSUME TypeInv, NEW c \in Callers, NEW s \in Step, pc' = [pc EXCEPT ![c] = s]
  PROVE  /\ Cardinality(Holders) \in Nat
         /\ pc[c] \in Holding => Cardinality(Holders) # 0
         /\ (pc[c] \notin Holding /\ s \in Holding) =>
              Cardinality(Holders') = Cardinality(Holders) + 1
         /\ (pc[c] \in Holding /\ s \notin Holding) =>
              Cardinality(Holders') = Cardinality(Holders) - 1
         /\ (pc[c] \in Holding <=> s \in Holding) =>
              Cardinality(Holders') = Cardinality(Holders)
<1>1. IsFiniteSet(Holders)
  BY CallersAssumption, FS_Subset DEF Holders
<1>2. Cardinality(Holders) \in Nat
  BY <1>1, FS_CardinalityType
<1>3. c \in Holders <=> pc[c] \in Holding
  BY DEF Holders
<1>4. pc[c] \in Holding => Cardinality(Holders) # 0
  BY <1>1, <1>3, FS_EmptySet
<1>5. s \in Holding => Holders' = Holders \cup {c}
  BY DEF Holders, TypeInv, TypeOK
<1>6. s \notin Holding => Holders' = Holders \ {c}
  BY DEF Holders, TypeInv, TypeOK
<1>7. /\ Cardinality(Holders \cup {c}) =
           IF c \in Holders THEN Cardinality(Holders) ELSE Cardinality(Holders) + 1
      /\ Cardinality(Holders \ {c}) =
           IF c \in Holders THEN Cardinality(Holders) - 1 ELSE Cardinality(Holders)
  BY <1>1, FS_AddElement, FS_RemoveElement
<1>8. QED
  BY <1>2, <1>3, <1>4, <1>5, <1>6, <1>7

LEMMA SameCount ==
  ASSUME CreatedIsExact, UNCHANGED <<created, idle, pc>>
  PROVE  CreatedIsExact'
  BY DEF CreatedIsExact, Holders

LEMMA NextCreatedIsExact ==
  TypeInv /\ CreatedIsExact /\ [Next]_vars => CreatedIsExact'
<1> SUFFICES ASSUME TypeInv, CreatedIsExact, [Next]_vars PROVE CreatedIsExact'
  OBVIOUS
<1>l. Len(idle) \in Nat /\ created \in 0..PoolSize
  BY LenProperties DEF TypeInv, TypeOK
<1>e. created = Len(idle) + Cardinality(Holders)
  BY DEF CreatedIsExact
<1>f. ASSUME NEW c \in Callers, pc[c] \in Holding
      PROVE  OneFewer = created - 1
  <2>1. "done" \in Step /\ Cardinality(Holders) \in Nat /\ Cardinality(Holders) # 0
    <3>1. c \in Holders /\ IsFiniteSet(Holders)
      BY <1>f, CallersAssumption, FS_Subset DEF Holders
    <3>2. QED
      BY <3>1, FS_CardinalityType, FS_EmptySet DEF Step
  <2>2. created # 0
    BY <1>e, <1>l, <2>1
  <2>3. QED
    BY <1>l, <2>2, OneFewerType
\* A step of one caller that neither starts nor stops holding a helper.
<1>s. ASSUME NEW c \in Callers, NEW s \in Step, pc' = [pc EXCEPT ![c] = s],
             pc[c] \in Holding <=> s \in Holding, UNCHANGED <<created, idle>>
      PROVE  CreatedIsExact'
  BY <1>e, <1>s, HoldersCount DEF CreatedIsExact
\* One that gives a helper up and discounts it.
<1>g. ASSUME NEW c \in Callers, NEW s \in Step \ Holding, pc' = [pc EXCEPT ![c] = s],
             pc[c] \in Holding, created' = OneFewer, UNCHANGED idle
      PROVE  CreatedIsExact'
  <2>1. Cardinality(Holders') = Cardinality(Holders) - 1 /\ Cardinality(Holders) \in Nat
    BY <1>g, HoldersCount
  <2>2. created' = created - 1
    BY <1>f, <1>g
  <2>3. QED
    BY <1>e, <1>g, <1>l, <2>1, <2>2 DEF CreatedIsExact
\* One that takes the oldest helper from the queue.
<1>t. ASSUME NEW c \in Callers, NEW dead \in {"drop", "regrow"}, TakeIdle(c, dead),
             pc[c] \notin Holding, UNCHANGED created
      PROVE  CreatedIsExact'
  <2>1. PICK s \in Step \cap Holding : pc' = [pc EXCEPT ![c] = s]
    BY <1>t DEF TakeIdle, Goto, Step, Holding
  <2>2. Cardinality(Holders') = Cardinality(Holders) + 1 /\ Cardinality(Holders) \in Nat
    BY <1>t, <2>1, HoldersCount
  <2>3. Len(idle') = Len(idle) - 1
    <3>1. Len(Tail(idle)) = Len(idle) - 1 /\ idle' = Tail(idle)
      BY <1>t, TailOfIdle DEF TakeIdle
    <3>2. QED
      BY ONLY <3>1
  <2>4. created' = created
    BY <1>t
  <2>5. created' = Len(idle') + Cardinality(Holders')
    BY ONLY <1>e, <1>l, <2>2, <2>3, <2>4
  <2>6. QED
    BY <2>5 DEF CreatedIsExact
<1>1. ASSUME NEW c \in Callers, Call(c) PROVE CreatedIsExact'
  BY <1>s, <1>1 DEF Call, Goto, Step, Holding, pool
<1>2. ASSUME NEW c \in Callers, Get(c) PROVE CreatedIsExact'
  <2>1. pc[c] \notin Holding
    BY <1>2 DEF Get, Holding
  <2>2. CASE TakeIdle(c, "drop")
    BY <1>2, <1>t, <2>1, <2>2 DEF Get
  <2>3. CASE Goto(c, "grow") /\ UNCHANGED <<idle, slot>>
    <3>1. pc' = [pc EXCEPT ![c] = "grow"] /\ "grow" \in Step /\ "grow" \notin Holding
      BY <2>3 DEF Goto, Step, Holding
    <3>2. QED
      BY <1>2, <1>s, <2>1, <2>3, <3>1 DEF Get
  <2>4. QED
    BY <1>2, <2>2, <2>3 DEF Get
<1>3. ASSUME NEW c \in Callers, Drop(c) PROVE CreatedIsExact'
  <2>1. /\ pc[c] \in Holding /\ pc' = [pc EXCEPT ![c] = "grow"]
        /\ "grow" \in Step \ Holding
    BY <1>3 DEF Drop, Goto, Step, Holding
  <2>2. QED
    BY <1>3, <1>g, <2>1 DEF Drop
<1>4. ASSUME NEW c \in Callers, Grow(c) PROVE CreatedIsExact'
  <2>1. pc[c] \notin Holding /\ "starting" \in Step \cap Holding /\ "block" \in Step \ Holding
    BY <1>4 DEF Grow, Step, Holding
  <2>2. CASE BeginStart(c, created)
    <3>1. pc' = [pc EXCEPT ![c] = "starting"] /\ created' = created + 1
      BY <2>2 DEF BeginStart, Goto
    <3>2. /\ Cardinality(Holders') = Cardinality(Holders) + 1
          /\ Cardinality(Holders) \in Nat
      BY <2>1, <3>1, HoldersCount
    <3>3. QED
      BY <1>4, <1>e, <1>l, <3>1, <3>2 DEF CreatedIsExact, Grow
  <2>3. CASE Goto(c, "block") /\ UNCHANGED <<created, slot, started>>
    <3>1. pc' = [pc EXCEPT ![c] = "block"]
      BY <2>3 DEF Goto
    <3>2. QED
      BY <1>4, <1>s, <2>1, <2>3, <3>1 DEF Grow
  <2>4. QED
    BY <1>4, <2>2, <2>3 DEF Grow
<1>5. ASSUME NEW c \in Callers, Block(c) PROVE CreatedIsExact'
  <2>1. pc[c] \notin Holding
    BY <1>5 DEF Block, Holding
  <2>2. QED
    BY <1>5, <1>t, <2>1 DEF Block
<1>6. ASSUME NEW c \in Callers, Regrow(c) PROVE CreatedIsExact'
  <2>1. pc[c] \in Holding /\ "starting" \in Step \cap Holding /\ "block" \in Step \ Holding
    BY <1>6 DEF Regrow, Step, Holding
  <2>2. OneFewer = created - 1
    BY <1>f, <2>1
  <2>3. CASE BeginStart(c, OneFewer)
    <3>1. pc' = [pc EXCEPT ![c] = "starting"] /\ created' = OneFewer + 1
      BY <2>3 DEF BeginStart, Goto
    <3>2. created' = created
      BY <1>l, <2>2, <3>1
    <3>3. QED
      BY <1>6, <1>s, <2>1, <3>1, <3>2 DEF Regrow
  <2>4. CASE created' = OneFewer /\ Goto(c, "block")
    <3>1. pc' = [pc EXCEPT ![c] = "block"] /\ UNCHANGED idle
      BY <1>6, <2>4 DEF Regrow, Goto
    <3>2. QED
      BY <1>g, <2>1, <2>4, <3>1
  <2>5. QED
    BY <1>6, <2>3, <2>4 DEF Regrow
<1>7. ASSUME NEW c \in Callers, StartEnds(c) \/ Submit(c) \/ Select(c) \/ GiveUp(c)
      PROVE  CreatedIsExact'
  <2>1. PICK s \in {"submit", "await", "reading", "kill", "checkin"} :
          pc' = [pc EXCEPT ![c] = s]
    BY <1>7 DEF StartEnds, Submit, Select, GiveUp, Goto
  <2>2. s \in Step \cap Holding /\ pc[c] \in Holding
    BY <1>7, <2>1 DEF StartEnds, Submit, Select, GiveUp, NoResponse, Step, Holding
  <2>3. UNCHANGED <<created, idle>>
    BY <1>7 DEF StartEnds, Submit, Select, GiveUp, pool
  <2>4. QED
    BY <1>s, <2>1, <2>2, <2>3
<1>8. ASSUME NEW c \in Callers, StartFails(c) \/ Release(c) PROVE CreatedIsExact'
  <2>1. /\ pc[c] \in Holding /\ pc' = [pc EXCEPT ![c] = "done"]
        /\ "done" \in Step \ Holding
    BY <1>8 DEF StartFails, Release, Leave, Goto, Step, Holding
  <2>2. created' = OneFewer /\ UNCHANGED idle
    BY <1>8 DEF StartFails, Release
  <2>3. QED
    BY <1>g, <2>1, <2>2
<1>9. ASSUME NEW c \in Callers, Read(c) \/ ReadEnd(c) \/ Kill(c)
      PROVE  CreatedIsExact'
  <2>1. /\ pc[c] \in {"reading", "kill"} /\ pc' = [pc EXCEPT ![c] = "checkin"]
        /\ UNCHANGED <<created, idle>>
    BY <1>9 DEF Read, ReadEnd, Kill, Settles, Goto, pool
  <2>2. "checkin" \in Step \cap Holding /\ pc[c] \in Holding
    BY <2>1 DEF Step, Holding
  <2>3. QED
    BY <1>s, <2>1, <2>2
<1>10. ASSUME NEW c \in Callers, Checkin(c) PROVE CreatedIsExact'
  <2>1. /\ pc[c] \in Holding /\ "done" \in Step \ Holding
        /\ "release" \in Step \cap Holding
    BY <1>10 DEF Checkin, Step, Holding
  <2>2. CASE idle' = Append(idle, slot[c]) /\ Leave(c)
    <3>1. slot[c] \in Helpers
      BY <2>1 DEF TypeInv, HelpersStarted
    <3>2. Len(idle') = Len(idle) + 1
      BY <2>2, <3>1, AppendToIdle
    <3>3. pc' = [pc EXCEPT ![c] = "done"]
      BY <2>2 DEF Leave, Goto
    <3>4. /\ Cardinality(Holders') = Cardinality(Holders) - 1
          /\ Cardinality(Holders) \in Nat
      BY <2>1, <3>3, HoldersCount
    <3>5. QED
      BY <1>10, <1>e, <1>l, <3>2, <3>4 DEF Checkin, CreatedIsExact
  <2>3. CASE Goto(c, "release") /\ UNCHANGED <<idle, slot, request, answer>>
    <3>1. pc' = [pc EXCEPT ![c] = "release"] /\ UNCHANGED <<created, idle>>
      BY <1>10, <2>3 DEF Checkin, Goto
    <3>2. QED
      BY <1>s, <2>1, <3>1
  <2>4. QED
    BY <1>10, <2>2, <2>3 DEF Checkin
<1>11. ASSUME NEW h \in Helpers,
              Respond(h) \/ EndLine(h) \/ Crash(h) \/ Exits(h) \/ Prints(h)
       PROVE  CreatedIsExact'
  BY <1>11, SameCount DEF Respond, EndLine, Crash, Exits, Prints, pool, caller
<1>12. CASE UNCHANGED vars
  BY <1>12, SameCount DEF vars
<1>13. QED
  BY <1>1, <1>2, <1>3, <1>4, <1>5, <1>6, <1>7, <1>8, <1>9, <1>10, <1>11, <1>12
     DEF Next, Proceed

LEMMA InitCreatedIsExact == Init => CreatedIsExact
<1> SUFFICES ASSUME Init PROVE CreatedIsExact
  OBVIOUS
<1>1. Holders = {}
  BY DEF Init, Holders, Holding
<1>2. QED
  BY <1>1, FS_EmptySet DEF Init, CreatedIsExact

\* _server_pool_created counts exactly the helpers in the queue and those a
\* thread has in hand, starts, or is about to discount.
THEOREM CreatedExact == Spec => []CreatedIsExact
<1>1. TypeInv /\ CreatedIsExact /\ [Next]_vars => (TypeInv /\ CreatedIsExact)'
  BY NextTypeInv, NextCreatedIsExact
<1>2. QED
  BY <1>1, InitTypeInv, InitCreatedIsExact, PTL DEF Spec

----
(* Deadlock *)

\* Callers never wait for each other in a circle, whatever timed out or died:
\* if the queue is empty and the pool full, its helpers are in the hands of
\* callers that can go on, unless a helper holds its caller in the middle of a
\* line.
THEOREM PoolNeverStuck == Spec => []NeverStuck
<1>1. ASSUME TypeInv, CreatedIsExact, LockFree, NEW c \in Callers,
             pc[c] \notin {"idle", "done"}
      PROVE  \E d \in Callers : Moves(d) \/ Stranded(d) \/ Held(d)
  <2>1. CASE Moves(c) \/ Stranded(c) \/ Held(c)
    BY <2>1
  <2>2. CASE ~Moves(c) /\ ~Stranded(c) /\ ~Held(c)
    <3>1. pc[c] = "block" /\ idle = <<>> /\ ~(created < PoolSize)
      BY <1>1, <2>2 DEF Moves, Stranded, LockFree, TypeInv, TypeOK, Step
    <3>2. created = Cardinality(Holders) /\ created # 0
      <4>1. IsFiniteSet(Holders) /\ Cardinality(Holders) \in Nat
        BY CallersAssumption, FS_Subset, FS_CardinalityType DEF Holders
      <4>2. created \in Nat /\ created # 0
        BY <1>1, <3>1, PoolSizeAssumption DEF TypeInv, TypeOK
      <4>3. Len(idle) = 0
        BY <3>1
      <4>4. QED
        BY <1>1, <4>1, <4>2, <4>3 DEF CreatedIsExact
    <3>3. Holders # {}
      BY <3>2, FS_EmptySet
    <3>4. PICK d \in Callers : pc[d] \in Holding
      BY <3>3 DEF Holders
    <3>5. Moves(d) \/ Held(d)
      BY <1>1, <3>4 DEF Holding, LockFree, Moves
    <3>6. QED
      BY <3>5
  <2>3. QED
    BY <2>1, <2>2
<1>2. TypeInv /\ CreatedIsExact => NeverStuck
  BY <1>1 DEF NeverStuck
<1>3. TypeInv /\ CreatedIsExact /\ [Next]_vars => (TypeInv /\ CreatedIsExact)'
  BY NextTypeInv, NextCreatedIsExact
<1>4. QED
  BY <1>2, <1>3, InitTypeInv, InitCreatedIsExact, PTL DEF Spec

----
(* A helper serves one query at a time. *)

LEMMA HoldersAre ==
  ASSUME TypeInv, NEW c \in Callers, NEW s \in Step, pc' = [pc EXCEPT ![c] = s]
  PROVE  /\ \A d \in Callers \ {c} : d \in Holders' <=> d \in Holders
         /\ c \in Holders' <=> s \in Holding
         /\ c \in Holders <=> pc[c] \in Holding
         /\ Holders' \subseteq Callers /\ Holders \subseteq Callers
  BY DEF TypeInv, TypeOK, Holders

\* A step of c after which it holds the helper it held, or none.
LEMMA KeepExclusive ==
  ASSUME TypeInv, ExclusiveUse, NEW c \in Callers, NEW s \in Step,
         pc' = [pc EXCEPT ![c] = s], UNCHANGED idle,
         \/ UNCHANGED slot /\ (s \in Holding => pc[c] \in Holding)
         \/ slot' = [slot EXCEPT ![c] = 0] /\ s \notin Holding
  PROVE  ExclusiveUse'
<1>1. Holders' \subseteq Holders
  BY HoldersAre
<1>2. \A d \in Holders' : slot'[d] = slot[d]
  BY HoldersAre DEF TypeInv, TypeOK
<1>3. QED
  BY <1>1, <1>2 DEF ExclusiveUse

\* A step of c that takes the oldest helper from the queue.
LEMMA TakeExclusive ==
  ASSUME TypeInv, ExclusiveUse, NEW c \in Callers, NEW dead \in {"drop", "regrow"},
         TakeIdle(c, dead), pc[c] \notin Holding
  PROVE  ExclusiveUse'
<1>1. PICK s \in Step \cap Holding : pc' = [pc EXCEPT ![c] = s]
  BY DEF TakeIdle, Goto, Step, Holding
<1>2. idle # <<>> /\ idle' = Tail(idle) /\ slot' = [slot EXCEPT ![c] = Head(idle)]
  BY DEF TakeIdle
<1>3. /\ \A i \in DOMAIN idle' :
           i \in Nat /\ i + 1 \in DOMAIN idle /\ idle'[i] = idle[i + 1]
      /\ 1 \in DOMAIN idle /\ Head(idle) = idle[1] /\ Head(idle) \in Helpers
  <2>1. \A i \in DOMAIN idle' : i + 1 \in DOMAIN idle /\ idle'[i] = idle[i + 1]
    BY <1>2, TailOfIdle
  <2>2. \A i \in DOMAIN idle' : i \in Nat
    BY <1>2, TailOfIdle, LenProperties
  <2>3. QED
    BY <1>2, <2>1, <2>2, TailOfIdle
<1>4. \A i, j \in DOMAIN idle' : idle'[i] = idle'[j] => i = j
  BY <1>3 DEF ExclusiveUse
<1>5. \A i \in DOMAIN idle' : idle'[i] # Head(idle)
  <2>1. ASSUME NEW i \in DOMAIN idle', idle'[i] = Head(idle) PROVE FALSE
    <3>1. idle[i + 1] = idle[1] /\ i + 1 \in DOMAIN idle /\ 1 \in DOMAIN idle /\ i \in Nat
      BY <1>3, <2>1
    <3>2. i + 1 = 1
      BY <3>1 DEF ExclusiveUse
    <3>3. i = 0
      BY <3>1, <3>2
    <3>4. DOMAIN idle' = 1..Len(idle')
      BY <1>2, TailOfIdle, LenProperties
    <3>5. QED
      BY <2>1, <3>3, <3>4
  <2>2. QED
    BY <2>1
<1>6. \A d \in Holders' : d # c =>
        /\ d \in Holders /\ slot'[d] = slot[d] /\ slot[d] # Head(idle)
        /\ \A i \in DOMAIN idle' : idle'[i] # slot[d]
  <2>1. \A d \in Holders' : d # c => d \in Holders /\ slot'[d] = slot[d]
    BY <1>1, <1>2, HoldersAre DEF TypeInv, TypeOK
  <2>2. QED
    BY <1>3, <2>1 DEF ExclusiveUse
<1>7. slot'[c] = Head(idle) /\ slot'[c] # 0
  BY <1>2, <1>3 DEF TypeInv, TypeOK, Helpers
<1>8. QED
  <2>1. \A d \in Holders' : slot'[d] # 0 /\ \A i \in DOMAIN idle' : idle'[i] # slot'[d]
    BY <1>5, <1>6, <1>7 DEF ExclusiveUse
  <2>2. \A d, e \in Holders' : slot'[d] = slot'[e] => d = e
    BY <1>6, <1>7 DEF ExclusiveUse
  <2>3. QED
    BY <1>4, <2>1, <2>2 DEF ExclusiveUse

\* A step of c that starts a helper: its number is beyond all others.
LEMMA StartExclusive ==
  ASSUME TypeInv, ExclusiveUse, NEW c \in Callers,
         pc' = [pc EXCEPT ![c] = "starting"],
         slot' = [slot EXCEPT ![c] = started + 1], UNCHANGED idle
  PROVE  ExclusiveUse'
<1>1. "starting" \in Step \cap Holding /\ started \in Nat
  BY DEF Step, Holding, TypeInv, TypeOK
<1>2. \A d \in Holders' : d # c =>
        /\ d \in Holders /\ slot'[d] = slot[d] /\ slot[d] <= started
        /\ slot[d] \in Helpers
  BY <1>1, HoldersAre DEF TypeInv, TypeOK, HelpersStarted, Holders
<1>3. slot'[c] = started + 1
  BY DEF TypeInv, TypeOK
<1>4. \A i \in DOMAIN idle : idle[i] <= started /\ idle[i] \in Helpers
  BY LenProperties DEF TypeInv, TypeOK, HelpersStarted
<1>5. \A d \in Holders' : d # c => slot'[d] # slot'[c]
  BY <1>1, <1>2, <1>3 DEF Helpers
<1>6. \A i \in DOMAIN idle : idle[i] # slot'[c]
  BY <1>1, <1>3, <1>4 DEF Helpers
<1>7. slot'[c] # 0
  BY <1>1, <1>3
<1>8. QED
  <2>1. \A d \in Holders' : slot'[d] # 0 /\ \A i \in DOMAIN idle' : idle'[i] # slot'[d]
    BY <1>2, <1>6, <1>7 DEF ExclusiveUse
  <2>2. \A d, e \in Holders' : slot'[d] = slot'[e] => d = e
    BY <1>2, <1>5 DEF ExclusiveUse
  <2>3. QED
    BY <2>1, <2>2 DEF ExclusiveUse

\* A step of c that puts its helper in the queue.
LEMMA PutExclusive ==
  ASSUME TypeInv, ExclusiveUse, NEW c \in Callers, pc[c] \in Holding,
         pc' = [pc EXCEPT ![c] = "done"], slot' = [slot EXCEPT ![c] = 0],
         idle' = Append(idle, slot[c])
  PROVE  ExclusiveUse'
<1>1. "done" \in Step /\ "done" \notin Holding
  BY DEF Step, Holding
<1>2. c \in Holders /\ slot[c] \in Helpers
  BY <1>1, HoldersAre DEF TypeInv, HelpersStarted
<1>3. \A d \in Holders' : d # c /\ d \in Holders /\ slot'[d] = slot[d]
  BY <1>1, HoldersAre DEF TypeInv, TypeOK
<1>4. /\ DOMAIN idle = 1..Len(idle) /\ Len(idle) \in Nat
      /\ DOMAIN idle' = 1..(Len(idle) + 1)
      /\ \A i \in DOMAIN idle : idle'[i] = idle[i]
      /\ idle'[Len(idle) + 1] = slot[c]
  BY <1>2, AppendToIdle
<1>5. \A i \in DOMAIN idle' :
        \/ i \in DOMAIN idle /\ idle'[i] = idle[i] /\ idle'[i] # slot[c]
        \/ i = Len(idle) + 1 /\ idle'[i] = slot[c]
  BY <1>2, <1>4 DEF ExclusiveUse
<1>6. \A i, j \in DOMAIN idle' : idle'[i] = idle'[j] => i = j
  BY <1>5 DEF ExclusiveUse
<1>7. \A d \in Holders' : slot'[d] # 0 /\ \A i \in DOMAIN idle' : idle'[i] # slot'[d]
  BY <1>2, <1>3, <1>5 DEF ExclusiveUse
<1>8. \A d, e \in Holders' : slot'[d] = slot'[e] => d = e
  BY <1>3 DEF ExclusiveUse
<1>9. QED
  BY <1>6, <1>7, <1>8 DEF ExclusiveUse

LEMMA NextExclusiveUse ==
  TypeInv /\ ExclusiveUse /\ [Next]_vars => ExclusiveUse'
<1> SUFFICES ASSUME TypeInv, ExclusiveUse, [Next]_vars PROVE ExclusiveUse'
  OBVIOUS
<1>k. ASSUME NEW c \in Callers, NEW s \in Step, pc' = [pc EXCEPT ![c] = s],
             UNCHANGED idle,
             \/ UNCHANGED slot /\ (s \in Holding => pc[c] \in Holding)
             \/ slot' = [slot EXCEPT ![c] = 0] /\ s \notin Holding
      PROVE  ExclusiveUse'
  BY <1>k, KeepExclusive
<1>b. ASSUME NEW c \in Callers, NEW n, BeginStart(c, n), UNCHANGED idle
      PROVE  ExclusiveUse'
  BY <1>b, StartExclusive DEF BeginStart, Goto
<1>1. ASSUME NEW c \in Callers, Call(c) PROVE ExclusiveUse'
  <2>1. /\ pc' = [pc EXCEPT ![c] = "get"] /\ UNCHANGED <<idle, slot>>
        /\ "get" \in Step /\ "get" \notin Holding
    BY <1>1 DEF Call, Goto, Step, Holding, pool
  <2>2. QED
    BY <1>k, <2>1
<1>2. ASSUME NEW c \in Callers, Get(c) PROVE ExclusiveUse'
  <2>1. pc[c] \notin Holding /\ "grow" \in Step /\ "grow" \notin Holding
    BY <1>2 DEF Get, Step, Holding
  <2>2. CASE TakeIdle(c, "drop")
    BY <2>1, <2>2, TakeExclusive
  <2>3. CASE Goto(c, "grow") /\ UNCHANGED <<idle, slot>>
    BY <1>k, <2>1, <2>3 DEF Goto
  <2>4. QED
    BY <1>2, <2>2, <2>3 DEF Get
<1>3. ASSUME NEW c \in Callers, Drop(c) PROVE ExclusiveUse'
  <2>1. /\ pc' = [pc EXCEPT ![c] = "grow"] /\ UNCHANGED idle
        /\ slot' = [slot EXCEPT ![c] = 0]
        /\ "grow" \in Step /\ "grow" \notin Holding
    BY <1>3 DEF Drop, Goto, Step, Holding
  <2>2. QED
    BY <1>k, <2>1
<1>4. ASSUME NEW c \in Callers, Grow(c) PROVE ExclusiveUse'
  <2>1. CASE BeginStart(c, created)
    BY <1>4, <1>b, <2>1 DEF Grow
  <2>2. CASE Goto(c, "block") /\ UNCHANGED <<created, slot, started>>
    <3>1. /\ pc' = [pc EXCEPT ![c] = "block"] /\ UNCHANGED <<idle, slot>>
          /\ "block" \in Step /\ "block" \notin Holding
      BY <1>4, <2>2 DEF Grow, Goto, Step, Holding
    <3>2. QED
      BY <1>k, <3>1
  <2>3. QED
    BY <1>4, <2>1, <2>2 DEF Grow
<1>5. ASSUME NEW c \in Callers, Block(c) PROVE ExclusiveUse'
  <2>1. pc[c] \notin Holding /\ TakeIdle(c, "regrow")
    BY <1>5 DEF Block, Holding
  <2>2. QED
    BY <2>1, TakeExclusive
<1>6. ASSUME NEW c \in Callers, Regrow(c) PROVE ExclusiveUse'
  <2>1. CASE BeginStart(c, OneFewer)
    BY <1>6, <1>b, <2>1 DEF Regrow
  <2>2. CASE slot' = [slot EXCEPT ![c] = 0] /\ Goto(c, "block")
    <3>1. /\ pc' = [pc EXCEPT ![c] = "block"] /\ UNCHANGED idle
          /\ "block" \in Step /\ "block" \notin Holding
      BY <1>6, <2>2 DEF Regrow, Goto, Step, Holding
    <3>2. QED
      BY <1>k, <2>2, <3>1
  <2>3. QED
    BY <1>6, <2>1, <2>2 DEF Regrow
<1>7. ASSUME NEW c \in Callers,
             \/ StartEnds(c) \/ Submit(c) \/ Select(c) \/ GiveUp(c)
             \/ Read(c) \/ ReadEnd(c) \/ Kill(c)
      PROVE  ExclusiveUse'
  <2>1. PICK s \in {"submit", "await", "reading", "kill", "checkin"} :
          pc' = [pc EXCEPT ![c] = s]
    BY <1>7 DEF StartEnds, Submit, Select, GiveUp, Read, ReadEnd, Kill, Settles, Goto
  <2>2. s \in Step /\ pc[c] \in Holding
    BY <1>7, <2>1
       DEF StartEnds, Submit, Select, GiveUp, Read, ReadEnd, Kill, NoResponse, Step, Holding
  <2>3. UNCHANGED <<idle, slot>>
    BY <1>7 DEF StartEnds, Submit, Select, GiveUp, Read, ReadEnd, Kill, pool
  <2>4. QED
    BY <1>k, <2>1, <2>2, <2>3
<1>8. ASSUME NEW c \in Callers, StartFails(c) \/ Release(c) PROVE ExclusiveUse'
  <2>1. /\ pc' = [pc EXCEPT ![c] = "done"] /\ UNCHANGED idle
        /\ slot' = [slot EXCEPT ![c] = 0]
        /\ "done" \in Step /\ "done" \notin Holding
    BY <1>8 DEF StartFails, Release, Leave, Goto, Step, Holding
  <2>2. QED
    BY <1>k, <2>1
<1>9. ASSUME NEW c \in Callers, Checkin(c) PROVE ExclusiveUse'
  <2>1. pc[c] \in Holding /\ "release" \in Step
    BY <1>9 DEF Checkin, Step, Holding
  <2>2. CASE idle' = Append(idle, slot[c]) /\ Leave(c)
    BY <2>1, <2>2, PutExclusive DEF Leave, Goto
  <2>3. CASE Goto(c, "release") /\ UNCHANGED <<idle, slot, request, answer>>
    BY <1>k, <2>1, <2>3 DEF Goto
  <2>4. QED
    BY <1>9, <2>2, <2>3 DEF Checkin
<1>10. ASSUME UNCHANGED <<idle, pc, slot>> PROVE ExclusiveUse'
  BY <1>10 DEF ExclusiveUse, Holders
<1>11. ASSUME NEW h \in Helpers,
              Respond(h) \/ EndLine(h) \/ Crash(h) \/ Exits(h) \/ Prints(h)
       PROVE  ExclusiveUse'
  BY <1>10, <1>11 DEF Respond, EndLine, Crash, Exits, Prints, pool, caller
<1>12. CASE UNCHANGED vars
  BY <1>10, <1>12 DEF vars
<1>13. QED
  BY <1>1, <1>2, <1>3, <1>4, <1>5, <1>6, <1>7, <1>8, <1>9, <1>11, <1>12
     DEF Next, Proceed

LEMMA InitExclusiveUse == Init => ExclusiveUse
  BY DEF Init, ExclusiveUse, Holders, Holding

\* No helper is ever in the hands of two threads, nor in the queue while one
\* of them has it.
THEOREM HelpersAreExclusive == Spec => []ExclusiveUse
<1>1. TypeInv /\ ExclusiveUse /\ [Next]_vars => (TypeInv /\ ExclusiveUse)'
  BY NextTypeInv, NextExclusiveUse
<1>2. QED
  BY <1>1, InitTypeInv, InitExclusiveUse, PTL DEF Spec

----
(* A query gets its own answer. *)

\* The lines of a pipe, in no order.
LinesOf(pipe) == {pipe[i] : i \in DOMAIN pipe}

\* The steps at which a caller may yet read the response.
Waiting == {"await", "reading"}

\* A line is numbered before it is written, and one that bears the number a
\* caller waits for was written for the query of that caller.
LineIsOwn(line) ==
  /\ line.id <= numbered
  /\ \A c \in Callers : pc[c] \in Waiting /\ line.id = request[c] => line.of = c

PipesAreOwn ==
  \A h \in Helpers : \A line \in LinesOf(stdin[h]) \cup LinesOf(stdout[h]) :
    LineIsOwn(line)

AwaitsAreNumbered ==
  \A c \in Callers : pc[c] \in Waiting => request[c] # 0 /\ request[c] <= numbered

NoEarlyAnswer ==
  \A c \in Callers : pc[c] \notin {"checkin", "release"} => answer[c] = None

AnswersAreOwn ==
  PipesAreOwn /\ AwaitsAreNumbered /\ NoEarlyAnswer /\ AnswerIsOwn

LEMMA NoiseIsLine == Noise \in Lines
BY DEF Noise, Lines

LEMMA LinesOfPipe ==
  ASSUME NEW pipe \in Seq(Lines), NEW line \in Lines
  PROVE  /\ LinesOf(pipe) \subseteq Lines
         /\ LinesOf(Append(pipe, line)) = LinesOf(pipe) \cup {line}
         /\ pipe # <<>> => /\ Head(pipe) \in LinesOf(pipe)
                           /\ LinesOf(Tail(pipe)) \subseteq LinesOf(pipe)
<1>1. DOMAIN pipe = 1..Len(pipe) /\ Len(pipe) \in Nat
  BY LenProperties
<1>2. LinesOf(pipe) \subseteq Lines
  BY <1>1 DEF LinesOf
<1>3. LinesOf(Append(pipe, line)) = LinesOf(pipe) \cup {line}
  <2>1. /\ DOMAIN Append(pipe, line) = 1..(Len(pipe) + 1)
        /\ \A i \in 1..Len(pipe) : Append(pipe, line)[i] = pipe[i]
        /\ Append(pipe, line)[Len(pipe) + 1] = line
    OBVIOUS
  <2>2. 1..(Len(pipe) + 1) = (1..Len(pipe)) \cup {Len(pipe) + 1}
    BY <1>1
  <2>3. QED
    BY <1>1, <2>1, <2>2 DEF LinesOf
<1>4. ASSUME pipe # <<>>
      PROVE  /\ Head(pipe) \in LinesOf(pipe)
             /\ LinesOf(Tail(pipe)) \subseteq LinesOf(pipe)
  <2>1. Len(pipe) >= 1
    BY <1>1, <1>4, EmptySeq
  <2>2. Head(pipe) = pipe[1] /\ 1 \in DOMAIN pipe
    BY <1>1, <2>1
  <2>3. \A i \in DOMAIN Tail(pipe) : i + 1 \in DOMAIN pipe /\ Tail(pipe)[i] = pipe[i + 1]
    <3>1. /\ Tail(pipe) \in Seq(Lines) /\ Len(Tail(pipe)) = Len(pipe) - 1
          /\ \A i \in 1..Len(Tail(pipe)) : Tail(pipe)[i] = pipe[i + 1]
      BY <1>4, HeadTailProperties
    <3>2. DOMAIN Tail(pipe) = 1..Len(Tail(pipe))
      BY <3>1, LenProperties
    <3>3. QED
      BY <1>1, <3>1, <3>2
  <2>4. QED
    BY <2>2, <2>3 DEF LinesOf
<1>5. QED
  BY <1>2, <1>3, <1>4

\* A step that writes nothing but stray lines and makes no caller wait.
LEMMA PipesKept ==
  ASSUME TypeInv, PipesAreOwn, AwaitsAreNumbered, UNCHANGED numbered,
         \A h \in Helpers : LinesOf(stdin'[h]) \cup LinesOf(stdout'[h])
                            \subseteq LinesOf(stdin[h]) \cup LinesOf(stdout[h]) \cup {Noise},
         \A c \in Callers : pc'[c] \in Waiting =>
           pc[c] \in Waiting /\ request'[c] = request[c]
  PROVE  PipesAreOwn' /\ AwaitsAreNumbered'
<1>1. AwaitsAreNumbered'
  BY DEF AwaitsAreNumbered
<1>2. LineIsOwn(Noise)
  BY DEF LineIsOwn, Noise, AwaitsAreNumbered, TypeInv, TypeOK
<1>3. ASSUME NEW line, LineIsOwn(line) PROVE LineIsOwn(line)'
  BY <1>3 DEF LineIsOwn
<1>4. PipesAreOwn'
  BY <1>2, <1>3 DEF PipesAreOwn
<1>5. QED
  BY <1>1, <1>4

\* What a step may do to the answers.
LEMMA AnswersKept ==
  ASSUME NoEarlyAnswer, AnswerIsOwn,
         \A d \in Callers :
           \/ /\ answer'[d] = answer[d]
              /\ pc'[d] \notin {"checkin", "release"} => pc[d] \notin {"checkin", "release"}
           \/ answer'[d] = None
           \/ answer'[d] = d /\ pc'[d] = "checkin"
  PROVE  NoEarlyAnswer' /\ AnswerIsOwn'
  BY DEF NoEarlyAnswer, AnswerIsOwn

LEMMA NextAnswersAreOwn ==
  TypeInv /\ AnswersAreOwn /\ [Next]_vars => AnswersAreOwn'
<1> SUFFICES ASSUME TypeInv, AnswersAreOwn, [Next]_vars PROVE AnswersAreOwn'
  OBVIOUS
<1> USE DEF AnswersAreOwn
<1>o. /\ pc \in [Callers -> Step] /\ slot \in [Callers -> {0} \cup Helpers]
      /\ request \in [Callers -> Nat] /\ answer \in [Callers -> Callers \cup {None}]
      /\ stdin \in [Helpers -> Seq(Lines)] /\ stdout \in [Helpers -> Seq(Lines)]
      /\ numbered \in Nat
  BY DEF TypeInv, TypeOK
\* A step of c that leaves the pipes, the numbers and the answers alone.
<1>s. ASSUME NEW c \in Callers, NEW s \in Step, pc' = [pc EXCEPT ![c] = s],
             s \in Waiting => pc[c] \in Waiting,
             s \notin {"checkin", "release"} => pc[c] \notin {"checkin", "release"},
             UNCHANGED <<request, answer, stdin, stdout, numbered>>
      PROVE  AnswersAreOwn'
  <2>1. \A d \in Callers : pc'[d] \in Waiting => pc[d] \in Waiting
    BY <1>o, <1>s
  <2>2. PipesAreOwn' /\ AwaitsAreNumbered'
    BY <1>s, <2>1, PipesKept
  <2>3. NoEarlyAnswer' /\ AnswerIsOwn'
    BY <1>o, <1>s, AnswersKept
  <2>4. QED
    BY <2>2, <2>3
\* The call of c returns or raises.
<1>v. ASSUME NEW c \in Callers, Leave(c), UNCHANGED <<stdin, stdout, numbered>>
      PROVE  AnswersAreOwn'
  <2>1. /\ pc' = [pc EXCEPT ![c] = "done"]
        /\ request' = [request EXCEPT ![c] = 0] /\ answer' = [answer EXCEPT ![c] = None]
    BY <1>v DEF Leave, Goto
  <2>2. \A d \in Callers : pc'[d] \in Waiting =>
          pc[d] \in Waiting /\ request'[d] = request[d]
    BY <1>o, <2>1 DEF Waiting
  <2>3. PipesAreOwn' /\ AwaitsAreNumbered'
    BY <1>v, <2>2, PipesKept
  <2>4. \A d \in Callers :
          \/ answer'[d] = None
          \/ answer'[d] = answer[d] /\ pc'[d] = pc[d]
    BY <1>o, <2>1
  <2>5. NoEarlyAnswer' /\ AnswerIsOwn'
    BY <2>4, AnswersKept
  <2>6. QED
    BY <2>3, <2>5
\* c settles its query.
<1>r. ASSUME NEW c \in Callers, NEW r, Settles(c, r), r = None \/ r = c,
             \A h \in Helpers : LinesOf(stdout'[h]) \subseteq LinesOf(stdout[h]),
             UNCHANGED <<request, stdin, numbered>>
      PROVE  AnswersAreOwn'
  <2>1. pc' = [pc EXCEPT ![c] = "checkin"] /\ answer' = [answer EXCEPT ![c] = r]
    BY <1>r DEF Settles, Goto
  <2>2. \A d \in Callers : pc'[d] \in Waiting => pc[d] \in Waiting
    BY <1>o, <2>1 DEF Waiting
  <2>3. PipesAreOwn' /\ AwaitsAreNumbered'
    BY <1>r, <2>2, PipesKept
  <2>4. \A d \in Callers :
          \/ answer'[d] = answer[d] /\ pc'[d] = pc[d]
          \/ answer'[d] = None
          \/ answer'[d] = d /\ pc'[d] = "checkin"
    BY <1>o, <1>r, <2>1
  <2>5. NoEarlyAnswer' /\ AnswerIsOwn'
    BY <2>4, AnswersKept
  <2>6. QED
    BY <2>3, <2>5
\* A step of a helper.
<1>h. ASSUME UNCHANGED <<pc, request, answer, numbered>>,
             \A h \in Helpers : LinesOf(stdin'[h]) \cup LinesOf(stdout'[h])
                \subseteq LinesOf(stdin[h]) \cup LinesOf(stdout[h]) \cup {Noise}
      PROVE  AnswersAreOwn'
  <2>1. PipesAreOwn' /\ AwaitsAreNumbered'
    BY <1>h, PipesKept
  <2>2. NoEarlyAnswer' /\ AnswerIsOwn'
    BY <1>h, AnswersKept
  <2>3. QED
    BY <2>1, <2>2
<1>1. ASSUME NEW c \in Callers, Call(c) PROVE AnswersAreOwn'
  <2>1. /\ pc' = [pc EXCEPT ![c] = "get"] /\ pc[c] = "idle"
        /\ "get" \in Step /\ "get" \notin Waiting
        /\ UNCHANGED <<request, answer, stdin, stdout, numbered>>
    BY <1>1 DEF Call, Goto, helper, bounds, Step, Waiting
  <2>2. QED
    BY <1>s, <2>1
<1>2. ASSUME NEW c \in Callers,
             Get(c) \/ Drop(c) \/ Grow(c) \/ Block(c) \/ Regrow(c) \/ StartEnds(c)
      PROVE  AnswersAreOwn'
  <2>1. PICK s \in Step \ {"await", "reading", "checkin", "release"} :
          pc' = [pc EXCEPT ![c] = s]
    <3>1. \/ Goto(c, "submit") \/ Goto(c, "drop") \/ Goto(c, "grow")
          \/ Goto(c, "block") \/ Goto(c, "starting") \/ Goto(c, "regrow")
      BY <1>2 DEF Get, Drop, Grow, Block, Regrow, StartEnds, TakeIdle, BeginStart
    <3>2. QED
      BY <3>1 DEF Goto, Step
  <2>2. pc[c] \notin {"checkin", "release"}
    BY <1>2 DEF Get, Drop, Grow, Block, Regrow, StartEnds
  <2>3. UNCHANGED <<request, answer, stdin, stdout, numbered>>
    BY <1>2 DEF Get, Drop, Grow, Block, Regrow, StartEnds, helper, bounds, pool
  <2>4. QED
    BY <1>s, <2>1, <2>2, <2>3 DEF Waiting
<1>3. ASSUME NEW c \in Callers, StartFails(c) \/ Release(c) PROVE AnswersAreOwn'
  BY <1>3, <1>v DEF StartFails, Release, helper, bounds
<1>4. ASSUME NEW c \in Callers, Submit(c) PROVE AnswersAreOwn'
  <2>0. PICK line \in Lines : line = [id |-> numbered + 1, of |-> c]
    <3>1. numbered + 1 \in Nat
      BY <1>o
    <3>2. [id |-> numbered + 1, of |-> c] \in Lines
      BY <3>1 DEF Lines
    <3>3. QED
      BY <3>2
  <2>1. /\ pc[c] = "submit" /\ numbered' = numbered + 1
        /\ request' = [request EXCEPT ![c] = numbered + 1]
        /\ UNCHANGED <<answer, stdout>>
    BY <1>4 DEF Submit
  <2>2. slot[c] \in Helpers
    BY <2>1 DEF TypeInv, HelpersStarted, Holding
  <2>3. \/ pc' = [pc EXCEPT ![c] = "await"]
        \/ pc' = [pc EXCEPT ![c] = "checkin"]
    BY <1>4 DEF Submit, Goto
  <2>4. \A h \in Helpers : LinesOf(stdin'[h]) \cup LinesOf(stdout'[h])
          \subseteq LinesOf(stdin[h]) \cup LinesOf(stdout[h]) \cup {line}
    <3>1. CASE stdin' = [stdin EXCEPT ![slot[c]] = Append(@, line)]
      <4>1. LinesOf(Append(stdin[slot[c]], line)) = LinesOf(stdin[slot[c]]) \cup {line}
        BY <1>o, <2>2, LinesOfPipe
      <4>2. \A h \in Helpers : \/ stdin'[h] = stdin[h]
                               \/ h = slot[c] /\ stdin'[h] = Append(stdin[h], line)
        BY <1>o, <3>1
      <4>3. QED
        BY <2>1, <4>1, <4>2
    <3>2. CASE UNCHANGED stdin
      BY <2>1, <3>2
    <3>3. QED
      BY <1>4, <2>0, <3>1, <3>2 DEF Submit
  <2>5. AwaitsAreNumbered'
    BY <1>o, <2>1, <2>3 DEF AwaitsAreNumbered, Waiting
  <2>6. ASSUME NEW h \in Helpers, NEW l \in LinesOf(stdin[h]) \cup LinesOf(stdout[h])
        PROVE  LineIsOwn(l)'
    <3>1. LineIsOwn(l) /\ l.id \in Nat
      <4>1. l \in Lines
        BY <1>o, <2>2, LinesOfPipe
      <4>2. QED
        BY <4>1 DEF Lines, PipesAreOwn
    <3>2. l.id <= numbered'
      BY <1>o, <2>1, <3>1 DEF LineIsOwn
    <3>3. ASSUME NEW d \in Callers, pc'[d] \in Waiting, l.id = request'[d]
          PROVE  l.of = d
      <4>1. d # c
        BY <1>o, <2>1, <3>1, <3>3 DEF LineIsOwn
      <4>2. pc[d] \in Waiting /\ request'[d] = request[d]
        BY <1>o, <2>1, <2>3, <3>3, <4>1
      <4>3. QED
        BY <2>1, <3>1, <3>3, <4>2 DEF LineIsOwn
    <3>4. QED
      BY <3>2, <3>3 DEF LineIsOwn
  <2>7. LineIsOwn(line)'
    <3>1. line.id = numbered + 1 /\ line.of = c /\ line.id <= numbered'
      BY <1>o, <2>0, <2>1
    <3>2. ASSUME NEW d \in Callers, pc'[d] \in Waiting, line.id = request'[d]
          PROVE  line.of = d
      <4>1. d = c
        <5>1. ASSUME d # c PROVE FALSE
          <6>1. pc[d] \in Waiting /\ request'[d] = request[d]
            BY <1>o, <2>1, <2>3, <3>2, <5>1
          <6>2. request[d] <= numbered /\ request[d] \in Nat
            BY <1>o, <6>1 DEF AwaitsAreNumbered
          <6>3. QED
            BY <1>o, <3>1, <3>2, <6>1, <6>2
        <5>2. QED
          BY <5>1
      <4>2. QED
        BY <2>1, <3>1, <4>1
    <3>3. QED
      BY <3>1, <3>2 DEF LineIsOwn
  <2>8. PipesAreOwn'
    BY <2>4, <2>6, <2>7 DEF PipesAreOwn
  <2>9. NoEarlyAnswer' /\ AnswerIsOwn'
    <3>1. answer[c] = None
      BY <2>1 DEF NoEarlyAnswer
    <3>2. \A d \in Callers :
            \/ answer'[d] = None
            \/ answer'[d] = answer[d] /\ pc'[d] = pc[d]
      BY <1>o, <2>1, <2>3, <3>1
    <3>3. QED
      BY <3>2, AnswersKept
  <2>10. QED
    BY <2>5, <2>8, <2>9
<1>5. ASSUME NEW c \in Callers, Read(c) PROVE AnswersAreOwn'
  <2>1. /\ pc[c] = "reading" /\ stdout[slot[c]] # <<>>
        /\ stdout' = [stdout EXCEPT ![slot[c]] = Tail(@)]
        /\ UNCHANGED <<request, stdin, numbered>>
    BY <1>5 DEF Read, LineEnded, bounds
  <2>2. slot[c] \in Helpers /\ Noise \in Lines
    <3>1. pc[c] \in Holding
      BY <2>1 DEF Holding
    <3>2. slot[c] \in Helpers
      BY <3>1 DEF TypeInv, HelpersStarted
    <3>3. QED
      BY <3>2, NoiseIsLine
  <2>3. /\ Head(stdout[slot[c]]) \in LinesOf(stdout[slot[c]])
        /\ LinesOf(Tail(stdout[slot[c]])) \subseteq LinesOf(stdout[slot[c]])
    BY <1>o, <2>1, <2>2, LinesOfPipe
  <2>4. \A h \in Helpers : LinesOf(stdout'[h]) \subseteq LinesOf(stdout[h])
    <3>1. \A h \in Helpers : \/ stdout'[h] = stdout[h]
                             \/ h = slot[c] /\ stdout'[h] = Tail(stdout[h])
      BY <1>o, <2>1
    <3>2. QED
      BY <2>3, <3>1
  <2>5. PICK r : Settles(c, r) /\ (r = None \/ r = c)
    <3>1. CASE /\ Head(stdout[slot[c]]).id = request[c]
               /\ Settles(c, Head(stdout[slot[c]]).of)
      <4>1. LineIsOwn(Head(stdout[slot[c]]))
        BY <2>2, <2>3 DEF PipesAreOwn
      <4>2. Head(stdout[slot[c]]).of = c
        BY <2>1, <3>1, <4>1 DEF LineIsOwn, Waiting
      <4>3. QED
        BY <3>1, <4>2
    <3>2. CASE Settles(c, None)
      BY <3>2
    <3>3. QED
      BY <1>5, <3>1, <3>2 DEF Read
  <2>6. QED
    BY <1>r, <2>1, <2>4, <2>5
<1>6. ASSUME NEW c \in Callers, ReadEnd(c) \/ Kill(c) PROVE AnswersAreOwn'
  <2>1. Settles(c, None) /\ UNCHANGED <<request, stdin, stdout, numbered>>
    BY <1>6 DEF ReadEnd, Kill, helper, bounds
  <2>2. \A h \in Helpers : LinesOf(stdout'[h]) \subseteq LinesOf(stdout[h])
    BY <2>1
  <2>3. QED
    BY <1>r, <2>1, <2>2
<1>13. ASSUME NEW c \in Callers, Select(c) \/ GiveUp(c) PROVE AnswersAreOwn'
  <2>1. PICK s \in {"reading", "kill"} : pc' = [pc EXCEPT ![c] = s]
    BY <1>13 DEF Select, GiveUp, Goto
  <2>2. s \in Step /\ pc[c] = "await"
    BY <1>13, <2>1 DEF Select, GiveUp, NoResponse, Step
  <2>3. UNCHANGED <<request, answer, stdin, stdout, numbered>>
    BY <1>13 DEF Select, GiveUp, helper, bounds
  <2>4. QED
    BY <1>s, <2>1, <2>2, <2>3 DEF Waiting
<1>7. ASSUME NEW c \in Callers, Checkin(c) PROVE AnswersAreOwn'
  <2>1. UNCHANGED <<stdin, stdout, numbered>>
    BY <1>7 DEF Checkin, helper, bounds
  <2>2. CASE Leave(c)
    BY <1>v, <2>1, <2>2
  <2>3. CASE Goto(c, "release") /\ UNCHANGED <<idle, slot, request, answer>>
    <3>1. /\ pc' = [pc EXCEPT ![c] = "release"] /\ "release" \in Step
          /\ UNCHANGED <<request, answer>>
      BY <2>3 DEF Goto, Step
    <3>2. QED
      BY <1>s, <2>1, <3>1 DEF Waiting
  <2>4. QED
    BY <1>7, <2>2, <2>3 DEF Checkin
<1>8. ASSUME NEW h \in Helpers, Respond(h) PROVE AnswersAreOwn'
  <2>1. /\ stdin[h] # <<>> /\ stdin' = [stdin EXCEPT ![h] = Tail(@)]
        /\ stdout' = [stdout EXCEPT ![h] = Append(@, Head(stdin[h]))]
        /\ UNCHANGED <<pc, request, answer, numbered>>
    BY <1>8 DEF Respond, caller, bounds
  <2>2. Head(stdin[h]) \in Lines /\ Noise \in Lines
    BY <1>o, <2>1, NoiseIsLine, PipeType
  <2>3. /\ Head(stdin[h]) \in LinesOf(stdin[h])
        /\ LinesOf(Tail(stdin[h])) \subseteq LinesOf(stdin[h])
        /\ LinesOf(Append(stdout[h], Head(stdin[h])))
             = LinesOf(stdout[h]) \cup {Head(stdin[h])}
    BY <1>o, <2>1, <2>2, LinesOfPipe
  <2>4. \A g \in Helpers :
          \/ stdin'[g] = stdin[g] /\ stdout'[g] = stdout[g]
          \/ /\ g = h /\ stdin'[g] = Tail(stdin[g])
             /\ stdout'[g] = Append(stdout[g], Head(stdin[g]))
    BY <1>o, <2>1
  <2>5. QED
    BY <1>h, <2>1, <2>3, <2>4
<1>9. ASSUME NEW h \in Helpers, EndLine(h) \/ Crash(h) \/ Exits(h) PROVE AnswersAreOwn'
  <2>1. /\ UNCHANGED <<pc, request, answer, stdout, numbered>>
        /\ UNCHANGED stdin \/ stdin' = [stdin EXCEPT ![h] = <<>>]
    BY <1>9 DEF EndLine, Crash, Exits, caller, bounds
  <2>2. LinesOf(<<>>) = {}
    BY DEF LinesOf
  <2>3. \A g \in Helpers : stdin'[g] = stdin[g] \/ stdin'[g] = <<>>
    BY <1>o, <2>1
  <2>4. QED
    BY <1>h, <2>1, <2>2, <2>3
<1>10. ASSUME NEW h \in Helpers, Prints(h) PROVE AnswersAreOwn'
  <2>1. /\ stdout' = [stdout EXCEPT ![h] = Append(@, Noise)]
        /\ UNCHANGED <<pc, request, answer, stdin, numbered>>
    BY <1>10 DEF Prints, caller
  <2>2. LinesOf(Append(stdout[h], Noise)) = LinesOf(stdout[h]) \cup {Noise}
    <3>1. stdout[h] \in Seq(Lines)
      BY <1>o
    <3>2. QED
      BY <3>1, NoiseIsLine, LinesOfPipe
  <2>3. \A g \in Helpers : \/ stdout'[g] = stdout[g]
                           \/ g = h /\ stdout'[g] = Append(stdout[g], Noise)
    BY <1>o, <2>1
  <2>4. QED
    BY <1>h, <2>1, <2>2, <2>3
<1>11. CASE UNCHANGED vars
  BY <1>11, <1>h DEF vars
<1>12. QED
  BY <1>1, <1>2, <1>3, <1>4, <1>5, <1>6, <1>7, <1>8, <1>9, <1>10, <1>11, <1>13
     DEF Next, Proceed

LEMMA InitAnswersAreOwn == Init => AnswersAreOwn
<1> SUFFICES ASSUME Init PROVE AnswersAreOwn
  OBVIOUS
<1>1. \A h \in Helpers : LinesOf(stdin[h]) = {} /\ LinesOf(stdout[h]) = {}
  BY DEF Init, LinesOf
<1>2. PipesAreOwn
  BY <1>1 DEF PipesAreOwn
<1>3. QED
  BY <1>2 DEF Init, AnswersAreOwn, AwaitsAreNumbered, NoEarlyAnswer, AnswerIsOwn, Waiting

\* Whatever helpers crash, print, stall in the middle of a line, or answer late,
\* between the end of the wait and the kill included, no query returns the
\* result of another.
THEOREM AnswersOwn == Spec => []AnswerIsOwn
<1>1. TypeInv /\ AnswersAreOwn /\ [Next]_vars => (TypeInv /\ AnswersAreOwn)'
  BY NextTypeInv, NextAnswersAreOwn
<1>2. AnswersAreOwn => AnswerIsOwn
  BY DEF AnswersAreOwn
<1>3. QED
  BY <1>1, <1>2, InitTypeInv, InitAnswersAreOwn, PTL DEF Spec

----
(* A running helper in the queue is quiet: see IdleHelperIsQuiet.  While no  *)
(* driver prints, a helper has at most the one line its caller waits for.    *)

Clean(h) == stdin[h] = <<>> /\ stdout[h] = <<>>

OneLine(h) ==
  \/ Clean(h)
  \/ Len(stdin[h]) = 1 /\ stdout[h] = <<>>
  \/ stdin[h] = <<>> /\ Len(stdout[h]) = 1

QuietCaller(c) ==
  /\ pc[c] = "starting" => Clean(slot[c])
  /\ pc[c] \in {"submit", "checkin"} /\ proc[slot[c]] = "up" => Clean(slot[c])
  /\ pc[c] \in {"await", "reading"} /\ proc[slot[c]] = "up" => OneLine(slot[c])

QuietIdle ==
  \A i \in DOMAIN idle : proc[idle[i]] = "up" => Clean(idle[i])

Unused == \A h \in Helpers : h > started => Clean(h)

Quiet == (\A c \in Callers : QuietCaller(c)) /\ QuietIdle /\ Unused

\* A step of c touches no helper but the one it holds.
StepOf(c) ==
  /\ started' \in Nat /\ started' >= started
  /\ \A d \in Callers \ {c} : pc'[d] = pc[d] /\ slot'[d] = slot[d]
  /\ \A h \in Helpers :
       \/ pc[c] \in Holding /\ h = slot[c]
       \/ /\ stdin'[h] = stdin[h] /\ stdout'[h] = stdout[h]
          /\ proc'[h] = "up" => proc[h] = "up"

\* What joins the queue is quiet.
QueueStaysQuiet ==
  \A i \in DOMAIN idle' :
    \/ \E j \in DOMAIN idle : idle'[i] = idle[j]
    \/ proc'[idle'[i]] = "up" => stdin'[idle'[i]] = <<>> /\ stdout'[idle'[i]] = <<>>

LEMMA QuietStep ==
  ASSUME TypeInv, ExclusiveUse, Quiet, NEW c \in Callers,
         StepOf(c), QuietCaller(c)', QueueStaysQuiet
  PROVE  Quiet'
<1> USE DEF StepOf, QueueStaysQuiet
<1>1. ASSUME NEW d \in Callers \ {c} PROVE QuietCaller(d)'
  <2>1. CASE pc[d] \in {"starting", "submit", "checkin", "await", "reading"}
    <3>1. pc[d] \in Holding
      BY <2>1 DEF Holding
    <3>2. slot[d] \in Helpers
      BY <3>1 DEF TypeInv, HelpersStarted
    <3>3. ~(pc[c] \in Holding /\ slot[d] = slot[c])
      BY <3>1 DEF ExclusiveUse, Holders
    <3>4. /\ stdin'[slot[d]] = stdin[slot[d]] /\ stdout'[slot[d]] = stdout[slot[d]]
          /\ proc'[slot[d]] = "up" => proc[slot[d]] = "up"
      BY <3>2, <3>3
    <3>5. QuietCaller(d) /\ pc'[d] = pc[d] /\ slot'[d] = slot[d]
      BY DEF Quiet
    <3>6. QED
      BY <3>4, <3>5 DEF QuietCaller, OneLine, Clean
  <2>2. CASE pc[d] \notin {"starting", "submit", "checkin", "await", "reading"}
    BY <2>2 DEF QuietCaller
  <2>3. QED
    BY <2>1, <2>2
<1>2. QuietIdle'
  <2>1. ASSUME NEW i \in DOMAIN idle', NEW j \in DOMAIN idle, idle'[i] = idle[j],
               proc'[idle'[i]] = "up"
        PROVE  Clean(idle[i])'
    <3>1. idle[j] \in Helpers
      <4>1. idle \in Seq(Helpers)
        BY DEF TypeInv, TypeOK
      <4>2. QED
        BY <4>1
    <3>2. ~(pc[c] \in Holding /\ idle[j] = slot[c])
      BY DEF ExclusiveUse, Holders
    <3>3. /\ stdin'[idle[j]] = stdin[idle[j]] /\ stdout'[idle[j]] = stdout[idle[j]]
          /\ proc'[idle[j]] = "up" => proc[idle[j]] = "up"
      BY <3>1, <3>2
    <3>4. QED
      BY <2>1, <3>3 DEF Quiet, QuietIdle, Clean
  <2>2. QED
    BY <2>1 DEF QuietIdle, Clean
<1>3. Unused'
  <2>1. ASSUME NEW h \in Helpers, h > started' PROVE Clean(h)'
    <3>1. h \in Nat /\ started \in Nat
      BY PoolSizeAssumption, BoundsAssumption DEF Helpers, TypeInv, TypeOK
    <3>2. h > started
      BY <2>1, <3>1
    <3>3. ~(pc[c] \in Holding /\ h = slot[c])
      BY <3>1, <3>2 DEF TypeInv, HelpersStarted
    <3>4. QED
      BY <3>2, <3>3 DEF Quiet, Unused, Clean
  <2>2. QED
    BY <2>1 DEF Unused
<1>4. QED
  BY <1>1, <1>2, <1>3 DEF Quiet

LEMMA NextQuiet ==
  ASSUME TypeInv, ExclusiveUse, noise = 0 => Quiet, [Next]_vars
  PROVE  (noise = 0 => Quiet)'
<1> SUFFICES ASSUME noise' = 0 PROVE Quiet'
  OBVIOUS
<1>o. /\ pc \in [Callers -> Step] /\ slot \in [Callers -> {0} \cup Helpers]
      /\ proc \in [Helpers -> {"none", "up", "dying", "dead"}]
      /\ stdin \in [Helpers -> Seq(Lines)] /\ stdout \in [Helpers -> Seq(Lines)]
      /\ started \in Nat /\ noise \in Nat /\ idle \in Seq(Helpers)
  BY BoundsAssumption DEF TypeInv, TypeOK
<1>n. noise = 0 /\ ~ \E h \in Helpers : Prints(h)
  <2>1. \/ noise' = noise
        \/ noise' = noise + 1 /\ \E h \in Helpers : Prints(h)
    BY DEF Next, Proceed, Call, Get, Drop, Grow, Block, Regrow, StartEnds,
           StartFails, Submit, Select, Read, ReadEnd, GiveUp, Kill, Checkin, Release,
           Respond, EndLine, Crash, Exits, Prints, bounds, vars
  <2>2. ASSUME NEW h \in Helpers, Prints(h) PROVE FALSE
    BY <1>o, <2>2 DEF Prints
  <2>3. QED
    BY <1>o, <2>1, <2>2
<1>q. Quiet
  BY <1>n
\* A helper in hand is one of Helpers.
<1>i. \A c \in Callers : pc[c] \in Holding => slot[c] \in Helpers
  BY DEF TypeInv, HelpersStarted
\* A step of c after which it claims nothing of its helper.
<1>f. ASSUME NEW c \in Callers,
             NEW s \in Step \ {"starting", "submit", "checkin", "await", "reading"},
             Goto(c, s), slot' = slot \/ slot' = [slot EXCEPT ![c] = 0],
             idle' = idle, started' = started, UNCHANGED <<stdin, stdout>>,
             \A h \in Helpers : proc'[h] = "up" => proc[h] = "up"
      PROVE  Quiet'
  <2>1. \A d \in Callers \ {c} : pc'[d] = pc[d] /\ slot'[d] = slot[d]
    BY <1>o, <1>f DEF Goto
  <2>2. QuietCaller(c)'
    BY <1>o, <1>f DEF Goto, QuietCaller
  <2>4. StepOf(c)
    BY <1>o, <1>f, <2>1 DEF StepOf
  <2>5. QueueStaysQuiet
    BY <1>f DEF QueueStaysQuiet
  <2>6. QED
    BY <1>q, <2>2, <2>4, <2>5, QuietStep
\* A step of c that may touch the helper it holds, before or after it answers.
<1>w. ASSUME NEW c \in Callers, NEW s \in {"submit", "await", "checkin"},
             pc[c] \in Holding, Goto(c, s), UNCHANGED <<slot, idle, started>>,
             \A h \in Helpers : h # slot[c] =>
                /\ stdin'[h] = stdin[h] /\ stdout'[h] = stdout[h]
                /\ proc'[h] = proc[h],
             proc'[slot[c]] = "up" =>
               \/ stdin'[slot[c]] = <<>> /\ stdout'[slot[c]] = <<>>
               \/ s = "await" /\ Len(stdin'[slot[c]]) = 1 /\ stdout'[slot[c]] = <<>>
      PROVE  Quiet'
  <2>1. \A d \in Callers \ {c} : pc'[d] = pc[d] /\ slot'[d] = slot[d]
    BY <1>o, <1>w DEF Goto
  <2>2. pc'[c] = s /\ slot'[c] = slot[c]
    BY <1>o, <1>w DEF Goto
  <2>3. QuietCaller(c)'
    BY <1>w, <2>2 DEF QuietCaller, OneLine, Clean
  <2>4. StepOf(c)
    BY <1>o, <1>w, <2>1 DEF StepOf
  <2>5. QueueStaysQuiet
    BY <1>w DEF QueueStaysQuiet
  <2>6. QED
    BY <1>q, <2>3, <2>4, <2>5, QuietStep
\* c takes a helper from the queue.
<1>t. ASSUME NEW c \in Callers, NEW s \in {"drop", "regrow"}, TakeIdle(c, s),
             started' = started, UNCHANGED <<stdin, stdout, proc>>
      PROVE  Quiet'
  <2>1. \A d \in Callers \ {c} : pc'[d] = pc[d] /\ slot'[d] = slot[d]
    BY <1>o, <1>t DEF TakeIdle, Goto
  <2>2. /\ DOMAIN idle = 1..Len(idle) /\ Len(idle) \in Nat /\ Len(idle) >= 1
        /\ Head(idle) = idle[1]
        /\ \A i \in DOMAIN idle' : i + 1 \in DOMAIN idle /\ idle'[i] = idle[i + 1]
    <3>1. idle # <<>> /\ idle' = Tail(idle)
      BY <1>t DEF TakeIdle
    <3>2. QED
      BY <1>o, <3>1
  <2>3. proc[Head(idle)] = "up" => Clean(Head(idle))
    BY <1>q, <2>2 DEF Quiet, QuietIdle
  <2>4. slot'[c] = Head(idle) /\ pc'[c] \in {"submit", s}
    BY <1>o, <1>t DEF TakeIdle, Goto
  <2>5. QuietCaller(c)'
    BY <1>t, <2>3, <2>4 DEF QuietCaller, Clean
  <2>6. QueueStaysQuiet
    BY <2>2 DEF QueueStaysQuiet
  <2>7. StepOf(c)
    BY <1>o, <1>t, <2>1 DEF StepOf
  <2>8. QED
    BY <1>q, <2>5, <2>6, <2>7, QuietStep
\* c starts a helper nobody used before.
<1>b. ASSUME NEW c \in Callers, NEW k, BeginStart(c, k),
             UNCHANGED <<idle, stdin, stdout, proc>>
      PROVE  Quiet'
  <2>1. \A d \in Callers \ {c} : pc'[d] = pc[d] /\ slot'[d] = slot[d]
    BY <1>o, <1>b DEF BeginStart, Goto
  <2>2. /\ slot'[c] = started + 1 /\ pc'[c] = "starting" /\ started' = started + 1
        /\ started + 1 \in Helpers
    BY <1>o, <1>b DEF BeginStart, Goto
  <2>3. Clean(started + 1)
    BY <1>o, <1>q, <2>2 DEF Quiet, Unused
  <2>4. QuietCaller(c)'
    BY <1>b, <2>2, <2>3 DEF QuietCaller, Clean
  <2>5. StepOf(c)
    BY <1>o, <1>b, <2>1, <2>2 DEF StepOf
  <2>6. QueueStaysQuiet
    BY <1>b DEF QueueStaysQuiet
  <2>7. QED
    BY <1>q, <2>4, <2>5, <2>6, QuietStep
<1>1. ASSUME NEW c \in Callers, Call(c) PROVE Quiet'
  BY <1>1, <1>f DEF Call, pool, helper, bounds, Step
<1>2. ASSUME NEW c \in Callers, Get(c) PROVE Quiet'
  <2>1. UNCHANGED <<stdin, stdout, proc, started>>
    BY <1>2 DEF Get, helper, bounds
  <2>2. CASE TakeIdle(c, "drop")
    BY <2>1, <2>2, <1>t
  <2>3. CASE Goto(c, "grow") /\ UNCHANGED <<idle, slot>>
    BY <2>1, <2>3, <1>f DEF Step
  <2>4. QED
    BY <1>2, <2>2, <2>3 DEF Get
<1>3. ASSUME NEW c \in Callers, Drop(c) PROVE Quiet'
  BY <1>3, <1>f DEF Drop, helper, bounds, Step
<1>4. ASSUME NEW c \in Callers, Grow(c) \/ Regrow(c) PROVE Quiet'
  <2>1. UNCHANGED <<idle, stdin, stdout, proc>>
    BY <1>4 DEF Grow, Regrow, helper
  <2>2. CASE BeginStart(c, created) \/ BeginStart(c, OneFewer)
    BY <2>1, <2>2, <1>b
  <2>3. CASE /\ Goto(c, "block") /\ started' = started
             /\ slot' = slot \/ slot' = [slot EXCEPT ![c] = 0]
    BY <2>1, <2>3, <1>f DEF Step
  <2>4. QED
    BY <1>4, <2>2, <2>3 DEF Grow, Regrow
<1>5. ASSUME NEW c \in Callers, Block(c) PROVE Quiet'
  BY <1>5, <1>t DEF Block, helper, bounds
<1>6. ASSUME NEW c \in Callers, StartEnds(c) PROVE Quiet'
  <2>1. /\ pc[c] = "starting" /\ Goto(c, "submit")
        /\ proc' = [proc EXCEPT ![slot[c]] = "up"]
        /\ UNCHANGED <<slot, idle, started, stdin, stdout>>
    BY <1>6 DEF StartEnds, pool, bounds
  <2>2. pc[c] \in Holding
    BY <2>1 DEF Holding
  <2>3. Clean(slot[c])
    BY <1>q, <2>1 DEF Quiet, QuietCaller
  <2>4. \A h \in Helpers : h # slot[c] => proc'[h] = proc[h]
    BY <1>o, <2>1
  <2>5. QED
    BY <2>1, <2>2, <2>3, <2>4, <1>w DEF Clean
<1>7. ASSUME NEW c \in Callers, StartFails(c) PROVE Quiet'
  <2>1. \A h \in Helpers : proc'[h] = "up" => proc[h] = "up"
    BY <1>o, <1>7 DEF StartFails
  <2>2. QED
    BY <1>7, <2>1, <1>f DEF StartFails, Leave, Step
<1>8. ASSUME NEW c \in Callers, Submit(c) PROVE Quiet'
  <2>1. pc[c] = "submit" /\ UNCHANGED <<slot, idle, started, proc, stdout>>
    BY <1>8 DEF Submit, pool
  <2>2. pc[c] \in Holding
    BY <2>1 DEF Holding
  <2>3. slot[c] \in Helpers /\ (proc[slot[c]] = "up" => Clean(slot[c]))
    BY <1>i, <1>q, <2>1, <2>2 DEF Quiet, QuietCaller
  <2>4. CASE Goto(c, "checkin") /\ ~Alive(slot[c]) /\ UNCHANGED stdin
    <3>1. proc'[slot[c]] # "up"
      BY <2>1, <2>4 DEF Alive
    <3>2. QED
      BY <2>1, <2>2, <2>4, <3>1, <1>w
  <2>5. ASSUME NEW line,
               Goto(c, "await"), stdin' = [stdin EXCEPT ![slot[c]] = Append(@, line)]
        PROVE  Quiet'
    <3>1. \A h \in Helpers : h # slot[c] => stdin'[h] = stdin[h]
      BY <1>o, <2>5
    <3>2. ASSUME proc[slot[c]] = "up"
          PROVE  Len(stdin'[slot[c]]) = 1 /\ stdout'[slot[c]] = <<>>
      <4>1. stdin'[slot[c]] = Append(<<>>, line)
        BY <1>o, <2>3, <2>5, <3>2 DEF Clean
      <4>2. Len(Append(<<>>, line)) = 1
        OBVIOUS
      <4>3. QED
        BY <2>1, <2>3, <3>2, <4>1, <4>2 DEF Clean
    <3>3. QED
      BY <2>1, <2>2, <2>5, <3>1, <3>2, <1>w
  <2>6. QED
    BY <1>8, <2>4, <2>5 DEF Submit
<1>9. ASSUME NEW c \in Callers, Read(c) PROVE Quiet'
  <2>1. /\ pc[c] = "reading" /\ stdout[slot[c]] # <<>> /\ Goto(c, "checkin")
        /\ stdout' = [stdout EXCEPT ![slot[c]] = Tail(@)]
        /\ UNCHANGED <<slot, idle, started, proc, stdin>>
    BY <1>9 DEF Read, LineEnded, Settles, pool, bounds
  <2>2. pc[c] \in Holding
    BY <2>1 DEF Holding
  <2>3. slot[c] \in Helpers /\ (proc[slot[c]] = "up" => OneLine(slot[c]))
    BY <1>i, <1>q, <2>1, <2>2 DEF Quiet, QuietCaller
  <2>4. \A h \in Helpers : h # slot[c] => stdout'[h] = stdout[h]
    BY <1>o, <2>1
  <2>5. ASSUME proc[slot[c]] = "up"
        PROVE  stdin'[slot[c]] = <<>> /\ stdout'[slot[c]] = <<>>
    <3>1. stdin[slot[c]] = <<>> /\ Len(stdout[slot[c]]) = 1
      BY <2>1, <2>3, <2>5 DEF OneLine, Clean
    <3>2. stdout'[slot[c]] = Tail(stdout[slot[c]])
      BY <1>o, <2>1, <2>3
    <3>3. \A pipe \in Seq(Lines) : Len(pipe) = 1 => Tail(pipe) = <<>>
      <4>1. ASSUME NEW pipe \in Seq(Lines), Len(pipe) = 1 PROVE Tail(pipe) = <<>>
        <5>1. Tail(pipe) \in Seq(Lines) /\ Len(Tail(pipe)) = 0
          BY <4>1, EmptySeq, HeadTailProperties
        <5>2. QED
          BY <5>1, EmptySeq
      <4>2. QED
        BY <4>1
    <3>4. QED
      BY <1>o, <2>1, <2>3, <3>1, <3>2, <3>3
  <2>6. QED
    BY <2>1, <2>2, <2>4, <2>5, <1>w
<1>10. ASSUME NEW c \in Callers, ReadEnd(c) PROVE Quiet'
  <2>1. /\ pc[c] = "reading" /\ proc[slot[c]] # "up" /\ Goto(c, "checkin")
        /\ UNCHANGED <<slot, idle, started, proc, stdin, stdout>>
    BY <1>10 DEF ReadEnd, Alive, Settles, pool, helper, bounds
  <2>2. pc[c] \in Holding
    BY <2>1 DEF Holding
  <2>3. QED
    BY <2>1, <2>2, <1>w
<1>11. ASSUME NEW c \in Callers, Kill(c) PROVE Quiet'
  <2>1. /\ pc[c] = "kill" /\ Goto(c, "checkin")
        /\ proc' = [proc EXCEPT ![slot[c]] = IF Alive(slot[c]) THEN "dying" ELSE @]
        /\ UNCHANGED <<slot, idle, started, stdin, stdout>>
    BY <1>11 DEF Kill, Settles, pool, bounds
  <2>2. pc[c] \in Holding
    BY <2>1 DEF Holding
  <2>3. /\ \A h \in Helpers : h # slot[c] => proc'[h] = proc[h]
        /\ proc'[slot[c]] # "up"
    BY <1>o, <1>i, <2>1, <2>2 DEF Alive
  <2>4. QED
    BY <2>1, <2>2, <2>3, <1>w
<1>12. ASSUME NEW c \in Callers, Checkin(c) PROVE Quiet'
  <2>1. pc[c] = "checkin" /\ UNCHANGED <<stdin, stdout, proc, started>>
    BY <1>12 DEF Checkin, helper, bounds
  <2>2. CASE idle' = Append(idle, slot[c]) /\ Leave(c)
    <3>1. pc[c] \in Holding
      BY <2>1 DEF Holding
    <3>2. slot[c] \in Helpers /\ (proc[slot[c]] = "up" => Clean(slot[c]))
      BY <1>i, <1>q, <2>1, <3>1 DEF Quiet, QuietCaller
    <3>3. \A i \in DOMAIN idle' :
            (\E j \in DOMAIN idle : idle'[i] = idle[j]) \/ idle'[i] = slot[c]
      BY <1>o, <2>2, <3>2, SMTT(30)
    <3>4. \A d \in Callers \ {c} : pc'[d] = pc[d] /\ slot'[d] = slot[d]
      BY <1>o, <2>2 DEF Leave, Goto
    <3>5. QuietCaller(c)'
      BY <1>o, <2>2 DEF Leave, Goto, QuietCaller
    <3>6. QueueStaysQuiet
      BY <2>1, <3>2, <3>3 DEF Clean, QueueStaysQuiet
    <3>7. StepOf(c)
      BY <1>o, <2>1, <3>4 DEF StepOf
    <3>8. QED
      BY <1>q, <3>5, <3>6, <3>7, QuietStep
  <2>3. CASE Goto(c, "release") /\ UNCHANGED <<idle, slot>>
    BY <2>1, <2>3, <1>f DEF Step
  <2>4. QED
    BY <1>12, <2>2, <2>3 DEF Checkin
<1>13. ASSUME NEW c \in Callers, Release(c) PROVE Quiet'
  BY <1>13, <1>f DEF Release, Leave, helper, bounds, Step
\* The wait ends; nothing happens to the helper.
<1>18. ASSUME NEW c \in Callers, Select(c) PROVE Quiet'
  <2>1. /\ pc[c] = "await" /\ Goto(c, "reading")
        /\ UNCHANGED <<slot, idle, started, proc, stdin, stdout>>
    BY <1>18 DEF Select, pool, helper, bounds
  <2>2. /\ pc'[c] = "reading" /\ slot'[c] = slot[c]
        /\ \A d \in Callers \ {c} : pc'[d] = pc[d] /\ slot'[d] = slot[d]
    BY <1>o, <2>1 DEF Goto
  <2>3. QuietCaller(c)'
    BY <1>q, <2>1, <2>2 DEF Quiet, QuietCaller, OneLine, Clean
  <2>4. StepOf(c)
    BY <1>o, <2>1, <2>2 DEF StepOf
  <2>5. QueueStaysQuiet
    BY <2>1 DEF QueueStaysQuiet
  <2>6. QED
    BY <1>q, <2>3, <2>4, <2>5, QuietStep
<1>19. ASSUME NEW c \in Callers, GiveUp(c) PROVE Quiet'
  BY <1>19, <1>f DEF GiveUp, pool, helper, bounds, Step
\* A helper answers: only one that a caller waits for has a request.
<1>14. ASSUME NEW h \in Helpers, Respond(h) PROVE Quiet'
  <2>1. /\ proc[h] = "up" /\ stdin[h] # <<>>
        /\ stdout' = [stdout EXCEPT ![h] = Append(@, Head(stdin[h]))]
        /\ stdin' = [stdin EXCEPT ![h] = Tail(@)]
        /\ UNCHANGED <<idle, pc, slot, proc, started>>
    BY <1>14 DEF Respond, pool, caller, bounds
  <2>2. \A g \in Helpers : g # h => stdin'[g] = stdin[g] /\ stdout'[g] = stdout[g]
    BY <1>o, <2>1
  <2>3. ASSUME OneLine(h) PROVE OneLine(h)'
    <3>1. Len(stdin[h]) = 1 /\ stdout[h] = <<>>
      BY <2>1, <2>3 DEF OneLine, Clean
    <3>2. stdin'[h] = Tail(stdin[h]) /\ stdout'[h] = Append(<<>>, Head(stdin[h]))
      BY <1>o, <2>1, <3>1
    <3>3. stdin[h] \in Seq(Lines)
      BY <1>o
    <3>4. Tail(stdin[h]) = <<>>
      <4>1. Tail(stdin[h]) \in Seq(Lines) /\ Len(Tail(stdin[h])) = 0
        BY <2>1, <3>1, <3>3, HeadTailProperties
      <4>2. QED
        BY <4>1, EmptySeq
    <3>5. Len(Append(<<>>, Head(stdin[h]))) = 1
      OBVIOUS
    <3>6. QED
      BY <3>2, <3>4, <3>5 DEF OneLine
  <2>4. ASSUME NEW g \in Helpers, Clean(g) PROVE Clean(g)'
    BY <2>1, <2>2, <2>4 DEF Clean
  <2>5. ASSUME NEW g \in Helpers, OneLine(g) PROVE OneLine(g)'
    <3>1. CASE g = h
      BY <2>3, <2>5, <3>1
    <3>2. CASE g # h
      BY <2>2, <2>5, <3>2 DEF OneLine, Clean
    <3>3. QED
      BY <3>1, <3>2
  <2>6. ASSUME NEW c \in Callers PROVE QuietCaller(c)'
    <3>1. QuietCaller(c) /\ UNCHANGED <<pc[c], slot[c], proc[slot[c]]>>
      BY <1>q, <2>1 DEF Quiet
    <3>2. CASE slot[c] \in Helpers
      BY <2>4, <2>5, <3>1, <3>2 DEF QuietCaller, Clean, OneLine
    <3>3. CASE slot[c] \notin Helpers
      BY <1>i, <2>1, <3>3 DEF QuietCaller, Holding
    <3>4. QED
      BY <3>2, <3>3
  <2>7. QuietIdle'
    <3>1. \A i \in DOMAIN idle : idle[i] \in Helpers
      BY <1>o
    <3>2. QED
      BY <1>q, <2>1, <2>4, <3>1 DEF Quiet, QuietIdle, Clean
  <2>8. Unused'
    BY <1>q, <2>1, <2>4 DEF Quiet, Unused, Clean
  <2>9. QED
    BY <2>6, <2>7, <2>8 DEF Quiet
<1>15. ASSUME NEW h \in Helpers, Crash(h) \/ Exits(h) PROVE Quiet'
  <2>1. /\ UNCHANGED <<idle, pc, slot, stdout, started>>
        /\ proc' = [proc EXCEPT ![h] = "dead"] /\ stdin' = [stdin EXCEPT ![h] = <<>>]
    BY <1>15 DEF Crash, Exits, pool, caller, bounds
  <2>2. \A g : proc'[g] = "up" => proc[g] = "up" /\ stdin'[g] = stdin[g]
    BY <1>o, <2>1
  <2>3. \A g : Clean(g) => Clean(g)'
    BY <1>o, <2>1 DEF Clean
  <2>4. QED
    BY <1>q, <2>1, <2>2, <2>3 DEF Quiet, QuietCaller, QuietIdle, Unused, Clean, OneLine
<1>20. ASSUME NEW h \in Helpers, EndLine(h) PROVE Quiet'
  <2>1. UNCHANGED <<idle, pc, slot, proc, stdin, stdout, started>>
    BY <1>20 DEF EndLine, pool, caller, bounds
  <2>2. QED
    BY <1>q, <2>1 DEF Quiet, QuietCaller, QuietIdle, Unused, Clean, OneLine
<1>16. CASE UNCHANGED vars
  BY <1>q, <1>16 DEF vars, Quiet, QuietCaller, QuietIdle, Unused, Clean, OneLine
<1>17. QED
  BY <1>n, <1>1, <1>2, <1>3, <1>4, <1>5, <1>6, <1>7, <1>8, <1>9, <1>10, <1>11,
     <1>12, <1>13, <1>14, <1>15, <1>16, <1>18, <1>19, <1>20 DEF Next, Proceed

LEMMA InitQuiet == Init => Quiet
<1> SUFFICES ASSUME Init PROVE Quiet
  OBVIOUS
<1>1. \A h \in Helpers : Clean(h)
  BY DEF Init, Clean
<1>2. DOMAIN idle = {}
  BY DEF Init
<1>3. QED
  BY <1>1, <1>2 DEF Init, Quiet, QuietCaller, QuietIdle, Unused

\* As long as no driver prints a line, a running helper that is back in the
\* queue has nothing unread on its pipes, whatever timed out or died before.
THEOREM IdleHelpersAreQuiet == Spec => []IdleHelperIsQuiet
<1> DEFINE Inv == noise = 0 => Quiet
<1>1. Init => Inv
  BY InitQuiet
<1>2. TypeInv /\ ExclusiveUse /\ Inv /\ [Next]_vars => Inv'
  BY NextQuiet
<1>3. Inv => IdleHelperIsQuiet
  BY DEF Quiet, QuietIdle, Clean, IdleHelperIsQuiet
<1>4. Spec => []TypeInv
  BY InitTypeInv, NextTypeInv, PTL DEF Spec
<1>5. QED
  BY <1>1, <1>2, <1>3, <1>4, HelpersAreExclusive, PTL DEF Spec

----
(* The bound on helpers holds up nobody. *)

Doomed == {h \in Helpers : proc[h] \in {"dying", "dead"}}

\* The callers whose query may yet kill its helper.
Asking == {c \in Callers : pc[c] \in {"idle", "get", "drop", "grow", "starting", "block",
                                      "regrow", "submit", "await", "kill"}}

\* Every helper lost cost a fault, or a query, which kills one at most.
LossesPaid ==
  Cardinality(Doomed) + Cardinality(Asking) <= faults + Cardinality(Callers)

InQueue(h) == \E i \in DOMAIN idle : idle[i] = h
InHand(h)  == \E c \in Callers : pc[c] \in Holding /\ slot[c] = h

\* A helper that was started is in the queue, in the hands of a caller or lost.
HelpersTraced ==
  \A h \in Helpers : h <= started => h \in Doomed \/ InQueue(h) \/ InHand(h)

\* A helper in the queue, or in the hands of a caller, runs or did, and one
\* that is about to be discounted is dead.
DiscountedAreLost ==
  /\ \A i \in DOMAIN idle : proc[idle[i]] # "none"
  /\ \A c \in Callers :
       /\ pc[c] \in Holding \ {"starting"} => proc[slot[c]] # "none"
       /\ pc[c] \in {"drop", "regrow", "release"} => slot[c] \in Doomed

\* Both sets are finite; subsets and single additions count accordingly.
LEMMA LossCounts ==
  ASSUME TypeInv
  PROVE  /\ IsFiniteSet(Doomed) /\ Cardinality(Doomed) \in Nat
         /\ IsFiniteSet(Asking) /\ Cardinality(Asking) \in Nat
         /\ IsFiniteSet(Doomed') /\ Cardinality(Doomed') \in Nat
         /\ IsFiniteSet(Asking') /\ Cardinality(Asking') \in Nat
         /\ Doomed' \subseteq Doomed => Cardinality(Doomed') <= Cardinality(Doomed)
         /\ Asking' \subseteq Asking => Cardinality(Asking') <= Cardinality(Asking)
         /\ \A h : Doomed' \subseteq Doomed \cup {h} =>
              Cardinality(Doomed') <= Cardinality(Doomed) + 1
         /\ \A c : Asking' \subseteq Asking \cup {c} =>
              Cardinality(Asking') <= Cardinality(Asking) + 1
         /\ \A c \in Asking : Asking' \subseteq Asking \ {c} =>
              Cardinality(Asking') <= Cardinality(Asking) - 1
<1>1. IsFiniteSet(Helpers)
  BY PoolSizeAssumption, BoundsAssumption, CallersAssumption, FS_CardinalityType, FS_Interval
     DEF Helpers
<1>2. \A S : S \subseteq Helpers \/ S \subseteq Callers => IsFiniteSet(S) /\ Cardinality(S) \in Nat
  BY <1>1, CallersAssumption, FS_Subset, FS_CardinalityType
<1>3. /\ IsFiniteSet(Doomed) /\ Cardinality(Doomed) \in Nat
      /\ IsFiniteSet(Asking) /\ Cardinality(Asking) \in Nat
      /\ IsFiniteSet(Doomed') /\ Cardinality(Doomed') \in Nat
      /\ IsFiniteSet(Asking') /\ Cardinality(Asking') \in Nat
  BY <1>2 DEF Doomed, Asking
<1>4. ASSUME NEW S, NEW T, IsFiniteSet(S), Cardinality(S) \in Nat
      PROVE  /\ T \subseteq S => Cardinality(T) <= Cardinality(S)
             /\ \A x : T \subseteq S \cup {x} => Cardinality(T) <= Cardinality(S) + 1
             /\ \A x \in S : T \subseteq S \ {x} => Cardinality(T) <= Cardinality(S) - 1
  <2>1. T \subseteq S => Cardinality(T) <= Cardinality(S)
    BY <1>4, FS_Subset
  <2>2. ASSUME NEW x, T \subseteq S \cup {x} PROVE Cardinality(T) <= Cardinality(S) + 1
    <3>1. /\ IsFiniteSet(S \cup {x}) /\ Cardinality(S \cup {x}) \in Nat
          /\ Cardinality(S \cup {x}) <= Cardinality(S) + 1
      BY <1>4, FS_AddElement, FS_CardinalityType
    <3>2. Cardinality(T) \in Nat /\ Cardinality(T) <= Cardinality(S \cup {x})
      BY <2>2, <3>1, FS_Subset, FS_CardinalityType
    <3>3. QED
      BY <1>4, <3>1, <3>2
  <2>3. ASSUME NEW x \in S, T \subseteq S \ {x} PROVE Cardinality(T) <= Cardinality(S) - 1
    <3>1. IsFiniteSet(S \ {x}) /\ Cardinality(S \ {x}) = Cardinality(S) - 1
      BY <1>4, FS_RemoveElement
    <3>2. QED
      BY <2>3, <3>1, FS_Subset
  <2>4. QED
    BY <2>1, <2>2, <2>3
<1>5. QED
  BY <1>3, <1>4

\* What a step does to those who may still kill, and to what was paid.
LEMMA NextLossesPaid ==
  ASSUME TypeInv, LossesPaid, [Next]_vars
  PROVE  LossesPaid'
<1>o. /\ pc \in [Callers -> Step] /\ faults \in Nat
      /\ Cardinality(Callers) \in Nat
      /\ proc \in [Helpers -> {"none", "up", "dying", "dead"}]
      /\ \A c \in Callers : pc[c] \in Holding => slot[c] \in Helpers
  BY BoundsAssumption, CallersAssumption, FS_CardinalityType
     DEF TypeInv, TypeOK, HelpersStarted
<1>t. faults' \in Nat
  BY <1>o, NextTypeInv, BoundsAssumption DEF TypeInv, TypeOK
\* Nothing was lost and nobody new asks.
<1>k. ASSUME Doomed' \subseteq Doomed, Asking' \subseteq Asking, UNCHANGED faults
      PROVE  LossesPaid'
  BY <1>o, <1>k, LossCounts DEF LossesPaid
\* A fault loses one helper.
<1>f. ASSUME NEW h, Doomed' \subseteq Doomed \cup {h}, Asking' \subseteq Asking,
             faults' = faults + 1
      PROVE  LossesPaid'
  <2>1. /\ Cardinality(Doomed') <= Cardinality(Doomed) + 1
        /\ Cardinality(Asking') <= Cardinality(Asking)
    BY <1>f, LossCounts
  <2>2. /\ Cardinality(Doomed) \in Nat /\ Cardinality(Asking) \in Nat
        /\ Cardinality(Doomed') \in Nat /\ Cardinality(Asking') \in Nat
    BY LossCounts
  <2>3. QED
    BY <1>o, <1>f, <2>1, <2>2 DEF LossesPaid
<1>1. ASSUME NEW c \in Callers, Call(c) PROVE LossesPaid'
  <2>1. Doomed' \subseteq Doomed /\ Asking' \subseteq Asking /\ UNCHANGED faults
    BY <1>o, <1>1 DEF Call, Goto, Doomed, Asking, helper, bounds
  <2>2. QED
    BY <1>k, <2>1
<1>2. ASSUME NEW c \in Callers,
             \/ Get(c) \/ Drop(c) \/ Grow(c) \/ Block(c) \/ Regrow(c) \/ Submit(c)
             \/ Select(c) \/ Read(c) \/ ReadEnd(c) \/ GiveUp(c) \/ Checkin(c) \/ Release(c)
      PROVE  LossesPaid'
  <2>1. /\ UNCHANGED <<proc, faults>>
        /\ \E s \in Step : /\ pc' = [pc EXCEPT ![c] = s]
                           /\ c \in Asking \/ s \in {"checkin", "release", "done"}
    BY <1>o, <1>2 DEF Get, Drop, Grow, Block, Regrow, Submit, Select, Read, ReadEnd, GiveUp,
       NoResponse, Checkin, Release, TakeIdle, BeginStart, Settles, Leave, Goto, Step, Asking,
       helper, bounds
  <2>2. QED
    BY <1>k, <1>o, <2>1 DEF Doomed, Asking
<1>3. ASSUME NEW c \in Callers, StartEnds(c) PROVE LossesPaid'
  BY <1>k, <1>o, <1>3 DEF StartEnds, Goto, Doomed, Asking, bounds
<1>4. ASSUME NEW c \in Callers, StartFails(c) PROVE LossesPaid'
  <2>1. Doomed' \subseteq Doomed \cup {slot[c]} /\ Asking' \subseteq Asking
    BY <1>o, <1>4 DEF StartFails, Leave, Goto, Doomed, Asking
  <2>2. QED
    BY <1>4, <1>f, <2>1 DEF StartFails
<1>5. ASSUME NEW c \in Callers, Kill(c) PROVE LossesPaid'
  <2>1. /\ c \in Asking /\ Doomed' \subseteq Doomed \cup {slot[c]}
        /\ Asking' \subseteq Asking \ {c} /\ UNCHANGED faults
    BY <1>o, <1>5 DEF Kill, Settles, Goto, Doomed, Asking, bounds
  <2>2. /\ Cardinality(Doomed') <= Cardinality(Doomed) + 1
        /\ Cardinality(Asking') <= Cardinality(Asking) - 1
    BY <2>1, LossCounts
  <2>3. /\ Cardinality(Doomed) \in Nat /\ Cardinality(Asking) \in Nat
        /\ Cardinality(Doomed') \in Nat /\ Cardinality(Asking') \in Nat
    BY LossCounts
  <2>4. QED
    BY <1>o, <2>1, <2>2, <2>3 DEF LossesPaid
<1>6. ASSUME NEW h \in Helpers, Crash(h) PROVE LossesPaid'
  <2>1. Doomed' \subseteq Doomed \cup {h} /\ Asking' \subseteq Asking
    BY <1>o, <1>6 DEF Crash, caller, Doomed, Asking
  <2>2. QED
    BY <1>6, <1>f, <2>1 DEF Crash
<1>7. ASSUME NEW h \in Helpers, Respond(h) \/ EndLine(h) \/ Exits(h) \/ Prints(h)
      PROVE  LossesPaid'
  BY <1>k, <1>o, <1>7 DEF Respond, EndLine, Exits, Prints, caller, bounds, Doomed, Asking
<1>8. CASE UNCHANGED vars
  BY <1>k, <1>8 DEF vars, Doomed, Asking
<1>9. QED
  BY <1>1, <1>2, <1>3, <1>4, <1>5, <1>6, <1>7, <1>8 DEF Next, Proceed

\* A helper that was lost stays so, unless its number is one being started.
LEMMA LostStay ==
  ASSUME TypeInv, ExclusiveUse, [Next]_vars
  PROVE  /\ \A h \in Helpers : proc[h] # "none" => proc'[h] # "none"
         /\ \A h \in Doomed : h \in Doomed' \/ InHand(h)'
         /\ \A c \in Callers : pc[c] \in Holding \ {"starting"} /\ slot[c] \in Doomed =>
              slot[c] \in Doomed'
<1>o. /\ pc \in [Callers -> Step]
      /\ proc \in [Helpers -> {"none", "up", "dying", "dead"}]
      /\ \A c \in Callers : pc[c] \in Holding => slot[c] \in Helpers
  BY DEF TypeInv, TypeOK, HelpersStarted
<1>1. \/ UNCHANGED proc \/ \E c \in Callers : StartEnds(c) \/ StartFails(c) \/ Kill(c)
      \/ \E h \in Helpers : Crash(h) \/ Exits(h)
  BY DEF Next, Proceed, vars, Call, Get, Drop, Grow, Block, Regrow, Submit, Select, Read,
     ReadEnd, GiveUp, Checkin, Release, Respond, EndLine, Prints, helper
<1>2. CASE UNCHANGED proc
  BY <1>2 DEF Doomed
<1>3. ASSUME NEW c \in Callers, StartEnds(c)
      PROVE  /\ \A h \in Helpers : proc[h] # "none" => proc'[h] # "none"
             /\ \A h \in Doomed : h \in Doomed' \/ InHand(h)'
             /\ \A d \in Callers : pc[d] \in Holding \ {"starting"} /\ slot[d] \in Doomed =>
                  slot[d] \in Doomed'
  <2>1. /\ pc[c] = "starting" /\ proc' = [proc EXCEPT ![slot[c]] = "up"]
        /\ pc'[c] = "submit" /\ slot'[c] = slot[c]
    BY <1>o, <1>3 DEF StartEnds, Goto
  <2>2. \A d \in Callers : pc[d] \in Holding \ {"starting"} => slot[d] # slot[c]
    BY <2>1 DEF ExclusiveUse, Holders, Holding
  <2>3. QED
    BY <1>o, <2>1, <2>2 DEF Doomed, InHand, Holding
<1>4. ASSUME NEW h \in Helpers, NEW s \in {"dying", "dead"}, proc' = [proc EXCEPT ![h] = s]
      PROVE  /\ \A g \in Helpers : proc[g] # "none" => proc'[g] # "none"
             /\ Doomed \subseteq Doomed'
  BY <1>o, <1>4 DEF Doomed
<1>5. ASSUME NEW c \in Callers, StartFails(c) \/ Kill(c)
      PROVE  \/ UNCHANGED proc
             \/ \E h \in Helpers : \E s \in {"dying", "dead"} : proc' = [proc EXCEPT ![h] = s]
  BY <1>o, <1>5 DEF StartFails, Kill, Holding
<1>6. ASSUME NEW h \in Helpers, Crash(h) \/ Exits(h)
      PROVE  \E s \in {"dying", "dead"} : proc' = [proc EXCEPT ![h] = s]
  BY <1>6 DEF Crash, Exits
<1>7. QED
  BY <1>1, <1>2, <1>3, <1>4, <1>5, <1>6

\* What a step of c leaves of the hands of the others.
LEMMA OthersHold ==
  ASSUME TypeInv, ExclusiveUse, DiscountedAreLost, [Next]_vars, NEW c \in Callers,
         \A d \in Callers \ {c} : pc'[d] = pc[d] /\ slot'[d] = slot[d]
  PROVE  \A d \in Callers \ {c} :
           /\ pc'[d] \in Holding \ {"starting"} => proc'[slot'[d]] # "none"
           /\ pc'[d] \in {"drop", "regrow", "release"} => slot'[d] \in Doomed'
<1>1. \A d \in Callers : pc[d] \in Holding => slot[d] \in Helpers
  BY DEF TypeInv, HelpersStarted
<1>2. QED
  BY <1>1, LostStay DEF DiscountedAreLost, Holding

\* The steps of a caller, by what they do with the helper in its hands.
LEMMA NextTraced ==
  ASSUME TypeInv, ExclusiveUse, HelpersTraced, DiscountedAreLost, [Next]_vars
  PROVE  HelpersTraced' /\ DiscountedAreLost'
<1>o. /\ pc \in [Callers -> Step] /\ slot \in [Callers -> {0} \cup Helpers]
      /\ proc \in [Helpers -> {"none", "up", "dying", "dead"}]
      /\ started \in Nat /\ idle \in Seq(Helpers)
      /\ DOMAIN idle = 1..Len(idle) /\ Len(idle) \in Nat
      /\ \A c \in Callers : pc[c] \in Holding => slot[c] \in Helpers
      /\ \A i \in DOMAIN idle : idle[i] \in Helpers
  BY LenProperties, ElementOfSeq DEF TypeInv, TypeOK, HelpersStarted
\* The helpers are traced if each that was traced is.
<1>h. ASSUME \A h \in Helpers : InQueue(h) \/ InHand(h) =>
               h \in Doomed' \/ InQueue(h)' \/ InHand(h)',
             \A h \in Helpers : h <= started' /\ ~(h <= started) => InHand(h)'
      PROVE  HelpersTraced'
  BY <1>h, LostStay DEF HelpersTraced
\* A step of c that keeps the helper in its hands, or has none.
<1>s. ASSUME NEW c \in Callers, NEW s \in Step \ {"drop", "regrow", "release"}, Goto(c, s),
             UNCHANGED <<slot, idle, started>>, pc[c] \in Holding <=> s \in Holding,
             s \in Holding \ {"starting"} => proc'[slot[c]] # "none"
      PROVE  HelpersTraced' /\ DiscountedAreLost'
  <2>1. /\ pc'[c] = s /\ slot'[c] = slot[c]
        /\ \A d \in Callers \ {c} : pc'[d] = pc[d] /\ slot'[d] = slot[d]
    BY <1>o, <1>s DEF Goto
  <2>2. HelpersTraced'
    <3>1. \A h \in Helpers : InQueue(h) \/ InHand(h) => InQueue(h)' \/ InHand(h)'
      BY <1>s, <2>1 DEF InQueue, InHand
    <3>2. QED
      BY <1>h, <1>s, <3>1
  <2>3. DiscountedAreLost'
    BY <1>o, <1>s, <2>1, LostStay, OthersHold DEF DiscountedAreLost
  <2>4. QED
    BY <2>2, <2>3
\* A step of c that lets go of a helper that is lost, or has none.
<1>g. ASSUME NEW c \in Callers, NEW s \in Step \ Holding, Goto(c, s),
             slot' = slot \/ slot' = [slot EXCEPT ![c] = 0], UNCHANGED <<idle, started>>,
             pc[c] \in Holding => slot[c] \in Doomed'
      PROVE  HelpersTraced' /\ DiscountedAreLost'
  <2>1. /\ pc'[c] = s
        /\ \A d \in Callers \ {c} : pc'[d] = pc[d] /\ slot'[d] = slot[d]
    BY <1>o, <1>g DEF Goto
  <2>2. HelpersTraced'
    <3>1. \A h \in Helpers : InQueue(h) \/ InHand(h) =>
            h \in Doomed' \/ InQueue(h)' \/ InHand(h)'
      BY <1>g, <2>1 DEF InQueue, InHand
    <3>2. QED
      BY <1>h, <1>g, <3>1
  <2>3. DiscountedAreLost'
    BY <1>o, <1>g, <2>1, LostStay, OthersHold DEF DiscountedAreLost, Holding
  <2>4. QED
    BY <2>2, <2>3
\* c takes the oldest helper from the queue.
<1>t. ASSUME NEW c \in Callers, NEW dead \in {"drop", "regrow"}, TakeIdle(c, dead),
             pc[c] \notin Holding, UNCHANGED <<started, proc>>
      PROVE  HelpersTraced' /\ DiscountedAreLost'
  <2>1. /\ idle # <<>> /\ idle' = Tail(idle) /\ slot'[c] = Head(idle)
        /\ \A d \in Callers \ {c} : pc'[d] = pc[d] /\ slot'[d] = slot[d]
        /\ \/ Alive(Head(idle)) /\ pc'[c] = "submit"
           \/ ~Alive(Head(idle)) /\ pc'[c] = dead
    BY <1>o, <1>t DEF TakeIdle, Goto
  <2>2. /\ Head(idle) = idle[1] /\ Head(idle) \in Helpers /\ 1 \in DOMAIN idle
        /\ \A i \in DOMAIN idle' : i + 1 \in DOMAIN idle /\ idle'[i] = idle[i + 1]
    BY <2>1, TailOfIdle
  <2>3. \A i \in DOMAIN idle : i = 1 \/ (i - 1 \in DOMAIN idle' /\ idle'[i - 1] = idle[i])
    <3>1. DOMAIN idle' = 1..(Len(idle) - 1)
      BY <1>o, <2>1, TailOfIdle, LenProperties
    <3>2. QED
      BY <1>o, <2>2, <3>1
  <2>4. HelpersTraced'
    <3>1. ASSUME NEW h \in Helpers, InQueue(h) PROVE InQueue(h)' \/ InHand(h)'
      <4>1. PICK i \in DOMAIN idle : idle[i] = h
        BY <3>1 DEF InQueue
      <4>2. CASE i = 1
        BY <1>t, <2>1, <2>2, <4>1, <4>2 DEF InHand, Holding
      <4>3. CASE i - 1 \in DOMAIN idle' /\ idle'[i - 1] = idle[i]
        BY <4>1, <4>3 DEF InQueue
      <4>4. QED
        BY <2>3, <4>2, <4>3
    <3>2. ASSUME NEW h \in Helpers, InHand(h) PROVE InHand(h)'
      BY <1>t, <2>1, <3>2 DEF InHand
    <3>3. QED
      BY <1>h, <1>t, <3>1, <3>2
  <2>5. proc[Head(idle)] # "none" /\ (~Alive(Head(idle)) => Head(idle) \in Doomed)
    BY <1>o, <2>2 DEF DiscountedAreLost, Alive, Doomed
  <2>6. DiscountedAreLost'
    BY <1>t, <2>1, <2>2, <2>5, OthersHold DEF DiscountedAreLost, Doomed
  <2>7. QED
    BY <2>4, <2>6
\* c starts a helper; one that it has in hand is lost.
<1>b. ASSUME NEW c \in Callers, NEW n, BeginStart(c, n), UNCHANGED <<idle, proc>>,
             pc[c] \in Holding => slot[c] \in Doomed
      PROVE  HelpersTraced' /\ DiscountedAreLost'
  <2>1. /\ pc'[c] = "starting" /\ slot'[c] = started + 1 /\ started' = started + 1
        /\ \A d \in Callers \ {c} : pc'[d] = pc[d] /\ slot'[d] = slot[d]
    BY <1>o, <1>b DEF BeginStart, Goto
  <2>2. HelpersTraced'
    <3>1. \A h \in Helpers : InQueue(h) \/ InHand(h) =>
            h \in Doomed' \/ InQueue(h)' \/ InHand(h)'
      BY <1>b, <2>1 DEF InQueue, InHand, Doomed
    <3>2. \A h \in Helpers : h <= started' /\ ~(h <= started) => h = started + 1
      BY <1>o, <2>1, PoolSizeAssumption, BoundsAssumption DEF Helpers
    <3>3. \A h \in Helpers : h = started + 1 => InHand(h)'
      BY <2>1 DEF InHand, Holding
    <3>4. QED
      BY <1>h, <3>1, <3>2, <3>3
  <2>3. DiscountedAreLost'
    BY <1>b, <2>1, OthersHold DEF DiscountedAreLost
  <2>4. QED
    BY <2>2, <2>3
<1>1. ASSUME NEW c \in Callers, Call(c) PROVE HelpersTraced' /\ DiscountedAreLost'
  BY <1>s, <1>1 DEF Call, pool, bounds, Step, Holding
<1>2. ASSUME NEW c \in Callers, Get(c) PROVE HelpersTraced' /\ DiscountedAreLost'
  <2>1. pc[c] \notin Holding /\ UNCHANGED <<started, proc>>
    BY <1>2 DEF Get, Holding, helper, bounds
  <2>2. CASE TakeIdle(c, "drop")
    BY <1>t, <2>1, <2>2
  <2>3. CASE Goto(c, "grow") /\ UNCHANGED <<idle, slot>>
    BY <1>g, <2>1, <2>3 DEF Step, Holding
  <2>4. QED
    BY <1>2, <2>2, <2>3 DEF Get
<1>3. ASSUME NEW c \in Callers, Drop(c) \/ Release(c)
      PROVE  HelpersTraced' /\ DiscountedAreLost'
  <2>1. slot[c] \in Doomed'
    BY <1>3, LostStay DEF Drop, Release, DiscountedAreLost, Holding
  <2>2. QED
    BY <1>3, <1>g, <2>1 DEF Drop, Release, Leave, bounds, Step, Holding
<1>4. ASSUME NEW c \in Callers, Grow(c) PROVE HelpersTraced' /\ DiscountedAreLost'
  <2>1. pc[c] \notin Holding /\ UNCHANGED <<idle, proc>>
    BY <1>4 DEF Grow, Holding, helper
  <2>2. CASE BeginStart(c, created)
    BY <1>b, <2>1, <2>2
  <2>3. CASE Goto(c, "block") /\ UNCHANGED <<slot, started>>
    BY <1>g, <2>1, <2>3 DEF Step, Holding
  <2>4. QED
    BY <1>4, <2>2, <2>3 DEF Grow
<1>5. ASSUME NEW c \in Callers, Block(c) PROVE HelpersTraced' /\ DiscountedAreLost'
  BY <1>5, <1>t DEF Block, Holding, helper, bounds
<1>6. ASSUME NEW c \in Callers, Regrow(c) PROVE HelpersTraced' /\ DiscountedAreLost'
  <2>1. slot[c] \in Doomed /\ UNCHANGED <<idle, proc>>
    BY <1>6 DEF Regrow, DiscountedAreLost, helper
  <2>2. CASE BeginStart(c, OneFewer)
    BY <1>b, <2>1, <2>2
  <2>3. CASE Goto(c, "block") /\ slot' = [slot EXCEPT ![c] = 0] /\ UNCHANGED started
    <3>1. slot[c] \in Doomed'
      BY <2>1 DEF Doomed
    <3>2. QED
      BY <1>g, <2>1, <2>3, <3>1 DEF Step, Holding
  <2>4. QED
    BY <1>6, <2>2, <2>3 DEF Regrow
<1>7. ASSUME NEW c \in Callers, StartEnds(c) PROVE HelpersTraced' /\ DiscountedAreLost'
  <2>1. proc'[slot[c]] # "none"
    BY <1>o, <1>7 DEF StartEnds, Holding
  <2>2. QED
    BY <1>7, <1>s, <2>1 DEF StartEnds, pool, bounds, Step, Holding
<1>8. ASSUME NEW c \in Callers, StartFails(c) PROVE HelpersTraced' /\ DiscountedAreLost'
  <2>1. slot[c] \in Doomed'
    BY <1>o, <1>8 DEF StartFails, Doomed, Holding
  <2>2. QED
    BY <1>8, <1>g, <2>1 DEF StartFails, Leave, Step, Holding
<1>9. ASSUME NEW c \in Callers,
             \/ Submit(c) \/ Select(c) \/ Read(c) \/ ReadEnd(c) \/ GiveUp(c) \/ Kill(c)
      PROVE  HelpersTraced' /\ DiscountedAreLost'
  <2>1. /\ pc[c] \in {"submit", "await", "reading", "kill"}
        /\ UNCHANGED <<slot, idle, started>>
        /\ Goto(c, "await") \/ Goto(c, "reading") \/ Goto(c, "kill") \/ Goto(c, "checkin")
    BY <1>9 DEF Submit, Select, Read, ReadEnd, GiveUp, Kill, NoResponse, Settles, pool, bounds
  <2>2. proc'[slot[c]] # "none"
    BY <1>o, <2>1, LostStay DEF DiscountedAreLost, Holding
  <2>3. QED
    BY <1>s, <2>1, <2>2 DEF Step, Holding
<1>10. ASSUME NEW c \in Callers, Checkin(c) PROVE HelpersTraced' /\ DiscountedAreLost'
  <2>1. /\ pc[c] = "checkin" /\ UNCHANGED <<proc, started>>
        /\ slot[c] \in Helpers /\ proc[slot[c]] # "none"
    BY <1>10, <1>o DEF Checkin, helper, bounds, DiscountedAreLost, Holding
  <2>2. CASE idle' = Append(idle, slot[c]) /\ Leave(c)
    <3>1. /\ pc'[c] = "done"
          /\ \A d \in Callers \ {c} : pc'[d] = pc[d] /\ slot'[d] = slot[d]
      BY <1>o, <2>2 DEF Leave, Goto
    <3>2. /\ DOMAIN idle' = 1..(Len(idle) + 1) /\ idle'[Len(idle) + 1] = slot[c]
          /\ \A i \in DOMAIN idle : i \in DOMAIN idle' /\ idle'[i] = idle[i]
          /\ \A i \in DOMAIN idle' : i \in DOMAIN idle \/ i = Len(idle) + 1
      BY <1>o, <2>1, <2>2, AppendToIdle
    <3>3. ASSUME NEW h \in Helpers, InQueue(h) \/ InHand(h)
          PROVE  InQueue(h)' \/ InHand(h)'
      <4>1. CASE InQueue(h)
        BY <3>2, <4>1 DEF InQueue
      <4>2. CASE InHand(h)
        <5>1. PICK d \in Callers : pc[d] \in Holding /\ slot[d] = h
          BY <4>2 DEF InHand
        <5>2. CASE d = c
          <6>1. Len(idle) + 1 \in DOMAIN idle'
            BY <1>o, <3>2
          <6>2. QED
            BY <3>2, <5>1, <5>2, <6>1 DEF InQueue
        <5>3. CASE d # c
          BY <3>1, <5>1, <5>3 DEF InHand
        <5>4. QED
          BY <5>2, <5>3
      <4>3. QED
        BY <3>3, <4>1, <4>2
    <3>4. HelpersTraced'
      BY <1>h, <2>1, <3>3
    <3>5. DiscountedAreLost'
      BY <2>1, <3>1, <3>2, OthersHold DEF DiscountedAreLost, Holding
    <3>6. QED
      BY <3>4, <3>5
  <2>3. CASE ~Alive(slot[c]) /\ Goto(c, "release") /\ UNCHANGED <<idle, slot>>
    <3>1. /\ pc'[c] = "release" /\ slot'[c] = slot[c] /\ slot[c] \in Doomed'
          /\ \A d \in Callers \ {c} : pc'[d] = pc[d] /\ slot'[d] = slot[d]
      BY <1>o, <2>1, <2>3 DEF Goto, Alive, Doomed
    <3>2. HelpersTraced'
      <4>1. \A h \in Helpers : InQueue(h) \/ InHand(h) => InQueue(h)' \/ InHand(h)'
        BY <2>3, <3>1 DEF InQueue, InHand, Holding
      <4>2. QED
        BY <1>h, <2>1, <4>1
    <3>3. DiscountedAreLost'
      BY <2>1, <2>3, <3>1, OthersHold DEF DiscountedAreLost
    <3>4. QED
      BY <3>2, <3>3
  <2>4. QED
    BY <1>10, <2>2, <2>3 DEF Checkin
<1>11. CASE UNCHANGED <<pc, slot, idle, started>>
  <2>1. HelpersTraced'
    <3>1. \A h \in Helpers : InQueue(h) \/ InHand(h) => InQueue(h)' \/ InHand(h)'
      BY <1>11 DEF InQueue, InHand
    <3>2. QED
      BY <1>11, <1>h, <3>1
  <2>2. DiscountedAreLost'
    BY <1>o, <1>11, LostStay DEF DiscountedAreLost, Holding
  <2>3. QED
    BY <2>1, <2>2
<1>12. QED
  BY <1>1, <1>2, <1>3, <1>4, <1>5, <1>6, <1>7, <1>8, <1>9, <1>10, <1>11
     DEF Next, Proceed, Respond, EndLine, Crash, Exits, Prints, pool, caller, bounds, vars

\* Helpers are started in the order of their numbers.
StartedInRange == started \in {0} \cup Helpers

LEMMA NextStartedInRange == StartedInRange /\ [Next]_vars => StartedInRange'
<1>1. [Next]_vars => started' = started \/ started' \in Helpers
  BY DEF Next, Proceed, Call, Get, Drop, Grow, Block, Regrow, StartEnds, StartFails, Submit,
     Select, Read, ReadEnd, GiveUp, Kill, Checkin, Release, Respond, EndLine, Crash, Exits,
     Prints, BeginStart, bounds, vars
<1>2. QED
  BY <1>1 DEF StartedInRange

\* Two finite sets cover no more than they have together.
LEMMA CoverCount ==
  ASSUME NEW S, NEW T, IsFiniteSet(S), IsFiniteSet(T)
  PROVE  /\ IsFiniteSet(S \cup T)
         /\ Cardinality(S) \in Nat /\ Cardinality(T) \in Nat
         /\ Cardinality(S \cup T) \in Nat
         /\ Cardinality(S \cup T) <= Cardinality(S) + Cardinality(T)
<1>1. /\ IsFiniteSet(S \cup T)
      /\ Cardinality(S \cup T) = Cardinality(S) + Cardinality(T) - Cardinality(S \cap T)
  BY FS_Union
<1>2. IsFiniteSet(S \cap T)
  BY FS_Subset
<1>3. QED
  BY <1>1, <1>2, FS_CardinalityType

\* What was started is in the queue, in the hands of the callers of H, or lost.
LEMMA StartedCount ==
  ASSUME TypeInv, StartedInRange, HelpersTraced, NEW H \in SUBSET Holders,
         \A c \in Holders \ H : slot[c] \in Doomed
  PROVE  /\ Cardinality(H) \in Nat /\ Cardinality(Doomed) \in Nat
         /\ started <= Len(idle) + Cardinality(H) + Cardinality(Doomed)
<1>o. /\ idle \in [1..Len(idle) -> Helpers] /\ Len(idle) \in Nat
      /\ slot \in [Callers -> {0} \cup Helpers]
      /\ started \in Nat /\ H \subseteq Callers /\ IsFiniteSet(H)
  BY CallersAssumption, FS_Subset DEF TypeInv, TypeOK, Holders
<1>i. \A n \in Nat : IsFiniteSet(1..n) /\ Cardinality(1..n) = n
  <2>1. ASSUME NEW n \in Nat PROVE IsFiniteSet(1..n) /\ Cardinality(1..n) = n
    <3>1. /\ IsFiniteSet(1..n)
          /\ Cardinality(1..n) = IF 1 > n THEN 0 ELSE n - 1 + 1
      BY FS_Interval
    <3>2. QED
      BY <3>1
  <2>2. QED
    BY <2>1
<1> DEFINE Queued == {idle[i] : i \in 1..Len(idle)}
           hands == [c \in H |-> slot[c]]
           InHands == {hands[c] : c \in H}
<1>1. /\ IsFiniteSet(Queued) /\ Cardinality(Queued) \in Nat
      /\ Cardinality(Queued) <= Len(idle)
  <2>1. idle \in Surjection(1..Len(idle), Queued)
    BY <1>o DEF Surjection
  <2> HIDE DEF Queued
  <2>2. QED
    BY <1>o, <1>i, <2>1, FS_Surjection, FS_CardinalityType
<1>2. /\ IsFiniteSet(InHands) /\ Cardinality(InHands) \in Nat
      /\ Cardinality(InHands) <= Cardinality(H) /\ Cardinality(H) \in Nat
  <2>1. hands \in Surjection(H, InHands)
    BY DEF Surjection
  <2> HIDE DEF hands, InHands
  <2>2. QED
    BY <1>o, <2>1, FS_Surjection, FS_CardinalityType
<1>3. 1..started \subseteq (Queued \cup InHands) \cup Doomed
  <2>1. ASSUME NEW h \in 1..started PROVE h \in (Queued \cup InHands) \cup Doomed
    <3>1. h \in Helpers /\ h <= started
      BY <1>o, <2>1, PoolSizeAssumption, BoundsAssumption, CallersAssumption,
         FS_CardinalityType DEF StartedInRange, Helpers
    <3>2. CASE h \in Doomed
      BY <3>2
    <3>3. CASE InQueue(h)
      BY <1>o, <3>3 DEF InQueue
    <3>4. CASE InHand(h)
      BY <3>4 DEF InHand, Holders
    <3>5. QED
      BY <3>1, <3>2, <3>3, <3>4 DEF HelpersTraced
  <2>2. QED
    BY <2>1
<1>4. IsFiniteSet(1..started) /\ Cardinality(1..started) = started
  BY <1>o, <1>i
<1> HIDE DEF Queued, InHands, hands
<1>5. /\ IsFiniteSet(Queued \cup InHands) /\ Cardinality(Queued \cup InHands) \in Nat
      /\ Cardinality(Queued \cup InHands) <= Len(idle) + Cardinality(H)
  BY <1>o, <1>1, <1>2, CoverCount
<1>6. IsFiniteSet(Doomed) /\ Cardinality(Doomed) \in Nat
  BY LossCounts
<1>7. /\ IsFiniteSet((Queued \cup InHands) \cup Doomed)
      /\ Cardinality((Queued \cup InHands) \cup Doomed)
           <= Cardinality(Queued \cup InHands) + Cardinality(Doomed)
      /\ Cardinality((Queued \cup InHands) \cup Doomed) \in Nat
  BY <1>5, <1>6, CoverCount
<1>8. started <= Cardinality((Queued \cup InHands) \cup Doomed)
  <2>1. Cardinality(1..started) <= Cardinality((Queued \cup InHands) \cup Doomed)
    BY <1>3, <1>7, FS_Subset
  <2>2. QED
    BY <1>4, <2>1
<1>9. QED
  BY <1>o, <1>2, <1>5, <1>6, <1>7, <1>8

\* The numbers of the helpers never run out before a caller may start one: no
\* behaviour of the pool is cut short by their bound, for any pool size.
THEOREM HelpersNeverRunOut == Spec => []HelpersSuffice
<1> DEFINE Inv == /\ TypeInv /\ CreatedIsExact /\ ExclusiveUse
                  /\ LossesPaid /\ StartedInRange /\ HelpersTraced /\ DiscountedAreLost
<1>1. Init => Inv
  <2> SUFFICES ASSUME Init
               PROVE  LossesPaid /\ StartedInRange /\ HelpersTraced /\ DiscountedAreLost
    BY InitTypeInv, InitCreatedIsExact, InitExclusiveUse
  <2>1. Doomed = {} /\ Asking = Callers
    BY DEF Init, Doomed, Asking
  <2>2. \A h \in Helpers : ~(h <= started)
    BY PoolSizeAssumption, BoundsAssumption DEF Init, Helpers
  <2>3. LossesPaid
    BY <2>1, FS_EmptySet, CallersAssumption, FS_CardinalityType DEF Init, LossesPaid
  <2>4. QED
    BY <2>2, <2>3 DEF Init, StartedInRange, HelpersTraced, DiscountedAreLost, Holding
<1>2. Inv /\ [Next]_vars => Inv'
  BY NextTypeInv, NextCreatedIsExact, NextExclusiveUse, NextLossesPaid, NextStartedInRange,
     NextTraced
<1>3. Inv => HelpersSuffice
  <2> SUFFICES ASSUME Inv, NEW c \in Callers,
                      (pc[c] = "grow" /\ created < PoolSize) \/ pc[c] = "regrow"
               PROVE  started + 1 \in Helpers
    BY DEF HelpersSuffice
  <2>o. /\ created \in 0..PoolSize /\ started \in Nat /\ Len(idle) \in Nat
        /\ faults \in 0..MaxFaults /\ Cardinality(Callers) \in Nat
        /\ created = Len(idle) + Cardinality(Holders)
        /\ IsFiniteSet(Holders) /\ Cardinality(Holders) \in Nat
    BY CallersAssumption, FS_Subset, FS_CardinalityType, LenProperties
       DEF TypeInv, TypeOK, CreatedIsExact, Holders
  <2>p. Cardinality(Doomed) \in Nat /\ Cardinality(Doomed) <= MaxFaults + Cardinality(Callers)
    BY <2>o, LossCounts, BoundsAssumption DEF LossesPaid
  <2>1. started < PoolSize + MaxFaults + Cardinality(Callers)
    <3>1. CASE created < PoolSize
      <4>1. started <= Len(idle) + Cardinality(Holders) + Cardinality(Doomed)
        BY StartedCount
      <4>2. QED
        BY <2>o, <2>p, <3>1, <4>1, PoolSizeAssumption, BoundsAssumption
    <3>2. CASE pc[c] = "regrow"
      <4>1. c \in Holders /\ slot[c] \in Doomed
        BY <3>2 DEF Holders, Holding, DiscountedAreLost
      <4>2. Cardinality(Holders \ {c}) = Cardinality(Holders) - 1
        BY <2>o, <4>1, FS_RemoveElement
      <4>3. started <= Len(idle) + Cardinality(Holders \ {c}) + Cardinality(Doomed)
        <5>1. \A d \in Holders \ (Holders \ {c}) : slot[d] \in Doomed
          BY <4>1
        <5>2. QED
          BY <5>1, StartedCount
      <4>4. QED
        BY <2>o, <2>p, <4>2, <4>3, PoolSizeAssumption, BoundsAssumption
    <3>3. QED
      BY <3>1, <3>2
  <2>2. QED
    BY <2>o, <2>1, PoolSizeAssumption, BoundsAssumption DEF Helpers
<1>4. QED
  BY <1>1, <1>2, <1>3, PTL DEF Spec
====
