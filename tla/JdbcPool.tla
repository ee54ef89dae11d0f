---- MODULE JdbcPool ----
(***************************************************************************)
(* The pool of Java helper processes behind XactlyJdbcClient               *)
(* (core/xactly_jdbc.py, server mode, XACTLY_JDBC_POOL_SIZE > 1) and the   *)
(* request loop of the helper (scripts/XactlyJdbcQuery.java).              *)
(*                                                                         *)
(* A query checks a helper out of a queue, or starts one while fewer than  *)
(* PoolSize exist, or waits on the queue; it sends one request line, waits *)
(* a bounded time for the first bytes of the response, reads one line, and *)
(* checks the helper in again.  The counter of helpers is guarded by a     *)
(* lock that is also held while a helper starts and taken to number a      *)
(* request; the queue has its own.  A helper that was killed still looks   *)
(* alive to poll() until the system has reaped it.                         *)
(***************************************************************************)
EXTENDS Naturals, Sequences, FiniteSets

CONSTANTS
  Callers,      \* the queries run on one client object, each in some thread
  None,         \* no query
  PoolSize,     \* XACTLY_JDBC_POOL_SIZE
  MaxFaults,    \* bound: helpers that crash or fail to start
  MaxNoise      \* bound: lines a driver prints on a helper's stdout

ASSUME PoolSizeAssumption == PoolSize \in Nat /\ PoolSize > 1

ASSUME BoundsAssumption == MaxFaults \in Nat /\ MaxNoise \in Nat

ASSUME CallersAssumption == IsFiniteSet(Callers) /\ None \notin Callers

VARIABLES
  created,   \* _server_pool_created
  idle,      \* _server_pool: the helpers checked in, oldest first
  pc,        \* pc[c]: the step of its query caller c takes next
  slot,      \* slot[c]: the helper c has in hand, 0 if none
  request,   \* request[c]: the request_id c sent, 0 if none
  answer,    \* answer[c]: the caller whose query's result c has got, or None
  proc,      \* proc[h]: state of helper process h
  stdin,     \* stdin[h]: requests h has not read yet
  stdout,    \* stdout[h]: lines of h not read yet
  half,      \* helpers whose last line is not ended yet
  started,   \* helpers started so far
  numbered,  \* _server_request_id
  faults, noise

pool    == <<created, idle>>
caller  == <<pc, slot, request, answer>>
helper  == <<proc, stdin, stdout, half>>
bounds  == <<started, numbered, faults, noise>>
vars    == <<created, idle, pc, slot, request, answer, proc, stdin, stdout, half,
             started, numbered, faults, noise>>

\* A helper is lost to a fault, or to the timeout of a query that used it.
Helpers == 1..(PoolSize + MaxFaults + Cardinality(Callers))

\* A line on a pipe: the request_id it bears and the caller whose query it is,
\* or whose result.
Lines == [id : Nat, of : Callers \cup {None}]
Noise == [id |-> 0, of |-> None]

Step == {"idle", "get", "drop", "grow", "starting", "block", "regrow",
         "submit", "await", "reading", "kill", "checkin", "release",
         "done"}

\* The steps at which a caller accounts for one helper.
Holding == {"drop", "starting", "regrow", "submit", "await", "reading", "kill",
            "checkin", "release"}

TypeOK ==
  /\ created \in 0..PoolSize
  /\ idle \in Seq(Helpers)
  /\ pc \in [Callers -> Step]
  /\ slot \in [Callers -> {0} \cup Helpers]
  /\ request \in [Callers -> Nat]
  /\ answer \in [Callers -> Callers \cup {None}]
  /\ proc \in [Helpers -> {"none", "up", "dying", "dead"}]
  /\ stdin \in [Helpers -> Seq(Lines)]
  /\ stdout \in [Helpers -> Seq(Lines)]
  /\ half \subseteq Helpers
  /\ started \in Nat
  /\ numbered \in Nat
  /\ faults \in 0..MaxFaults /\ noise \in 0..MaxNoise

Init ==
  /\ created = 0 /\ idle = <<>>
  /\ pc = [c \in Callers |-> "idle"]
  /\ slot = [c \in Callers |-> 0]
  /\ request = [c \in Callers |-> 0]
  /\ answer = [c \in Callers |-> None]
  /\ proc = [h \in Helpers |-> "none"]
  /\ stdin = [h \in Helpers |-> <<>>]
  /\ stdout = [h \in Helpers |-> <<>>]
  /\ half = {}
  /\ started = 0 /\ numbered = 0 /\ faults = 0 /\ noise = 0

----
Goto(c, step) == pc' = [pc EXCEPT ![c] = step]

\* poll() is None
Alive(h) == proc[h] \in {"up", "dying"}

\* _server_pool_lock is held across a step only while a helper starts.
LockFree == \A c \in Callers : pc[c] # "starting"

\* max(0, created - 1)
OneFewer == IF created = 0 THEN 0 ELSE created - 1

\* Takes the oldest idle helper; the next step depends on poll().
TakeIdle(c, dead) ==
  /\ idle # <<>>
  /\ idle' = Tail(idle)
  /\ slot' = [slot EXCEPT ![c] = Head(idle)]
  /\ \/ Alive(Head(idle)) /\ Goto(c, "submit")
     \/ ~Alive(Head(idle)) /\ Goto(c, dead)

\* Counts a new helper, then starts it holding the lock.
BeginStart(c, count) ==
  /\ started + 1 \in Helpers
  /\ created' = count + 1
  /\ started' = started + 1
  /\ slot' = [slot EXCEPT ![c] = started + 1]
  /\ Goto(c, "starting")

\* The query has its result (or None: it raises), and checks in first.
Settles(c, result) ==
  /\ answer' = [answer EXCEPT ![c] = result]
  /\ Goto(c, "checkin")

\* The call returns or raises; its local variables go with it.
Leave(c) ==
  /\ slot' = [slot EXCEPT ![c] = 0]
  /\ request' = [request EXCEPT ![c] = 0]
  /\ answer' = [answer EXCEPT ![c] = None]
  /\ Goto(c, "done")

----
(* _checkout_server_slot *)

Call(c) ==
  /\ pc[c] = "idle"
  /\ Goto(c, "get")
  /\ UNCHANGED <<pool, slot, request, answer, helper, bounds>>

\* Mutant: the helper stays in the queue for the next caller.
GetPeeks(c) ==
  /\ pc[c] = "get"
  /\ \/ idle # <<>> /\ slot' = [slot EXCEPT ![c] = Head(idle)] /\ Goto(c, "submit")
     \/ idle = <<>> /\ Goto(c, "grow") /\ UNCHANGED slot
  /\ UNCHANGED <<pool, request, answer, helper, bounds>>

\* get_nowait()
Get(c) ==
  /\ pc[c] = "get"
  /\ \/ TakeIdle(c, "drop")
     \/ idle = <<>> /\ Goto(c, "grow") /\ UNCHANGED <<idle, slot>>
  /\ UNCHANGED <<created, request, answer, helper, bounds>>

Drop(c) ==
  /\ pc[c] = "drop" /\ LockFree
  /\ created' = OneFewer
  /\ slot' = [slot EXCEPT ![c] = 0]
  /\ Goto(c, "grow")
  /\ UNCHANGED <<idle, request, answer, helper, bounds>>

Grow(c) ==
  /\ pc[c] = "grow" /\ LockFree
  /\ \/ created < PoolSize /\ BeginStart(c, created)
     \/ /\ created >= PoolSize
        /\ Goto(c, "block")
        /\ UNCHANGED <<created, slot, started>>
  /\ UNCHANGED <<idle, request, answer, helper, numbered, faults, noise>>

\* get(), without a timeout
Block(c) ==
  /\ pc[c] = "block"
  /\ TakeIdle(c, "regrow")
  /\ UNCHANGED <<created, request, answer, helper, bounds>>

Regrow(c) ==
  /\ pc[c] = "regrow" /\ LockFree
  /\ \/ OneFewer < PoolSize /\ BeginStart(c, OneFewer)
     \/ /\ OneFewer >= PoolSize
        /\ created' = OneFewer
        /\ slot' = [slot EXCEPT ![c] = 0]
        /\ Goto(c, "block")
        /\ UNCHANGED started
  /\ UNCHANGED <<idle, request, answer, helper, numbered, faults, noise>>

\* _start_server returned: the lock is released with it.
StartEnds(c) ==
  /\ pc[c] = "starting"
  /\ proc' = [proc EXCEPT ![slot[c]] = "up"]
  /\ Goto(c, "submit")
  /\ UNCHANGED <<pool, slot, request, answer, stdin, stdout, half, bounds>>

\* _start_server raised: there is nothing to check in, the query raises.
StartFails(c) ==
  /\ pc[c] = "starting"
  /\ faults < MaxFaults
  /\ faults' = faults + 1
  /\ created' = OneFewer
  /\ proc' = [proc EXCEPT ![slot[c]] = "dead"]
  /\ Leave(c)
  /\ UNCHANGED <<idle, stdin, stdout, half, started, numbered, noise>>

----
(* execute_query_server, helper in hand *)

\* Numbers the request under the lock and writes it; a broken pipe raises.
Submit(c) ==
  /\ pc[c] = "submit" /\ LockFree
  /\ numbered' = numbered + 1
  /\ request' = [request EXCEPT ![c] = numbered + 1]
  /\ \/ /\ Alive(slot[c])
        /\ stdin' = [stdin EXCEPT ![slot[c]] =
                       Append(@, [id |-> numbered + 1, of |-> c])]
        /\ Goto(c, "await")
     \/ /\ ~Alive(slot[c])
        /\ Goto(c, "checkin")
        /\ UNCHANGED stdin
  /\ UNCHANGED <<pool, slot, answer, proc, stdout, half, started, faults, noise>>

\* select() returns: there are bytes to read, or the end of file.
Select(c) ==
  /\ pc[c] = "await"
  /\ stdout[slot[c]] # <<>> \/ ~Alive(slot[c])
  /\ Goto(c, "reading")
  /\ UNCHANGED <<pool, slot, request, answer, helper, bounds>>

\* The next line of h has ended.
LineEnded(h) == stdout[h] # <<>> /\ (Len(stdout[h]) > 1 \/ h \notin half)

\* Mutant: the request_id of the response is not compared.
ReadAny(c) ==
  /\ pc[c] = "reading"
  /\ LineEnded(slot[c])
  /\ stdout' = [stdout EXCEPT ![slot[c]] = Tail(@)]
  /\ Settles(c, Head(stdout[slot[c]]).of)
  /\ UNCHANGED <<pool, slot, request, proc, stdin, half, bounds>>

\* readline(), without a timeout: the result if the line bears the request_id
\* and is ok, an error if it is not JSON, bears another request_id, or reports
\* one.
Read(c) ==
  /\ pc[c] = "reading"
  /\ LineEnded(slot[c])
  /\ stdout' = [stdout EXCEPT ![slot[c]] = Tail(@)]
  /\ LET line == Head(stdout[slot[c]])
     IN \/ line.id = request[c] /\ Settles(c, line.of)
        \/ Settles(c, None)
  /\ UNCHANGED <<pool, slot, request, proc, stdin, half, bounds>>

\* End of file: the helper stopped.
ReadEnd(c) ==
  /\ pc[c] = "reading"
  /\ ~Alive(slot[c]) /\ stdout[slot[c]] = <<>>
  /\ Settles(c, None)
  /\ UNCHANGED <<pool, slot, request, helper, bounds>>

\* The response is not there; a stray line may sit in a read buffer that
\* select() does not look at.
NoResponse(c) ==
  /\ pc[c] = "await"
  /\ Alive(slot[c])
  /\ \A i \in DOMAIN stdout[slot[c]] : stdout[slot[c]][i].id # request[c]

\* select() gives up; the helper, alive still, may write its response now.
GiveUp(c) ==
  /\ NoResponse(c)
  /\ Goto(c, "kill")
  /\ UNCHANGED <<pool, slot, request, answer, helper, bounds>>

\* Mutant: a helper that is late is not killed.
KillSpares(c) ==
  /\ pc[c] = "kill"
  /\ Settles(c, None)
  /\ UNCHANGED <<pool, slot, request, helper, bounds>>

\* kill(), which does nothing to a helper that has ended by itself.
Kill(c) ==
  /\ pc[c] = "kill"
  /\ proc' = [proc EXCEPT ![slot[c]] = IF Alive(slot[c]) THEN "dying" ELSE @]
  /\ Settles(c, None)
  /\ UNCHANGED <<pool, slot, request, stdin, stdout, half, bounds>>

\* Mutant: a helper that answered an error is not returned to the queue.
CheckinForgets(c) ==
  /\ pc[c] = "checkin"
  /\ \/ Alive(slot[c]) /\ answer[c] # None /\ idle' = Append(idle, slot[c])
     \/ answer[c] = None /\ UNCHANGED idle
  /\ Leave(c)
  /\ UNCHANGED <<created, helper, bounds>>

\* _checkin_server_slot: a live helper goes back to the queue.
Checkin(c) ==
  /\ pc[c] = "checkin"
  /\ \/ /\ Alive(slot[c])
        /\ idle' = Append(idle, slot[c])
        /\ Leave(c)
     \/ /\ ~Alive(slot[c])
        /\ Goto(c, "release")
        /\ UNCHANGED <<idle, slot, request, answer>>
  /\ UNCHANGED <<created, helper, bounds>>

\* Mutant: a dead helper is checked in without being discounted.
ReleaseUncounted(c) ==
  /\ pc[c] = "release" /\ LockFree
  /\ Leave(c)
  /\ UNCHANGED <<pool, helper, bounds>>

\* A dead one is discounted, and no waiter is told.
Release(c) ==
  /\ pc[c] = "release" /\ LockFree
  /\ created' = OneFewer
  /\ Leave(c)
  /\ UNCHANGED <<idle, helper, bounds>>

----
(* The helper processes *)

\* One turn of the helper's loop: read a request, write its response, whose
\* first bytes may be in the pipe long before the end of the line.
Respond(h) ==
  /\ proc[h] = "up" /\ h \notin half
  /\ stdin[h] # <<>>
  /\ stdout' = [stdout EXCEPT ![h] = Append(@, Head(stdin[h]))]
  /\ stdin' = [stdin EXCEPT ![h] = Tail(@)]
  /\ half' = half \cup {h}
  /\ UNCHANGED <<pool, caller, proc, bounds>>

EndLine(h) ==
  /\ proc[h] = "up" /\ h \in half
  /\ half' = half \ {h}
  /\ UNCHANGED <<pool, caller, proc, stdin, stdout, bounds>>

\* What it has not read is lost; a line it has not ended ends there.
Crash(h) ==
  /\ proc[h] = "up"
  /\ faults < MaxFaults
  /\ faults' = faults + 1
  /\ proc' = [proc EXCEPT ![h] = "dead"]
  /\ stdin' = [stdin EXCEPT ![h] = <<>>]
  /\ half' = half \ {h}
  /\ UNCHANGED <<pool, caller, stdout, started, numbered, noise>>

\* The system reaps a killed helper.
Exits(h) ==
  /\ proc[h] = "dying"
  /\ proc' = [proc EXCEPT ![h] = "dead"]
  /\ stdin' = [stdin EXCEPT ![h] = <<>>]
  /\ half' = half \ {h}
  /\ UNCHANGED <<pool, caller, stdout, bounds>>

\* The driver prints a line of its own.
Prints(h) ==
  /\ proc[h] = "up" /\ h \notin half
  /\ noise < MaxNoise
  /\ noise' = noise + 1
  /\ stdout' = [stdout EXCEPT ![h] = Append(@, Noise)]
  /\ UNCHANGED <<pool, caller, proc, stdin, half, started, numbered, faults>>

----
Proceed(c) ==
  \/ Get(c) \/ Drop(c) \/ Grow(c) \/ Block(c) \/ Regrow(c)
  \/ StartEnds(c) \/ StartFails(c) \/ Submit(c)
  \/ Select(c) \/ Read(c) \/ ReadEnd(c) \/ GiveUp(c) \/ Kill(c)
  \/ Checkin(c) \/ Release(c)

Next ==
  \/ \E c \in Callers : Call(c) \/ Proceed(c)
  \/ \E h \in Helpers : Respond(h) \/ EndLine(h) \/ Crash(h) \/ Exits(h) \/ Prints(h)

Spec == Init /\ [][Next]_vars

\* A thread in a query keeps running and a killed process dies.  Nothing is
\* assumed of a helper: neither that it answers, nor that it ends a line it has
\* begun, nor that it ever gets ready or fails to; and no line is read with a
\* timeout.
Fairness ==
  /\ \A c \in Callers : WF_vars(pc[c] # "starting" /\ Proceed(c))
  /\ \A h \in Helpers : WF_vars(Exits(h))

FairSpec == Spec /\ Fairness

----
(* Safety *)

Holders == {c \in Callers : pc[c] \in Holding}

\* The counter is exact at every step: it counts the queue and the callers
\* that have, start or are about to discount a helper.  So the pool never
\* grows beyond its size and no path loses or counts a helper twice.
CreatedIsExact == created = Len(idle) + Cardinality(Holders)

\* A helper serves one query at a time: it is in the queue once, or in the
\* hands of one caller, whatever died or was killed meanwhile.
ExclusiveUse ==
  /\ \A i, j \in DOMAIN idle : idle[i] = idle[j] => i = j
  /\ \A c \in Holders : slot[c] # 0 /\ \A i \in DOMAIN idle : idle[i] # slot[c]
  /\ \A c, d \in Holders : slot[c] = slot[d] => c = d

\* A query returns the result of its own SQL or raises: it never gets the
\* late answer a killed helper still wrote for the caller before it, nor one
\* shifted by a stray line.
AnswerIsOwn ==
  \A c \in Callers : answer[c] \in {c, None}

\* A running helper in the queue has answered all it was asked, and its
\* answers were read, so the next query starts on a clean pipe: as long as
\* no driver printed a line (one shifts every later response of its helper).
IdleHelperIsQuiet ==
  noise = 0 =>
    \A i \in DOMAIN idle :
      LET h == idle[i] IN proc[h] = "up" => stdin[h] = <<>> /\ stdout[h] = <<>>

----
(* Deadlock *)

\* c waits on the queue although the pool has room for another helper: a
\* helper died, was discounted, and nothing was put in the queue for c.
Stranded(c) == pc[c] = "block" /\ created < PoolSize

\* The bound of Helpers holds up nobody who may start one: each helper that
\* was replaced cost a fault, or a query that killed it.
HelpersSuffice ==
  \A c \in Callers :
    (pc[c] = "grow" /\ created < PoolSize) \/ pc[c] = "regrow" => started + 1 \in Helpers

\* c is in readline() and its helper has begun a line that it does not end: the
\* timeout was for the first byte only.
Held(c) ==
  /\ pc[c] = "reading" /\ Alive(slot[c])
  /\ ~LineEnded(slot[c])

\* c can go on with no help of a helper or of another caller.
Moves(c) ==
  \/ pc[c] \in {"get", "await", "kill", "checkin"}
  \/ pc[c] = "reading" /\ ~Held(c)
  \/ pc[c] = "block" /\ idle # <<>>
  \/ pc[c] \in {"drop", "grow", "regrow", "submit", "release"} /\ LockFree

\* While there are queries somebody can move, unless a helper is being started,
\* somebody is stranded, or a helper stalls in the middle of a line: callers
\* never wait for each other in a circle.
NeverStuck ==
  LockFree /\ (\E c \in Callers : pc[c] \notin {"idle", "done"}) =>
    \E c \in Callers : Moves(c) \/ Stranded(c) \/ Held(c)

----
(* Liveness *)

\* Once no more queries come, every thread has returned from its own, although
\* helpers hang, crash and fail to start.  Three waits are without a timeout and
\* may last: one can be left stranded; a helper that stalls in the middle of a
\* line holds its caller, and with it those who wait on the queue; one that hangs
\* while it starts holds up the pool, its caller keeping the lock.
DrainsOrStrands ==
  \/ <>[](\A c \in Callers :
            \/ pc[c] \in {"idle", "done"} \/ Stranded(c) \/ Held(c)
            \/ pc[c] = "block" /\ \E d \in Callers : Held(d))
  \/ <>[]~LockFree
====
