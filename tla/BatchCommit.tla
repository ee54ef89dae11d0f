---- MODULE BatchCommit ----
(***************************************************************************)
(* What refresh coordination promises, with none of its mechanism: a batch *)
(* is a decision over the votes of its clients.  A batch is committed only *)
(* when every client it enrolled voted yes, a decision is never revised,   *)
(* and neither is a vote.  A batch may be aborted at any time.             *)
(*                                                                         *)
(* A yes vote is a client row marked COMPLETED, a no vote one marked       *)
(* FAILED or TIMED_OUT; one statement may cast the votes of several rows.  *)
(***************************************************************************)
EXTENDS Naturals

CONSTANTS
  Clients,     \* the monitored clients
  MaxBatches   \* bound on the number of batches ever opened

VARIABLES
  outcome,     \* outcome[b]: what became of batch b
  vote         \* vote[b][k]: what client k said about batch b

Batches == 1..MaxBatches

Outcomes == {"none", "open", "committed", "aborted"}
Votes == {"none", "working", "yes", "no"}

Init ==
  /\ outcome = [b \in Batches |-> "none"]
  /\ vote = [b \in Batches |-> [k \in Clients |-> "none"]]

Open(b) ==
  /\ outcome[b] = "none"
  /\ outcome' = [outcome EXCEPT ![b] = "open"]
  /\ UNCHANGED vote

Enrol(b) ==
  /\ outcome[b] # "none"
  /\ vote[b] = [k \in Clients |-> "none"]
  /\ vote' = [vote EXCEPT ![b] = [k \in Clients |-> "working"]]
  /\ UNCHANGED outcome

CastVotes ==
  /\ vote' \in [Batches -> [Clients -> Votes]]
  /\ \A b \in Batches, k \in Clients :
       \/ vote'[b][k] = vote[b][k]
       \/ vote[b][k] = "working" /\ vote'[b][k] \in {"yes", "no"}
  /\ UNCHANGED outcome

Commit(b) ==
  /\ outcome[b] = "open"
  /\ \A k \in Clients : vote[b][k] = "yes"
  /\ outcome' = [outcome EXCEPT ![b] = "committed"]
  /\ UNCHANGED vote

Abort(b) ==
  /\ outcome[b] = "open"
  /\ outcome' = [outcome EXCEPT ![b] = "aborted"]
  /\ UNCHANGED vote

Next ==
  \/ \E b \in Batches : Open(b) \/ Enrol(b) \/ Commit(b) \/ Abort(b)
  \/ CastVotes

vars == <<outcome, vote>>

Spec == Init /\ [][Next]_vars
====
