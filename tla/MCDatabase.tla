----------------------------- MODULE MCDatabase -----------------------------
(* Instances of Database for TLC, and beside it one of BatchAnalysis, the  *)
(* job that uses it.  The two share no variable, so that they are checked  *)
(* side by side: each behaviour is one of either, and the other keeps its  *)
(* initial state.                                                          *)
EXTENDS Database, TLC

CONSTANTS Interval, Limit, MaxLag, MaxEvents, MaxTime

(* The job's interval and the limit of its query are positive.             *)
ASSUME JobAssumption == {Interval, Limit} \subseteq Nat \ {0} /\ MaxLag \in Nat

VARIABLE moves   (* Which of the two takes the steps of the behaviour.     *)

VARIABLES now, events, available, pc, wake, since, batch, todo, fails, busy, outage, nulled

job == << now, events, available, pc, wake, since, batch, todo, fails, busy, outage, nulled >>

Job == INSTANCE BatchAnalysis

MCInit ==
  /\ Init /\ Job!Init
  /\ \/ moves = "database" /\ available
     \/ moves = "job" /\ columns = "none"

MCNext ==
  /\ UNCHANGED moves
  /\ \/ moves = "database" /\ Next /\ UNCHANGED job
     \/ moves = "job" /\ Job!Next /\ UNCHANGED vars

MCSpec == MCInit /\ [][MCNext]_<< moves, vars, job >>

(* An event goes without a summary only for a reason: its batch broke off, *)
(* it came while another one was analyzed, or the LLM answered null for it *)
(* (batch.py:56-110).                                                      *)
NoneIsLeftOut == Job!NoneIsLeftOut

Symmetry == Permutations(Writers)
=============================================================================
