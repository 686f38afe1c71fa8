---------------------------- MODULE MCCollectors ----------------------------
(* An instance of Metrics for TLC, and beside it one of ExternalCollector: *)
(* the two collectors that poll.  They share no variable, so that they are *)
(* checked side by side: each behaviour is one of either, and the other    *)
(* keeps its initial state.                                                *)
EXTENDS Metrics

CONSTANTS Peers, Endpoints, Dumps, Files, Packages, SlowEvery, MaxTools,
          MaxOrphans, MaxCrashes

(* What is told of is told of under a name of its own.                     *)
ASSUME NamesAssumption ==
  /\ Peers \intersect Endpoints = {}
  /\ Dumps \intersect (Files \union Packages) = {}
  /\ Files \intersect Packages = {}

VARIABLE moves   (* Which of the two takes the steps of the behaviour.     *)

VARIABLES has, pc, tick, odd, peers, state, listed, first_scan, known_dumps,
          pacnew_read, known_pacnew, known_vulns, orphan_count, docker, stream,
          news, left, seen_up, crashed, reported, baseline, orphans_told, old, fresh,
          due, scanned, blank

external ==
  << has, pc, tick, odd, peers, state, listed, first_scan, known_dumps,
     pacnew_read, known_pacnew, known_vulns, orphan_count, docker, stream,
     news, left, seen_up, crashed, reported, baseline, orphans_told, old, fresh,
     due, scanned, blank >>

X == INSTANCE ExternalCollector WITH told <- reported

MCInit ==
  /\ Init /\ X!Init
  /\ \/ moves = "metrics" /\ has = {} /\ old = {}
     \/ moves = "external" /\ errors = [c \in Counters |-> 0]

MCNext ==
  /\ UNCHANGED moves
  /\ \/ moves = "metrics" /\ Next /\ UNCHANGED external
     \/ moves = "external" /\ X!Next /\ UNCHANGED vars

External(action) == moves = "external" /\ action /\ UNCHANGED << moves, vars >>

MCSpec ==
  /\ MCInit
  /\ [][MCNext]_<< moves, vars, external >>
  /\ WF_external(External(X!Poll))
  /\ WF_external(External(X!Reader))

(* What the tools found is told of, is told of once, and is what they      *)
(* found last, but for the exceptions that the parts of the invariant      *)
(* name (external.py:109-308).                                             *)
NewsIsToldOnce == X!NewsIsToldOnce

(* Exceptions end neither the polling nor the stream of docker, whatever   *)
(* ended it (base.py:72-78, external.py:82-107).                           *)
KeepsWatching == moves = "external" => X!KeepsWatching
=============================================================================
