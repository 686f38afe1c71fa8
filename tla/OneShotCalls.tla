---------------------------- MODULE OneShotCalls ----------------------------
(***************************************************************************)
(* What the bridge promises a caller on the Qt thread (ui/bridge.py): a    *)
(* coroutine is refused at once, or it is accepted and comes to its end,   *)
(* once; only one accepted after the loop was asked to stop may be lost,   *)
(* and others when it is asked a second time.                              *)
(***************************************************************************)
EXTENDS Naturals

CONSTANT Calls

VARIABLES
  phase,   (* "none", "refused", "accepted", "done" or "lost".             *)
  late,    (* The calls accepted after a stop was asked for.               *)
  stops    (* How often it was, capped at 2.                               *)

Init ==
  /\ phase = [c \in Calls |-> "none"]
  /\ late = {}
  /\ stops = 0

Turns(c, from, to) ==
  /\ phase[c] = from
  /\ phase' = [phase EXCEPT ![c] = to]

Refuse(c) == Turns(c, "none", "refused") /\ UNCHANGED << late, stops >>

Accept(c) ==
  /\ Turns(c, "none", "accepted")
  /\ late' = IF stops = 0 THEN late ELSE late \union {c}
  /\ UNCHANGED stops

(* It returns or raises, and may ask for the stop.                         *)
Finish(c) ==
  /\ Turns(c, "accepted", "done")
  /\ \/ UNCHANGED stops
     \/ stops' = IF stops = 2 THEN 2 ELSE stops + 1
  /\ UNCHANGED late

(* The loop ends.                                                          *)
Lose(calls) ==
  /\ calls # {}
  /\ \A c \in calls : phase[c] = "accepted" /\ (c \in late \/ stops = 2)
  /\ phase' = [c \in Calls |-> IF c \in calls THEN "lost" ELSE phase[c]]
  /\ UNCHANGED << late, stops >>

Next ==
  \/ \E c \in Calls : Refuse(c) \/ Accept(c) \/ Finish(c)
  \/ \E calls \in SUBSET Calls : Lose(calls)

Spec == Init /\ [][Next]_<< phase, late, stops >>
=============================================================================
