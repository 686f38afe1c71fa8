----------------------------- MODULE MCEventBus -----------------------------
(* An instance of EventBus for TLC: one type of events, a subscriber that  *)
(* may take it by type, as a wildcard, or both ways, and two callers of    *)
(* stop().                                                                 *)
EXTENDS EventBus

CONSTANTS typeA, cb1, s1, s2

MCTypes == {typeA}
MCCallbacks == {cb1}
MCStoppers == {s1, s2}
=============================================================================
