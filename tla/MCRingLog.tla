----------------------------- MODULE MCRingLog -----------------------------
(* Instances of RingLog for TLC.                                           *)
EXTENDS RingLog
=============================================================================
