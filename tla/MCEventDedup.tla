---------------------------- MODULE MCEventDedup ----------------------------
(* An instance of EventDedup for TLC: two fingerprints of one source, and  *)
(* two configurations, either of which may replace the other; and beside   *)
(* it one of JournaldSource, which asks it about each entry.  There every  *)
(* answer is possible, so that the two are checked side by side: each      *)
(* behaviour is one of either, and the other keeps its initial state.      *)
EXTENDS EventDedup

CONSTANTS f1, f2, journald

MCFps == {f1, f2}
MCSources == {journald}
MCSourceOf == [fp \in MCFps |-> journald]
Wide == [window |-> 1, baseline |-> 2, max |-> 2]
Narrow == [window |-> 2, baseline |-> 1, max |-> 1]
MCConfigs == {Wide, Narrow}
MCStartTimes == {0, 5}

CONSTANTS BufferMax, YieldEvery, BatchTicks, HasDedup, MaxEntries

(* The code has 5000, 100 and two for each second between two batches.     *)
ASSUME BufferAssumption ==
  /\ BufferMax \in Nat \ {0}
  /\ YieldEvery \in Nat \ {0}
  /\ BatchTicks \in Nat
  /\ HasDedup \in BOOLEAN
  /\ MaxEntries \in Nat

VARIABLE moves   (* Which of the two takes the steps of the behaviour.     *)

VARIABLES journal, reader, buffer, urgent, stop_event, grace, ticks, at, entries,
          progress, stopper, published, gone, atStop

source ==
  << journal, reader, buffer, urgent, stop_event, grace, ticks, at, entries,
     progress, stopper, published, gone, atStop >>

J == INSTANCE JournaldSource WITH count <- progress

MCInit ==
  /\ Init /\ J!Init
  /\ \/ moves = "dedup"
     \/ moves = "source" /\ now = 0 /\ config = Wide

MCNext ==
  /\ UNCHANGED moves
  /\ \/ moves = "dedup" /\ Next /\ UNCHANGED source
     \/ moves = "source" /\ J!Next /\ UNCHANGED vars

Source(action) == moves = "source" /\ action /\ UNCHANGED << moves, vars >>

(* The fairness of JournaldSource!FairSpec.                                *)
MCSpec ==
  /\ MCInit /\ [][MCNext]_<< moves, vars, source >>
  /\ WF_source(Source(J!Batcher))
  /\ WF_source(Source(J!Stop))
  /\ WF_source(Source(J!ReaderFlags))

(* Each entry is at one place or gone for one reason, and those that are   *)
(* published are so in journal order (journald.py:184-190, 209-262).       *)
EntriesOnceInOrder == J!EntriesOnceInOrder

(* A critical entry never waits for the next normal flush                  *)
(* (journald.py:184-186, 200-203).                                         *)
CritIsAnnounced == J!CritIsAnnounced

(* What is in the buffer when stop() is called is flushed                  *)
(* (journald.py:86-104, 209-262).                                          *)
StopFlushesBuffer == J!StopFlushesBuffer

(* Every entry read leaves the source, or the source is stopped            *)
(* (journald.py:192-207).                                                  *)
EveryEntryLeaves == J!EveryEntryLeaves
=============================================================================
