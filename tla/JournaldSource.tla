--------------------------- MODULE JournaldSource ---------------------------
(***************************************************************************)
(* The journald source (sources/journald.py): a reader thread appends      *)
(* journal entries to a bounded buffer, a batcher coroutine flushes the    *)
(* buffer to the event bus, and stop() ends both and flushes once more.    *)
(*                                                                         *)
(* The thread and the event loop interleave at every buffer operation; two *)
(* coroutines interleave only where the running one suspends.  An entry is *)
(* named by its position in the journal.  The deduplication filter is any  *)
(* decision (EventDedup says which), and publishing always succeeds here   *)
(* (EventBus says when an event is dropped).                               *)
(***************************************************************************)
EXTENDS Integers, Sequences, FiniteSets, Functions

CONSTANTS
  BufferMax,    (* BUFFER_MAXLEN: the deque evicts its oldest entry.       *)
  YieldEvery,   (* FLUSH_YIELD_EVERY.                                      *)
  BatchTicks,   (* batch_ticks: batcher wake-ups between normal flushes.   *)
  HasDedup,     (* Was a dedup filter given?                               *)
  MaxEntries    (* Bound: entries in the journal.                          *)

(* The priorities the code tells apart: up to CRIT, ERR, and above ERR but *)
(* from the kernel.                                                        *)
Kinds == {"crit", "err", "kernel_notice"}

(* Who may run _flush_buffer.                                              *)
Flushers == {"batcher", "stop"}

VARIABLES
  journal,      (* The kinds of the entries read so far.                   *)
  reader,       (* Where the reader thread is.                             *)
  buffer,       (* _buffer.                                                *)
  urgent,       (* _urgent.                                                *)
  stop_event,   (* _stop_event.                                            *)
  grace,        (* Is the startup grace period still on?                   *)
  ticks,        (* ticks of the batcher, up to BatchTicks.                 *)
  at,           (* Where each flusher is.                                  *)
  entries,      (* The local list of each _flush_buffer call.              *)
  count,        (* published, the local counter of each call.              *)
  stopper,      (* Where stop() is.                                        *)
  published,    (* History: entries handed to the bus, in order.           *)
  gone,         (* History: the entries that left the source otherwise, by *)
                (* reason.                                                 *)
  atStop        (* History: the entries read but not yet out when stop()   *)
                (* was called.                                             *)

vars == << journal, reader, buffer, urgent, stop_event, grace, ticks, at,
           entries, count, stopper, published, gone, atStop >>

Reasons == {"skipped", "evicted", "graced", "suppressed", "lost"}

Out == Range(published) \union UNION {gone[r] : r \in Reasons}

Init ==
  /\ journal = << >>
  /\ reader = "check"
  /\ buffer = << >>
  /\ urgent = FALSE
  /\ stop_event = FALSE
  /\ grace = TRUE
  /\ ticks = 0
  /\ at = [batcher |-> "asleep", stop |-> "off"]
  /\ entries = [f \in Flushers |-> << >>]
  /\ count = [f \in Flushers |-> 0]
  /\ stopper = "idle"
  /\ published = << >>
  /\ gone = [r \in Reasons |-> {}]
  /\ atStop = {}

(* Mark the entries of a set as gone for a reason.                         *)
Lose(set, reason) == gone' = [gone EXCEPT ![reason] = @ \union set]

loopVars == << grace, ticks, at, entries, count, stopper, published, atStop >>

-----------------------------------------------------------------------------
(* The reader thread.                                                      *)

(* The stop flag is read between two waits only, not between two entries.  *)
ReaderCheck ==
  /\ reader = "check"
  /\ reader' = IF stop_event THEN "done" ELSE "iterate"
  /\ UNCHANGED << journal, buffer, urgent, stop_event, gone >>
  /\ UNCHANGED loopVars

ReaderIterated ==
  /\ reader = "iterate"
  /\ reader' = "check"
  /\ UNCHANGED << journal, buffer, urgent, stop_event, gone >>
  /\ UNCHANGED loopVars

(* Any exception, in the set-up or in the loop, ends the thread.           *)
ReaderFails ==
  /\ reader \in {"check", "iterate"}
  /\ reader' = "done"
  /\ UNCHANGED << journal, buffer, urgent, stop_event, gone >>
  /\ UNCHANGED loopVars

(* Only priorities up to ERR are kept, whatever the transport.             *)
ReaderSkips ==
  /\ reader = "iterate"
  /\ Len(journal) < MaxEntries
  /\ journal' = Append(journal, "kernel_notice")
  /\ Lose({Len(journal) + 1}, "skipped")
  /\ UNCHANGED << reader, buffer, urgent, stop_event >>
  /\ UNCHANGED loopVars

BufferFull == Len(buffer) = BufferMax

ReaderAppends(kind) ==
  /\ reader = "iterate"
  /\ Len(journal) < MaxEntries
  /\ journal' = Append(journal, kind)
  /\ buffer' = Append(IF BufferFull THEN Tail(buffer) ELSE buffer, Len(journal) + 1)
  /\ Lose(IF BufferFull THEN {Head(buffer)} ELSE {}, "evicted")
  /\ reader' = IF kind = "crit" THEN "flag" ELSE "iterate"
  /\ UNCHANGED << urgent, stop_event >>
  /\ UNCHANGED loopVars

ReaderFlags ==
  /\ reader = "flag"
  /\ urgent' = TRUE
  /\ reader' = "iterate"
  /\ UNCHANGED << journal, buffer, stop_event, gone >>
  /\ UNCHANGED loopVars

Reader ==
  \/ ReaderCheck
  \/ ReaderIterated
  \/ ReaderFails
  \/ ReaderSkips
  \/ \E kind \in {"crit", "err"} : ReaderAppends(kind)
  \/ ReaderFlags

-----------------------------------------------------------------------------
(* _flush_buffer, run by f.  It suspends at "yield" only.                  *)

threadVars == << journal, reader, stop_event >>

BeginFlush(f) ==
  /\ at' = [at EXCEPT ![f] = "drain"]
  /\ entries' = [entries EXCEPT ![f] = << >>]
  /\ count' = [count EXCEPT ![f] = 0]

(* Seeded fault: the drain takes one entry and clears the deque, with what *)
(* the thread appended meanwhile.                                          *)
PopAndClear == << Head(buffer), << >> >>

(* The entry popleft() takes, and what it leaves.                          *)
PopLeft == << Head(buffer), Tail(buffer) >>

DrainOne(f) ==
  /\ at[f] = "drain"
  /\ buffer # << >>
  /\ entries' = [entries EXCEPT ![f] = Append(@, PopLeft[1])]
  /\ buffer' = PopLeft[2]
  /\ UNCHANGED << urgent, grace, ticks, at, count, stopper, published, gone, atStop >>
  /\ UNCHANGED threadVars

IsCrit(e) == journal[e] = "crit"

InOrder(places) ==
  {list \in [1 .. Cardinality(places) -> places] :
     Range(list) = places /\ \A i, j \in DOMAIN list : i < j => list[i] < list[j]}

(* The critical entries of a list, as they come in it.                     *)
Crits(list) ==
  {[k \in DOMAIN which |-> list[which[k]]] :
     which \in InOrder({i \in DOMAIN list : IsCrit(list[i])})}

(* The buffer is empty; the grace period lets CRIT and above through only. *)
Drained(f) ==
  /\ at[f] = "drain"
  /\ buffer = << >>
  /\ at' = [at EXCEPT ![f] = "publish"]
  /\ \E kept \in IF grace THEN Crits(entries[f]) ELSE {entries[f]} :
       entries' = [entries EXCEPT ![f] = kept]
  /\ Lose(IF grace THEN {e \in Range(entries[f]) : ~IsCrit(e)} ELSE {}, "graced")
  /\ UNCHANGED << buffer, urgent, grace, ticks, count, stopper, published, atStop >>
  /\ UNCHANGED threadVars

Next1(f) == Head(entries[f])

Suppress(f) ==
  /\ HasDedup
  /\ at[f] = "publish"
  /\ entries[f] # << >>
  /\ Lose({Next1(f)}, "suppressed")
  /\ entries' = [entries EXCEPT ![f] = Tail(@)]
  /\ UNCHANGED << buffer, urgent, grace, ticks, at, count, stopper, published, atStop >>
  /\ UNCHANGED threadVars

YieldDue(n) == n % YieldEvery = YieldEvery - 1

Publish(f) ==
  /\ at[f] = "publish"
  /\ entries[f] # << >>
  /\ published' = Append(published, Next1(f))
  /\ entries' = [entries EXCEPT ![f] = Tail(@)]
  /\ count' = [count EXCEPT ![f] = @ + 1]
  /\ at' = [at EXCEPT ![f] = IF YieldDue(count[f] + 1) THEN "yield" ELSE "publish"]
  /\ UNCHANGED << buffer, urgent, grace, ticks, stopper, gone, atStop >>
  /\ UNCHANGED threadVars

Resume(f) ==
  /\ at[f] = "yield"
  /\ at' = [at EXCEPT ![f] = "publish"]
  /\ UNCHANGED << buffer, urgent, grace, ticks, entries, count, stopper,
                  published, gone, atStop >>
  /\ UNCHANGED threadVars

Flush(f) ==
  \/ DrainOne(f)
  \/ Drained(f)
  \/ Suppress(f)
  \/ Publish(f)
  \/ Resume(f)

-----------------------------------------------------------------------------
(* The batcher.                                                            *)

(* Seeded fault: the count is compared with =, and urgent wake-ups skip it.*)
BatchExact == ticks + 1 = BatchTicks

BatchDue == ticks + 1 >= BatchTicks

(* The tick count only matters up to BatchTicks.                           *)
NextTick == IF ticks < BatchTicks THEN ticks + 1 ELSE ticks

(* A flush of an empty buffer returns at once.                             *)
FlushOrSleep ==
  IF buffer = << >> THEN UNCHANGED << at, entries, count >> ELSE BeginFlush("batcher")

WakeUrgent ==
  /\ at["batcher"] = "asleep"
  /\ urgent
  /\ urgent' = FALSE
  /\ ticks' = NextTick
  /\ FlushOrSleep
  /\ UNCHANGED << buffer, grace, stopper, published, gone, atStop >>
  /\ UNCHANGED threadVars

WakeBatch ==
  /\ at["batcher"] = "asleep"
  /\ ~urgent
  /\ BatchDue
  /\ ticks' = 0
  /\ FlushOrSleep
  /\ UNCHANGED << buffer, urgent, grace, stopper, published, gone, atStop >>
  /\ UNCHANGED threadVars

WakeIdle ==
  /\ at["batcher"] = "asleep"
  /\ ~urgent
  /\ ~BatchDue
  /\ ticks' = NextTick
  /\ UNCHANGED << buffer, urgent, grace, at, entries, count, stopper, published,
                  gone, atStop >>
  /\ UNCHANGED threadVars

(* Seeded fault: the urgent flag is cleared after the flush, not before.   *)
FlushedThenCleared ==
  /\ at["batcher"] = "publish"
  /\ entries["batcher"] = << >>
  /\ at' = [at EXCEPT !["batcher"] = "asleep"]
  /\ urgent' = FALSE
  /\ UNCHANGED << buffer, grace, ticks, entries, count, stopper, published,
                  gone, atStop >>
  /\ UNCHANGED threadVars

BatcherFlushed ==
  /\ at["batcher"] = "publish"
  /\ entries["batcher"] = << >>
  /\ at' = [at EXCEPT !["batcher"] = "asleep"]
  /\ UNCHANGED << buffer, urgent, grace, ticks, entries, count, stopper,
                  published, gone, atStop >>
  /\ UNCHANGED threadVars

Batcher ==
  \/ WakeUrgent
  \/ WakeBatch
  \/ WakeIdle
  \/ Flush("batcher")
  \/ BatcherFlushed

-----------------------------------------------------------------------------
(* stop().                                                                 *)

BatcherSuspended == at["batcher"] \in {"asleep", "yield"}

(* The reader task is cancelled, but the thread under it is not.           *)
StopBegin ==
  /\ stopper = "idle"
  /\ BatcherSuspended
  /\ stopper' = "cancelling"
  /\ stop_event' = TRUE
  /\ atStop' = (1 .. Len(journal)) \ Out
  /\ UNCHANGED << journal, reader, buffer, urgent, grace, ticks, at, entries,
                  count, published, gone >>

(* Seeded fault: stop() does not flush.                                    *)
NoFinalFlush == "publish"

(* Where the last flush begins: with an empty buffer it returns at once.   *)
FinalFlush == IF buffer = << >> THEN "publish" ELSE "drain"

(* The batcher dies where it is suspended, and with it the list of the     *)
(* flush it was in.  Then stop() flushes what is in the buffer.            *)
StopCancels ==
  /\ stopper = "cancelling"
  /\ BatcherSuspended
  /\ Lose(IF at["batcher"] = "yield" THEN Range(entries["batcher"]) ELSE {}, "lost")
  /\ entries' = [f \in Flushers |-> << >>]
  /\ at' = [batcher |-> "off", stop |-> FinalFlush]
  /\ stopper' = "flushing"
  /\ UNCHANGED << buffer, urgent, grace, ticks, count, published, atStop >>
  /\ UNCHANGED threadVars

StopReturns ==
  /\ stopper = "flushing"
  /\ at["stop"] = "publish"
  /\ entries["stop"] = << >>
  /\ at' = [at EXCEPT !["stop"] = "off"]
  /\ stopper' = "stopped"
  /\ UNCHANGED << buffer, urgent, grace, ticks, entries, count, published, gone, atStop >>
  /\ UNCHANGED threadVars

Stop ==
  \/ StopCancels
  \/ Flush("stop")
  \/ StopReturns

GraceEnds ==
  /\ grace
  /\ grace' = FALSE
  /\ UNCHANGED << journal, reader, buffer, urgent, stop_event, ticks, at,
                  entries, count, stopper, published, gone, atStop >>

Next ==
  \/ Reader
  \/ Batcher
  \/ StopBegin
  \/ Stop
  \/ GraceEnds

Spec == Init /\ [][Next]_vars

(* The event loop runs the batcher and a stop() that was begun; the thread *)
(* gets to set the flag after it appended.                                 *)
Fairness ==
  /\ WF_vars(Batcher)
  /\ WF_vars(Stop)
  /\ WF_vars(ReaderFlags)

FairSpec == Spec /\ Fairness

-----------------------------------------------------------------------------
(* Each variable has its type.                                             *)
TypeOK ==
  /\ journal \in Seq(Kinds)
  /\ reader \in {"check", "iterate", "flag", "done"}
  /\ buffer \in Seq(1 .. Len(journal)) /\ Len(buffer) <= BufferMax
  /\ {urgent, stop_event, grace} \subseteq BOOLEAN
  /\ ticks \in 0 .. BatchTicks
  /\ at \in [Flushers -> {"off", "asleep", "drain", "publish", "yield"}]
  /\ entries \in [Flushers -> Seq(1 .. Len(journal))]
  /\ count \in [Flushers -> Nat]
  /\ stopper \in {"idle", "cancelling", "flushing", "stopped"}
  /\ published \in Seq(1 .. Len(journal))
  /\ gone \in [Reasons -> SUBSET (1 .. Len(journal))]
  /\ atStop \subseteq 1 .. Len(journal)

(* Every entry read is in exactly one place: the buffer, the list of a     *)
(* flush, the bus, or gone for one reason; and no list holds one twice.    *)
Holders(e) ==
  Cardinality({x \in {"buffer"} : e \in Range(buffer)})
  + Cardinality({f \in Flushers : e \in Range(entries[f])})
  + Cardinality({i \in DOMAIN published : published[i] = e})
  + Cardinality({r \in Reasons : e \in gone[r]})

EveryEntryOnce == \A e \in 1 .. Len(journal) : Holders(e) = 1

(* Entries reach the bus in journal order: the thread, the batcher and the *)
(* final flush of stop() never overtake each other.                        *)
PublishedInOrder ==
  \A i, j \in DOMAIN published : i < j => published[i] < published[j]

(* Each entry is at one place or gone for one reason, and those that are   *)
(* published are so in journal order, whatever the threads interleave      *)
(* (journald.py:184-190, 209-262).                                         *)
EntriesOnceInOrder == EveryEntryOnce /\ PublishedInOrder

(* A critical entry in the buffer is announced by the urgent flag, is about*)
(* to be, or is being drained: it never waits for the next normal flush    *)
(* (journald.py:184-186, 200-203).                                         *)
CritIsAnnounced ==
  (\E e \in Range(buffer) : IsCrit(e)) =>
    urgent \/ reader = "flag" \/ \E f \in Flushers : at[f] = "drain"

(* Every entry read leaves the source, or the source is stopped.           *)
EveryEntryLeaves ==
  \A e \in 1 .. MaxEntries :
    (e <= Len(journal)) ~> (e \in Out \/ stopper # "idle")

(* What is in the buffer when stop() is called is flushed, once: only the  *)
(* entries a batcher had already drained can be lost.                      *)
StopFlushesBuffer ==
  stopper = "stopped" => \A e \in atStop : e \in Out
=============================================================================
