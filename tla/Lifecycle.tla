------------------------------ MODULE Lifecycle ------------------------------
(***************************************************************************)
(* The life of the application (app.py) over several runs of the process:  *)
(* start() boots the parts in order, stop() shuts them down in another,    *)
(* the state file of the crash detector (core/crash.py) tells the next run *)
(* how the last one ended, and the events that the sources publish go      *)
(* through the bus to the database.                                        *)
(*                                                                         *)
(* A step of start() or stop() is what it does for one part: each may      *)
(* suspend, and the process may be killed after it.  What the detector     *)
(* writes, publishes and subscribes is one step: the code suspends nowhere *)
(* between (app.py:93-108).  An event is a number, in the order in which   *)
(* the events of all runs were accepted; 0 is the sentinel of bus.stop().  *)
(***************************************************************************)
EXTENDS Integers, Sequences, FiniteSets, SequencesExt

CONSTANTS
  Polling,       (* The sources that publish from a task of theirs.        *)
  Buffering,     (* The sources that stop() makes flush a buffer.          *)
  Watching,      (* The sources that read in tasks they do not remember.   *)
  FailsToStart,  (* The parts whose start may raise.                       *)
  FailsToStop,   (* The parts whose stop may raise.                        *)
  QueueMax,      (* The size of the bus queue.                             *)
  MaxEvents,     (* Bound: events accepted.                                *)
  MaxRuns        (* Bound: runs of the process.                            *)

Sources == Polling \union Buffering \union Watching

Core == {"db", "bus", "llm", "ringlog", "detector", "scheduler", "hooks"}

ASSUME LifecycleAssumption ==
  /\ IsFiniteSet(Sources) /\ Sources \intersect Core = {}
  /\ QueueMax \in Nat \ {0}
  /\ {MaxEvents, MaxRuns} \subseteq Nat

VARIABLES
  state_file,  (* The file last-state; "unknown" when there is none.       *)
  rows,        (* The events committed to the database.                    *)
  start,       (* Where start() is.                                        *)
  stop,        (* Where stop() is.                                         *)
  at,          (* The step the one that runs has reached.                  *)
  up,          (* The parts that are up; "hooks" stands for _started.      *)
  wired,       (* Is the database subscribed to the bus?                   *)
  queue,       (* The queue of the bus.                                    *)
  holding,     (* The event being stored, 0 if none.                       *)
  buffered,    (* The sources with something in the buffer.                *)
  reading,     (* The sources with a read under way in a task of its own.  *)
  made,        (* History: the number of events accepted.                  *)
  unserved,    (* History: the events that the code is known to lose: of a *)
               (* read that outlives its source and the dispatcher, left   *)
               (* when the dispatcher of a full queue is cancelled, or     *)
               (* stored beside another write.                             *)
  base,        (* History: made when this run, the last one with a         *)
  prev,        (* detector, wrote "booted"; and the one before it.         *)
  ending,      (* History: how the last run of the process ended.          *)
  report,      (* History: what this run's detector found.                 *)
  runs         (* History: the runs of the process.                        *)

vars == << state_file, rows, start, stop, at, up, wired, queue, holding,
           buffered, reading, made, unserved, base, prev, ending, report, runs >>

durable == << state_file, rows >>
traffic == << queue, holding, buffered, reading, made, unserved >>
past == << base, prev, ending, report, runs >>

SourceOrder == SetToSeq(Sources)

StartOrder ==
  << "db", "bus", "llm", "ringlog", "detector" >> \o SourceOrder
    \o << "scheduler", "hooks" >>

(* Seeded faults: the detector is told first; the database is closed       *)
(* before the bus is drained; the ring log is forgotten.                   *)
DetectorFirst ==
  << "scheduler", "detector" >> \o Reverse(SourceOrder)
    \o << "llm", "bus", "ringlog", "db", "hooks" >>
DbFirst ==
  << "scheduler" >> \o Reverse(SourceOrder)
    \o << "llm", "db", "bus", "detector", "ringlog", "hooks" >>

RinglogForgotten ==
  << "scheduler" >> \o Reverse(SourceOrder)
    \o << "llm", "bus", "detector", "db", "hooks" >>

StopOrder ==
  << "scheduler" >> \o Reverse(SourceOrder)
    \o << "llm", "bus", "detector", "ringlog", "db", "hooks" >>

Init ==
  /\ state_file = "unknown"
  /\ rows = {}
  /\ start = "off"
  /\ stop = "idle"
  /\ at = 1
  /\ up = {}
  /\ wired = FALSE
  /\ queue = << >>
  /\ holding = 0
  /\ buffered = {}
  /\ reading = {}
  /\ made = 0
  /\ unserved = {}
  /\ base = 0
  /\ prev = 0
  /\ ending = "none"
  /\ report = "none"
  /\ runs = 0

Running == start # "off"

(* Bound: room is kept for the events that buffers and reads will make.    *)
MayMakeMore == made + Cardinality(buffered \union reading) < MaxEvents

Room == Len(queue) < QueueMax

(* bus.publish(): an event that finds the queue full is dropped.           *)
Offer ==
  IF Room
  THEN made' = made + 1 /\ queue' = Append(queue, made + 1)
  ELSE UNCHANGED << made, queue >>

-----------------------------------------------------------------------------
(* start().                                                                *)

Boot ==
  /\ ~Running
  /\ runs < MaxRuns
  /\ runs' = runs + 1
  /\ start' = "going"
  /\ at' = 1
  /\ report' = "none"
  /\ UNCHANGED << stop, up, wired, base, prev, ending >>
  /\ UNCHANGED << durable, traffic >>

Starts(part) == start = "going" /\ StartOrder[at] = part

StartPart(part) ==
  /\ Starts(part)
  /\ part \notin {"detector", "hooks"}
  /\ up' = up \union {part}
  /\ at' = at + 1
  /\ UNCHANGED << start, stop, wired >>
  /\ UNCHANGED << durable, traffic, past >>

CrashDetected == state_file = "booted"

(* on_start(), the report of a crash, and the subscriptions.               *)
StartDetector ==
  /\ Starts("detector")
  /\ CrashDetected => MayMakeMore
  /\ state_file' = "booted"
  /\ report' = IF CrashDetected THEN "crash" ELSE "clean"
  /\ IF CrashDetected THEN Offer ELSE UNCHANGED << made, queue >>
  /\ wired' = TRUE
  /\ up' = up \union {"detector"}
  /\ at' = at + 1
  /\ prev' = base
  /\ base' = made
  /\ UNCHANGED << rows, start, stop, holding, buffered, reading, unserved,
                  ending, runs >>

StartDone ==
  /\ Starts("hooks")
  /\ up' = up \union {"hooks"}
  /\ start' = "done"
  /\ at' = 1
  /\ UNCHANGED << stop, wired >>
  /\ UNCHANGED << durable, traffic, past >>

(* The exception leaves start(); what it has booted stays up.              *)
StartRaises ==
  /\ start = "going"
  /\ StartOrder[at] \in FailsToStart
  /\ start' = "failed"
  /\ UNCHANGED << stop, at, up, wired >>
  /\ UNCHANGED << durable, traffic, past >>

-----------------------------------------------------------------------------
(* The traffic: sources, jobs and the dispatcher of the bus.               *)

(* A polling source or a job of the scheduler publishes.                   *)
Publish(part) ==
  /\ part \in up \intersect (Polling \union {"scheduler"})
  /\ MayMakeMore
  /\ Offer
  /\ UNCHANGED << holding, buffered, reading, unserved, start, stop, at, up,
                  wired >>
  /\ UNCHANGED << durable, past >>

Stops(part) == stop = "going" /\ StopOrder[at] = part

(* The reader of a source fills its buffer, till stop() ends it.           *)
Buffer(source) ==
  /\ source \in up \intersect Buffering
  /\ ~Stops(source)
  /\ MayMakeMore
  /\ buffered' = buffered \union {source}
  /\ UNCHANGED << queue, holding, reading, made, unserved, start, stop, at, up, wired >>
  /\ UNCHANGED << durable, past >>

Flush(source) ==
  /\ source \in up \intersect buffered
  /\ Offer
  /\ buffered' = buffered \ {source}
  /\ UNCHANGED << holding, reading, unserved, start, stop, at, up, wired >>
  /\ UNCHANGED << durable, past >>

Read(source) ==
  /\ MayMakeMore
  /\ source \in up \intersect Watching
  /\ reading' = reading \union {source}
  /\ UNCHANGED << queue, holding, buffered, made, unserved, start, stop, at, up, wired >>
  /\ UNCHANGED << durable, past >>

(* Will the dispatcher come to what is published now?                      *)
Served == "bus" \in up /\ 0 \notin Range(queue)

(* The read ends and its event is published, be the source up or not.      *)
ReadEnds(source) ==
  /\ source \in reading
  /\ Offer
  /\ unserved' = unserved \union (IF Served THEN {} ELSE {made'} \ {made})
  /\ reading' = reading \ {source}
  /\ UNCHANGED << holding, buffered, start, stop, at, up, wired >>
  /\ UNCHANGED << durable, past >>

IsSentinel(event) == event = 0

(* Without a subscriber the event is gone.                                 *)
Take ==
  /\ "bus" \in up
  /\ holding = 0
  /\ queue # << >>
  /\ IF IsSentinel(Head(queue)) THEN up' = up \ {"bus"} ELSE UNCHANGED up
  /\ holding' = IF wired THEN Head(queue) ELSE 0
  /\ queue' = Tail(queue)
  /\ UNCHANGED << buffered, reading, made, unserved, start, stop, at, wired >>
  /\ UNCHANGED << durable, past >>

(* The insert is committed; without a database it is an error in the log.  *)
Store ==
  /\ holding # 0
  /\ rows' = IF "db" \in up THEN rows \union {holding} ELSE rows
  /\ holding' = 0
  /\ UNCHANGED << state_file, queue, buffered, reading, made, unserved, start,
                  stop, at, up, wired >>
  /\ UNCHANGED past

(* The insert meets the write of a job, or of one just cancelled, and is   *)
(* an error in the log (Database).                                         *)
StoreFails ==
  /\ holding # 0
  /\ "db" \in up
  /\ "scheduler" \in up \/ stop # "idle"
  /\ unserved' = unserved \union {holding}
  /\ holding' = 0
  /\ UNCHANGED << state_file, rows, queue, buffered, reading, made, start, stop,
                  at, up, wired >>
  /\ UNCHANGED past

-----------------------------------------------------------------------------
(* stop().                                                                 *)

StopBegins ==
  /\ stop = "idle"
  /\ start = "done"
  /\ stop' = "going"
  /\ at' = 1
  /\ UNCHANGED << start, up, wired >>
  /\ UNCHANGED << durable, traffic, past >>

(* Before _started is set, stop() returns at once.                         *)
StopTooEarly ==
  /\ stop = "idle"
  /\ start \in {"going", "failed"}
  /\ stop' = "returned"
  /\ UNCHANGED << start, at, up, wired >>
  /\ UNCHANGED << durable, traffic, past >>

StopPart(part) ==
  /\ Stops(part)
  /\ part \notin {"bus", "detector", "hooks"} \union buffered
  /\ up' = up \ {part}
  /\ at' = at + 1
  /\ UNCHANGED << start, stop, wired >>
  /\ UNCHANGED << durable, traffic, past >>

(* A source that has a buffer flushes it before it is down.                *)
StopFlushes(source) == Stops(source) /\ Flush(source)

(* bus.stop() puts its sentinel once, or cancels the dispatcher of a full  *)
(* queue, and waits for the dispatcher to end.                             *)
StopBus ==
  /\ Stops("bus")
  /\ "bus" \in up
  /\ \A i \in DOMAIN queue : queue[i] # 0
  /\ IF Room
     THEN queue' = Append(queue, 0) /\ UNCHANGED << up, holding, unserved >>
     ELSE /\ up' = up \ {"bus"}
          /\ holding' = 0
          /\ unserved' = unserved \union Range(queue) \union ({holding} \ {0})
          /\ UNCHANGED queue
  /\ UNCHANGED << buffered, reading, made, start, stop, at, wired >>
  /\ UNCHANGED << durable, past >>

StopBusEnds ==
  /\ Stops("bus")
  /\ "bus" \notin up
  /\ at' = at + 1
  /\ UNCHANGED << start, stop, up, wired >>
  /\ UNCHANGED << durable, traffic, past >>

StopDetector ==
  /\ Stops("detector")
  /\ state_file' = "clean"
  /\ up' = up \ {"detector"}
  /\ at' = at + 1
  /\ UNCHANGED << rows, start, stop, wired >>
  /\ UNCHANGED << traffic, past >>

StopDone ==
  /\ Stops("hooks")
  /\ up' = up \ {"hooks"}
  /\ stop' = "returned"
  /\ UNCHANGED << start, at, wired >>
  /\ UNCHANGED << durable, traffic, past >>

(* The exception leaves stop(); what it has not reached stays up.          *)
StopRaises ==
  /\ stop = "going"
  /\ StopOrder[at] \in FailsToStop
  /\ stop' = "raised"
  /\ UNCHANGED << start, at, up, wired >>
  /\ UNCHANGED << durable, traffic, past >>

Stopping ==
  \/ \E part \in Sources \union Core : StopPart(part)
  \/ \E source \in Sources : StopFlushes(source)
  \/ StopBus
  \/ StopBusEnds
  \/ StopDetector
  \/ StopDone

-----------------------------------------------------------------------------
(* The end of the process: all that is not durable is gone.                *)

Vanish(how) ==
  /\ start' = "off"
  /\ stop' = "idle"
  /\ at' = 1
  /\ up' = {}
  /\ wired' = FALSE
  /\ queue' = << >>
  /\ holding' = 0
  /\ buffered' = {}
  /\ reading' = {}
  /\ ending' = how
  /\ UNCHANGED << made, unserved, base, prev, report, runs >>
  /\ UNCHANGED durable

Kill == Running /\ Vanish("killed")

(* stop() has run to its end, of a start() that had.                       *)
StoppedInFull == stop = "returned" /\ start = "done" /\ "hooks" \notin up

(* After a stop() that came too early the event loop waits for the tasks   *)
(* it has (ui/bridge.py:35-37): only a kill ends the process.              *)
Exit ==
  \/ StoppedInFull /\ Vanish("stopped")
  \/ stop = "raised" /\ Vanish("raised")

FailedExit == stop = "idle" /\ start = "failed" /\ Vanish("failed")

Dispatcher == Take \/ Store \/ StoreFails

Next ==
  \/ Boot
  \/ \E part \in Sources \union Core : StartPart(part) \/ Publish(part)
  \/ StartDetector
  \/ StartDone
  \/ StartRaises
  \/ \E source \in Sources :
       \/ Buffer(source)
       \/ Flush(source)
       \/ Read(source)
       \/ ReadEnds(source)
  \/ Dispatcher
  \/ StopBegins
  \/ StopTooEarly
  \/ Stopping
  \/ StopRaises
  \/ Kill
  \/ Exit
  \/ FailedExit

Spec == Init /\ [][Next]_vars

-----------------------------------------------------------------------------
(* Each variable has its type.                                             *)
TypeOK ==
  /\ state_file \in {"unknown", "booted", "clean"}
  /\ {rows, unserved} \subseteq SUBSET (1 .. made)
  /\ start \in {"off", "going", "done", "failed"}
  /\ stop \in {"idle", "going", "returned", "raised"}
  /\ at \in 1 .. Len(StartOrder)
  /\ up \subseteq Sources \union Core
  /\ wired \in BOOLEAN
  /\ queue \in Seq(0 .. made) /\ Len(queue) <= QueueMax
  /\ holding \in 0 .. made
  /\ buffered \subseteq Buffering
  /\ reading \subseteq Watching
  /\ {made, base, prev, runs} \subseteq Nat
  /\ ending \in {"none", "killed", "stopped", "raised", "failed"}
  /\ report \in {"none", "crash", "clean"}

(* An event accepted in this run waits in the bus, is being stored, or is  *)
(* in the database, from the report of a crash to the last flush: none is  *)
(* taken before the database is subscribed or after it is closed           *)
(* (app.py:96-104, 137-153).                                               *)
NoneUnheard ==
  Running /\ report # "none" => \A e \in base + 1 .. made :
    e \in rows \union {holding} \union Range(queue) \union unserved

(* A start without a crash report means that nothing was lost: every event *)
(* that the run before had accepted is in the database, wherever that run  *)
(* was killed, but for those the code is known to lose (crash.py:41-69,    *)
(* app.py:137-153).                                                        *)
NotReportedMeansStored ==
  report = "clean" => prev + 1 .. base \subseteq rows \union unserved

(* "State file: ... writes "booted" on start, "clean" on stop"             *)
(* (ROADMAP.md:110): a run of which stop() came to its end is not reported *)
(* as crashed.                                                             *)
NoFalseReport ==
  Running /\ report = "crash" => ending # "stopped"

(* What a start says of the run before is right: of a clean one nothing    *)
(* is lost, and one that was stopped is clean (crash.py:41-69).            *)
ReportIsRight == NotReportedMeansStored /\ NoFalseReport

(* "Shut down all subsystems in reverse order." (app.py:130): when stop()  *)
(* has come to its end no part is up.                                      *)
ShutsDownAll == StoppedInFull => up = {}
=============================================================================
