---------------------------- MODULE PacmanSource ----------------------------
(***************************************************************************)
(* The watcher of pacman's log (sources/pacman.py) on the bridge from the  *)
(* observer's thread to the event loop (sources/base.py, WatchdogSource):  *)
(* the thread puts a request in a queue and then asks the loop to set an   *)
(* event; the bridge task clears the event, drains the queue and starts a  *)
(* timer; the timer makes a task, which reads the new lines in a worker    *)
(* thread while it holds the lock, and publishes them.                     *)
(*                                                                         *)
(* The log is a sequence of numbered lines, and a position is a number of  *)
(* lines.  pacman writes whole lines.                                      *)
(***************************************************************************)
EXTENDS Integers, Sequences, SequencesExt

CONSTANTS
  MaxLines,   (* Bound: lines written.                                     *)
  MaxTasks    (* Bound: tasks that wait for the lock.                      *)

ASSUME PacmanSourceAssumption ==
  MaxLines \in Nat /\ MaxTasks \in Nat \ {0}

VARIABLES
  observer,   (* "off"; "set_up", when the log has been measured; "on".    *)
  log,        (* The lines of the log.                                     *)
  written,    (* History: the number of lines ever written.                *)
  modified,   (* The observer has a modification to report.                *)
  handler,    (* The handler in the observer's thread: "idle", "has_put".  *)
  requests,   (* The requests in the bridge queue.                         *)
  asked,      (* The loop has been asked to set the event.                 *)
  awake,      (* The event of the bridge.                                  *)
  timer,      (* Is the debounce timer running?                            *)
  waiting,    (* The tasks that wait for the lock.                         *)
  reader,     (* The task that has it: "none", "reading", "read".          *)
  found,      (* What its worker thread has read: lines and new position.  *)
  file_pos,   (* The position up to which the log has been read.           *)
  published,  (* History: the lines published, in order.                   *)
  behind      (* History: the lines that may stay hidden: written before   *)
              (* the observer was on, not yet read when a rotation came,   *)
              (* at a position of the new log that counts as read, or in   *)
              (* the way of a read that failed.                            *)

vars == << observer, log, written, modified, handler, requests, asked, awake, timer,
           waiting, reader, found, file_pos, published, behind >>

Nothing == [lines |-> << >>, pos |-> 0]

Init ==
  /\ observer = "off"
  /\ log = << >>
  /\ written = 0
  /\ modified = FALSE
  /\ handler = "idle"
  /\ requests = 0
  /\ asked = FALSE
  /\ awake = FALSE
  /\ timer = FALSE
  /\ waiting = 0
  /\ reader = "none"
  /\ found = Nothing
  /\ file_pos = 0
  /\ published = << >>
  /\ behind = {}

-----------------------------------------------------------------------------
(* start(): what the log holds is left alone, and a change is reported     *)
(* from the moment on that the observer's thread watches.                  *)

SetUp ==
  /\ observer = "off"
  /\ observer' = "set_up"
  /\ file_pos' = Len(log)
  /\ UNCHANGED << log, written, modified, handler, requests, asked, awake,
                  timer, waiting, reader, found, published, behind >>

Watch ==
  /\ observer = "set_up"
  /\ observer' = "on"
  /\ UNCHANGED << log, written, modified, handler, requests, asked, awake,
                  timer, waiting, reader, found, file_pos, published, behind >>

-----------------------------------------------------------------------------
(* pacman and logrotate.                                                   *)

(* A new line of the log that is not past the position is taken for read.  *)
Write ==
  /\ written < MaxLines
  /\ written' = written + 1
  /\ log' = Append(log, written + 1)
  /\ modified' = (modified \/ observer = "on")
  /\ behind' = IF observer # "on" \/ Len(log) < file_pos \/ Len(log) < found.pos
               THEN behind \union {written + 1} ELSE behind
  /\ UNCHANGED << observer, handler, requests, asked, awake, timer, waiting, reader,
                  found, file_pos, published >>

Rotate ==
  /\ log # << >>
  /\ log' = << >>
  /\ behind' = behind \union {log[i] : i \in {k \in DOMAIN log : k > file_pos}}
  /\ UNCHANGED << observer, written, modified, handler, requests, asked, awake, timer,
                  waiting, reader, found, file_pos, published >>

-----------------------------------------------------------------------------
(* The observer's thread: on_modified() puts the request, then asks.       *)

HandlerPuts ==
  /\ modified
  /\ handler = "idle"
  /\ modified' = FALSE
  /\ requests' = requests + 1
  /\ handler' = "has_put"
  /\ UNCHANGED << observer, log, written, asked, awake, timer, waiting, reader, found,
                  file_pos, published, behind >>

HandlerAsks ==
  /\ handler = "has_put"
  /\ asked' = TRUE
  /\ handler' = "idle"
  /\ UNCHANGED << observer, log, written, modified, requests, awake, timer, waiting,
                  reader, found, file_pos, published, behind >>

-----------------------------------------------------------------------------
(* The event loop.                                                         *)

LoopSets ==
  /\ asked
  /\ asked' = FALSE
  /\ awake' = TRUE
  /\ UNCHANGED << observer, log, written, modified, handler, requests, timer, waiting,
                  reader, found, file_pos, published, behind >>

(* Each request cancels the timer that runs and starts another.            *)
BridgeDrains ==
  /\ awake
  /\ awake' = FALSE
  /\ timer' = (timer \/ requests > 0)
  /\ requests' = 0
  /\ UNCHANGED << observer, log, written, modified, handler, asked, waiting, reader,
                  found, file_pos, published, behind >>

(* Seeded fault: nothing is read while a read is under way.                *)
OneTaskAtMost == IF reader = "none" THEN waiting + 1 ELSE waiting

OneTaskMore == waiting + 1

TimerFires ==
  /\ timer
  /\ waiting < MaxTasks
  /\ timer' = FALSE
  /\ waiting' = OneTaskMore
  /\ UNCHANGED << observer, log, written, modified, handler, requests, asked, awake,
                  reader, found, file_pos, published, behind >>

TaskLocks ==
  /\ waiting > 0
  /\ reader = "none"
  /\ waiting' = waiting - 1
  /\ reader' = "reading"
  /\ UNCHANGED << observer, log, written, modified, handler, requests, asked, awake,
                  timer, found, file_pos, published, behind >>

(* Seeded fault: each read starts from the first line.                     *)
StartFromTop == 0

ReadFrom == IF Len(log) < file_pos THEN 0 ELSE file_pos

ReadTo == Len(log)

(* _read_new_lines() in a worker thread.                                   *)
ThreadReads ==
  /\ reader = "reading"
  /\ reader' = "read"
  /\ found' = [lines |-> SubSeq(log, ReadFrom + 1, Len(log)), pos |-> ReadTo]
  /\ UNCHANGED << observer, log, written, modified, handler, requests, asked, awake,
                  timer, waiting, file_pos, published, behind >>

(* The log is missing, or it may not be read or be decoded: the position   *)
(* is kept, and what could not be read waits for another notice.           *)
ReadFails ==
  /\ reader = "reading"
  /\ reader' = "none"
  /\ behind' = behind \union {log[i] : i \in {k \in DOMAIN log : k > ReadFrom}}
  /\ UNCHANGED << observer, log, written, modified, handler, requests, asked,
                  awake, timer, waiting, found, file_pos, published >>

TaskPublishes ==
  /\ reader = "read"
  /\ reader' = "none"
  /\ file_pos' = found.pos
  /\ published' = published \o found.lines
  /\ found' = Nothing
  /\ UNCHANGED << observer, log, written, modified, handler, requests, asked, awake,
                  timer, waiting, behind >>

Handler == HandlerPuts \/ HandlerAsks

Loop ==
  \/ LoopSets
  \/ BridgeDrains
  \/ TimerFires
  \/ TaskLocks
  \/ ThreadReads
  \/ ReadFails
  \/ TaskPublishes

Next == SetUp \/ Watch \/ Write \/ Rotate \/ Handler \/ Loop

Spec == Init /\ [][Next]_vars

(* The observer's thread runs, and so does each callback and task of the   *)
(* event loop; the timer fires once the log is left alone for 0.2 s.       *)
FairSpec ==
  /\ Spec
  /\ WF_vars(Handler)
  /\ WF_vars(LoopSets) /\ WF_vars(BridgeDrains) /\ WF_vars(TimerFires)
  /\ WF_vars(TaskLocks) /\ WF_vars(ThreadReads) /\ WF_vars(TaskPublishes)

-----------------------------------------------------------------------------
(* Each variable has its type.                                             *)
TypeOK ==
  /\ observer \in {"off", "set_up", "on"}
  /\ log \in Seq(1 .. written)
  /\ written \in 0 .. MaxLines
  /\ {modified, asked, awake, timer} \subseteq BOOLEAN
  /\ handler \in {"idle", "has_put"}
  /\ requests \in 0 .. MaxLines
  /\ waiting \in 0 .. MaxTasks
  /\ reader \in {"none", "reading", "read"}
  /\ found \in [lines : Seq(1 .. written), pos : 0 .. MaxLines]
  /\ file_pos \in 0 .. MaxLines
  /\ published \in Seq(1 .. written)
  /\ behind \subseteq 1 .. written

(* No line is published twice and none overtakes another, however many     *)
(* reads the timer has started (the lock, pacman.py:58-62).                *)
OnceInOrder ==
  \A i, j \in DOMAIN published : i < j => published[i] < published[j]

(* What is written while the observer watches is published some time: no   *)
(* lost wake-up between its thread, the bridge and the timer leaves a line *)
(* unread.  Only a rotation hides lines ("log rotation", pacman.py:23),    *)
(* those that were not read when it came and those that fill the new log   *)
(* up to the old position, and a read that fails, those that it should     *)
(* have found, until another line is written (base.py:130-178,             *)
(* pacman.py:21-30).                                                       *)
LinesComeThrough ==
  \A line \in 1 .. MaxLines :
    written >= line ~> line \in Range(published) \union behind
=============================================================================
