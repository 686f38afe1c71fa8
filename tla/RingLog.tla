------------------------------ MODULE RingLog ------------------------------
(***************************************************************************)
(* The ring log (core/ringlog.py): one writer (the event loop) appends     *)
(* lines to current.log and rotates it when it is full, a daemon thread    *)
(* syncs it every sync_interval seconds, and the process may be killed or  *)
(* the machine lose its power at any step.                                 *)
(*                                                                         *)
(* A line is named by the order in which the lines were written.  An       *)
(* archive is named by the second of its rotation.  What was synced        *)
(* survives a power loss; of the rest of current.log any prefix does.  The *)
(* file system keeps its names, which the code does not sync.              *)
(***************************************************************************)
EXTENDS Integers, Sequences, FiniteSets, SequencesExt

CONSTANTS
  MaxLines,        (* max_lines.                                           *)
  MaxArchives,     (* max_archives.                                        *)
  SyncInterval,    (* sync_interval, in seconds.                           *)
  TailLines,       (* The number of lines read_tail is asked for.          *)
  MaxWrites,       (* Bound: lines written.                                *)
  MaxClock,        (* Bound: the latest local time.                        *)
  MaxBack,         (* Bound: how often the clock is put back.              *)
  MaxCrashes       (* Bound: crashes.                                      *)

ASSUME RingLogAssumption ==
  /\ {MaxLines, MaxArchives, SyncInterval, TailLines} \subseteq Nat \ {0}
  /\ {MaxWrites, MaxClock, MaxBack, MaxCrashes} \subseteq Nat

VARIABLES
  current,      (* The lines of current.log; << >> also when it is absent. *)
  archives,     (* The archive files: [name, lines, unsynced].             *)
  synced,       (* How many lines of current.log are on the disk.          *)
  fd,           (* _fd: is current.log open?                               *)
  line_count,   (* _line_count.                                            *)
  lock,         (* _lock: "free", or who holds it.                         *)
  writer,       (* Where the writer is.                                    *)
  sync,         (* Where the sync thread is.                               *)
  wait,         (* How long it has been waiting.                           *)
  clock,        (* Local time.                                             *)
  lines,        (* History: what was written, [critical, at].              *)
  log,          (* History: the lines written and not lost in a crash, in  *)
                (* order.                                                  *)
  promised,     (* History: the critical lines whose sync has returned.    *)
  apart,        (* History: was the name of each archive later than those  *)
                (* that were there?                                        *)
  back,         (* History: how often the clock was put back.              *)
  crashes       (* History: how many crashes there were.                   *)

vars == << current, archives, synced, fd, line_count, lock, writer, sync,
           wait, clock, lines, log, promised, apart, back, crashes >>

disk == << current, archives, synced >>
past == << lines, log, promised, apart, back, crashes >>

LastN(s, n) == SubSeq(s, IF Len(s) > n THEN Len(s) - n + 1 ELSE 1, Len(s))

Init ==
  /\ current = << >>
  /\ archives = {}
  /\ synced = 0
  /\ fd = FALSE
  /\ line_count = 0
  /\ lock = "free"
  /\ writer = "down"
  /\ sync = "dead"
  /\ wait = 0
  /\ clock = 0
  /\ lines = << >>
  /\ log = << >>
  /\ promised = {}
  /\ apart = TRUE
  /\ back = 0
  /\ crashes = 0

-----------------------------------------------------------------------------
(* open() and close().                                                     *)

ExistingLines == Len(current)

Open ==
  /\ writer = "down"
  /\ line_count' = ExistingLines
  /\ fd' = TRUE
  /\ writer' = "idle"
  /\ sync' = "waiting"
  /\ wait' = 0
  /\ UNCHANGED << lock, clock >>
  /\ UNCHANGED << disk, past >>

(* close() joins the sync thread before the last sync.                     *)
Close ==
  /\ writer = "idle"
  /\ sync \in {"waiting", "dead"}
  /\ synced' = IF fd THEN Len(current) ELSE synced
  /\ fd' = FALSE
  /\ sync' = "dead"
  /\ writer' = "down"
  /\ UNCHANGED << current, archives, line_count, lock, wait, clock >>
  /\ UNCHANGED past

-----------------------------------------------------------------------------
(* write(), sync_now() and _rotate(), on the event loop.                   *)

Full == line_count + 1 >= MaxLines

(* A critical line is followed by sync_now() in the same handler.          *)
Write(critical) ==
  /\ writer = "idle"
  /\ fd
  /\ lock = "free"
  /\ Len(lines) < MaxWrites
  /\ lines' = Append(lines, [critical |-> critical, at |-> clock])
  /\ current' = Append(current, Len(lines) + 1)
  /\ log' = Append(log, Len(lines) + 1)
  /\ line_count' = line_count + 1
  /\ lock' = IF Full THEN "writer" ELSE "free"
  /\ writer' = CASE Full -> "rotate"
                 [] ~Full /\ critical -> "sync"
                 [] OTHER -> "idle"
  /\ UNCHANGED << archives, synced, fd, sync, wait, clock, promised, apart,
                  back, crashes >>

(* fdatasync of an open file.                                              *)
Synced == IF fd THEN Len(current) ELSE synced

SyncNow ==
  /\ writer = "sync"
  /\ lock = "free"
  /\ synced' = Synced
  /\ promised' = promised \union {n \in Range(log) : lines[n].critical /\ fd}
  /\ writer' = "idle"
  /\ UNCHANGED << current, archives, fd, line_count, lock, sync, wait, clock >>
  /\ UNCHANGED << lines, log, apart, back, crashes >>

(* Seeded fault: the full log is closed without a sync.                    *)
ClosedUnsynced == synced

SyncedByRotation == Len(current)

(* The lines of the log that is being closed are synced.                   *)
RotateCloses ==
  /\ writer = "rotate"
  /\ synced' = SyncedByRotation
  /\ fd' = FALSE
  /\ writer' = "rename"
  /\ UNCHANGED << current, archives, line_count, lock, sync, wait, clock >>
  /\ UNCHANGED past

(* Renaming onto an existing name replaces the file.                       *)
RotateRenames ==
  /\ writer = "rename"
  /\ apart' = (apart /\ \A a \in archives : a.name < clock)
  /\ archives' = {a \in archives : a.name # clock}
       \union {[name |-> clock, lines |-> current, unsynced |-> Len(current) - synced]}
  /\ current' = << >>
  /\ synced' = 0
  /\ writer' = "prune"
  /\ UNCHANGED << fd, line_count, lock, sync, wait, clock >>
  /\ UNCHANGED << lines, log, promised, back, crashes >>

(* The rename fails: the exception leaves write() with the file closed.    *)
RenameFails ==
  /\ writer = "rename"
  /\ lock' = "free"
  /\ writer' = "idle"
  /\ UNCHANGED << fd, line_count, sync, wait, clock >>
  /\ UNCHANGED << disk, past >>

(* The place of an archive when the names are sorted, newest first.        *)
Newer(a) == {b \in archives : b.name > a.name}

(* Seeded fault: the newest archives are pruned.                           *)
KeepOldest ==
  {a \in archives : Cardinality({b \in archives : b.name < a.name}) < MaxArchives}

KeptArchives == {a \in archives : Cardinality(Newer(a)) < MaxArchives}

CountOfNewLog == 0

RotatePrunes ==
  /\ writer = "prune"
  /\ archives' = KeptArchives
  /\ writer' = "reopen"
  /\ UNCHANGED << current, synced, fd, line_count, lock, sync, wait, clock >>
  /\ UNCHANGED past

(* A critical line that filled the log still gets its sync_now().          *)
RotateReopens ==
  /\ writer = "reopen"
  /\ fd' = TRUE
  /\ line_count' = CountOfNewLog
  /\ lock' = "free"
  /\ writer' = IF lines[Len(lines)].critical THEN "sync" ELSE "idle"
  /\ UNCHANGED << sync, wait, clock >>
  /\ UNCHANGED << disk, past >>

Writer ==
  \/ \E critical \in BOOLEAN : Write(critical)
  \/ SyncNow
  \/ RotateCloses
  \/ RotateRenames
  \/ RenameFails
  \/ RotatePrunes
  \/ RotateReopens

-----------------------------------------------------------------------------
(* The sync thread: the file is looked at before the lock is taken.        *)

SyncDue == sync = "waiting" /\ wait >= SyncInterval

SyncLooks ==
  /\ SyncDue
  /\ sync' = IF fd THEN "locking" ELSE "waiting"
  /\ wait' = 0
  /\ UNCHANGED << fd, line_count, lock, writer, clock >>
  /\ UNCHANGED << disk, past >>

(* Without a file there is a TypeError, which ends the thread.             *)
SyncRuns ==
  /\ sync = "locking"
  /\ lock = "free"
  /\ synced' = Synced
  /\ sync' = IF fd THEN "waiting" ELSE "dead"
  /\ UNCHANGED << current, archives, fd, line_count, lock, writer, wait, clock >>
  /\ UNCHANGED past

-----------------------------------------------------------------------------
(* Time and crashes.                                                       *)

(* Writing, syncing and rotating take less than a second.                  *)
Settled ==
  /\ writer \in {"idle", "down"}
  /\ sync # "locking" \/ lock # "free"
  /\ ~SyncDue

Tick ==
  /\ Settled
  /\ clock < MaxClock
  /\ clock' = clock + 1
  /\ wait' = IF sync = "waiting" THEN wait + 1 ELSE wait
  /\ UNCHANGED << fd, line_count, lock, writer, sync >>
  /\ UNCHANGED << disk, past >>

(* The end of summer time, or a correction of the clock.                   *)
ClockGoesBack ==
  /\ back < MaxBack
  /\ clock > 0
  /\ clock' = clock - 1
  /\ back' = back + 1
  /\ UNCHANGED << fd, line_count, lock, writer, sync, wait >>
  /\ UNCHANGED << lines, log, promised, apart, crashes >>
  /\ UNCHANGED disk

(* keep lines of current.log are found after the crash.                    *)
Crash(keep) ==
  /\ writer # "down"
  /\ crashes < MaxCrashes
  /\ crashes' = crashes + 1
  /\ current' = SubSeq(current, 1, keep)
  /\ synced' = keep
  /\ log' = SubSeq(log, 1, Len(log) - (Len(current) - keep))
  /\ fd' = FALSE
  /\ lock' = "free"
  /\ writer' = "down"
  /\ sync' = "dead"
  /\ UNCHANGED << archives, line_count, wait, clock, lines, promised, apart, back >>

Next ==
  \/ Open
  \/ Close
  \/ Writer
  \/ SyncLooks
  \/ SyncRuns
  \/ Tick
  \/ ClockGoesBack
  \/ \E keep \in synced .. Len(current) : Crash(keep)

Spec == Init /\ [][Next]_vars

-----------------------------------------------------------------------------
(* Each variable has its type, and the archives are bounded: a crash in a  *)
(* rotation may leave one too many until the next.                         *)
TypeOK ==
  /\ current \in Seq(DOMAIN lines)
  /\ \A a \in archives : a.name \in Nat
  /\ Cardinality(archives) <= MaxArchives + crashes + (IF writer = "prune" THEN 1 ELSE 0)
  /\ synced \in 0 .. Len(current)
  /\ fd \in BOOLEAN
  /\ line_count \in Nat
  /\ lock \in {"free", "writer"}
  /\ writer \in {"down", "idle", "sync", "rotate", "rename", "prune", "reopen"}
  /\ sync \in {"waiting", "locking", "dead"}
  /\ {wait, clock, back, crashes} \subseteq Nat
  /\ apart \in BOOLEAN
  /\ log \in Seq(DOMAIN lines)
  /\ promised \subseteq DOMAIN lines

(* What read_tail(TailLines) returns: the end of the current log, filled   *)
(* up from the newest archive.                                             *)
ReadTail ==
  LET own == LastN(current, TailLines)
      more == TailLines - Len(own)
      newest == CHOOSE a \in archives : Newer(a) = {}
  IN IF more > 0 /\ archives # {} THEN LastN(newest.lines, more) \o own ELSE own

(* The tail a crash analysis reads is the end of the log: no gap, no       *)
(* disorder, and never fewer lines than one archive and the current log    *)
(* hold, as long as rotations are a second apart and the local time does   *)
(* not go back over one (ringlog.py:119-137, 150).                         *)
TailIsNewest ==
  apart /\ writer \in {"down", "idle"} =>
    /\ ReadTail = LastN(log, Len(ReadTail))
    /\ Len(log) >= MaxLines => Len(ReadTail) >= MaxLines \/ Len(ReadTail) = TailLines

(* A critical line whose sync_now() has returned is not lost in a power    *)
(* loss: it is on the disk until its archive is pruned (app.py:299-300).   *)
CriticalIsDurable ==
  \A n \in promised : n \in Range(log)

(* "Survives sudden power loss - at most sync_interval seconds of data     *)
(* lost" (ringlog.py:4-5): a line of the current log that a power loss     *)
(* would take is not older, and an archive holds none.                     *)
LossIsBounded ==
  /\ \A a \in archives : a.unsynced = 0
  /\ \A i \in synced + 1 .. Len(current) : clock - lines[current[i]].at <= SyncInterval

(* What a power loss may take: no critical line and no old one             *)
(* (ringlog.py:4-5, 110-117, 139-183).                                     *)
SurvivesPowerLoss == CriticalIsDurable /\ LossIsBounded
=============================================================================
