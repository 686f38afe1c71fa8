---------------------------- MODULE RingLogProofs ----------------------------
(***************************************************************************)
(* Theorems about RingLog, for any number of lines, rotations, crashes    *)
(* and changes of the clock, and any sync interval.                        *)
(***************************************************************************)
EXTENDS RingLog, SequenceTheorems, FiniteSetTheorems, TLAPS

Rotating == {"rotate", "rename", "prune", "reopen"}

Types ==
  /\ lines \in Seq([critical : BOOLEAN, at : Nat])
  /\ current \in Seq(1 .. Len(lines))
  /\ log \in Seq(1 .. Len(lines))
  /\ Len(current) <= Len(log)
  /\ synced \in 0 .. Len(current)
  /\ clock \in Nat /\ wait \in Nat

(* Who has the lock; the sync thread lives as long as there is a file to   *)
(* sync; and where the file is closed, nothing in it is left to sync.      *)
Control ==
  /\ writer \in Rotating <=> lock # "free"
  /\ writer \in Rotating \union {"down", "idle", "sync"}
  /\ sync \in {"waiting", "locking", "dead"}
  /\ writer = "sync" => fd
  /\ writer = "down" => sync = "dead"
  /\ sync = "dead" => ~fd /\ writer \in {"down", "idle"}
  /\ ~fd => synced = Len(current)
  /\ writer = "rename" => ~fd

(* What a critical line is promised: that it is in the part of the log     *)
(* that no crash takes.                                                    *)
Safe == Len(log) - (Len(current) - synced)

PromisedIsSafe == \A n \in promised : \E i \in 1 .. Safe : log[i] = n

ArchivesAreSynced == \A a \in archives : a.unsynced = 0

(* The oldest line not synced is as old as the sync thread has waited.     *)
Age(i) == clock - lines[current[i]].at

UnsyncedIsYoung ==
  /\ wait <= SyncInterval
  /\ \A i \in synced + 1 .. Len(current) :
       Age(i) <= IF sync = "waiting" THEN wait ELSE SyncInterval

RInv == Types /\ Control /\ PromisedIsSafe /\ ArchivesAreSynced /\ UnsyncedIsYoung

-----------------------------------------------------------------------------
LEMMA Elements ==
  ASSUME NEW S, NEW s \in Seq(S)
  PROVE  DOMAIN s = 1 .. Len(s) /\ Len(s) \in Nat /\ \A i \in DOMAIN s : s[i] \in S
OBVIOUS

(* The first k elements of a sequence.                                     *)
LEMMA Prefix ==
  ASSUME NEW S, NEW s \in Seq(S), NEW k \in 0 .. Len(s)
  PROVE  /\ SubSeq(s, 1, k) \in Seq(S)
         /\ Len(SubSeq(s, 1, k)) = k
         /\ \A i \in 1 .. k : SubSeq(s, 1, k)[i] = s[i]
<1>1. 1 \in Int /\ k \in Int /\ \A i \in 1 .. k : s[i] \in S
  OBVIOUS
<1>2. /\ SubSeq(s, 1, k) \in Seq(S)
      /\ Len(SubSeq(s, 1, k)) = IF 1 <= k THEN k - 1 + 1 ELSE 0
      /\ \A i \in 1 .. k - 1 + 1 : SubSeq(s, 1, k)[i] = s[1 + i - 1]
  BY <1>1, SubSeqProperties
<1>3. \A i \in 1 .. k : 1 + i - 1 = i /\ i \in 1 .. k - 1 + 1
  OBVIOUS
<1>4. Len(SubSeq(s, 1, k)) = k
  BY <1>2
<1> QED BY <1>2, <1>3, <1>4

LEMMA Times ==
  ASSUME RInv
  PROVE  /\ clock \in Nat /\ wait \in Nat /\ SyncInterval \in Nat
         /\ \A i \in synced + 1 .. Len(current) :
              current[i] \in 1 .. Len(lines) /\ lines[current[i]].at \in Nat
<1>1. /\ clock \in Nat /\ wait \in Nat /\ SyncInterval \in Nat /\ synced \in 0 .. Len(current)
      /\ current \in Seq(1 .. Len(lines)) /\ lines \in Seq([critical : BOOLEAN, at : Nat])
  BY RingLogAssumption DEF RInv, Types
<1> SUFFICES ASSUME NEW i \in synced + 1 .. Len(current)
    PROVE  current[i] \in 1 .. Len(lines) /\ lines[current[i]].at \in Nat
  BY <1>1
<1>2. i \in 1 .. Len(current)
  BY <1>1
<1>3. current[i] \in 1 .. Len(lines)
  BY <1>1, <1>2, Elements
<1>4. lines[current[i]] \in [critical : BOOLEAN, at : Nat]
  BY <1>1, <1>3, Elements
<1> QED BY <1>3, <1>4

LEMMA InvInit == Init => RInv
<1> SUFFICES ASSUME Init PROVE RInv
  OBVIOUS
<1>1. Types
  BY DEF Init, Types
<1>2. Control
  BY DEF Init, Control, Rotating
<1>3. PromisedIsSafe /\ ArchivesAreSynced
  BY DEF Init, PromisedIsSafe, ArchivesAreSynced
<1>4. UnsyncedIsYoung
  BY RingLogAssumption DEF Init, UnsyncedIsYoung
<1> QED BY <1>1, <1>2, <1>3, <1>4 DEF RInv

-----------------------------------------------------------------------------
(* Steps that write no line and take none from the disk: what was synced   *)
(* stays so.                                                               *)
LEMMA Keeps ==
  ASSUME RInv, UNCHANGED << current, lines, log >>, synced' \in synced .. Len(current),
         promised' \subseteq promised \union IF synced' = Len(current) THEN Range(log) ELSE {}
  PROVE  PromisedIsSafe'
<1>1. /\ Len(log) \in Nat /\ Len(current) \in Nat /\ synced \in Nat
      /\ Safe \in Int /\ Safe' \in Int /\ Safe <= Safe'
      /\ log \in Seq(1 .. Len(lines))
  BY DEF RInv, Types, Safe
<1> SUFFICES ASSUME NEW n \in promised' PROVE \E i \in 1 .. Safe' : log[i] = n
  BY DEF PromisedIsSafe
<1>2. CASE n \in promised
  BY <1>1, <1>2 DEF RInv, PromisedIsSafe
<1>3. CASE synced' = Len(current) /\ n \in Range(log)
  <2>1. Safe' = Len(log)
    BY <1>1, <1>3 DEF Safe
  <2>2. PICK i \in DOMAIN log : log[i] = n
    BY <1>3 DEF Range
  <2> QED BY <1>1, <2>1, <2>2
<1> QED BY <1>2, <1>3

LEMMA NoneUnsynced ==
  ASSUME synced' = Len(current'), Len(current') \in Nat, wait' <= SyncInterval
  PROVE  UnsyncedIsYoung'
BY DEF UnsyncedIsYoung

LEMMA OfOpen ==
  ASSUME RInv, Open
  PROVE  RInv'
<1>1. /\ writer = "down" /\ writer' = "idle" /\ fd' = TRUE /\ sync' = "waiting" /\ wait' = 0
      /\ UNCHANGED << current, archives, synced, lock, clock, lines, log, promised >>
  BY DEF Open, disk, past
<1>2. Types'
  BY <1>1 DEF RInv, Types
<1>3. Control'
  BY <1>1 DEF RInv, Control, Rotating
<1>4. PromisedIsSafe' /\ ArchivesAreSynced'
  BY <1>1 DEF RInv, PromisedIsSafe, Safe, ArchivesAreSynced
<1>5. synced' = Len(current') /\ Len(current') \in Nat
  BY <1>1 DEF RInv, Control, Types
<1>6. UnsyncedIsYoung'
  BY <1>1, <1>5, NoneUnsynced, RingLogAssumption
<1> QED BY <1>2, <1>3, <1>4, <1>6 DEF RInv

LEMMA OfClose ==
  ASSUME RInv, Close
  PROVE  RInv'
<1>1. /\ writer = "idle" /\ writer' = "down" /\ fd' = FALSE /\ sync' = "dead"
      /\ synced' = IF fd THEN Len(current) ELSE synced
      /\ UNCHANGED << current, archives, lock, wait, clock, lines, log, promised >>
  BY DEF Close, past
<1>2. synced' = Len(current) /\ Len(current) \in Nat
  BY <1>1 DEF RInv, Control, Types
<1>3. Types'
  BY <1>1, <1>2 DEF RInv, Types
<1>4. Control'
  BY <1>1, <1>2 DEF RInv, Control, Rotating
<1>5. PromisedIsSafe'
  BY <1>1, <1>2, Keeps DEF RInv, Types
<1>6. ArchivesAreSynced' /\ UnsyncedIsYoung'
  BY <1>1, <1>2, NoneUnsynced DEF RInv, ArchivesAreSynced, UnsyncedIsYoung
<1> QED BY <1>3, <1>4, <1>5, <1>6 DEF RInv

LEMMA OfWrite ==
  ASSUME RInv, NEW critical \in BOOLEAN, Write(critical)
  PROVE  RInv'
<1> DEFINE line == [critical |-> critical, at |-> clock]
<1> DEFINE n == Len(lines) + 1
<1>1. /\ writer = "idle" /\ fd /\ lock = "free"
      /\ lines' = Append(lines, line)
      /\ current' = Append(current, n) /\ log' = Append(log, n)
      /\ \/ lock' = "writer" /\ writer' = "rotate"
         \/ lock' = "free" /\ writer' \in {"sync", "idle"}
      /\ UNCHANGED << archives, synced, fd, sync, wait, clock, promised >>
  BY DEF Write
<1>2. /\ lines \in Seq([critical : BOOLEAN, at : Nat]) /\ Len(lines) \in Nat
      /\ current \in Seq(1 .. Len(lines)) /\ Len(current) \in Nat
      /\ log \in Seq(1 .. Len(lines)) /\ Len(log) \in Nat
      /\ clock \in Nat /\ line \in [critical : BOOLEAN, at : Nat]
      /\ synced \in 0 .. Len(current) /\ Len(current) <= Len(log)
  BY DEF RInv, Types
<1> HIDE DEF line
<1>3. /\ lines' \in Seq([critical : BOOLEAN, at : Nat]) /\ Len(lines') = n
      /\ lines'[n] = line /\ \A i \in 1 .. Len(lines) : lines'[i] = lines[i]
      /\ current' \in Seq(1 .. n) /\ Len(current') = Len(current) + 1
      /\ current'[Len(current) + 1] = n
      /\ \A i \in 1 .. Len(current) : current'[i] = current[i]
      /\ log' \in Seq(1 .. n) /\ Len(log') = Len(log) + 1
      /\ \A i \in 1 .. Len(log) : log'[i] = log[i]
  BY <1>1, <1>2
<1>4. Types'
  BY <1>1, <1>2, <1>3 DEF RInv, Types
<1>5. Control'
  BY <1>1 DEF RInv, Control, Rotating
<1>6. PromisedIsSafe'
  <2>1. Safe' = Safe /\ Safe \in Int /\ Safe <= Len(log)
    BY <1>1, <1>2, <1>3 DEF Safe
  <2> QED BY <1>1, <1>2, <1>3, <2>1 DEF RInv, PromisedIsSafe
<1>7. UnsyncedIsYoung'
  <2> SUFFICES ASSUME NEW i \in synced + 1 .. Len(current')
      PROVE  clock - lines'[current'[i]].at <= IF sync = "waiting" THEN wait ELSE SyncInterval
    BY <1>1 DEF RInv, UnsyncedIsYoung, Age
  <2>1. CASE i = Len(current) + 1
    <3>1. lines'[current'[i]].at = clock
      BY <1>3, <2>1 DEF line
    <3> QED BY <1>2, <3>1, RingLogAssumption DEF RInv, Types
  <2>2. CASE i # Len(current) + 1
    <3>1. i \in synced + 1 .. Len(current) /\ i \in 1 .. Len(current)
      BY <1>2, <1>3, <2>2, SMTT(30)
    <3>2. current'[i] = current[i] /\ current[i] \in 1 .. Len(lines)
      BY <1>2, <1>3, <3>1, Elements
    <3> QED BY <1>3, <3>1, <3>2 DEF RInv, UnsyncedIsYoung, Age
  <2> QED BY <2>1, <2>2
<1> QED BY <1>1, <1>4, <1>5, <1>6, <1>7 DEF RInv, ArchivesAreSynced

LEMMA OfSyncNow ==
  ASSUME RInv, SyncNow
  PROVE  RInv'
<1>1. /\ writer = "sync" /\ writer' = "idle" /\ fd
      /\ synced' = Len(current)
      /\ promised' = promised \union {n \in Range(log) : lines[n].critical /\ fd}
      /\ UNCHANGED << current, archives, fd, lock, sync, wait, clock, lines, log >>
  BY DEF SyncNow, Synced, RInv, Control
<1>2. Types'
  BY <1>1 DEF RInv, Types
<1>3. Control'
  BY <1>1 DEF RInv, Control, Rotating
<1>4. PromisedIsSafe'
  BY <1>1, Keeps DEF RInv, Types
<1>5. ArchivesAreSynced' /\ UnsyncedIsYoung'
  BY <1>1, NoneUnsynced DEF RInv, Types, ArchivesAreSynced, UnsyncedIsYoung
<1> QED BY <1>2, <1>3, <1>4, <1>5 DEF RInv

LEMMA OfRotateCloses ==
  ASSUME RInv, RotateCloses
  PROVE  RInv'
<1>1. /\ writer = "rotate" /\ writer' = "rename" /\ fd' = FALSE /\ synced' = Len(current)
      /\ UNCHANGED << current, archives, lock, sync, wait, clock, lines, log, promised >>
  BY DEF RotateCloses, SyncedByRotation, past
<1>2. Types'
  BY <1>1 DEF RInv, Types
<1>3. Control'
  BY <1>1 DEF RInv, Control, Rotating
<1>4. PromisedIsSafe'
  BY <1>1, Keeps DEF RInv, Types
<1>5. ArchivesAreSynced' /\ UnsyncedIsYoung'
  BY <1>1, NoneUnsynced DEF RInv, Types, ArchivesAreSynced, UnsyncedIsYoung
<1> QED BY <1>2, <1>3, <1>4, <1>5 DEF RInv

LEMMA OfRotateRenames ==
  ASSUME RInv, RotateRenames
  PROVE  RInv'
<1>1. /\ writer = "rename" /\ writer' = "prune" /\ current' = << >> /\ synced' = 0
      /\ archives' = {a \in archives : a.name # clock}
           \union {[name |-> clock, lines |-> current, unsynced |-> Len(current) - synced]}
      /\ UNCHANGED << fd, lock, sync, wait, clock, lines, log, promised >>
  BY DEF RotateRenames
<1>2. synced = Len(current) /\ Len(current) \in Nat /\ Len(log) \in Nat
  BY <1>1 DEF RInv, Control, Types
<1>3. Types'
  BY <1>1, <1>2 DEF RInv, Types
<1>4. Control'
  BY <1>1 DEF RInv, Control, Rotating
<1>5. PromisedIsSafe'
  <2>1. Safe = Len(log) /\ Safe' = Len(log)
    BY <1>1, <1>2 DEF Safe
  <2> QED BY <1>1, <2>1 DEF RInv, PromisedIsSafe
<1>6. ArchivesAreSynced'
  BY <1>1, <1>2 DEF RInv, ArchivesAreSynced
<1>7. UnsyncedIsYoung'
  BY <1>1, NoneUnsynced DEF RInv, UnsyncedIsYoung
<1> QED BY <1>3, <1>4, <1>5, <1>6, <1>7 DEF RInv

LEMMA OfRenameFails ==
  ASSUME RInv, RenameFails
  PROVE  RInv'
<1>1. /\ writer = "rename" /\ writer' = "idle" /\ lock' = "free"
      /\ UNCHANGED << current, archives, synced, fd, sync, wait, clock, lines, log, promised >>
  BY DEF RenameFails, disk, past
<1>2. Control'
  BY <1>1 DEF RInv, Control, Rotating
<1> QED BY <1>1, <1>2 DEF RInv, Types, PromisedIsSafe, Safe, ArchivesAreSynced,
       UnsyncedIsYoung, Age

LEMMA OfRotatePrunes ==
  ASSUME RInv, RotatePrunes
  PROVE  RInv'
<1>1. /\ writer = "prune" /\ writer' = "reopen" /\ archives' \subseteq archives
      /\ UNCHANGED << current, synced, fd, lock, sync, wait, clock, lines, log, promised >>
  BY DEF RotatePrunes, KeptArchives, past
<1>2. Control'
  BY <1>1 DEF RInv, Control, Rotating
<1> QED BY <1>1, <1>2 DEF RInv, Types, PromisedIsSafe, Safe, ArchivesAreSynced,
       UnsyncedIsYoung, Age

LEMMA OfRotateReopens ==
  ASSUME RInv, RotateReopens
  PROVE  RInv'
<1>1. /\ writer = "reopen" /\ writer' \in {"sync", "idle"} /\ lock' = "free" /\ fd' = TRUE
      /\ UNCHANGED << current, archives, synced, sync, wait, clock, lines, log, promised >>
  BY DEF RotateReopens, disk, past
<1>2. Control'
  BY <1>1 DEF RInv, Control, Rotating
<1>3. Types'
  BY <1>1 DEF RInv, Types
<1> QED BY <1>1, <1>2, <1>3 DEF RInv, PromisedIsSafe, Safe, ArchivesAreSynced,
       UnsyncedIsYoung, Age

LEMMA OfSyncLooks ==
  ASSUME RInv, SyncLooks
  PROVE  RInv'
<1>1. /\ sync = "waiting" /\ wait' = 0
      /\ sync' = IF fd THEN "locking" ELSE "waiting"
      /\ UNCHANGED << current, archives, synced, fd, lock, writer, clock, lines, log, promised >>
  BY DEF SyncLooks, SyncDue, disk, past
<1>2. Types'
  BY <1>1 DEF RInv, Types
<1>3. Control'
  BY <1>1 DEF RInv, Control, Rotating
<1>4. UnsyncedIsYoung'
  <2>1. CASE fd
    <3>1. sync' = "locking" /\ wait' <= SyncInterval
      BY <1>1, <2>1, RingLogAssumption
    <3>2. ASSUME NEW i \in synced + 1 .. Len(current) PROVE Age(i) <= SyncInterval
      <4>1. Age(i) <= wait /\ wait <= SyncInterval
        BY <1>1 DEF RInv, UnsyncedIsYoung
      <4> QED BY <4>1, Times DEF Age
    <3> QED BY <1>1, <3>1, <3>2 DEF UnsyncedIsYoung, Age
  <2>2. CASE ~fd
    BY <1>1, <2>2, NoneUnsynced, RingLogAssumption DEF RInv, Control, Types
  <2> QED BY <2>1, <2>2
<1> QED BY <1>1, <1>2, <1>3, <1>4 DEF RInv, PromisedIsSafe, Safe, ArchivesAreSynced

LEMMA OfSyncRuns ==
  ASSUME RInv, SyncRuns
  PROVE  RInv'
<1>1. /\ sync = "locking" /\ lock = "free"
      /\ synced' = Len(current) /\ Len(current) \in Nat
      /\ sync' = IF fd THEN "waiting" ELSE "dead"
      /\ UNCHANGED << current, archives, fd, lock, writer, wait, clock, lines, log, promised >>
  BY DEF SyncRuns, Synced, RInv, Control, Types, past
<1>2. Types'
  BY <1>1 DEF RInv, Types
<1>3. Control'
  BY <1>1 DEF RInv, Control, Rotating
<1>4. PromisedIsSafe'
  BY <1>1, Keeps DEF RInv, Types
<1>5. ArchivesAreSynced' /\ UnsyncedIsYoung'
  BY <1>1, NoneUnsynced DEF RInv, Types, ArchivesAreSynced, UnsyncedIsYoung
<1> QED BY <1>2, <1>3, <1>4, <1>5 DEF RInv

LEMMA OfTick ==
  ASSUME RInv, Tick
  PROVE  RInv'
<1>1. /\ writer \in {"idle", "down"} /\ (sync # "locking" \/ lock # "free")
      /\ ~(sync = "waiting" /\ wait >= SyncInterval)
      /\ clock' = clock + 1 /\ wait' = IF sync = "waiting" THEN wait + 1 ELSE wait
      /\ UNCHANGED << current, archives, synced, fd, lock, writer, sync, lines, log, promised >>
  BY DEF Tick, Settled, SyncDue, disk, past
<1>2. Types'
  BY <1>1 DEF RInv, Types
<1>3. Control'
  BY <1>1 DEF RInv, Control
<1>4. sync = "waiting" \/ (sync = "dead" /\ ~fd)
  BY <1>1 DEF RInv, Control, Rotating
<1>5. wait' <= SyncInterval
  BY <1>1, RingLogAssumption DEF RInv, Types, UnsyncedIsYoung
<1>6. UnsyncedIsYoung'
  <2>1. CASE sync = "waiting"
    <3> SUFFICES ASSUME NEW i \in synced + 1 .. Len(current)
        PROVE  clock' - lines[current[i]].at <= wait'
      BY <1>1, <1>5, <2>1 DEF UnsyncedIsYoung, Age
    <3>3. clock - lines[current[i]].at <= wait
      BY <2>1 DEF RInv, UnsyncedIsYoung, Age
    <3> QED BY <1>1, <2>1, <3>3, Times
  <2>2. CASE sync = "dead" /\ ~fd
    BY <1>1, <1>5, <2>2, NoneUnsynced DEF RInv, Control, Types
  <2> QED BY <1>4, <2>1, <2>2
<1> QED BY <1>1, <1>2, <1>3, <1>6 DEF RInv, PromisedIsSafe, Safe, ArchivesAreSynced

LEMMA OfClockGoesBack ==
  ASSUME RInv, ClockGoesBack
  PROVE  RInv'
<1>1. /\ clock > 0 /\ clock' = clock - 1
      /\ UNCHANGED << current, archives, synced, fd, lock, writer, sync, wait, lines, log,
                      promised >>
  BY DEF ClockGoesBack, disk
<1>2. Types'
  BY <1>1 DEF RInv, Types
<1>3. Control'
  BY <1>1 DEF RInv, Control
<1>4. UnsyncedIsYoung'
  <2> SUFFICES ASSUME NEW i \in synced + 1 .. Len(current)
      PROVE  clock' - lines[current[i]].at <= IF sync = "waiting" THEN wait ELSE SyncInterval
    BY <1>1 DEF RInv, UnsyncedIsYoung, Age
  <2>3. clock - lines[current[i]].at <= IF sync = "waiting" THEN wait ELSE SyncInterval
    BY DEF RInv, UnsyncedIsYoung, Age
  <2> QED BY <1>1, <2>3, Times, SMTT(30)
<1> QED BY <1>1, <1>2, <1>3, <1>4 DEF RInv, PromisedIsSafe, Safe, ArchivesAreSynced

LEMMA OfCrash ==
  ASSUME RInv, NEW keep \in synced .. Len(current), Crash(keep)
  PROVE  RInv'
<1> DEFINE left == Len(log) - (Len(current) - keep)
<1>1. /\ current' = SubSeq(current, 1, keep) /\ synced' = keep
      /\ log' = SubSeq(log, 1, left)
      /\ fd' = FALSE /\ lock' = "free" /\ writer' = "down" /\ sync' = "dead"
      /\ UNCHANGED << archives, wait, clock, lines, promised >>
  BY DEF Crash
<1>2. /\ current \in Seq(1 .. Len(lines)) /\ log \in Seq(1 .. Len(lines))
      /\ keep \in 0 .. Len(current) /\ left \in 0 .. Len(log) /\ keep <= left
      /\ synced \in 0 .. keep
      /\ Len(log) \in Nat /\ Len(current) \in Nat
  BY DEF RInv, Types
<1> HIDE DEF left
<1>3. /\ current' \in Seq(1 .. Len(lines)) /\ Len(current') = keep
      /\ log' \in Seq(1 .. Len(lines)) /\ Len(log') = left
      /\ \A i \in 1 .. left : log'[i] = log[i]
  BY <1>1, <1>2, Prefix
<1>4. Types'
  BY <1>1, <1>2, <1>3 DEF RInv, Types
<1>5. Control'
  BY <1>1, <1>3 DEF RInv, Control, Rotating
<1>6. PromisedIsSafe'
  <2>1. Safe' = left
    BY <1>1, <1>2, <1>3 DEF Safe
  <2>2. Safe <= left /\ Safe \in Int
    BY <1>2 DEF Safe, left
  <2> QED BY <1>1, <1>2, <1>3, <2>1, <2>2 DEF RInv, PromisedIsSafe
<1>7. UnsyncedIsYoung'
  BY <1>1, <1>2, <1>3, NoneUnsynced DEF RInv, UnsyncedIsYoung
<1> QED BY <1>1, <1>4, <1>5, <1>6, <1>7 DEF RInv, ArchivesAreSynced

-----------------------------------------------------------------------------
LEMMA InvStep == RInv /\ [Next]_vars => RInv'
<1> SUFFICES ASSUME RInv, [Next]_vars PROVE RInv'
  OBVIOUS
<1>1. CASE Writer
  BY <1>1, OfWrite, OfSyncNow, OfRotateCloses, OfRotateRenames, OfRenameFails,
     OfRotatePrunes, OfRotateReopens DEF Writer
<1>2. CASE UNCHANGED vars
  BY <1>2 DEF vars, RInv, Types, Control, PromisedIsSafe, Safe, ArchivesAreSynced,
     UnsyncedIsYoung, Age
<1> QED BY <1>1, <1>2, OfOpen, OfClose, OfSyncLooks, OfSyncRuns, OfTick, OfClockGoesBack,
       OfCrash DEF Next

(* The inductive invariant holds in every state: each line that may be     *)
(* lost is young, not critical, or has somebody about to sync it           *)
(* (ringlog.py:60-183).                                                    *)
THEOREM Invariance == Spec => []RInv
BY InvInit, InvStep, PTL DEF Spec

(* A power loss, between any two steps of the writer and the sync thread,  *)
(* takes no critical line whose sync_now() has returned and no line older  *)
(* than the sync interval, from no archive any: neither a rotation nor one *)
(* that fails leaves a line without somebody who will sync it              *)
(* (ringlog.py:4-5, 110-117, 139-183).                                     *)
THEOREM PowerLossIsSurvived == Spec => []SurvivesPowerLoss
<1>1. ASSUME RInv PROVE SurvivesPowerLoss
  <2>1. CriticalIsDurable
    <3> SUFFICES ASSUME NEW n \in promised PROVE n \in Range(log)
      BY DEF CriticalIsDurable
    <3>1. PICK i \in 1 .. Safe : log[i] = n
      BY <1>1 DEF RInv, PromisedIsSafe
    <3>2. i \in DOMAIN log
      BY <1>1 DEF RInv, Types, Safe
    <3> QED BY <3>1, <3>2 DEF Range
  <2>2. LossIsBounded
    <3> SUFFICES ASSUME NEW i \in synced + 1 .. Len(current)
        PROVE  clock - lines[current[i]].at <= SyncInterval
      BY <1>1 DEF RInv, ArchivesAreSynced, LossIsBounded
    <3>3. /\ Age(i) <= IF sync = "waiting" THEN wait ELSE SyncInterval
          /\ wait <= SyncInterval
      BY <1>1 DEF RInv, UnsyncedIsYoung
    <3> QED BY <1>1, <3>3, Times DEF Age
  <2> QED BY <2>1, <2>2 DEF SurvivesPowerLoss
<1> QED BY <1>1, Invariance, PTL

-----------------------------------------------------------------------------
(* The tail of the log.                                                    *)

(* The current file is the end of the log, and its lines are counted while *)
(* it is open; it is renamed when it is full.                              *)
CurrentIsEnd ==
  /\ line_count \in Nat
  /\ fd => line_count = Len(current)
  /\ writer \in {"rotate", "rename"} => Len(current) >= MaxLines
  /\ writer \in {"prune", "reopen"} => current = << >>
  /\ \A i \in 1 .. Len(current) : current[i] = log[Len(log) - Len(current) + i]

IsNewest(a) == \A b \in archives : b # a => b.name < a.name

(* The lines of archive a are those that the lines of current.log follow.  *)
Precedes(a) ==
  /\ Len(a.lines) + Len(current) <= Len(log)
  /\ \A i \in 1 .. Len(a.lines) :
       a.lines[i] = log[(Len(log) - Len(current) - Len(a.lines)) + i]

NewestPrecedes ==
  \/ archives = {} /\ Len(log) = Len(current)
  \/ \E a \in archives : IsNewest(a) /\ Len(a.lines) >= MaxLines /\ Precedes(a)

TInv ==
  /\ CurrentIsEnd
  /\ \A a \in archives : a.name \in Nat /\ a.lines \in Seq(Nat)
  /\ apart => NewestPrecedes

TailInv == RInv /\ TInv

LEMMA TailInit == Init => TailInv
<1> SUFFICES ASSUME Init PROVE TInv
  BY InvInit DEF TailInv
<1>1. CurrentIsEnd
  BY DEF Init, CurrentIsEnd
<1> QED BY <1>1 DEF Init, TInv, NewestPrecedes

(* Steps that leave the log and the files as they are.                     *)
LEMMA TailKept ==
  ASSUME TInv, UNCHANGED << current, archives, log, apart >>, line_count' \in Nat,
         fd' => line_count' = Len(current),
         writer' \in {"rotate", "rename"} => Len(current) >= MaxLines,
         writer' \in {"prune", "reopen"} => current = << >>
  PROVE  TInv'
<1>1. CurrentIsEnd'
  BY DEF TInv, CurrentIsEnd
<1>2. NewestPrecedes' = NewestPrecedes
  BY DEF NewestPrecedes, IsNewest, Precedes
<1> QED BY <1>1, <1>2 DEF TInv

LEMMA TailOfWrite ==
  ASSUME TailInv, NEW critical \in BOOLEAN, Write(critical)
  PROVE  TInv'
<1> DEFINE n == Len(lines) + 1
<1>1. /\ fd /\ current' = Append(current, n) /\ log' = Append(log, n)
      /\ line_count' = line_count + 1
      /\ writer' \in {"rotate", "sync", "idle"}
      /\ writer' = "rotate" => line_count + 1 >= MaxLines
      /\ UNCHANGED << archives, fd, apart >>
  BY DEF Write, Full
<1>2. /\ current \in Seq(1 .. Len(lines)) /\ Len(current) \in Nat
      /\ log \in Seq(1 .. Len(lines)) /\ Len(log) \in Nat
      /\ Len(current) <= Len(log)
  BY DEF TailInv, RInv, Types
<1>3. /\ Len(current') = Len(current) + 1 /\ current'[Len(current) + 1] = n
      /\ \A i \in 1 .. Len(current) : current'[i] = current[i]
      /\ Len(log') = Len(log) + 1 /\ log'[Len(log) + 1] = n
      /\ \A i \in 1 .. Len(log) : log'[i] = log[i]
  BY <1>1, <1>2
<1>4. Len(log') - Len(current') = Len(log) - Len(current)
  BY <1>2, <1>3
<1>5. CurrentIsEnd'
  <2>1. ASSUME NEW i \in 1 .. Len(current')
        PROVE  current'[i] = log'[Len(log') - Len(current') + i]
    <3>1. CASE i = Len(current) + 1
      <4>1. Len(log) - Len(current) + i = Len(log) + 1
        BY <1>2, <3>1
      <4> QED BY <1>3, <1>4, <3>1, <4>1
    <3>2. CASE i \in 1 .. Len(current)
      <4>1. Len(log) - Len(current) + i \in 1 .. Len(log)
        BY <1>2, <3>2
      <4>2. current[i] = log[Len(log) - Len(current) + i]
        BY <3>2 DEF TailInv, TInv, CurrentIsEnd
      <4> QED BY <1>3, <1>4, <3>2, <4>1, <4>2
    <3> QED BY <1>2, <1>3, <3>1, <3>2
  <2>2. /\ line_count' \in Nat /\ line_count' = Len(current')
        /\ writer' \in {"rotate", "rename"} => Len(current') >= MaxLines
        /\ writer' \notin {"prune", "reopen"}
    BY <1>1, <1>3 DEF TailInv, TInv, CurrentIsEnd
  <2> QED BY <2>1, <2>2 DEF CurrentIsEnd
<1>6. ASSUME NEW a \in archives, Precedes(a) PROVE Precedes(a)'
  <2>1. Len(a.lines) \in Nat /\ Len(a.lines) + Len(current) <= Len(log)
    BY <1>6 DEF TailInv, TInv, Precedes
  <2>2. ASSUME NEW i \in 1 .. Len(a.lines)
        PROVE  a.lines[i] = log'[(Len(log') - Len(current') - Len(a.lines)) + i]
    <3>1. (Len(log) - Len(current) - Len(a.lines)) + i \in 1 .. Len(log)
      BY <1>2, <2>1
    <3> QED BY <1>3, <1>4, <1>6, <3>1 DEF Precedes
  <2>3. Len(a.lines) + Len(current') <= Len(log')
    <3>1. Len(current') = Len(current) + 1 /\ Len(log') = Len(log) + 1
      BY <1>3
    <3>2. \A k, c, l \in Nat : k + c <= l => k + (c + 1) <= l + 1
      OBVIOUS
    <3> QED BY <1>2, <2>1, <3>1, <3>2
  <2> QED BY <2>2, <2>3 DEF Precedes
<1>7. NewestPrecedes => NewestPrecedes'
  BY <1>1, <1>2, <1>3, <1>6 DEF NewestPrecedes, IsNewest
<1> QED BY <1>1, <1>5, <1>7 DEF TailInv, TInv

LEMMA TailOfRotateRenames ==
  ASSUME TailInv, RotateRenames
  PROVE  TInv'
<1>0. PICK new : new = [name |-> clock, lines |-> current, unsynced |-> Len(current) - synced]
  OBVIOUS
<1>1. /\ writer = "rename" /\ writer' = "prune" /\ current' = << >>
      /\ archives' = {a \in archives : a.name # clock} \union {new}
      /\ apart' = (apart /\ \A a \in archives : a.name < clock)
      /\ UNCHANGED << fd, line_count, log >>
  BY <1>0 DEF RotateRenames
<1>2. /\ current \in Seq(1 .. Len(lines)) /\ Len(current) \in Nat /\ Len(lines) \in Nat
      /\ Len(log) \in Nat /\ Len(current) <= Len(log) /\ clock \in Nat /\ ~fd
  BY <1>1 DEF TailInv, RInv, Types, Control
<1>3. new.name = clock /\ new.lines = current
  BY <1>0
<1>4. CurrentIsEnd'
  BY <1>1, <1>2 DEF TailInv, TInv, CurrentIsEnd
<1>5. \A a \in archives' : a.name \in Nat /\ a.lines \in Seq(Nat)
  <2>1. current \in Seq(Nat)
    BY <1>2
  <2> QED BY <1>1, <1>2, <1>3, <2>1 DEF TailInv, TInv
<1>6. ASSUME apart' PROVE NewestPrecedes'
  <2>1. new \in archives' /\ IsNewest(new)'
    BY <1>1, <1>3, <1>6 DEF IsNewest
  <2>2. Len(new.lines) >= MaxLines
    BY <1>1, <1>3 DEF TailInv, TInv, CurrentIsEnd
  <2>3. Precedes(new)'
    <3>1. Len(current') = 0
      BY <1>1
    <3>2. Len(log') - Len(current') - Len(new.lines) = Len(log) - Len(current)
      BY <1>1, <1>2, <1>3, <3>1
    <3>3. Len(new.lines) + Len(current') <= Len(log')
      BY <1>1, <1>2, <1>3, <3>1
    <3> QED BY <1>1, <1>3, <3>2, <3>3 DEF Precedes, TailInv, TInv, CurrentIsEnd
  <2> QED BY <2>1, <2>2, <2>3 DEF NewestPrecedes
<1> QED BY <1>4, <1>5, <1>6 DEF TInv

(* The newest archive is not pruned.                                       *)
LEMMA TailOfRotatePrunes ==
  ASSUME TailInv, RotatePrunes
  PROVE  TInv'
<1>1. /\ writer = "prune" /\ writer' = "reopen" /\ archives' = KeptArchives
      /\ UNCHANGED << current, fd, line_count, log, apart >>
  BY DEF RotatePrunes, past
<1>2. archives' \subseteq archives
  BY <1>1 DEF KeptArchives
<1>3. ASSUME NEW a \in archives, IsNewest(a) PROVE a \in archives'
  <2>1. Newer(a) = {}
    <3> SUFFICES ASSUME NEW b \in archives, b.name > a.name PROVE FALSE
      BY DEF Newer
    <3> QED BY <1>3 DEF IsNewest, TailInv, TInv
  <2>2. Cardinality(Newer(a)) = 0
    BY <2>1, FS_EmptySet
  <2> QED BY <1>1, <2>2, RingLogAssumption DEF KeptArchives
<1>4. NewestPrecedes => NewestPrecedes'
  <2>1. ASSUME NEW a \in archives, IsNewest(a) PROVE IsNewest(a)'
    BY <1>2, <2>1 DEF IsNewest
  <2> QED BY <1>1, <1>2, <1>3, <2>1 DEF NewestPrecedes, Precedes
<1>5. CurrentIsEnd'
  BY <1>1 DEF TailInv, TInv, CurrentIsEnd
<1> QED BY <1>1, <1>2, <1>4, <1>5 DEF TailInv, TInv

(* A crash takes the same lines from the end of the log and of the file.   *)
LEMMA TailOfCrash ==
  ASSUME TailInv, NEW keep \in synced .. Len(current), Crash(keep)
  PROVE  TInv'
<1> DEFINE left == Len(log) - (Len(current) - keep)
<1>1. /\ current' = SubSeq(current, 1, keep) /\ log' = SubSeq(log, 1, left)
      /\ fd' = FALSE /\ writer' = "down"
      /\ UNCHANGED << archives, line_count, apart >>
  BY DEF Crash
<1>2. /\ current \in Seq(1 .. Len(lines)) /\ log \in Seq(1 .. Len(lines))
      /\ keep \in 0 .. Len(current) /\ left \in 0 .. Len(log) /\ keep <= left
      /\ Len(log) \in Nat /\ Len(current) \in Nat
      /\ left - keep = Len(log) - Len(current)
  BY DEF TailInv, RInv, Types
<1> HIDE DEF left
<1>3. /\ Len(current') = keep /\ \A i \in 1 .. keep : current'[i] = current[i]
      /\ Len(log') = left /\ \A i \in 1 .. left : log'[i] = log[i]
  BY <1>1, <1>2, Prefix
<1>4. Len(log') - Len(current') = Len(log) - Len(current)
  BY <1>2, <1>3
<1>5. CurrentIsEnd'
  <2>1. ASSUME NEW i \in 1 .. keep
        PROVE  current'[i] = log'[Len(log') - Len(current') + i]
    <3>1. Len(log) - Len(current) + i \in 1 .. left /\ i \in 1 .. Len(current)
      BY <1>2
    <3>2. current[i] = log[Len(log) - Len(current) + i]
      BY <3>1 DEF TailInv, TInv, CurrentIsEnd
    <3> QED BY <1>3, <1>4, <3>1, <3>2
  <2> QED BY <1>1, <1>3, <2>1 DEF CurrentIsEnd, TailInv, TInv
<1>6. ASSUME NEW a \in archives, Precedes(a) PROVE Precedes(a)'
  <2>1. Len(a.lines) \in Nat /\ Len(a.lines) + Len(current) <= Len(log)
    BY <1>6 DEF TailInv, TInv, Precedes
  <2>2. ASSUME NEW i \in 1 .. Len(a.lines)
        PROVE  a.lines[i] = log'[(Len(log') - Len(current') - Len(a.lines)) + i]
    <3>1. (Len(log) - Len(current) - Len(a.lines)) + i \in 1 .. left
      BY <1>2, <2>1, SMTT(30)
    <3> QED BY <1>3, <1>4, <1>6, <3>1 DEF Precedes
  <2>3. Len(a.lines) + Len(current') <= Len(log')
    BY <1>2, <1>3, <2>1
  <2> QED BY <2>2, <2>3 DEF Precedes
<1>7. NewestPrecedes => NewestPrecedes'
  BY <1>1, <1>2, <1>3, <1>6 DEF NewestPrecedes, IsNewest
<1> QED BY <1>1, <1>5, <1>7 DEF TailInv, TInv

LEMMA TailStep == TailInv /\ [Next]_vars => TailInv'
<1> SUFFICES ASSUME TailInv, [Next]_vars PROVE TInv'
  BY InvStep DEF TailInv
<1>1. TInv /\ CurrentIsEnd /\ line_count \in Nat /\ Len(current) \in Nat
  BY DEF TailInv, TInv, CurrentIsEnd, RInv, Types
<1>2. CASE Open
  BY <1>1, <1>2, TailKept DEF Open, ExistingLines, disk, past
<1>3. CASE Close
  BY <1>1, <1>3, TailKept DEF Close, past
<1>4. CASE SyncNow
  BY <1>1, <1>4, TailKept DEF SyncNow, CurrentIsEnd
<1>5. CASE RotateCloses
  BY <1>1, <1>5, TailKept DEF RotateCloses, CurrentIsEnd, past
<1>6. CASE RenameFails
  BY <1>1, <1>6, TailKept DEF RenameFails, CurrentIsEnd, disk, past
<1>7. CASE RotateReopens
  BY <1>1, <1>7, TailKept DEF RotateReopens, CountOfNewLog, CurrentIsEnd, disk, past
<1>8. CASE SyncLooks \/ SyncRuns \/ Tick \/ ClockGoesBack
  <2>1. UNCHANGED << current, archives, log, apart, line_count, fd, writer >>
    BY <1>8 DEF SyncLooks, SyncRuns, Tick, ClockGoesBack, disk, past
  <2> QED BY <1>1, <2>1, TailKept DEF CurrentIsEnd
<1>9. CASE UNCHANGED vars
  BY <1>1, <1>9, TailKept DEF CurrentIsEnd, vars
<1> QED BY <1>2, <1>3, <1>4, <1>5, <1>6, <1>7, <1>8, <1>9, TailOfWrite,
       TailOfRotateRenames, TailOfRotatePrunes, TailOfCrash DEF Next, Writer

(* The end of a sequence.                                                  *)
LEMMA LastOnes ==
  ASSUME NEW S, NEW s \in Seq(S), NEW n \in Nat
  PROVE  /\ LastN(s, n) \in Seq(S)
         /\ Len(LastN(s, n)) = IF Len(s) > n THEN n ELSE Len(s)
         /\ \A i \in 1 .. Len(LastN(s, n)) :
              LastN(s, n)[i] = s[(Len(s) - Len(LastN(s, n))) + i]
<1> DEFINE first == IF Len(s) > n THEN Len(s) - n + 1 ELSE 1
<1>1. /\ Len(s) \in Nat /\ first \in Int /\ 1 <= first /\ first <= Len(s) + 1
      /\ Len(s) - first + 1 = IF Len(s) > n THEN n ELSE Len(s)
      /\ \A i \in first .. Len(s) : s[i] \in S
  BY Elements
<1>2. LastN(s, n) = SubSeq(s, first, Len(s))
  BY DEF LastN
<1> HIDE DEF first
<1>3. /\ SubSeq(s, first, Len(s)) \in Seq(S)
      /\ Len(SubSeq(s, first, Len(s))) = IF first <= Len(s) THEN Len(s) - first + 1 ELSE 0
      /\ \A i \in 1 .. Len(s) - first + 1 :
           SubSeq(s, first, Len(s))[i] = s[first + i - 1]
  BY <1>1, SubSeqProperties
<1>4. Len(LastN(s, n)) = Len(s) - first + 1
  BY <1>1, <1>2, <1>3
<1>5. \A i \in 1 .. Len(s) - first + 1 :
        first + i - 1 = (Len(s) - (Len(s) - first + 1)) + i
  BY <1>1
<1> QED BY <1>1, <1>2, <1>3, <1>4, <1>5

(* A sequence whose elements are the last ones of s is the end of s.       *)
LEMMA EndOf ==
  ASSUME NEW S, NEW s \in Seq(S), NEW R, NEW t \in Seq(R), Len(t) <= Len(s),
         \A i \in 1 .. Len(t) : t[i] = s[(Len(s) - Len(t)) + i]
  PROVE  t = LastN(s, Len(t))
<1>1. Len(t) \in Nat /\ Len(s) \in Nat
  OBVIOUS
<1>2. /\ LastN(s, Len(t)) \in Seq(S) /\ Len(LastN(s, Len(t))) = Len(t)
      /\ \A i \in 1 .. Len(t) : LastN(s, Len(t))[i] = t[i]
  <2> HIDE DEF LastN
  <2>1. /\ LastN(s, Len(t)) \in Seq(S)
        /\ Len(LastN(s, Len(t))) = IF Len(s) > Len(t) THEN Len(t) ELSE Len(s)
        /\ \A i \in 1 .. Len(LastN(s, Len(t))) :
             LastN(s, Len(t))[i] = s[(Len(s) - Len(LastN(s, Len(t)))) + i]
    BY <1>1, LastOnes
  <2>2. Len(LastN(s, Len(t))) = Len(t)
    BY <1>1, <2>1
  <2> QED BY <2>1, <2>2
<1> HIDE DEF LastN
<1>3. DOMAIN t = 1 .. Len(t) /\ DOMAIN LastN(s, Len(t)) = 1 .. Len(t)
  BY <1>2, Elements
<1> QED BY <1>2, <1>3, SeqEqual

LEMMA WholeOf ==
  ASSUME NEW S, NEW s \in Seq(S), NEW n \in Nat, Len(s) <= n
  PROVE  LastN(s, n) = s
<1>1. s = LastN(s, Len(s))
  BY EndOf
<1>2. Len(s) \in Nat /\ ~(Len(s) > n) /\ ~(Len(s) > Len(s))
  OBVIOUS
<1> QED BY <1>1, <1>2 DEF LastN

(* l ends with r and then c.                                               *)
EndsWith(l, r, c) ==
  /\ Len(r) + Len(c) <= Len(l)
  /\ \A i \in 1 .. Len(r) : r[i] = l[(Len(l) - Len(c) - Len(r)) + i]
  /\ \A i \in 1 .. Len(c) : c[i] = l[Len(l) - Len(c) + i]

LEMMA TwoParts ==
  \A S : \A l \in Seq(S), r \in Seq(S), c \in Seq(S), k \in Nat :
    EndsWith(l, r, c) =>
      \E t \in Seq(S) :
        /\ t = LastN(r, k) \o c /\ Len(t) = Len(LastN(r, k)) + Len(c)
        /\ t = LastN(l, Len(t))
<1> SUFFICES ASSUME NEW S, NEW l \in Seq(S), NEW r \in Seq(S), NEW c \in Seq(S), NEW k \in Nat,
                    EndsWith(l, r, c)
    PROVE  \E t \in Seq(S) :
             /\ t = LastN(r, k) \o c /\ Len(t) = Len(LastN(r, k)) + Len(c)
             /\ t = LastN(l, Len(t))
  BY Zenon
<1>1. PICK p \in Seq(S) :
        /\ p = LastN(r, k) /\ Len(p) <= Len(r)
        /\ \A i \in 1 .. Len(p) : p[i] = r[(Len(r) - Len(p)) + i]
  BY LastOnes
<1>2. PICK t \in Seq(S) :
        /\ t = p \o c /\ Len(t) = Len(p) + Len(c)
        /\ \A i \in 1 .. Len(p) : t[i] = p[i]
        /\ \A i \in 1 .. Len(c) : t[Len(p) + i] = c[i]
  <2>1. p \o c \in Seq(S) /\ Len(p \o c) = Len(p) + Len(c)
    OBVIOUS
  <2>2. \A i \in 1 .. Len(p) : (p \o c)[i] = p[i]
    OBVIOUS
  <2>3. \A i \in 1 .. Len(c) : (p \o c)[Len(p) + i] = c[i]
    OBVIOUS
  <2> QED BY <2>1, <2>2, <2>3, Zenon
<1>3. /\ Len(p) \in Int /\ Len(c) \in Int /\ Len(r) \in Int /\ Len(l) \in Int /\ Len(t) \in Int
      /\ 0 <= Len(p) /\ 0 <= Len(c) /\ Len(t) <= Len(l)
  BY <1>1, <1>2 DEF EndsWith
<1>4. ASSUME NEW i \in 1 .. Len(t)
      PROVE  t[i] = l[(Len(l) - Len(t)) + i]
  <2>1. CASE i <= Len(p)
    <3>1. (Len(r) - Len(p)) + i \in 1 .. Len(r) /\ i \in 1 .. Len(p)
      BY <1>1, <1>3, <2>1
    <3>2. (Len(l) - Len(c) - Len(r)) + ((Len(r) - Len(p)) + i) = (Len(l) - Len(t)) + i
      BY <1>2, <1>3
    <3>3. t[i] = p[i] /\ p[i] = r[(Len(r) - Len(p)) + i]
      BY <1>1, <1>2, <3>1
    <3>4. \A j \in 1 .. Len(r) : r[j] = l[(Len(l) - Len(c) - Len(r)) + j]
      BY DEF EndsWith
    <3>5. r[(Len(r) - Len(p)) + i]
            = l[(Len(l) - Len(c) - Len(r)) + ((Len(r) - Len(p)) + i)]
      BY <3>1, <3>4, Zenon
    <3> QED BY <3>2, <3>3, <3>5
  <2>2. CASE i > Len(p)
    <3>1. i - Len(p) \in 1 .. Len(c) /\ Len(p) + (i - Len(p)) = i
      BY <1>2, <1>3, <2>2
    <3>2. Len(l) - Len(c) + (i - Len(p)) = (Len(l) - Len(t)) + i
      BY <1>2, <1>3
    <3> QED BY <1>2, <3>1, <3>2 DEF EndsWith
  <2> QED BY <1>3, <2>1, <2>2
<1>5. t = LastN(l, Len(t))
  BY <1>3, <1>4, EndOf
<1> QED BY <1>1, <1>2, <1>5

(* What read_tail returns is the end of the log, as long as rotations are  *)
(* a second apart and the clock does not go back over one: the newest      *)
(* archive is full, it is not pruned, and the current log follows it, also *)
(* after a crash that took lines of the current log and after a rename     *)
(* that failed (ringlog.py:119-137, 139-183).                              *)
THEOREM TailIsRead == Spec => []TailIsNewest
<1>1. ASSUME TailInv PROVE TailIsNewest
  <2> SUFFICES ASSUME apart
      PROVE  /\ ReadTail = LastN(log, Len(ReadTail))
             /\ Len(log) >= MaxLines =>
                  Len(ReadTail) >= MaxLines \/ Len(ReadTail) = TailLines
    BY DEF TailIsNewest
  <2> DEFINE own == LastN(current, TailLines)
             more == TailLines - Len(own)
  <2>0. PICK Numbers : Numbers = Nat
    OBVIOUS
  <2>1. /\ current \in Seq(Numbers) /\ Len(current) \in Nat
        /\ log \in Seq(Numbers) /\ Len(log) \in Nat /\ Len(current) <= Len(log)
        /\ TailLines \in Nat /\ TailLines > 0 /\ MaxLines \in Nat /\ NewestPrecedes
    <3>1. /\ current \in Seq(1 .. Len(lines)) /\ log \in Seq(1 .. Len(lines))
          /\ 1 .. Len(lines) \subseteq Nat
      BY <1>1 DEF TailInv, RInv, Types
    <3> QED BY <1>1, <2>0, <3>1, RingLogAssumption DEF TailInv, TInv, RInv, Types
  <2>2. /\ own \in Seq(Numbers) /\ Len(own) \in Nat
        /\ Len(own) = IF Len(current) > TailLines THEN TailLines ELSE Len(current)
        /\ \A i \in 1 .. Len(own) : own[i] = current[(Len(current) - Len(own)) + i]
    BY <2>1, LastOnes
  <2>3. ReadTail = IF more > 0 /\ archives # {}
                     THEN LastN((CHOOSE a \in archives : Newer(a) = {}).lines, more) \o own
                     ELSE own
    BY DEF ReadTail
  <2> HIDE DEF own
  <2>4. ASSUME NEW i \in 1 .. Len(own)
        PROVE  own[i] = log[(Len(log) - Len(own)) + i]
    <3>1. (Len(current) - Len(own)) + i \in 1 .. Len(current)
      BY <2>1, <2>2
    <3>2. current[(Len(current) - Len(own)) + i]
            = log[Len(log) - Len(current) + ((Len(current) - Len(own)) + i)]
      BY <1>1, <3>1 DEF TailInv, TInv, CurrentIsEnd
    <3>3. Len(log) - Len(current) + ((Len(current) - Len(own)) + i) = (Len(log) - Len(own)) + i
      BY <2>1, <2>2
    <3> QED BY <2>2, <3>2, <3>3
  <2>5. CASE ~(more > 0 /\ archives # {})
    <3>1. ReadTail = own
      BY <2>3, <2>5
    <3>5. Len(own) <= Len(log)
      BY <2>1, <2>2
    <3>2. own = LastN(log, Len(own))
      BY <2>1, <2>2, <2>4, <3>5, EndOf
    <3>3. Len(own) = TailLines \/ (archives = {} /\ Len(own) = Len(current))
      BY <2>1, <2>2, <2>5
    <3>4. archives = {} => Len(log) = Len(current)
      BY <2>1 DEF NewestPrecedes
    <3> QED BY <3>1, <3>2, <3>3, <3>4
  <2>6. CASE more > 0 /\ archives # {}
    <3>1. PICK a \in archives : IsNewest(a) /\ Len(a.lines) >= MaxLines /\ Precedes(a)
      BY <2>1, <2>6 DEF NewestPrecedes
    <3>2. \A b \in archives : b.name \in Nat
      BY <1>1 DEF TailInv, TInv
    <3>3. \A b \in archives : Newer(b) = {} <=> b = a
      <4>1. Newer(a) = {}
        <5> SUFFICES ASSUME NEW b \in archives, b.name > a.name PROVE FALSE
          BY DEF Newer
        <5> QED BY <3>1, <3>2 DEF IsNewest
      <4>2. ASSUME NEW b \in archives, b # a PROVE a \in Newer(b)
        BY <3>1, <3>2, <4>2 DEF Newer, IsNewest
      <4> QED BY <4>1, <4>2
    <3>4. (CHOOSE b \in archives : Newer(b) = {}) = a
      BY <3>3
    <3>5. a.lines \in Seq(Numbers) /\ more \in Nat /\ own = current
      <4>1. Len(current) <= TailLines /\ more \in Nat
        BY <2>1, <2>2, <2>6
      <4>2. own = current
        BY <2>1, <4>1, WholeOf DEF own
      <4> QED BY <1>1, <2>0, <4>1, <4>2 DEF TailInv, TInv
    <3>6. PICK l \in Seq(Numbers), c \in Seq(Numbers), r \in Seq(Numbers), k \in Nat :
            l = log /\ c = current /\ r = a.lines /\ k = more
      BY <2>1, <3>5
    <3>7. EndsWith(l, r, c)
      BY <1>1, <3>1, <3>6 DEF EndsWith, Precedes, TailInv, TInv, CurrentIsEnd
    <3>8. PICK t \in Seq(Numbers) :
            t = LastN(r, k) \o c /\ Len(t) = Len(LastN(r, k)) + Len(c) /\ t = LastN(l, Len(t))
      <4>1. \A x \in Seq(Numbers), y \in Seq(Numbers), z \in Seq(Numbers), n \in Nat :
              EndsWith(x, y, z) =>
                \E t \in Seq(Numbers) :
                  /\ t = LastN(y, n) \o z /\ Len(t) = Len(LastN(y, n)) + Len(z)
                  /\ t = LastN(x, Len(t))
        BY TwoParts, Zenon
      <4> QED BY <3>7, <4>1, ZenonT(30)
    <3>9. ReadTail = t
      BY <2>3, <2>6, <3>4, <3>5, <3>6, <3>8
    <3>10. Len(LastN(r, k)) = k \/ Len(LastN(r, k)) >= MaxLines
      <4>1. Len(LastN(r, k)) = IF Len(r) > k THEN k ELSE Len(r)
        BY LastOnes
      <4> QED BY <3>1, <3>6, <4>1
    <3>11. Len(t) = TailLines \/ Len(t) >= MaxLines
      <4>1. k + Len(c) = TailLines /\ Len(c) \in Nat /\ Len(LastN(r, k)) \in Nat
        BY <2>1, <2>2, <3>5, <3>6, LastOnes
      <4> QED BY <2>1, <3>8, <3>10, <4>1
    <3> QED BY <3>6, <3>8, <3>9, <3>11
  <2> QED BY <2>5, <2>6
<1> QED BY <1>1, TailInit, TailStep, PTL DEF Spec
=============================================================================
