---------------------------- MODULE ThreadsProofs ----------------------------
(***************************************************************************)
(* A theorem about PacmanSource, for any number of lines, of rotations and *)
(* of tasks that wait for the lock, and, in the last two sections, about   *)
(* Desktop, for any number of quits, events and cards.                     *)
(***************************************************************************)
EXTENDS MCThreads, SequenceTheorems, FiniteSetTheorems, TLAPS

(* What has been read, published already or not, and up to where.          *)
Reader == published \o found.lines

Position == IF reader = "read" THEN found.pos ELSE file_pos

Increasing(s) == \A i, j \in DOMAIN s : i < j => s[i] < s[j]

Types ==
  /\ written \in Nat
  /\ log \in Seq(1 .. written)
  /\ published \in Seq(1 .. written)
  /\ found \in [lines : Seq(1 .. written), pos : Nat]
  /\ file_pos \in Nat
  /\ reader # "read" => found = Nothing

(* A line behind the position, or in a log shorter than the position, is   *)
(* newer than all that has been read.                                      *)
Unread(k) == k > Position \/ Len(log) < Position

UnreadIsNewer ==
  \A k \in DOMAIN log : Unread(k) => \A i \in DOMAIN Reader : Reader[i] < log[k]

PInv ==
  /\ Types
  /\ Increasing(log)
  /\ Increasing(Reader)
  /\ UnreadIsNewer

-----------------------------------------------------------------------------
LEMMA Elements ==
  ASSUME NEW S, NEW s \in Seq(S)
  PROVE  DOMAIN s = 1 .. Len(s) /\ Len(s) \in Nat /\ \A i \in DOMAIN s : s[i] \in S
OBVIOUS

(* The rest of a sequence after its first k elements.                      *)
LEMMA Rest ==
  ASSUME NEW S, NEW s \in Seq(S), NEW k \in Nat, k <= Len(s)
  PROVE  LET rest == SubSeq(s, k + 1, Len(s))
         IN /\ rest \in Seq(S)
            /\ Len(rest) = Len(s) - k
            /\ \A i \in 1 .. Len(s) - k : rest[i] = s[k + i]
<1> DEFINE m == k + 1
<1> DEFINE n == Len(s)
<1>1. m \in Int /\ n \in Int /\ \A i \in m .. n : s[i] \in S
  OBVIOUS
<1> HIDE DEF m, n
<1>2. /\ SubSeq(s, m, n) \in Seq(S)
      /\ Len(SubSeq(s, m, n)) = IF m <= n THEN n - m + 1 ELSE 0
      /\ \A i \in 1 .. n - m + 1 : SubSeq(s, m, n)[i] = s[m + i - 1]
  BY <1>1, SubSeqProperties
<1>3. n - m + 1 = Len(s) - k /\ (m <= n \/ Len(s) - k = 0)
  BY DEF m, n
<1>4. \A i \in 1 .. Len(s) - k : m + i - 1 = k + i
  BY DEF m
<1>5. Len(SubSeq(s, m, n)) = Len(s) - k
  BY <1>1, <1>2, <1>3
<1>6. \A i \in 1 .. Len(s) - k : SubSeq(s, m, n)[i] = s[k + i]
  BY <1>2, <1>3, <1>4
<1> QED BY <1>2, <1>5, <1>6 DEF m, n

LEMMA InvInit == Init => PInv
<1> SUFFICES ASSUME Init PROVE PInv
  OBVIOUS
<1>1. /\ written = 0 /\ log = << >> /\ published = << >> /\ found = Nothing
      /\ file_pos = 0 /\ reader = "none"
  BY DEF Init
<1>2. Types
  BY <1>1 DEF Types, Nothing
<1>3. Reader = << >>
  BY <1>1 DEF Reader, Nothing
<1> QED BY <1>1, <1>2, <1>3 DEF PInv, Increasing, UnreadIsNewer

LEMMA ReaderType == PInv => Reader \in Seq(1 .. written)
BY DEF PInv, Types, Reader

LEMMA OfWrite ==
  ASSUME PInv, Write
  PROVE  PInv'
<1>1. /\ written' = written + 1 /\ log' = Append(log, written + 1)
      /\ UNCHANGED << reader, found, file_pos, published >>
  BY DEF Write
<1>2. Types'
  BY <1>1 DEF PInv, Types, Nothing
<1>3. /\ DOMAIN log' = 1 .. Len(log) + 1 /\ Len(log') = Len(log) + 1
      /\ log'[Len(log) + 1] = written + 1
      /\ \A k \in DOMAIN log : log'[k] = log[k] /\ log[k] \in 1 .. written
  BY <1>1 DEF PInv, Types
<1>4. Increasing(log)'
  <2> SUFFICES ASSUME NEW i \in DOMAIN log', NEW j \in DOMAIN log', i < j
      PROVE  log'[i] < log'[j]
    BY DEF Increasing
  <2>1. i \in DOMAIN log /\ (j \in DOMAIN log \/ j = Len(log) + 1)
    BY <1>3 DEF PInv, Types
  <2> QED BY <1>3, <2>1 DEF PInv, Types, Increasing
<1>5. Reader' = Reader /\ Position' = Position
  BY <1>1 DEF Reader, Position
<1>6. \A i \in DOMAIN Reader : Reader[i] \in 1 .. written
  <2>1. Reader \in Seq(1 .. written)
    BY ReaderType
  <2> QED BY <2>1, Elements
<1>7. UnreadIsNewer'
  <2> SUFFICES ASSUME NEW k \in DOMAIN log', Unread(k)', NEW i \in DOMAIN Reader
      PROVE  Reader[i] < log'[k]
    BY <1>5 DEF UnreadIsNewer
  <2>1. CASE k = Len(log) + 1
    BY <1>3, <1>6, <2>1 DEF PInv, Types
  <2>2. CASE k # Len(log) + 1
    <3>1. k \in DOMAIN log
      BY <1>3, <2>2 DEF PInv, Types
    <3>2. Position \in Nat /\ Unread(k)
      BY <1>3, <1>5, <3>1 DEF Unread, PInv, Types, Position
    <3> QED BY <1>3, <3>1, <3>2 DEF PInv, UnreadIsNewer
  <2> QED BY <2>1, <2>2
<1> QED BY <1>2, <1>4, <1>5, <1>7 DEF PInv, Increasing

LEMMA OfRotate ==
  ASSUME PInv, Rotate
  PROVE  PInv'
<1>1. log' = << >> /\ UNCHANGED << written, reader, found, file_pos, published >>
  BY DEF Rotate
<1>2. Types'
  BY <1>1 DEF PInv, Types, Nothing
<1>3. Reader' = Reader
  BY <1>1 DEF Reader
<1> QED BY <1>1, <1>2, <1>3 DEF PInv, Increasing, UnreadIsNewer

LEMMA OfRead ==
  ASSUME PInv, ThreadReads
  PROVE  PInv'
<1> DEFINE from == IF Len(log) < file_pos THEN 0 ELSE file_pos
<1> DEFINE lines == SubSeq(log, from + 1, Len(log))
<1>1. /\ reader = "reading" /\ reader' = "read"
      /\ found' = [lines |-> lines, pos |-> Len(log)]
      /\ UNCHANGED << log, written, file_pos, published >>
  BY DEF ThreadReads, ReadFrom, ReadTo
<1>2. /\ log \in Seq(1 .. written) /\ Len(log) \in Nat /\ DOMAIN log = 1 .. Len(log)
      /\ from \in Nat /\ from <= Len(log) /\ published \in Seq(1 .. written)
  BY DEF PInv, Types
<1>3. /\ lines \in Seq(1 .. written) /\ Len(lines) = Len(log) - from
      /\ \A i \in 1 .. Len(log) - from : lines[i] = log[from + i]
  BY <1>2, Rest
<1>4. Reader = published /\ Position = file_pos
  BY <1>1, <1>2 DEF PInv, Types, Nothing, Reader, Position
<1>5. Reader' = published \o lines /\ Position' = Len(log)
  BY <1>1 DEF Reader, Position
<1>6. Types'
  BY <1>1, <1>2, <1>3 DEF PInv, Types
<1> HIDE DEF from, lines
<1>11. published \in Seq(1 .. written) /\ lines \in Seq(1 .. written)
  BY <1>2, <1>3
<1>7. /\ DOMAIN Reader' = 1 .. Len(published) + Len(lines)
      /\ \A i \in 1 .. Len(published) : Reader'[i] = published[i]
      /\ \A i \in Len(published) + 1 .. Len(published) + Len(lines) :
           Reader'[i] = lines[i - Len(published)]
      /\ Len(published) \in Nat /\ DOMAIN published = 1 .. Len(published)
      /\ Len(lines) \in Nat
  BY <1>5, <1>11
<1>8. \A k \in from + 1 .. Len(log), i \in DOMAIN published : published[i] < log[k]
  <2> SUFFICES ASSUME NEW k \in from + 1 .. Len(log), NEW i \in DOMAIN published
      PROVE  published[i] < log[k]
    OBVIOUS
  <2>1. k \in DOMAIN log /\ k > from
    BY <1>2
  <2>2. k > file_pos \/ Len(log) < file_pos
    BY <2>1 DEF from
  <2>3. Unread(k)
    BY <1>4, <2>2 DEF Unread
  <2> QED BY <1>4, <2>1, <2>3 DEF PInv, UnreadIsNewer
<1>9. Increasing(Reader)'
  <2> SUFFICES ASSUME NEW i \in DOMAIN Reader', NEW j \in DOMAIN Reader', i < j
      PROVE  Reader'[i] < Reader'[j]
    BY DEF Increasing
  <2>1. CASE j <= Len(published)
    <3>1. i \in DOMAIN published /\ j \in DOMAIN published
      BY <1>7, <2>1
    <3>2. published[i] < published[j]
      BY <1>4, <3>1 DEF PInv, Increasing
    <3> QED BY <1>7, <3>1, <3>2
  <2>2. CASE j > Len(published)
    <3>1. /\ j - Len(published) \in 1 .. Len(log) - from
          /\ Reader'[j] = log[from + (j - Len(published))]
          /\ from + (j - Len(published)) \in from + 1 .. Len(log)
      <4>1. j \in Len(published) + 1 .. Len(published) + Len(lines)
        BY <1>7, <2>2
      <4>2. j - Len(published) \in 1 .. Len(log) - from
        BY <1>2, <1>3, <1>7, <4>1
      <4>3. Reader'[j] = log[from + (j - Len(published))]
        BY <1>3, <1>7, <4>1, <4>2
      <4> QED BY <1>2, <1>7, <4>1, <4>2, <4>3
    <3>2. CASE i <= Len(published)
      BY <1>7, <1>8, <3>1, <3>2
    <3>3. CASE i > Len(published)
      <4>1. /\ Reader'[i] = log[from + (i - Len(published))]
            /\ from + (i - Len(published)) \in from + 1 .. Len(log)
        <5>1. i \in Len(published) + 1 .. Len(published) + Len(lines)
          BY <1>7, <3>3
        <5>2. i - Len(published) \in 1 .. Len(log) - from
          BY <1>2, <1>3, <1>7, <5>1
        <5>3. Reader'[i] = log[from + (i - Len(published))]
          BY <1>3, <1>7, <5>1, <5>2
        <5> QED BY <1>2, <1>7, <5>1, <5>2, <5>3
      <4> QED BY <1>2, <1>7, <3>1, <4>1 DEF PInv, Increasing
    <3> QED BY <1>7, <3>2, <3>3
  <2> QED BY <1>3, <1>7, <2>1, <2>2
<1>10. UnreadIsNewer'
  BY <1>1, <1>2, <1>5 DEF UnreadIsNewer, Unread
<1> QED BY <1>1, <1>6, <1>9, <1>10 DEF PInv, Increasing

LEMMA OfPublish ==
  ASSUME PInv, TaskPublishes
  PROVE  PInv'
<1>1. /\ reader = "read" /\ reader' = "none" /\ file_pos' = found.pos
      /\ published' = published \o found.lines /\ found' = Nothing
      /\ UNCHANGED << log, written >>
  BY DEF TaskPublishes
<1>2. Types'
  BY <1>1 DEF PInv, Types, Nothing
<1>3. Reader' = Reader /\ Position' = Position
  BY <1>1 DEF PInv, Types, Reader, Position, Nothing
<1> QED BY <1>1, <1>2, <1>3 DEF PInv, Increasing, UnreadIsNewer, Unread

(* What the log holds before the source is set up is behind the position.  *)
LEMMA OfSetUp ==
  ASSUME PInv, SetUp
  PROVE  PInv'
<1>1. /\ file_pos' = Len(log)
      /\ UNCHANGED << log, written, reader, found, published >>
  BY DEF SetUp
<1>2. Types' /\ Len(log) \in Nat /\ DOMAIN log = 1 .. Len(log)
  BY <1>1 DEF PInv, Types, Nothing
<1>3. Reader' = Reader
  BY <1>1 DEF Reader
<1>4. UnreadIsNewer'
  <2>1. CASE reader = "read"
    BY <1>1, <1>3, <2>1 DEF PInv, UnreadIsNewer, Unread, Position
  <2>2. CASE reader # "read"
    <3>1. Position' = Len(log)
      BY <1>1, <2>2 DEF Position
    <3>2. \A k \in DOMAIN log' : ~Unread(k)'
      BY <1>1, <1>2, <3>1 DEF Unread
    <3> QED BY <3>2 DEF UnreadIsNewer
  <2> QED BY <2>1, <2>2
<1> QED BY <1>1, <1>2, <1>3, <1>4 DEF PInv, Increasing

(* The other steps, those of the observer's thread, the bridge and the     *)
(* timer, read and publish nothing.                                        *)
LEMMA OfOthers ==
  ASSUME PInv, UNCHANGED << log, written, found, file_pos, published >>,
         reader' = reader \/ (reader # "read" /\ reader' # "read")
  PROVE  PInv'
<1>1. Types' /\ Reader' = Reader /\ Position' = Position
  BY DEF PInv, Types, Reader, Position, Nothing
<1> QED BY <1>1 DEF PInv, Increasing, UnreadIsNewer, Unread

LEMMA InvStep == PInv /\ [Next]_vars => PInv'
<1> SUFFICES ASSUME PInv, [Next]_vars PROVE PInv'
  OBVIOUS
<1>1. CASE Handler
  BY <1>1, OfOthers DEF Handler, HandlerPuts, HandlerAsks
<1>2. CASE LoopSets \/ BridgeDrains \/ TimerFires \/ TaskLocks \/ ReadFails \/ Watch
  BY <1>2, OfOthers DEF LoopSets, BridgeDrains, TimerFires, TaskLocks, ReadFails, Watch
<1>3. CASE UNCHANGED vars
  BY <1>3, OfOthers DEF vars
<1> QED BY <1>1, <1>2, <1>3, OfSetUp, OfWrite, OfRotate, OfRead, OfPublish DEF Next, Loop

(* The inductive invariant holds in every state: only the task that has    *)
(* the lock reads, from the position where the last one ended              *)
(* (pacman.py:21-62, base.py:120-186).                                     *)
THEOREM Invariance == Spec => []PInv
BY InvInit, InvStep, PTL DEF Spec

(* No line is published twice and none overtakes another, however many     *)
(* tasks the timer has started, and wherever the log is rotated between    *)
(* the observer's notice, the read and the publication (pacman.py:21-62).  *)
THEOREM PublishedOnceInOrder == Spec => []OnceInOrder
<1>1. ASSUME PInv PROVE OnceInOrder
  <2>1. /\ published \in Seq(1 .. written) /\ Reader \in Seq(1 .. written)
        /\ found.lines \in Seq(1 .. written)
    BY <1>1, ReaderType DEF PInv, Types
  <2>2. /\ DOMAIN published \subseteq DOMAIN Reader
        /\ \A i \in DOMAIN published : Reader[i] = published[i]
    BY <2>1 DEF Reader
  <2> QED BY <1>1, <2>2 DEF PInv, Increasing, OnceInOrder
<1> QED BY <1>1, Invariance, PTL
-----------------------------------------------------------------------------
(* The bridge of the desktop: a call that was queued before the loop was   *)
(* asked to stop is run before any stop is, and when the loop waits for    *)
(* what is pending, what is not waited for was queued later.               *)

Calls == D!Calls

Wheres == D!Under \union {"none", "checked", "refused", "queued", "done", "short", "lost"}

Early == {"born", "looped", "running"}

Stops == {i \in DOMAIN ready : ready[i] = "stop"}

CallTypes ==
  /\ ready \in Seq(Calls \union {"stop"})
  /\ call \in [Calls -> Wheres]
  /\ late \subseteq Calls
  /\ stops \in 0 .. 2
  /\ leaving \in BOOLEAN
  /\ thread \in Early \union {"left", "gathering", "closed", "broken"}

QueuedFirst ==
  \A c \in Calls : call[c] = "queued" /\ c \notin late =>
    /\ ~leaving /\ thread \in Early
    /\ \E i \in DOMAIN ready : ready[i] = c /\ \A j \in Stops : i < j

AwaitedOrLate ==
  thread = "gathering" => \A c \in Calls : call[c] \in D!Under => c \in gathered \union late

(* Until it is asked a second time there is one stop: in the queue, run,   *)
(* or obeyed.                                                              *)
OneStop ==
  /\ stops = 0 => Stops = {} /\ ~leaving /\ thread \in Early
  /\ stops = 1 =>
       /\ \A i, j \in Stops : i = j
       /\ Stops # {} => ~leaving /\ thread \in Early
       /\ leaving => thread \in Early

BridgeInv ==
  /\ CallTypes
  /\ QueuedFirst
  /\ AwaitedOrLate
  /\ OneStop

LEMMA CallsAreNamed ==
  "stop" \notin Calls /\ "services" \notin Calls /\ "start" \in Calls
BY DesktopAssumption DEF Calls, D!Calls

LEMMA Moved ==
  ASSUME CallTypes, NEW c \in Calls, NEW from, NEW to \in Wheres, D!Moves(c, from, to)
  PROVE  /\ call[c] = from /\ call'[c] = to
         /\ \A d \in Calls : d # c => call'[d] = call[d]
         /\ call' \in [Calls -> Wheres]
BY DEF CallTypes, D!Moves, D!Is

LEMMA BridgeInit == D!Init => BridgeInv
<1> SUFFICES ASSUME D!Init PROVE BridgeInv
  OBVIOUS
<1>1. /\ thread = "born" /\ ready = << >> /\ leaving = FALSE /\ late = {} /\ stops = 0
      /\ call = [c \in Calls |-> "none"]
  BY DEF D!Init, Calls
<1>2. CallTypes
  <2>1. ready \in Seq(Calls \union {"stop"})
    BY <1>1
  <2>2. call \in [Calls -> Wheres]
    BY <1>1 DEF Wheres
  <2>3. stops \in 0 .. 2 /\ leaving \in BOOLEAN /\ late \subseteq Calls /\ thread \in Early
    <3>1. stops \in 0 .. 2
      BY <1>1
    <3>2. leaving \in BOOLEAN
      BY <1>1
    <3>3. late \subseteq Calls
      BY <1>1
    <3>4. thread \in Early
      BY <1>1 DEF Early
    <3> QED BY <3>1, <3>2, <3>3, <3>4
  <2> QED BY <2>1, <2>2, <2>3, Zenon DEF CallTypes
<1>3. Stops = {}
  BY <1>1 DEF Stops
<1> QED BY <1>1, <1>2, <1>3 DEF BridgeInv, QueuedFirst, AwaitedOrLate, OneStop, Early

(* A call or the stop of the loop is queued behind the others.             *)
LEMMA OfQueueing ==
  ASSUME CallTypes, NEW c \in Calls \union {"stop"}, ready' = Append(ready, c)
  PROVE  /\ ready' \in Seq(Calls \union {"stop"})
         /\ Len(ready) \in Nat /\ DOMAIN ready = 1 .. Len(ready)
         /\ DOMAIN ready' = 1 .. Len(ready) + 1
         /\ ready'[Len(ready) + 1] = c /\ \A i \in DOMAIN ready : ready'[i] = ready[i]
         /\ Stops' = Stops \union (IF c = "stop" THEN {Len(ready) + 1} ELSE {})
<1>1. /\ ready' \in Seq(Calls \union {"stop"})
      /\ Len(ready) \in Nat /\ DOMAIN ready = 1 .. Len(ready)
      /\ DOMAIN ready' = 1 .. Len(ready) + 1
      /\ ready'[Len(ready) + 1] = c /\ \A i \in DOMAIN ready : ready'[i] = ready[i]
  BY DEF CallTypes
<1>2. Stops' = Stops \union (IF c = "stop" THEN {Len(ready) + 1} ELSE {})
  BY <1>1 DEF Stops
<1> QED BY <1>1, <1>2

LEMMA OfRunning ==
  ASSUME CallTypes, ready # << >>, ready' = Tail(ready)
  PROVE  /\ Head(ready) \in Calls \union {"stop"} /\ Head(ready) = ready[1]
         /\ ready' \in Seq(Calls \union {"stop"})
         /\ Len(ready) \in Nat \ {0} /\ DOMAIN ready = 1 .. Len(ready)
         /\ DOMAIN ready' = 1 .. Len(ready) - 1
         /\ \A i \in DOMAIN ready' : ready'[i] = ready[i + 1]
         /\ \A i \in Stops' : i + 1 \in Stops
<1>1. /\ Head(ready) \in Calls \union {"stop"} /\ Head(ready) = ready[1]
      /\ ready' \in Seq(Calls \union {"stop"})
      /\ Len(ready) \in Nat \ {0} /\ DOMAIN ready = 1 .. Len(ready)
      /\ DOMAIN ready' = 1 .. Len(ready) - 1
      /\ \A i \in DOMAIN ready' : ready'[i] = ready[i + 1]
  BY DEF CallTypes
<1>2. \A i \in Stops' : i + 1 \in Stops
  BY <1>1 DEF Stops
<1> QED BY <1>1, <1>2

(* A task goes on, or ends.                                                *)
TaskMoves(c, to) ==
  /\ c \in Calls /\ call[c] \in D!Under
  /\ to \in D!Under \union {"done", "short"}
  /\ call' = [call EXCEPT ![c] = to]

Still == UNCHANGED << ready, leaving, gathered, thread, late, stops >>

LEMMA OfTaskMoves ==
  ASSUME BridgeInv, NEW c, NEW to, TaskMoves(c, to), Still
  PROVE  BridgeInv'
<1>1. /\ call' \in [Calls -> Wheres]
      /\ c \in Calls /\ call[c] \in D!Under /\ call'[c] = to /\ to # "queued"
      /\ \A d \in Calls : d # c => call'[d] = call[d]
  BY DEF BridgeInv, CallTypes, TaskMoves, Wheres, D!Under
<1>2. Stops' = Stops
  BY DEF Still, Stops
<1> QED BY <1>1, <1>2 DEF BridgeInv, CallTypes, QueuedFirst, AwaitedOrLate, OneStop, Still

LEMMA OfQuitEnds ==
  ASSUME BridgeInv, NEW q \in Quits, NEW stage \in D!Under, D!QuitEnds(q, stage)
  PROVE  BridgeInv' /\ TaskMoves(q, "done")
<1>1. /\ D!LoopRuns /\ D!Moves(q, stage, "done") /\ ready' = Append(ready, "stop")
      /\ stops' = IF stops = 2 THEN 2 ELSE stops + 1
      /\ UNCHANGED << thread, leaving, gathered, late >>
  BY DEF D!QuitEnds
<1>2. q \in Calls
  BY DEF Calls, D!Calls
<1>3. TaskMoves(q, "done")
  BY <1>1, <1>2 DEF D!Moves, D!Is, TaskMoves
<1>4. /\ call'[q] = "done" /\ call[q] \in D!Under /\ call' \in [Calls -> Wheres]
      /\ \A d \in Calls : d # q => call'[d] = call[d]
  BY <1>1, <1>2, <1>3, Moved DEF BridgeInv, Wheres, D!Under
<1>5. /\ ready' \in Seq(Calls \union {"stop"})
      /\ Len(ready) \in Nat /\ DOMAIN ready = 1 .. Len(ready)
      /\ DOMAIN ready' = 1 .. Len(ready) + 1
      /\ \A i \in DOMAIN ready : ready'[i] = ready[i]
      /\ Stops' = Stops \union {Len(ready) + 1}
  BY <1>1, OfQueueing DEF BridgeInv
<1>6. CallTypes'
  BY <1>1, <1>4, <1>5 DEF BridgeInv, CallTypes
<1>7. QueuedFirst'
  <2> SUFFICES ASSUME NEW c \in Calls, call'[c] = "queued", c \notin late
      PROVE  /\ ~leaving /\ thread \in Early
             /\ \E i \in DOMAIN ready' : ready'[i] = c /\ \A j \in Stops' : i < j
    BY <1>1 DEF QueuedFirst
  <2>1. call[c] = "queued"
    BY <1>4
  <2>2. /\ ~leaving /\ thread \in Early
        /\ \E i \in DOMAIN ready : ready[i] = c /\ \A j \in Stops : i < j
    BY <2>1 DEF BridgeInv, QueuedFirst
  <2> QED BY <1>5, <2>2
<1>8. AwaitedOrLate'
  BY <1>1, <1>4 DEF BridgeInv, AwaitedOrLate, D!Under
<1>9. OneStop'
  BY <1>1, <1>5 DEF BridgeInv, CallTypes, OneStop
<1> QED BY <1>3, <1>6, <1>7, <1>8, <1>9 DEF BridgeInv

LEMMA OfSubmitChecks ==
  ASSUME BridgeInv, NEW c \in Calls, D!SubmitChecks(c)
  PROVE  BridgeInv'
<1>1. /\ D!Moves(c, "none", IF D!LoopRuns THEN "checked" ELSE "refused") /\ Still
  BY DEF D!SubmitChecks, Still
<1>2. /\ call'[c] \in {"checked", "refused"} /\ call' \in [Calls -> Wheres]
      /\ \A d \in Calls : d # c => call'[d] = call[d]
  BY <1>1, Moved DEF BridgeInv, Wheres
<1>3. Stops' = Stops
  BY <1>1 DEF Still, Stops
<1> QED BY <1>1, <1>2, <1>3
        DEF BridgeInv, CallTypes, QueuedFirst, AwaitedOrLate, OneStop, Still, D!Under

LEMMA OfSubmitQueues ==
  ASSUME BridgeInv, NEW c \in Calls, D!SubmitQueues(c)
  PROVE  BridgeInv'
<1>1. UNCHANGED << thread, leaving, gathered, stops >>
  BY DEF D!SubmitQueues
<1>2. CASE thread = "closed"
  <2>1. D!Moves(c, "checked", "refused") /\ ready' = ready /\ late' = late
    BY <1>2 DEF D!SubmitQueues
  <2>2. /\ call'[c] = "refused" /\ call' \in [Calls -> Wheres]
        /\ \A d \in Calls : d # c => call'[d] = call[d]
    BY <2>1, Moved DEF BridgeInv, Wheres
  <2>3. Stops' = Stops
    BY <2>1 DEF Stops
  <2> QED BY <1>1, <2>1, <2>2, <2>3
          DEF BridgeInv, CallTypes, QueuedFirst, AwaitedOrLate, OneStop, D!Under
<1>3. CASE thread # "closed"
  <2>1. /\ D!Moves(c, "checked", "queued") /\ ready' = Append(ready, c)
        /\ late' = IF stops > 0 THEN late \union {c} ELSE late
    BY <1>3 DEF D!SubmitQueues
  <2>2. /\ call'[c] = "queued" /\ call' \in [Calls -> Wheres]
        /\ \A d \in Calls : d # c => call'[d] = call[d]
    BY <2>1, Moved DEF BridgeInv, Wheres
  <2>3. /\ ready' \in Seq(Calls \union {"stop"})
        /\ Len(ready) \in Nat /\ DOMAIN ready = 1 .. Len(ready)
        /\ DOMAIN ready' = 1 .. Len(ready) + 1
        /\ ready'[Len(ready) + 1] = c /\ \A i \in DOMAIN ready : ready'[i] = ready[i]
        /\ Stops' = Stops
    <3>1. c # "stop" /\ c \in Calls \union {"stop"}
      BY CallsAreNamed
    <3>2. Stops' = Stops \union (IF c = "stop" THEN {Len(ready) + 1} ELSE {})
      BY <2>1, <3>1, OfQueueing DEF BridgeInv
    <3> QED BY <2>1, <3>1, <3>2, OfQueueing DEF BridgeInv
  <2>4. CallTypes'
    BY <1>1, <2>1, <2>2, <2>3 DEF BridgeInv, CallTypes
  <2>5. QueuedFirst'
    <3> SUFFICES ASSUME NEW d \in Calls, call'[d] = "queued", d \notin late'
        PROVE  /\ ~leaving /\ thread \in Early
               /\ \E i \in DOMAIN ready' : ready'[i] = d /\ \A j \in Stops' : i < j
      BY <1>1 DEF QueuedFirst
    <3>1. CASE d = c
      <4>1. stops = 0
        BY <2>1, <3>1 DEF BridgeInv, CallTypes
      <4> QED BY <2>3, <3>1, <4>1 DEF BridgeInv, OneStop
    <3>2. CASE d # c
      <4>1. /\ ~leaving /\ thread \in Early
            /\ \E i \in DOMAIN ready : ready[i] = d /\ \A j \in Stops : i < j
        BY <2>1, <2>2, <3>2 DEF BridgeInv, QueuedFirst
      <4> QED BY <2>3, <4>1
    <3> QED BY <3>1, <3>2
  <2>6. AwaitedOrLate' /\ OneStop'
    BY <1>1, <2>1, <2>2, <2>3 DEF BridgeInv, AwaitedOrLate, OneStop, D!Under
  <2> QED BY <2>4, <2>5, <2>6 DEF BridgeInv
<1> QED BY <1>2, <1>3

LEMMA OfRunCallback ==
  ASSUME BridgeInv, D!RunCallback
  PROVE  BridgeInv'
<1>1. /\ ready # << >> /\ ready' = Tail(ready)
      /\ UNCHANGED << thread, gathered, late, stops >>
  BY DEF D!RunCallback
<1>2. /\ Head(ready) \in Calls \union {"stop"} /\ Head(ready) = ready[1]
      /\ ready' \in Seq(Calls \union {"stop"})
      /\ Len(ready) \in Nat \ {0} /\ DOMAIN ready = 1 .. Len(ready)
      /\ DOMAIN ready' = 1 .. Len(ready) - 1
      /\ \A i \in DOMAIN ready' : ready'[i] = ready[i + 1]
      /\ \A i \in Stops' : i + 1 \in Stops
  BY <1>1, OfRunning DEF BridgeInv
<1>3. \A i \in Stops : i \in Nat
  BY <1>2 DEF Stops
<1>4. \A i \in Stops' : i \in Nat
  BY <1>2 DEF Stops
<1>5. CASE Head(ready) = "stop"
  <2>1. leaving' = TRUE /\ call' = call
    BY <1>5 DEF D!RunCallback
  <2>2. 1 \in Stops
    BY <1>2, <1>5 DEF Stops
  <2>3. ASSUME NEW c \in Calls PROVE ~(call[c] = "queued" /\ c \notin late)
    BY <1>2, <2>2 DEF BridgeInv, QueuedFirst
  <2>4. CallTypes'
    BY <1>1, <1>2, <2>1 DEF BridgeInv, CallTypes
  <2>5. OneStop'
    <3>1. stops # 0
      BY <2>2 DEF BridgeInv, OneStop
    <3>2. ASSUME stops = 1 PROVE Stops' = {} /\ thread \in Early
      <4>1. /\ \A i, j \in Stops : i = j
            /\ thread \in Early
        BY <2>2, <3>2 DEF BridgeInv, OneStop
      <4>2. \A i \in Stops' : FALSE
        BY <1>2, <1>3, <1>4, <2>2, <4>1 DEF Stops
      <4> QED BY <4>1, <4>2
    <3> QED BY <1>1, <3>1, <3>2 DEF OneStop
  <2> QED BY <1>1, <2>1, <2>3, <2>4, <2>5 DEF BridgeInv, QueuedFirst, AwaitedOrLate
<1>6. CASE Head(ready) # "stop"
  <2> PICK k : k = Head(ready)
    OBVIOUS
  <2>1. k \in Calls /\ D!Moves(k, "queued", "made") /\ leaving' = leaving
    BY <1>2, <1>6 DEF D!RunCallback
  <2>2. /\ call[k] = "queued" /\ call'[k] = "made" /\ call' \in [Calls -> Wheres]
        /\ \A d \in Calls : d # k => call'[d] = call[d]
    BY <2>1, Moved DEF BridgeInv, Wheres, D!Under
  <2>3. CallTypes'
    BY <1>1, <1>2, <2>1, <2>2 DEF BridgeInv, CallTypes
  <2>4. QueuedFirst'
    <3> SUFFICES ASSUME NEW d \in Calls, call'[d] = "queued", d \notin late
        PROVE  /\ ~leaving /\ thread \in Early
               /\ \E i \in DOMAIN ready' : ready'[i] = d /\ \A j \in Stops' : i < j
      BY <1>1, <2>1 DEF QueuedFirst
    <3>1. d # k /\ call[d] = "queued"
      BY <2>2
    <3>2. /\ ~leaving /\ thread \in Early
          /\ \E i \in DOMAIN ready : ready[i] = d /\ \A j \in Stops : i < j
      BY <3>1 DEF BridgeInv, QueuedFirst
    <3>3. PICK i \in DOMAIN ready : ready[i] = d /\ \A j \in Stops : i < j
      BY <3>2
    <3>4. i - 1 \in DOMAIN ready' /\ ready'[i - 1] = d
      BY <1>2, <3>1, <3>3
    <3>5. \A j \in Stops' : i - 1 < j
      BY <1>2, <1>4, <3>3
    <3> QED BY <3>2, <3>4, <3>5
  <2>5. AwaitedOrLate'
    <3>1. thread = "gathering" => k \in late
      BY <2>1, <2>2 DEF BridgeInv, QueuedFirst, Early
    <3> QED BY <1>1, <2>2, <3>1 DEF BridgeInv, AwaitedOrLate
  <2>6. OneStop'
    <3>1. Stops' # {} => Stops # {}
      BY <1>2
    <3>2. ASSUME stops = 1, NEW i \in Stops', NEW j \in Stops' PROVE i = j
      BY <1>2, <1>4, <3>2 DEF BridgeInv, OneStop
    <3> QED BY <1>1, <2>1, <3>1, <3>2 DEF BridgeInv, OneStop
  <2> QED BY <2>3, <2>4, <2>5, <2>6 DEF BridgeInv
<1> QED BY <1>5, <1>6

LEMMA OfThread ==
  ASSUME BridgeInv, D!MakeLoop \/ D!RunLoop \/ D!LeaveLoop \/ D!Gather
  PROVE  BridgeInv'
<1>1. UNCHANGED << ready, call, late, stops >> /\ Stops' = Stops
  BY DEF D!MakeLoop, D!RunLoop, D!LeaveLoop, D!Gather, D!Thread, Stops
<1>2. CASE D!MakeLoop \/ D!RunLoop
  <2>1. /\ thread \in Early /\ thread' \in Early /\ leaving' = leaving
        /\ thread' # "gathering"
    BY <1>2 DEF D!MakeLoop, D!RunLoop, D!Thread, Early
  <2> QED BY <1>1, <2>1 DEF BridgeInv, CallTypes, QueuedFirst, AwaitedOrLate, OneStop
<1>3. CASE D!LeaveLoop
  <2>1. leaving /\ thread = "running" /\ thread' = "left" /\ leaving' = FALSE
    BY <1>3 DEF D!LeaveLoop, D!Thread
  <2> QED BY <1>1, <2>1 DEF BridgeInv, CallTypes, QueuedFirst, AwaitedOrLate, OneStop
<1>4. CASE D!Gather
  <2>1. /\ thread = "left" /\ thread' = "gathering" /\ leaving' = leaving
        /\ gathered' = D!Pending
    BY <1>4 DEF D!Gather, D!Thread
  <2>2. \A c \in Calls : call[c] \in D!Under => c \in gathered'
    BY <2>1 DEF D!Pending, Calls
  <2>3. thread \notin Early
    BY <2>1 DEF Early
  <2> QED BY <1>1, <2>1, <2>2, <2>3
          DEF BridgeInv, CallTypes, QueuedFirst, AwaitedOrLate, OneStop
<1> QED BY <1>2, <1>3, <1>4

(* The calls that are lost when the loop ends were queued late, unless it  *)
(* was asked to stop a second time.                                        *)
Undone == {c \in Calls : call[c] \in D!Under \union {"queued"}}

LEMMA OfTheEnd ==
  ASSUME BridgeInv, D!CloseLoop \/ D!BreakOff
  PROVE  /\ BridgeInv'
         /\ UNCHANGED << late, stops >>
         /\ \A c \in Calls : call'[c] = IF c \in Undone THEN "lost" ELSE call[c]
         /\ \A c \in Undone : c \in late \/ stops = 2
<1>1. /\ thread = "gathering" /\ thread' \in {"closed", "broken"}
      /\ call' = [c \in Calls |-> IF c \in Undone THEN "lost" ELSE call[c]]
      /\ UNCHANGED << ready, leaving, late, stops >>
      /\ Stops' = Stops
  BY DEF D!CloseLoop, D!BreakOff, D!Thread, D!RestIsLost, Undone, Calls, Stops
<1>2. /\ \A c \in Calls : call'[c] = IF c \in Undone THEN "lost" ELSE call[c]
      /\ call' \in [Calls -> Wheres]
  BY <1>1 DEF BridgeInv, CallTypes, Wheres
<1>3. BridgeInv'
  BY <1>1, <1>2 DEF BridgeInv, CallTypes, QueuedFirst, AwaitedOrLate, OneStop, Early,
     Undone, D!Under
<1>4. ASSUME NEW c \in Undone, c \notin late PROVE stops = 2
  <2>1. call[c] \in D!Under /\ c \in gathered
    BY <1>1, <1>4 DEF BridgeInv, QueuedFirst, AwaitedOrLate, Undone, Early
  <2>2. CASE D!CloseLoop
    <3>1. c # "services"
      BY CallsAreNamed DEF Undone
    <3> QED BY <2>1, <2>2, <3>1 DEF D!CloseLoop, D!AllDone
  <2>3. CASE D!BreakOff
    <3>1. leaving /\ thread \notin Early
      BY <1>1, <2>3 DEF D!BreakOff, Early
    <3> QED BY <3>1 DEF BridgeInv, CallTypes, OneStop
  <2> QED BY <2>2, <2>3
<1> QED BY <1>1, <1>2, <1>3, <1>4

(* The steps that concern neither the calls nor the loop.                  *)
CallsStay == Still /\ UNCHANGED call

LEMMA OfTheRest ==
  ASSUME BridgeInv, CallsStay
  PROVE  BridgeInv'
<1>1. UNCHANGED << call, ready, leaving, gathered, thread, late, stops >>
  BY DEF CallsStay, Still
<1>2. CallTypes' /\ AwaitedOrLate'
  BY <1>1 DEF BridgeInv, CallTypes, AwaitedOrLate
<1>3. Stops' = Stops
  BY <1>1 DEF Stops
<1> QED BY <1>1, <1>2, <1>3 DEF BridgeInv, QueuedFirst, OneStop

(* Each step is one of the bridge or of a task, or does not concern them.  *)
TaskStep == \E c \in Calls, to \in D!Under \union {"done", "short"} : TaskMoves(c, to) /\ Still

LEMMA OfStartApp ==
  ASSUME D!StartApp
  PROVE  TaskStep \/ CallsStay
<1>1. ASSUME NEW from \in D!Under, NEW to \in D!Under \union {"done", "short"}, D!Start(from, to)
      PROVE  TaskStep
  <2>1. TaskMoves("start", to) /\ Still
    BY <1>1, CallsAreNamed DEF D!Start, D!Moves, D!Is, D!loops, TaskMoves, Still
  <2> QED BY <2>1, CallsAreNamed DEF TaskStep
<1>2. CASE D!ServicesBegin
  BY <1>2 DEF D!ServicesBegin, D!loops, CallsStay, Still
<1>3. CASE ~D!ServicesBegin
  BY <1>1, <1>3 DEF D!StartApp, D!StartBegins, D!AppIsStarted, D!Subscribe, D!LoadReads,
     D!LoadEmits, D!StartRaises, D!Under
<1> QED BY <1>2, <1>3

LEMMA OfStopApp ==
  ASSUME NEW q \in Quits, D!QuitStopsApp(q) \/ D!AppStopRaises(q)
  PROVE  TaskStep
<1>1. PICK to \in {"stopping", "done"} :
        call[q] \in D!Under /\ call' = [call EXCEPT ![q] = to] /\ Still
  BY DEF D!QuitStopsApp, D!AppStopRaises, D!Moves, D!Is, D!loops, Still, D!Under
<1>2. q \in Calls
  BY DEF Calls, D!Calls
<1> QED BY <1>1, <1>2 DEF TaskStep, TaskMoves, D!Under

LEMMA StepOfBridge ==
  ASSUME [D!Next]_(D!vars)
  PROVE  \/ CallsStay
         \/ TaskStep
         \/ \E c \in Calls : D!SubmitChecks(c) \/ D!SubmitQueues(c)
         \/ D!RunCallback
         \/ D!MakeLoop \/ D!RunLoop \/ D!LeaveLoop \/ D!Gather
         \/ D!CloseLoop \/ D!BreakOff
         \/ \E q \in Quits, stage \in D!Under : D!QuitEnds(q, stage)
<1>1. CASE UNCHANGED D!vars
  BY <1>1 DEF D!vars, D!loops, CallsStay, Still
<1>2. CASE D!Deliver \/ D!TakeEvent \/ D!Dispatcher
  BY <1>2 DEF D!Deliver, D!TakeEvent, D!Dispatcher, D!StoreEvent, D!StoreFails, D!ForwardEvent,
     D!Dispatches, D!loops, CallsStay, Still
<1>3. CASE D!StopApp
  BY <1>3, OfStopApp DEF D!StopApp, D!QuitAtOnce, D!AppIsStopped, D!Under
<1>4. CASE D!StartApp
  BY <1>4, OfStartApp
<1>5. CASE \E q \in Quits : D!AppStopRaises(q)
  BY <1>5, OfStopApp
<1> QED BY <1>1, <1>2, <1>3, <1>4, <1>5 DEF D!Next, D!Bridge, Calls

LEMMA BridgeStep == BridgeInv /\ [D!Next]_(D!vars) => BridgeInv'
<1> SUFFICES ASSUME BridgeInv, [D!Next]_(D!vars) PROVE BridgeInv'
  OBVIOUS
<1>1. CASE TaskStep
  BY <1>1, OfTaskMoves DEF TaskStep
<1>2. CASE \E c \in Calls : D!SubmitChecks(c) \/ D!SubmitQueues(c)
  BY <1>2, OfSubmitChecks, OfSubmitQueues
<1>3. CASE \E q \in Quits, stage \in D!Under : D!QuitEnds(q, stage)
  BY <1>3, OfQuitEnds
<1>4. CASE CallsStay \/ D!RunCallback
  BY <1>4, OfTheRest, OfRunCallback
<1>5. CASE D!MakeLoop \/ D!RunLoop \/ D!LeaveLoop \/ D!Gather
  BY <1>5, OfThread
<1>6. CASE D!CloseLoop \/ D!BreakOff
  BY <1>6, OfTheEnd
<1> QED BY <1>1, <1>2, <1>3, <1>4, <1>5, <1>6, StepOfBridge

(* What the promise sees of the calls.                                     *)
Phases == [c \in D!Calls |-> D!Phase(c)]

PhaseFor(where) ==
  IF where \in {"none", "checked"} THEN "none"
  ELSE IF where \in D!Under \union {"queued"} THEN "accepted"
  ELSE IF where = "short" THEN "done" ELSE where

LEMMA PhaseOf ==
  /\ \A c \in Calls : Phases[c] = PhaseFor(call[c])
  /\ \A c \in Calls : Phases'[c] = PhaseFor(call'[c])
BY DEF Phases, PhaseFor, D!Phase, Calls

(* When one call goes on, the promise sees it turn, or nothing.            *)
LEMMA PhaseTurns ==
  ASSUME NEW c \in Calls, \A d \in Calls : d # c => call'[d] = call[d]
  PROVE  /\ Phases' = [Phases EXCEPT ![c] = PhaseFor(call'[c])]
         /\ PhaseFor(call'[c]) = PhaseFor(call[c]) => Phases' = Phases
<1>1. \A d \in Calls : Phases'[d] = IF d = c THEN PhaseFor(call'[c]) ELSE Phases[d]
  BY PhaseOf
<1>2. /\ Phases = [d \in Calls |-> Phases[d]]
      /\ Phases' = [d \in Calls |-> Phases'[d]]
  BY DEF Phases, Calls
<1> HIDE DEF Phases
<1>3. Phases' = [Phases EXCEPT ![c] = PhaseFor(call'[c])]
  BY <1>1, <1>2
<1>4. ASSUME PhaseFor(call'[c]) = PhaseFor(call[c]) PROVE Phases' = Phases
  <2>1. \A d \in Calls : Phases'[d] = Phases[d]
    BY <1>1, <1>4, PhaseOf
  <2> QED BY <1>2, <2>1
<1> QED BY <1>3, <1>4

PromiseStep == [D!Promise!Next]_<< Phases, late, stops >>

LEMMA PromiseOfTask ==
  ASSUME BridgeInv, NEW c \in Calls, NEW to, TaskMoves(c, to), UNCHANGED late,
         stops' = stops \/ stops' = IF stops = 2 THEN 2 ELSE stops + 1,
         to \in D!Under => stops' = stops
  PROVE  PromiseStep
<1>1. /\ call[c] \in D!Under /\ call'[c] = to
      /\ \A d \in Calls : d # c => call'[d] = call[d]
  BY DEF BridgeInv, CallTypes, TaskMoves
<1>2. PhaseFor(call[c]) = "accepted"
      /\ PhaseFor(to) = IF to \in D!Under THEN "accepted" ELSE "done"
  BY <1>1 DEF TaskMoves, PhaseFor, D!Under
<1>3. CASE to \in D!Under
  BY <1>1, <1>2, <1>3, PhaseTurns DEF PromiseStep
<1>4. CASE to \notin D!Under
  <2>1. Phases[c] = "accepted" /\ Phases' = [Phases EXCEPT ![c] = "done"]
    BY <1>1, <1>2, <1>4, PhaseOf, PhaseTurns
  <2>2. D!Promise!Finish(c)
    BY <2>1 DEF D!Promise!Finish, D!Promise!Turns, Phases
  <2> QED BY <2>2 DEF PromiseStep, D!Promise!Next, Calls
<1> QED BY <1>3, <1>4

LEMMA PromiseOfSubmit ==
  ASSUME BridgeInv, NEW c \in Calls, D!SubmitChecks(c) \/ D!SubmitQueues(c)
  PROVE  PromiseStep
<1>1. PICK from \in {"none", "checked"}, to \in {"checked", "refused", "queued"} :
        /\ D!Moves(c, from, to) /\ stops' = stops
        /\ late' = IF to = "queued" /\ stops > 0 THEN late \union {c} ELSE late
  BY DEF D!SubmitChecks, D!SubmitQueues
<1>2. /\ call[c] = from /\ call'[c] = to
      /\ \A d \in Calls : d # c => call'[d] = call[d]
  BY <1>1, Moved DEF BridgeInv, Wheres
<1>3. /\ PhaseFor(from) = "none"
      /\ PhaseFor(to) = IF to = "checked" THEN "none"
                        ELSE IF to = "queued" THEN "accepted" ELSE "refused"
  BY <1>1 DEF PhaseFor, D!Under
<1>4. Phases[c] = "none" /\ Phases' = [Phases EXCEPT ![c] = PhaseFor(to)]
  BY <1>2, <1>3, PhaseOf, PhaseTurns
<1>5. CASE to = "checked"
  <2>1. Phases' = Phases
    BY <1>2, <1>3, <1>5, PhaseTurns
  <2> QED BY <1>1, <1>5, <2>1 DEF PromiseStep
<1>6. CASE to = "refused"
  <2>1. D!Promise!Refuse(c)
    BY <1>1, <1>3, <1>4, <1>6 DEF D!Promise!Refuse, D!Promise!Turns, Phases
  <2> QED BY <2>1 DEF PromiseStep, D!Promise!Next, Calls
<1>7. CASE to = "queued"
  <2>1. late' = IF stops = 0 THEN late ELSE late \union {c}
    BY <1>1, <1>7 DEF BridgeInv, CallTypes
  <2>2. D!Promise!Accept(c)
    BY <1>1, <1>3, <1>4, <1>7, <2>1 DEF D!Promise!Accept, D!Promise!Turns, Phases
  <2> QED BY <2>2 DEF PromiseStep, D!Promise!Next, Calls
<1> QED BY <1>1, <1>5, <1>6, <1>7

LEMMA PromiseOfCallback ==
  ASSUME BridgeInv, D!RunCallback
  PROVE  PromiseStep
<1>1. UNCHANGED << late, stops >> /\ ready # << >> /\ ready' = Tail(ready)
  BY DEF D!RunCallback
<1>2. CASE call' = call
  BY <1>1, <1>2 DEF PromiseStep, Phases, D!Phase
<1>3. CASE call' # call
  <2> PICK k : k = Head(ready)
    OBVIOUS
  <2>1. k \in Calls /\ D!Moves(k, "queued", "made")
    BY <1>1, <1>3, OfRunning DEF D!RunCallback, BridgeInv
  <2>2. /\ call[k] = "queued" /\ call'[k] = "made"
        /\ \A d \in Calls : d # k => call'[d] = call[d]
    BY <2>1, Moved DEF BridgeInv, Wheres, D!Under
  <2>3. PhaseFor(call'[k]) = PhaseFor(call[k])
    BY <2>2 DEF PhaseFor, D!Under
  <2>4. Phases' = Phases
    BY <2>1, <2>2, <2>3, PhaseTurns
  <2> QED BY <1>1, <2>4 DEF PromiseStep
<1> QED BY <1>2, <1>3

LEMMA PromiseOfTheEnd ==
  ASSUME BridgeInv, D!CloseLoop \/ D!BreakOff
  PROVE  PromiseStep
<1>1. /\ UNCHANGED << late, stops >>
      /\ \A c \in Calls : call'[c] = IF c \in Undone THEN "lost" ELSE call[c]
      /\ \A c \in Undone : c \in late \/ stops = 2
  BY OfTheEnd
<1>2. \A c \in Calls : Phases'[c] = IF c \in Undone THEN "lost" ELSE Phases[c]
  <2>1. PhaseFor("lost") = "lost"
    BY DEF PhaseFor, D!Under
  <2> QED BY <1>1, <2>1, PhaseOf
<1>3. \A c \in Undone : c \in Calls /\ Phases[c] = "accepted"
  BY PhaseOf DEF Undone, PhaseFor, D!Under
<1>4. Phases' = [c \in D!Calls |-> IF c \in Undone THEN "lost" ELSE Phases[c]]
  <2>1. Phases' = [c \in D!Calls |-> Phases'[c]]
    BY DEF Phases
  <2> HIDE DEF Phases
  <2> QED BY <1>2, <2>1 DEF Calls
<1>5. CASE Undone = {}
  <2>1. Phases = [c \in D!Calls |-> Phases[c]]
    BY DEF Phases
  <2>2. Phases' = Phases
    BY <1>4, <1>5, <2>1
  <2> QED BY <1>1, <2>2 DEF PromiseStep
<1>6. CASE Undone # {}
  <2>1. D!Promise!Lose(Undone)
    BY <1>1, <1>3, <1>4, <1>6 DEF D!Promise!Lose, Phases
  <2>2. Undone \in SUBSET D!Calls
    BY DEF Undone, Calls
  <2> QED BY <2>1, <2>2 DEF PromiseStep, D!Promise!Next
<1> QED BY <1>5, <1>6

LEMMA StepKeepsPromise == BridgeInv /\ [D!Next]_(D!vars) => PromiseStep
<1> SUFFICES ASSUME BridgeInv, [D!Next]_(D!vars) PROVE PromiseStep
  OBVIOUS
<1>1. CASE CallsStay \/ D!MakeLoop \/ D!RunLoop \/ D!LeaveLoop \/ D!Gather
  <2>1. UNCHANGED << call, late, stops >>
    BY <1>1 DEF CallsStay, Still, D!MakeLoop, D!RunLoop, D!LeaveLoop, D!Gather, D!Thread
  <2> QED BY <2>1 DEF PromiseStep, Phases, D!Phase
<1>2. CASE TaskStep
  BY <1>2, PromiseOfTask DEF TaskStep, Still
<1>3. CASE \E c \in Calls : D!SubmitChecks(c) \/ D!SubmitQueues(c)
  BY <1>3, PromiseOfSubmit
<1>4. CASE D!RunCallback
  BY <1>4, PromiseOfCallback
<1>5. CASE D!CloseLoop \/ D!BreakOff
  BY <1>5, PromiseOfTheEnd
<1>6. ASSUME NEW q \in Quits, NEW stage \in D!Under, D!QuitEnds(q, stage) PROVE PromiseStep
  <2>1. TaskMoves(q, "done") /\ q \in Calls
    BY <1>6, OfQuitEnds DEF TaskMoves
  <2>2. late' = late /\ stops' = IF stops = 2 THEN 2 ELSE stops + 1
    BY <1>6 DEF D!QuitEnds
  <2>3. "done" \notin D!Under
    BY DEF D!Under
  <2> QED BY <2>1, <2>2, <2>3, PromiseOfTask
<1> QED BY <1>1, <1>2, <1>3, <1>4, <1>5, <1>6, StepOfBridge

(* A coroutine that is handed to the loop comes to its end, however the    *)
(* stop of the loop falls between the check and the callback: only one     *)
(* that was queued after the stop was asked for may be lost, or any when   *)
(* it is asked for twice.  Each step of the desktop is one of the promise, *)
(* or none (bridge.py:28-54).                                              *)
THEOREM BridgeKeepsItsPromise == D!Spec => ImplementsCalls
<1>1. D!Init => D!Promise!Init
  BY DEF D!Init, D!Promise!Init, D!Phase
<1> QED BY <1>1, BridgeInit, BridgeStep, StepKeepsPromise, PTL
        DEF D!Spec, ImplementsCalls, D!ImplementsCalls, D!Promise!Spec, PromiseStep, Phases

-----------------------------------------------------------------------------
(* The feed.  What the Qt thread shows or will show.                       *)

OnScreen == Range(cards) \union Range(signals)

Cards == [event : Nat, loaded : BOOLEAN]

FeedTypes ==
  /\ call["start"] \in Wheres
  /\ made \in Nat /\ after \in 0 .. made /\ holding \in 0 .. made
  /\ at \in Seq(Int) /\ Len(at) = made
  /\ stored \subseteq 1 .. made
  /\ recent \subseteq 1 .. made
  /\ forward \in BOOLEAN /\ subscribed \in BOOLEAN
  /\ cards \in Seq(Cards) /\ signals \in Seq(Cards)
  /\ \A card \in OnScreen : card.event \in 1 .. made

(* start_app() has the events forwarded before it loads the recent ones.   *)
Subscribed ==
  /\ subscribed => call["start"] \in {"loading", "read", "done", "short", "lost"}
  /\ call["start"] \in {"loading", "read", "done"} => subscribed

(* What is forwarded next was taken after all that was forwarded.  When    *)
(* the feed has it from the query as well, or will, it came before that.   *)
ForwardedIsNext ==
  holding # 0 =>
    /\ \A card \in OnScreen : ~card.loaded => card.event < holding
    /\ forward => subscribed
    /\ forward /\ (call["start"] # "done" \/ D!Loaded(holding) \in OnScreen) => holding \in early

(* Until the recent ones come, all that is shown came early.               *)
ShownIsEarly ==
  call["start"] # "done" => \A card \in OnScreen : ~card.loaded /\ card.event \in early

(* The signals will be cards above those that are there.                   *)
WillBeOrdered ==
  /\ \A i, j \in DOMAIN cards : i < j => D!InOrder(cards[i], cards[j])
  /\ \A i, j \in DOMAIN signals : i < j => D!InOrder(signals[j], signals[i])
  /\ \A i \in DOMAIN cards, j \in DOMAIN signals : D!InOrder(signals[j], cards[i])

(* Since the forwarding began each event is forwarded.  What was stored    *)
(* before is found by the query, but for what was being stored, and shown. *)
Ever(card) == card \in OnScreen \union trimmed

Excused(e) == e = in_flight \/ D!LeftOut(e)

FeedCovers ==
  /\ subscribed => \A e \in 1 .. made : e > after => (e = holding /\ forward) \/ Ever(D!Live(e))
  /\ call["start"] \in {"loading", "read", "done"} =>
       (holding # 0 /\ ~forward => holding = in_flight)
  /\ holding # 0 /\ forward => holding > after
  /\ call["start"] = "read" => \A e \in stored : e <= after => e \in recent \/ Excused(e)
  /\ call["start"] = "done" => \A e \in stored : e <= after => Ever(D!Loaded(e)) \/ Excused(e)

FeedInv ==
  /\ FeedTypes
  /\ Subscribed
  /\ ForwardedIsNext
  /\ ShownIsEarly
  /\ WillBeOrdered
  /\ FeedCovers

LEMMA FeedInit == D!Init => FeedInv
<1> SUFFICES ASSUME D!Init PROVE FeedInv
  OBVIOUS
<1>1. /\ call = [c \in Calls |-> "none"] /\ made \in 0 .. MaxEvents /\ stored = 1 .. made
      /\ at \in [1 .. made -> 1 .. MaxEvents]
      /\ holding = 0 /\ forward = FALSE /\ subscribed = FALSE /\ after = 0 /\ recent = {}
      /\ signals = << >> /\ cards = << >>
  BY DEF D!Init, Calls
<1>2. call["start"] = "none"
  BY <1>1, CallsAreNamed
<1>3. OnScreen = {}
  BY <1>1 DEF OnScreen, Range
<1>4. FeedTypes
  <2>1. cards \in Seq(Cards) /\ signals \in Seq(Cards)
    BY <1>1
  <2>2. made \in Nat /\ holding \in 0 .. made /\ after \in Nat
    BY <1>1
  <2>3. at \in Seq(Int) /\ Len(at) = made
    BY <1>1, <2>2
  <2> QED BY <1>1, <1>2, <1>3, <2>1, <2>2, <2>3 DEF FeedTypes, Wheres
<1>5. WillBeOrdered
  BY <1>1 DEF WillBeOrdered
<1> QED BY <1>1, <1>2, <1>3, <1>4, <1>5
        DEF FeedInv, Subscribed, ForwardedIsNext, ShownIsEarly, FeedCovers

(* The order does not change while the feed stays as it is.                *)
LEMMA OrderStays ==
  ASSUME FeedInv, UNCHANGED << cards, signals >>, early \subseteq early',
         \A e \in 1 .. made : at'[e] = at[e]
  PROVE  WillBeOrdered'
<1>1. /\ \A i \in DOMAIN cards : cards[i] \in OnScreen /\ cards[i].event \in 1 .. made
      /\ \A i \in DOMAIN signals : signals[i] \in OnScreen /\ signals[i].event \in 1 .. made
  BY DEF FeedInv, FeedTypes, OnScreen, Range
<1>2. ASSUME NEW i \in DOMAIN cards', NEW j \in DOMAIN cards', i < j
      PROVE  D!InOrder(cards[i], cards[j])'
  BY <1>1, <1>2 DEF FeedInv, WillBeOrdered, D!InOrder
<1>3. ASSUME NEW i \in DOMAIN signals', NEW j \in DOMAIN signals', i < j
      PROVE  D!InOrder(signals[j], signals[i])'
  BY <1>1, <1>3 DEF FeedInv, WillBeOrdered, D!InOrder
<1>4. ASSUME NEW i \in DOMAIN cards', NEW j \in DOMAIN signals'
      PROVE  D!InOrder(signals[j], cards[i])'
  BY <1>1, <1>4 DEF FeedInv, WillBeOrdered, D!InOrder
<1> QED BY <1>2, <1>3, <1>4 DEF WillBeOrdered

(* The steps that leave the feed and the events alone: start_app() is      *)
(* elsewhere than where it has the events forwarded and loads the recent   *)
(* ones, or ends there.                                                    *)
FeedStays == UNCHANGED << at, made, stored, holding, forward, subscribed, after, recent,
                          signals, cards, early, in_flight, trimmed >>

Elsewhere ==
  \/ call'["start"] = call["start"]
  \/ call["start"] # "done" /\ call'["start"] \in {"short", "lost"}
  \/ /\ call["start"] \notin {"loading", "read", "done", "short", "lost"}
     /\ call'["start"] \in Wheres \ {"loading", "read", "done"}

LEMMA OfElsewhere ==
  ASSUME FeedInv, FeedStays, Elsewhere
  PROVE  FeedInv'
<1>1. /\ UNCHANGED << at, made, stored, holding, forward, subscribed, after, recent, signals,
                      cards, early, in_flight, trimmed >>
      /\ OnScreen' = OnScreen
  BY DEF FeedStays, OnScreen
<1>2. /\ call'["start"] \in Wheres
      /\ call'["start"] \in {"loading", "read", "done"} => call'["start"] = call["start"]
      /\ call["start"] = "done" => call'["start"] = "done"
      /\ call["start"] \in {"loading", "read", "done", "short", "lost"} =>
           call'["start"] \in {"loading", "read", "done", "short", "lost"}
  BY DEF FeedInv, FeedTypes, Elsewhere, Wheres
<1>3. FeedTypes' /\ Subscribed'
  BY <1>1, <1>2 DEF FeedInv, FeedTypes, Subscribed
<1>4. ForwardedIsNext' /\ ShownIsEarly'
  BY <1>1, <1>2 DEF FeedInv, ForwardedIsNext, ShownIsEarly, D!Loaded
<1>5. WillBeOrdered'
  BY <1>1, OrderStays
<1>6. FeedCovers'
  BY <1>1, <1>2 DEF FeedInv, FeedCovers, Ever, Excused, D!LeftOut, D!Live, D!Loaded
<1> QED BY <1>3, <1>4, <1>5, <1>6 DEF FeedInv

(* A signal becomes the first card, and the last card may go.              *)
LEMMA OfDeliver ==
  ASSUME FeedInv, D!Deliver
  PROVE  FeedInv'
<1> PICK new : new = Head(signals)
  OBVIOUS
<1> PICK kept : kept = Len(cards')
  OBVIOUS
<1>1. /\ UNCHANGED << call, at, made, stored, holding, forward, subscribed, after, recent, early,
                      in_flight >>
      /\ signals # << >> /\ signals' = Tail(signals)
      /\ cards' = D!Trimmed(<< new >> \o cards)
      /\ trimmed' = trimmed \union (D!Range(<< new >> \o cards) \ D!Range(cards'))
  BY DEF D!Deliver, D!loops, D!app, D!dispatch, D!loading
<1>2. /\ new \in Cards /\ new = signals[1] /\ signals' \in Seq(Cards)
      /\ DOMAIN signals = 1 .. Len(signals) /\ Len(signals) \in Nat \ {0}
      /\ DOMAIN signals' = 1 .. Len(signals) - 1
      /\ \A i \in DOMAIN signals' : signals'[i] = signals[i + 1]
  BY <1>1 DEF FeedInv, FeedTypes
<1> PICK more : more = << new >> \o cards
  OBVIOUS
<1>3. /\ more \in Seq(Cards) /\ Len(cards) \in Nat
      /\ Len(more) = Len(cards) + 1 /\ DOMAIN more = 1 .. Len(cards) + 1
      /\ DOMAIN cards = 1 .. Len(cards)
      /\ more[1] = new /\ \A i \in DOMAIN cards : more[i + 1] = cards[i]
  BY <1>2, SMTT(30) DEF FeedInv, FeedTypes
<1>4. /\ cards' \in Seq(Cards) /\ kept \in 0 .. Len(more) /\ DOMAIN cards' = 1 .. kept
      /\ \A i \in 1 .. kept : cards'[i] = more[i]
  BY <1>1, <1>3, DesktopAssumption DEF D!Trimmed
<1>12. \A i \in 1 .. kept :
         \/ i = 1 /\ cards'[i] = new
         \/ i > 1 /\ i - 1 \in DOMAIN cards /\ cards'[i] = cards[i - 1]
  <2> SUFFICES ASSUME NEW i \in 1 .. kept
      PROVE  \/ i = 1 /\ cards'[i] = new
             \/ i > 1 /\ i - 1 \in DOMAIN cards /\ cards'[i] = cards[i - 1]
    OBVIOUS
  <2>1. cards'[i] = more[i]
    BY <1>4
  <2>2. CASE i = 1
    BY <1>3, <2>1, <2>2
  <2>3. CASE i # 1
    <3>1. i > 1 /\ i - 1 \in 1 .. Len(cards) /\ (i - 1) + 1 = i
      BY <1>3, <1>4, <2>3, SMTT(30)
    <3>2. more[(i - 1) + 1] = cards[i - 1]
      BY <1>3, <3>1
    <3> QED BY <1>3, <2>1, <3>1, <3>2
  <2> QED BY <2>2, <2>3
<1>5. Range(more) = {new} \union Range(cards)
  <2>1. ASSUME NEW i \in DOMAIN more PROVE more[i] \in {new} \union Range(cards)
    <3>1. i = 1 \/ (i - 1 \in DOMAIN cards /\ more[(i - 1) + 1] = cards[i - 1] /\ (i - 1) + 1 = i)
      BY <1>3
    <3> QED BY <1>3, <3>1 DEF Range
  <2>2. ASSUME NEW i \in DOMAIN cards PROVE cards[i] \in Range(more)
    <3>1. i + 1 \in DOMAIN more /\ more[i + 1] = cards[i]
      BY <1>3
    <3> QED BY <3>1 DEF Range
  <2>3. new \in Range(more)
    <3>1. 1 \in DOMAIN more /\ more[1] = new
      BY <1>3
    <3> QED BY <3>1 DEF Range
  <2> QED BY <2>1, <2>2, <2>3, SMTT(30) DEF Range
<1>6. Range(cards') \subseteq Range(more) /\ trimmed' = trimmed \union (Range(more) \ Range(cards'))
  <2>1. ASSUME NEW i \in DOMAIN cards' PROVE cards'[i] \in Range(more)
    <3>1. i \in 1 .. kept /\ cards'[i] = more[i]
      BY <1>4
    <3>2. i \in DOMAIN more
      BY <1>3, <1>4, <3>1
    <3> QED BY <3>1, <3>2 DEF Range
  <2>2. Range(cards') \subseteq Range(more)
    BY <2>1 DEF Range
  <2>3. D!Range(<< new >> \o cards) = Range(more) /\ D!Range(cards') = Range(cards')
    BY DEF Range, D!Range
  <2> QED BY <1>1, <2>2, <2>3
<1>7. Range(signals) = {new} \union Range(signals')
  <2>1. ASSUME NEW i \in DOMAIN signals PROVE signals[i] \in {new} \union Range(signals')
    <3>1. i = 1 \/ (i - 1 \in DOMAIN signals' /\ signals'[i - 1] = signals[i])
      BY <1>2, SMTT(30)
    <3> QED BY <1>2, <3>1 DEF Range
  <2>2. ASSUME NEW i \in DOMAIN signals' PROVE signals'[i] \in Range(signals)
    <3>1. i + 1 \in DOMAIN signals /\ signals'[i] = signals[i + 1]
      BY <1>2
    <3> QED BY <3>1 DEF Range
  <2>3. new \in Range(signals)
    <3>1. 1 \in DOMAIN signals
      BY <1>2
    <3> QED BY <1>2, <3>1 DEF Range
  <2> QED BY <2>1, <2>2, <2>3 DEF Range
<1>8. /\ OnScreen' \subseteq OnScreen
      /\ OnScreen \union trimmed \subseteq OnScreen' \union trimmed'
  BY <1>5, <1>6, <1>7 DEF OnScreen
<1>9. FeedTypes' /\ Subscribed'
  BY <1>1, <1>2, <1>4, <1>8 DEF FeedInv, FeedTypes, Subscribed
<1>10. ForwardedIsNext' /\ ShownIsEarly'
  BY <1>1, <1>8 DEF FeedInv, ForwardedIsNext, ShownIsEarly, D!Loaded
<1>11. FeedCovers'
  BY <1>1, <1>8 DEF FeedInv, FeedCovers, Ever, Excused, D!LeftOut, D!Live, D!Loaded
<1>13. WillBeOrdered'
  <2>1. ASSUME NEW i \in DOMAIN cards', NEW j \in DOMAIN cards', i < j
        PROVE  D!InOrder(cards[i], cards[j])'
    <3>1. /\ j - 1 \in DOMAIN cards /\ cards'[j] = cards[j - 1]
          /\ i = 1 \/ (i - 1 \in DOMAIN cards /\ cards'[i] = cards[i - 1])
          /\ i = 1 => cards'[i] = signals[1]
      <4>1. i \in 1 .. kept /\ j \in 1 .. kept /\ i < j
        BY <1>4, <2>1
      <4> QED BY <1>2, <1>12, <4>1
    <3>2. 1 \in DOMAIN signals
      BY <1>2
    <3>3. CASE i = 1
      <4>1. D!InOrder(signals[1], cards[j - 1])
        BY <3>1, <3>2 DEF FeedInv, WillBeOrdered
      <4> QED BY <1>1, <3>1, <3>3, <4>1 DEF D!InOrder
    <3>4. CASE i # 1
      <4>1. i - 1 < j - 1
        BY <1>4, <2>1
      <4>2. D!InOrder(cards[i - 1], cards[j - 1])
        BY <3>1, <3>4, <4>1 DEF FeedInv, WillBeOrdered
      <4> QED BY <1>1, <3>1, <3>4, <4>2 DEF D!InOrder
    <3> QED BY <3>3, <3>4
  <2>2. ASSUME NEW i \in DOMAIN signals', NEW j \in DOMAIN signals', i < j
        PROVE  D!InOrder(signals[j], signals[i])'
    <3>1. /\ i + 1 \in DOMAIN signals /\ j + 1 \in DOMAIN signals /\ i + 1 < j + 1
          /\ signals'[i] = signals[i + 1] /\ signals'[j] = signals[j + 1]
      BY <1>2, <2>2, SMTT(30)
    <3>2. D!InOrder(signals[j + 1], signals[i + 1])
      BY <3>1 DEF FeedInv, WillBeOrdered
    <3> QED BY <1>1, <3>1, <3>2 DEF D!InOrder
  <2>3. ASSUME NEW i \in DOMAIN cards', NEW j \in DOMAIN signals'
        PROVE  D!InOrder(signals[j], cards[i])'
    <3>1. /\ j + 1 \in DOMAIN signals /\ signals'[j] = signals[j + 1] /\ 1 < j + 1
          /\ 1 \in DOMAIN signals
      BY <1>2
    <3>2. \/ cards'[i] = signals[1]
          \/ i - 1 \in DOMAIN cards /\ cards'[i] = cards[i - 1]
      <4>1. i \in 1 .. kept
        BY <1>4
      <4> QED BY <1>2, <1>12, <4>1
    <3>3. CASE cards'[i] = signals[1]
      <4>1. D!InOrder(signals[j + 1], signals[1])
        BY <3>1 DEF FeedInv, WillBeOrdered
      <4> QED BY <1>1, <3>1, <3>3, <4>1 DEF D!InOrder
    <3>4. CASE i - 1 \in DOMAIN cards /\ cards'[i] = cards[i - 1]
      <4>1. D!InOrder(signals[j + 1], cards[i - 1])
        BY <3>1, <3>4 DEF FeedInv, WillBeOrdered
      <4> QED BY <1>1, <3>1, <3>4, <4>1 DEF D!InOrder
    <3> QED BY <3>2, <3>3, <3>4
  <2> QED BY <2>1, <2>2, <2>3 DEF WillBeOrdered
<1> QED BY <1>9, <1>10, <1>11, <1>13 DEF FeedInv

(* A new event has a timestamp, and the others keep theirs.                *)
LEMMA OfAppearing ==
  ASSUME FeedInv, D!Appears
  PROVE  /\ made' = made + 1 /\ at' \in Seq(Int) /\ Len(at') = made'
         /\ \A e \in 1 .. made : at'[e] = at[e]
<1>1. made \in Nat /\ at \in Seq(Int) /\ Len(at) = made
  BY DEF FeedInv, FeedTypes
<1>2. PICK t \in Int : made' = made + 1 /\ at' = Append(at, t)
  BY DEF D!Appears
<1> QED BY <1>1, <1>2

LEMMA OfSubscribe ==
  ASSUME BridgeInv, FeedInv, D!Subscribe
  PROVE  FeedInv'
<1>1. /\ D!Moves("start", "welcoming", IF services THEN "loading" ELSE "short")
      /\ subscribed' = TRUE /\ after' = made' /\ in_flight' = holding
      /\ UNCHANGED << holding, forward, recent, signals, cards, early, trimmed >>
      /\ \/ UNCHANGED << at, made, stored >>
         \/ D!Appears /\ stored' = {made'}
  BY DEF D!Subscribe, D!Start, D!BeforeReading, D!feed
<1>2. call["start"] = "welcoming" /\ call'["start"] \in {"loading", "short"}
  BY <1>1, Moved, CallsAreNamed DEF BridgeInv, Wheres, D!Under
<1>3. ~subscribed /\ (holding # 0 => ~forward)
  BY <1>2 DEF FeedInv, FeedTypes, Subscribed, ForwardedIsNext
<1>4. /\ made' \in Nat /\ made <= made' /\ stored' \subseteq 1 .. made'
      /\ at' \in Seq(Int) /\ Len(at') = made' /\ \A e \in 1 .. made : at'[e] = at[e]
  <2>1. made \in Nat /\ stored \subseteq 1 .. made /\ at \in Seq(Int) /\ Len(at) = made
    BY DEF FeedInv, FeedTypes
  <2>2. CASE UNCHANGED << at, made, stored >>
    BY <2>1, <2>2
  <2>3. CASE D!Appears /\ stored' = {made'}
    <3>1. made' = made + 1 /\ at' \in Seq(Int) /\ Len(at') = made'
          /\ \A e \in 1 .. made : at'[e] = at[e]
      BY <2>3, OfAppearing
    <3> QED BY <2>1, <2>3, <3>1
  <2> QED BY <1>1, <2>2, <2>3
<1>5. OnScreen' = OnScreen
  BY <1>1 DEF OnScreen
<1>6. FeedTypes'
  BY <1>1, <1>2, <1>4, <1>5 DEF FeedInv, FeedTypes, Wheres, D!Under
<1>7. WillBeOrdered'
  BY <1>1, <1>4, OrderStays
<1>8. FeedCovers'
  BY <1>1, <1>2, <1>3, <1>4 DEF FeedCovers
<1> QED BY <1>1, <1>2, <1>3, <1>5, <1>6, <1>7, <1>8
        DEF FeedInv, Subscribed, ForwardedIsNext, ShownIsEarly, D!Loaded

LEMMA OfLoadReads ==
  ASSUME BridgeInv, FeedInv, D!LoadReads
  PROVE  FeedInv'
<1>1. /\ D!Moves("start", "loading", "read") /\ recent' \in D!Newest(Limit)
      /\ UNCHANGED << at, subscribed, after, in_flight, made, stored, holding, forward, signals,
                      cards, early, trimmed >>
  BY DEF D!LoadReads, D!Start, D!dispatch, D!feed
<1>2. call["start"] = "loading" /\ call'["start"] = "read"
  BY <1>1, Moved, CallsAreNamed DEF BridgeInv, Wheres, D!Under
<1>3. /\ recent' \subseteq stored
      /\ \A e \in stored : e \in recent' \/ D!LeftOut(e)'
  <2>1. /\ recent' \subseteq stored /\ (D!Cardinality(recent') = Limit \/ recent' = stored)
        /\ \A e \in recent', f \in stored \ recent' : at[f] <= at[e]
    BY <1>1 DEF D!Newest
  <2> QED BY <1>1, <2>1 DEF D!LeftOut
<1>4. OnScreen' = OnScreen
  BY <1>1 DEF OnScreen
<1>5. FeedTypes'
  BY <1>1, <1>2, <1>3, <1>4 DEF FeedInv, FeedTypes, Wheres, D!Under
<1>6. Subscribed' /\ ForwardedIsNext' /\ ShownIsEarly'
  BY <1>1, <1>2, <1>4 DEF FeedInv, Subscribed, ForwardedIsNext, ShownIsEarly, D!Loaded
<1>7. WillBeOrdered'
  BY <1>1, OrderStays
<1>8. FeedCovers'
  <2>1. \A e \in stored' : e <= after' => e \in recent' \/ Excused(e)'
    BY <1>1, <1>3 DEF Excused
  <2> QED BY <1>1, <1>2, <1>4, <2>1 DEF FeedInv, FeedCovers, Ever, D!Live
<1> QED BY <1>5, <1>6, <1>7, <1>8 DEF FeedInv

LEMMA Joined ==
  \A s, t \in Seq(Cards) :
    /\ s \o t \in Seq(Cards)
    /\ Len(s \o t) = Len(s) + Len(t) /\ Len(s) \in Nat /\ Len(t) \in Nat
    /\ \A i \in 1 .. Len(s) : (s \o t)[i] = s[i]
    /\ \A i \in 1 .. Len(t) : (s \o t)[Len(s) + i] = t[i]
OBVIOUS

(* What is emitted: each of the recent events, the oldest first.           *)
LEMMA OfList ==
  ASSUME FeedInv, NEW list \in D!OldestFirst(recent),
         NEW more, more = [i \in DOMAIN list |-> D!Loaded(list[i])]
  PROVE  /\ more \in Seq(Cards) /\ DOMAIN more = 1 .. Len(more) /\ Len(more) \in Nat
         /\ \A i \in DOMAIN more : more[i].loaded /\ more[i].event \in recent
         /\ \A i, j \in DOMAIN more : i < j =>
              more[i].event # more[j].event /\ at[more[i].event] <= at[more[j].event]
         /\ \A e \in recent : \E i \in DOMAIN more : more[i] = D!Loaded(e)
<1>1. /\ list \in [1 .. D!Cardinality(recent) -> recent] /\ D!Range(list) = recent
      /\ \A i, j \in DOMAIN list : i < j => list[i] # list[j] /\ at[list[i]] <= at[list[j]]
  BY DEF D!OldestFirst
<1>2. IsFiniteSet(recent) /\ recent \subseteq Nat
  <2>1. recent \subseteq 1 .. made /\ made \in Nat
    BY DEF FeedInv, FeedTypes
  <2>2. IsFiniteSet(1 .. made)
    BY <2>1, FS_Interval
  <2>3. recent \in SUBSET (1 .. made) /\ recent \subseteq Nat
    BY <2>1
  <2>4. IsFiniteSet(recent)
    BY <2>2, <2>3, FS_Subset, ZenonT(30)
  <2> QED BY <2>3, <2>4
<1>3. D!Cardinality(recent) \in Nat
  <2>1. D!Cardinality(recent) = Cardinality(recent)
    BY DEF D!Cardinality, Cardinality
  <2> QED BY <1>2, <2>1, FS_CardinalityType
<1> PICK k : k = D!Cardinality(recent)
  OBVIOUS
<1>4. k \in Nat /\ DOMAIN list = 1 .. k /\ \A i \in 1 .. k : list[i] \in recent
  BY <1>1, <1>3
<1>5. /\ DOMAIN more = 1 .. k
      /\ \A i \in 1 .. k : more[i] = D!Loaded(list[i]) /\ more[i] \in Cards
                           /\ more[i].loaded /\ more[i].event = list[i]
  BY <1>2, <1>4 DEF Cards, D!Loaded
<1>6. more \in Seq(Cards) /\ Len(more) = k
  <2>1. more = [i \in 1 .. k |-> more[i]]
    BY <1>4, <1>5
  <2>2. more \in [1 .. k -> Cards]
    BY <1>5, <2>1
  <2> QED BY <1>4, <2>2
<1>7. ASSUME NEW e \in recent PROVE \E i \in DOMAIN more : more[i] = D!Loaded(e)
  <2>1. PICK i \in DOMAIN list : list[i] = e
    BY <1>1 DEF D!Range
  <2> QED BY <1>4, <1>5, <2>1
<1>8. \A i \in DOMAIN more : more[i].loaded /\ more[i].event \in recent
  BY <1>4, <1>5
<1>9. ASSUME NEW i \in DOMAIN more, NEW j \in DOMAIN more, i < j
      PROVE  more[i].event # more[j].event /\ at[more[i].event] <= at[more[j].event]
  <2>1. /\ i \in DOMAIN list /\ j \in DOMAIN list
        /\ more[i].event = list[i] /\ more[j].event = list[j]
    BY <1>4, <1>5
  <2> QED BY <1>1, <1>9, <2>1
<1> QED BY <1>4, <1>5, <1>6, <1>7, <1>8, <1>9

LEMMA OfLoadEmits ==
  ASSUME BridgeInv, FeedInv, D!LoadEmits
  PROVE  FeedInv'
<1>1. PICK list \in D!OldestFirst(recent) :
        /\ D!Moves("start", "read", "done")
        /\ signals' = signals \o [i \in DOMAIN list |-> D!Loaded(list[i])]
        /\ subscribed' = TRUE
        /\ UNCHANGED << at, after, recent, in_flight, cards, early, trimmed, made, stored,
                        holding, forward >>
  BY DEF D!LoadEmits, D!Start, D!dispatch
<1> PICK more : more = [i \in DOMAIN list |-> D!Loaded(list[i])]
  OBVIOUS
<1>2. call["start"] = "read" /\ call'["start"] = "done"
  BY <1>1, Moved, CallsAreNamed DEF BridgeInv, Wheres, D!Under
<1>3. /\ more \in Seq(Cards) /\ DOMAIN more = 1 .. Len(more) /\ Len(more) \in Nat
      /\ \A i \in DOMAIN more : more[i].loaded /\ more[i].event \in recent
      /\ \A i, j \in DOMAIN more : i < j =>
           more[i].event # more[j].event /\ at[more[i].event] <= at[more[j].event]
      /\ \A e \in recent : \E i \in DOMAIN more : more[i] = D!Loaded(e)
  BY OfList
<1>4. signals \in Seq(Cards) /\ signals' = signals \o more
  BY <1>1 DEF FeedInv, FeedTypes
<1> PICK n \in Nat : n = Len(signals)
  BY <1>4
<1>5. /\ signals' \in Seq(Cards) /\ Len(signals') = n + Len(more)
      /\ \A i \in 1 .. n : signals'[i] = signals[i]
      /\ \A i \in 1 .. Len(more) : signals'[n + i] = more[i]
  BY <1>3, <1>4, Joined
<1>6. /\ DOMAIN signals' = 1 .. n + Len(more) /\ DOMAIN signals = 1 .. n
  BY <1>4, <1>5
<1>7. ASSUME NEW i \in DOMAIN signals'
      PROVE  \/ i \in DOMAIN signals /\ signals'[i] = signals[i]
             \/ i > n /\ i - n \in DOMAIN more /\ signals'[i] = more[i - n]
  <2>1. CASE i <= n
    BY <1>5, <1>6, <2>1
  <2>2. CASE i > n
    <3>1. i - n \in 1 .. Len(more) /\ n + (i - n) = i
      BY <1>3, <1>6, <2>2
    <3>2. signals'[n + (i - n)] = more[i - n]
      BY <1>5, <3>1
    <3> QED BY <1>3, <2>2, <3>1, <3>2
  <2> QED BY <1>6, <2>1, <2>2
<1>8. Range(signals') = Range(signals) \union Range(more)
  <2>1. ASSUME NEW i \in DOMAIN signals PROVE signals[i] \in Range(signals')
    <3>1. i \in DOMAIN signals' /\ signals'[i] = signals[i]
      BY <1>3, <1>5, <1>6
    <3> QED BY <3>1 DEF Range
  <2>2. ASSUME NEW i \in DOMAIN more PROVE more[i] \in Range(signals')
    <3>1. n + i \in DOMAIN signals' /\ signals'[n + i] = more[i]
      <4>1. i \in 1 .. Len(more) /\ i \in Nat /\ n + i \in 1 .. n + Len(more)
        BY <1>3
      <4> QED BY <1>5, <1>6, <4>1
    <3> QED BY <3>1 DEF Range
  <2>3. \A i \in DOMAIN signals' : signals'[i] \in Range(signals) \union Range(more)
    BY <1>7 DEF Range
  <2> QED BY <2>1, <2>2, <2>3 DEF Range
<1>9. /\ OnScreen' = OnScreen \union Range(more)
      /\ \A card \in Range(more) : card.loaded /\ card.event \in recent
      /\ \A e \in recent : D!Loaded(e) \in Range(more)
  <2>1. OnScreen' = OnScreen \union Range(more)
    BY <1>1, <1>8 DEF OnScreen
  <2>2. \A card \in Range(more) : card.loaded /\ card.event \in recent
    BY <1>3 DEF Range
  <2>3. ASSUME NEW e \in recent PROVE D!Loaded(e) \in Range(more)
    <3>1. PICK i \in DOMAIN more : more[i] = D!Loaded(e)
      BY <1>3
    <3> QED BY <3>1 DEF Range
  <2> QED BY <2>1, <2>2, <2>3
<1>10. FeedTypes' /\ Subscribed'
  BY <1>1, <1>2, <1>5, <1>9 DEF FeedInv, FeedTypes, Subscribed, Wheres
<1>11. ForwardedIsNext' /\ ShownIsEarly'
  BY <1>1, <1>2, <1>9 DEF FeedInv, ForwardedIsNext, ShownIsEarly
<1>12. FeedCovers'
  <2>1. subscribed
    BY <1>2 DEF FeedInv, Subscribed
  <2> QED BY <1>1, <1>2, <1>9, <2>1
          DEF FeedInv, FeedCovers, Ever, Excused, D!LeftOut, D!Live, D!Loaded
<1>13. WillBeOrdered'
  <2>1. /\ \A i \in DOMAIN cards : ~cards[i].loaded /\ cards[i].event \in early
        /\ \A i \in DOMAIN signals : ~signals[i].loaded /\ signals[i].event \in early
    BY <1>2 DEF FeedInv, ShownIsEarly, OnScreen, Range
  <2>2. ASSUME NEW i \in DOMAIN signals', NEW j \in DOMAIN signals', i < j
        PROVE  D!InOrder(signals[j], signals[i])'
    <3>1. CASE j \in DOMAIN signals /\ signals'[j] = signals[j]
      <4>1. i \in DOMAIN signals /\ signals'[i] = signals[i]
        BY <1>5, <1>6, <2>2, <3>1
      <4>2. D!InOrder(signals[j], signals[i])
        BY <2>2, <3>1, <4>1 DEF FeedInv, WillBeOrdered
      <4> QED BY <1>1, <3>1, <4>1, <4>2 DEF D!InOrder
    <3>2. CASE j > n /\ j - n \in DOMAIN more /\ signals'[j] = more[j - n]
      <4>1. CASE i \in DOMAIN signals /\ signals'[i] = signals[i]
        BY <1>1, <1>3, <2>1, <3>2, <4>1 DEF D!InOrder
      <4>2. CASE i > n /\ i - n \in DOMAIN more /\ signals'[i] = more[i - n]
        <5>1. i - n < j - n
          BY <1>6, <2>2
        <5> QED BY <1>1, <1>3, <3>2, <4>2, <5>1 DEF D!InOrder
      <4> QED BY <1>7, <4>1, <4>2
    <3> QED BY <1>7, <3>1, <3>2
  <2>3. ASSUME NEW i \in DOMAIN cards', NEW j \in DOMAIN signals'
        PROVE  D!InOrder(signals[j], cards[i])'
    <3>1. CASE j \in DOMAIN signals /\ signals'[j] = signals[j]
      <4>1. D!InOrder(signals[j], cards[i])
        BY <1>1, <3>1 DEF FeedInv, WillBeOrdered
      <4> QED BY <1>1, <3>1, <4>1 DEF D!InOrder
    <3>2. CASE j > n /\ j - n \in DOMAIN more /\ signals'[j] = more[j - n]
      BY <1>1, <1>3, <2>1, <3>2 DEF D!InOrder
    <3> QED BY <1>7, <3>1, <3>2
  <2>4. \A i, j \in DOMAIN cards' : i < j => D!InOrder(cards[i], cards[j])'
    BY <1>1 DEF FeedInv, WillBeOrdered, D!InOrder
  <2> QED BY <2>2, <2>3, <2>4 DEF WillBeOrdered
<1> QED BY <1>10, <1>11, <1>12, <1>13 DEF FeedInv

LEMMA OfTakeEvent ==
  ASSUME FeedInv, D!TakeEvent
  PROVE  FeedInv'
<1>1. /\ holding = 0 /\ D!Appears /\ holding' = made + 1 /\ forward' = subscribed
      /\ early' = IF subscribed /\ call["start"] # "done" THEN early \union {made + 1} ELSE early
      /\ UNCHANGED << call, subscribed, after, recent, in_flight, stored, signals, cards, trimmed >>
  BY DEF D!TakeEvent, D!Dispatches, D!Is, D!loading
<1>2. /\ made' = made + 1 /\ at' \in Seq(Int) /\ Len(at') = made'
      /\ \A e \in 1 .. made : at'[e] = at[e]
  BY <1>1, OfAppearing
<1>3. OnScreen' = OnScreen
  BY <1>1 DEF OnScreen
<1>4. FeedTypes' /\ Subscribed' /\ ShownIsEarly'
  <2>1. Subscribed' /\ ShownIsEarly'
    BY <1>1, <1>3 DEF FeedInv, Subscribed, ShownIsEarly
  <2>2. subscribed \in BOOLEAN
    BY DEF FeedInv, FeedTypes
  <2>3. FeedTypes'
    BY <1>1, <1>2, <1>3, <2>2 DEF FeedInv, FeedTypes
  <2> QED BY <2>1, <2>3
<1>5. ForwardedIsNext'
  <2>1. \A card \in OnScreen : card.event < made + 1 /\ card # D!Loaded(made + 1)
    BY DEF FeedInv, FeedTypes, D!Loaded
  <2> QED BY <1>1, <1>2, <1>3, <2>1 DEF ForwardedIsNext, D!Loaded
<1>6. WillBeOrdered'
  BY <1>1, <1>2, OrderStays
<1>7. FeedCovers'
  <2>1. \A e \in stored : Excused(e) => Excused(e)'
    BY <1>1, <1>2 DEF FeedInv, FeedTypes, Excused, D!LeftOut
  <2>2. /\ made \in Nat /\ 0 \notin stored
        /\ \A card : Ever(card) => Ever(card)'
    BY <1>1, <1>3 DEF FeedInv, FeedTypes, Ever
  <2>3. ASSUME subscribed', NEW e \in 1 .. made', e > after'
        PROVE  (e = holding' /\ forward') \/ Ever(D!Live(e))'
    <3>1. CASE e = made + 1
      BY <1>1, <2>3, <3>1
    <3>2. CASE e # made + 1
      <4>1. subscribed /\ e \in 1 .. made /\ e > after /\ e # holding
        BY <1>1, <1>2, <2>2, <2>3, <3>2
      <4> QED BY <1>3, <1>1, <4>1 DEF FeedInv, FeedCovers, Ever, D!Live
    <3> QED BY <3>1, <3>2
  <2>4. /\ call'["start"] \in {"loading", "read", "done"} => forward'
        /\ forward' => holding' > after'
    BY <1>1, <2>2 DEF FeedInv, FeedTypes, Subscribed
  <2>5. ASSUME NEW e \in stored', e <= after'
        PROVE  /\ call'["start"] = "read" => e \in recent' \/ Excused(e)'
               /\ call'["start"] = "done" => Ever(D!Loaded(e))' \/ Excused(e)'
    BY <1>1, <1>3, <2>1, <2>5 DEF FeedInv, FeedCovers, Ever, D!Loaded
  <2> QED BY <2>3, <2>4, <2>5 DEF FeedCovers
<1> QED BY <1>4, <1>5, <1>6, <1>7 DEF FeedInv

LEMMA OfStoreEvent ==
  ASSUME FeedInv, D!StoreEvent
  PROVE  FeedInv'
<1>1. /\ holding \notin stored \union {0} /\ stored' = stored \union {holding}
      /\ UNCHANGED << call, at, made, holding, forward, signals, cards, early, trimmed,
                      subscribed, after, recent, in_flight >>
  BY DEF D!StoreEvent, D!feed, D!loading
<1>2. OnScreen' = OnScreen
  BY <1>1 DEF OnScreen
<1>3. FeedTypes'
  BY <1>1, <1>2 DEF FeedInv, FeedTypes
<1>4. Subscribed' /\ ShownIsEarly' /\ ForwardedIsNext'
  BY <1>1, <1>2 DEF FeedInv, Subscribed, ShownIsEarly, ForwardedIsNext, D!Loaded
<1>5. WillBeOrdered'
  BY <1>1, OrderStays
<1>6. FeedCovers'
  BY <1>1, <1>2
     DEF FeedInv, FeedTypes, FeedCovers, Ever, Excused, D!LeftOut, D!Live, D!Loaded
<1> QED BY <1>3, <1>4, <1>5, <1>6 DEF FeedInv

LEMMA OfForwardEvent ==
  ASSUME FeedInv, D!ForwardEvent
  PROVE  FeedInv'
<1>1. /\ holding # 0 /\ holding' = 0 /\ forward' = FALSE
      /\ signals' = IF forward THEN Append(signals, D!Live(holding)) ELSE signals
      /\ UNCHANGED << call, at, made, stored, cards, early, trimmed, subscribed, after, recent,
                      in_flight >>
  BY DEF D!ForwardEvent, D!Dispatches, D!loading
<1>2. holding \in 1 .. made /\ made \in Nat
  BY <1>1 DEF FeedInv, FeedTypes
<1> PICK new : new = D!Live(holding)
  OBVIOUS
<1>3. new \in Cards /\ new.event = holding /\ ~new.loaded
  BY <1>2 DEF D!Live, Cards
<1>4. CASE ~forward
  <2>1. signals' = signals /\ OnScreen' = OnScreen
    BY <1>1, <1>4 DEF OnScreen
  <2>2. FeedTypes'
    <3>1. forward' \in BOOLEAN
      BY <1>1, Zenon
    <3> QED BY <1>1, <1>2, <2>1, <3>1 DEF FeedInv, FeedTypes
  <2>3. Subscribed' /\ ShownIsEarly' /\ ForwardedIsNext'
    BY <1>1, <2>1 DEF FeedInv, Subscribed, ShownIsEarly, ForwardedIsNext
  <2>4. WillBeOrdered'
    BY <1>1, <2>1, OrderStays
  <2>5. FeedCovers'
    BY <1>1, <1>4, <2>1
       DEF FeedInv, FeedCovers, Ever, Excused, D!LeftOut, D!Live, D!Loaded
  <2> QED BY <2>2, <2>3, <2>4, <2>5 DEF FeedInv
<1>5. CASE forward
  <2>1. /\ signals \in Seq(Cards) /\ signals' \in Seq(Cards)
        /\ Len(signals) \in Nat /\ DOMAIN signals = 1 .. Len(signals)
        /\ DOMAIN signals' = 1 .. Len(signals) + 1
        /\ \A i \in DOMAIN signals : signals'[i] = signals[i]
        /\ signals'[Len(signals) + 1] = new
    BY <1>1, <1>3, <1>5 DEF FeedInv, FeedTypes
  <2>2. Range(signals') = Range(signals) \union {new}
    BY <2>1 DEF Range
  <2>3. OnScreen' = OnScreen \union {new}
    BY <1>1, <2>2 DEF OnScreen
  <2>4. /\ \A card \in OnScreen : ~card.loaded => card.event < holding
        /\ call["start"] # "done" \/ D!Loaded(holding) \in OnScreen => holding \in early
        /\ subscribed
    BY <1>1, <1>5 DEF FeedInv, ForwardedIsNext
  <2>5. FeedTypes'
    <3>1. forward' \in BOOLEAN
      BY <1>1, Zenon
    <3> QED BY <1>1, <1>2, <1>3, <2>1, <2>3, <3>1 DEF FeedInv, FeedTypes
  <2>6. Subscribed' /\ ShownIsEarly' /\ ForwardedIsNext'
    BY <1>1, <1>3, <2>3, <2>4 DEF FeedInv, Subscribed, ShownIsEarly, ForwardedIsNext
  <2>7. FeedCovers'
    BY <1>1, <2>3 DEF FeedInv, FeedCovers, Ever, Excused, D!LeftOut, D!Live, D!Loaded
  <2>8. ASSUME NEW lower \in OnScreen PROVE D!InOrder(new, lower)
    <3>1. lower \in Cards
      BY DEF FeedInv, FeedTypes, OnScreen, Range
    <3>2. CASE lower.loaded
      <4>1. lower.event = holding => lower = D!Loaded(holding)
        BY <3>1, <3>2 DEF Cards, D!Loaded
      <4> QED BY <1>3, <2>4, <3>2, <4>1 DEF D!InOrder
    <3>3. CASE ~lower.loaded
      <4>1. lower.event < holding /\ lower.event \in Nat /\ holding \in Nat
        BY <1>2, <2>4, <3>1, <3>3 DEF Cards
      <4> QED BY <1>3, <3>3, <4>1 DEF D!InOrder
    <3> QED BY <3>2, <3>3
  <2>9. WillBeOrdered'
    <3>1. ASSUME NEW i \in DOMAIN signals', NEW j \in DOMAIN signals', i < j
          PROVE  D!InOrder(signals[j], signals[i])'
      <4>1. i \in DOMAIN signals /\ signals'[i] = signals[i]
        BY <2>1, <3>1
      <4>2. CASE j \in DOMAIN signals
        <5>1. D!InOrder(signals[j], signals[i])
          BY <3>1, <4>1, <4>2 DEF FeedInv, WillBeOrdered
        <5> QED BY <1>1, <2>1, <4>1, <4>2, <5>1 DEF D!InOrder
      <4>3. CASE j \notin DOMAIN signals
        <5>1. signals'[j] = new /\ signals[i] \in OnScreen
          BY <2>1, <4>1, <4>3 DEF OnScreen, Range
        <5>2. D!InOrder(new, signals[i])
          BY <2>8, <5>1
        <5> QED BY <1>1, <4>1, <5>1, <5>2 DEF D!InOrder
      <4> QED BY <4>2, <4>3
    <3>2. ASSUME NEW i \in DOMAIN cards', NEW j \in DOMAIN signals'
          PROVE  D!InOrder(signals[j], cards[i])'
      <4>1. CASE j \in DOMAIN signals
        <5>1. D!InOrder(signals[j], cards[i])
          BY <1>1, <4>1 DEF FeedInv, WillBeOrdered
        <5> QED BY <1>1, <2>1, <4>1, <5>1 DEF D!InOrder
      <4>2. CASE j \notin DOMAIN signals
        <5>1. signals'[j] = new /\ cards[i] \in OnScreen
          BY <1>1, <2>1, <4>2 DEF OnScreen, Range
        <5>2. D!InOrder(new, cards[i])
          BY <2>8, <5>1
        <5> QED BY <1>1, <5>1, <5>2 DEF D!InOrder
      <4> QED BY <4>1, <4>2
    <3>3. \A i, j \in DOMAIN cards' : i < j => D!InOrder(cards[i], cards[j])'
      BY <1>1 DEF FeedInv, WillBeOrdered, D!InOrder
    <3> QED BY <3>1, <3>2, <3>3 DEF WillBeOrdered
  <2> QED BY <2>5, <2>6, <2>7, <2>9 DEF FeedInv
<1> QED BY <1>4, <1>5

(* Every other step leaves the feed alone.                                 *)
LEMMA OfFeedless ==
  ASSUME BridgeInv, [D!Next]_(D!vars),
         ~(D!Deliver \/ D!Subscribe \/ D!LoadReads \/ D!LoadEmits \/ D!TakeEvent \/ D!Dispatcher)
  PROVE  FeedStays /\ Elsewhere
<1>1. CASE UNCHANGED D!vars
  BY <1>1 DEF D!vars, D!dispatch, D!feed, D!loading, FeedStays, Elsewhere
<1>2. ASSUME NEW c \in Calls, D!SubmitChecks(c) \/ D!SubmitQueues(c)
      PROVE  FeedStays /\ Elsewhere
  <2>1. FeedStays
    BY <1>2 DEF D!SubmitChecks, D!SubmitQueues, D!dispatch, D!feed, D!loading, FeedStays
  <2>2. PICK from \in {"none", "checked"}, to \in {"checked", "refused", "queued"} :
          D!Moves(c, from, to)
    BY <1>2 DEF D!SubmitChecks, D!SubmitQueues
  <2>3. /\ call[c] = from /\ call'[c] = to
        /\ \A d \in Calls : d # c => call'[d] = call[d]
    BY <2>2, Moved DEF BridgeInv, Wheres
  <2>4. Elsewhere
    BY <2>3, CallsAreNamed DEF Elsewhere, Wheres
  <2> QED BY <2>1, <2>4
<1>3. CASE D!Bridge
  <2>1. FeedStays
    BY <1>3 DEF D!Bridge, D!MakeLoop, D!RunLoop, D!RunCallback, D!LeaveLoop, D!Gather,
       D!CloseLoop, D!BreakOff, D!Thread, D!dispatch, D!feed, D!loading, FeedStays
  <2>2. CASE D!RunCallback
    <3>1. CASE call' = call
      BY <2>1, <3>1 DEF Elsewhere
    <3>2. CASE call' # call
      <4>1. /\ ready # << >> /\ ready' = Tail(ready)
            /\ Head(ready) # "stop" /\ D!Moves(Head(ready), "queued", "made")
        BY <2>2, <3>2 DEF D!RunCallback
      <4> PICK k : k = Head(ready)
        OBVIOUS
      <4>2. k \in Calls /\ D!Moves(k, "queued", "made")
        BY <4>1, OfRunning DEF BridgeInv
      <4>3. /\ call[k] = "queued" /\ call'[k] = "made"
            /\ \A d \in Calls : d # k => call'[d] = call[d]
        BY <4>2, Moved DEF BridgeInv, Wheres, D!Under
      <4> QED BY <2>1, <4>3, CallsAreNamed DEF Elsewhere, Wheres, D!Under
    <3> QED BY <3>1, <3>2
  <2>3. CASE D!CloseLoop \/ D!BreakOff
    <3>1. call'["start"] = IF "start" \in Undone THEN "lost" ELSE call["start"]
      BY <2>3, OfTheEnd, CallsAreNamed
    <3> QED BY <2>1, <3>1 DEF Elsewhere, Undone, D!Under
  <2>4. CASE D!MakeLoop \/ D!RunLoop \/ D!LeaveLoop \/ D!Gather
    BY <2>1, <2>4 DEF D!MakeLoop, D!RunLoop, D!LeaveLoop, D!Gather, D!Thread, Elsewhere
  <2> QED BY <1>3, <2>1, <2>2, <2>3, <2>4 DEF D!Bridge
<1>4. CASE D!StartBegins \/ D!ServicesBegin \/ D!AppIsStarted \/ D!StartRaises
  <2>1. FeedStays
    BY <1>4 DEF D!StartBegins, D!ServicesBegin, D!AppIsStarted, D!StartRaises,
       D!dispatch, D!feed, D!loading, FeedStays
  <2>2. CASE D!ServicesBegin
    BY <2>1, <2>2 DEF D!ServicesBegin, Elsewhere
  <2>3. CASE ~D!ServicesBegin
    <3>1. PICK from \in {"made", "booting", "welcoming", "loading"},
               to \in {"booting", "welcoming", "short"} :
            D!Moves("start", from, to) /\ (from = "loading" => to = "short")
      BY <1>4, <2>3 DEF D!StartBegins, D!AppIsStarted, D!StartRaises, D!Start
    <3>2. call["start"] = from /\ call'["start"] = to
      BY <3>1, Moved, CallsAreNamed DEF BridgeInv, Wheres, D!Under
    <3> QED BY <2>1, <3>1, <3>2 DEF Elsewhere, Wheres, D!Under
  <2> QED BY <2>1, <2>2, <2>3
<1>5. ASSUME NEW q \in Quits,
             D!QuitAtOnce(q) \/ D!QuitStopsApp(q) \/ D!AppIsStopped(q) \/ D!AppStopRaises(q)
      PROVE  FeedStays /\ Elsewhere
  <2>1. FeedStays
    BY <1>5 DEF D!QuitAtOnce, D!QuitStopsApp, D!AppIsStopped, D!AppStopRaises, D!QuitEnds,
       D!dispatch, D!feed, D!loading, FeedStays
  <2>2. PICK to \in {"stopping", "done"} : call' = [call EXCEPT ![q] = to]
    BY <1>5 DEF D!QuitAtOnce, D!QuitStopsApp, D!AppIsStopped, D!AppStopRaises, D!QuitEnds, D!Moves
  <2>3. "start" # q
    BY DesktopAssumption
  <2>4. call'["start"] = call["start"]
    BY <2>2, <2>3, CallsAreNamed DEF BridgeInv
  <2> QED BY <2>1, <2>4 DEF Elsewhere
<1> QED BY <1>1, <1>2, <1>3, <1>4, <1>5
        DEF D!Next, D!StartApp, D!StopApp, Calls

LEMMA FeedStep == BridgeInv /\ FeedInv /\ [D!Next]_(D!vars) => FeedInv'
<1> SUFFICES ASSUME BridgeInv, FeedInv, [D!Next]_(D!vars) PROVE FeedInv'
  OBVIOUS
<1>1. CASE D!Deliver \/ D!Subscribe \/ D!LoadReads \/ D!LoadEmits \/ D!TakeEvent
  BY <1>1, OfDeliver, OfSubscribe, OfLoadReads, OfLoadEmits, OfTakeEvent
<1>2. CASE D!StoreFails
  BY <1>2, OfElsewhere DEF D!StoreFails, D!feed, D!loading, FeedStays, Elsewhere
<1>3. CASE D!StoreEvent \/ D!ForwardEvent
  BY <1>3, OfStoreEvent, OfForwardEvent
<1>4. CASE ~(D!Deliver \/ D!Subscribe \/ D!LoadReads \/ D!LoadEmits \/ D!TakeEvent \/ D!Dispatcher)
  BY <1>4, OfFeedless, OfElsewhere
<1> QED BY <1>1, <1>2, <1>3, <1>4 DEF D!Dispatcher

(* The feed lacks no event that is taken once start_app() has subscribed,  *)
(* nor a stored one of before that the query should find, but for the one  *)
(* that was being stored then; its forwarded events are in the order of    *)
(* the bus and its loaded ones newest first, but for what came in between  *)
(* (__main__.py:83-95, feed.py:106-112, app.py:279-285).                   *)
THEOREM FeedLacksNothing == D!Spec => []FeedIsWhole
<1>1. ASSUME FeedInv PROVE FeedIsWhole
  <2>1. \A card : Ever(card) <=> D!Shown(card)
    BY DEF Ever, OnScreen, D!Shown, D!Range, Range
  <2>2. D!FeedHasNoGap
    <3>1. ASSUME subscribed, NEW e \in after + 1 .. made PROVE e = holding \/ D!Shown(D!Live(e))
      BY <1>1, <2>1, <3>1 DEF FeedInv, FeedTypes, FeedCovers
    <3>2. ASSUME call["start"] = "done", NEW e \in stored, e <= after
          PROVE  e = in_flight \/ D!LeftOut(e) \/ D!Shown(D!Loaded(e))
      BY <1>1, <2>1, <3>2 DEF FeedInv, FeedCovers, Excused
    <3> QED BY <3>1, <3>2 DEF D!FeedHasNoGap
  <2>3. D!FeedIsOrdered
    BY <1>1 DEF FeedInv, WillBeOrdered, D!FeedIsOrdered
  <2> QED BY <2>2, <2>3 DEF FeedIsWhole, D!FeedIsWhole
<1> QED BY <1>1, BridgeInit, BridgeStep, FeedInit, FeedStep, PTL DEF D!Spec
=============================================================================
