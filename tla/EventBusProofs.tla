--------------------------- MODULE EventBusProofs ---------------------------
(***************************************************************************)
(* Theorems about EventBus, for every value of its constants.              *)
(***************************************************************************)
EXTENDS EventBus, SequenceTheorems, TLAPS

-----------------------------------------------------------------------------
(* Type correctness.                                                       *)

(* An object put in the queue is a position of the longer log, and the     *)
(* positions already in the queue still are.                               *)
LEMMA PutType ==
  ASSUME TypeOK, ~Full, NEW object \in Keys, Put(object)
  PROVE  /\ queue' \in Seq(1 .. Len(log'))
         /\ Len(queue') <= MaxSize
         /\ log' \in Seq(Keys)
         /\ Len(log') = Len(log) + 1
<1>1. log' \in Seq(Keys) /\ Len(log') = Len(log) + 1
  BY DEF TypeOK, Put
<1>2. queue \in Seq(1 .. Len(log'))
  BY <1>1 DEF TypeOK
<1>3. Len(log) + 1 \in 1 .. Len(log')
  BY <1>1 DEF TypeOK
<1>4. queue' \in Seq(1 .. Len(log')) /\ Len(queue') = Len(queue) + 1
  BY <1>2, <1>3 DEF Put
<1>5. Len(queue') <= MaxSize
  BY <1>4, BoundAssumption DEF Full, TypeOK
<1> QED BY <1>1, <1>4, <1>5

(* Removing one entry from a list of callbacks leaves a list of callbacks. *)
LEMMA RestType ==
  ASSUME NEW S, NEW list \in Seq(S), NEW i \in DOMAIN list
  PROVE  SubSeq(list, 1, i - 1) \o SubSeq(list, i + 1, Len(list)) \in Seq(S)
<1>1. SubSeq(list, 1, i - 1) \in Seq(S)
  OBVIOUS
<1>2. SubSeq(list, i + 1, Len(list)) \in Seq(S)
  OBVIOUS
<1> QED BY <1>1, <1>2

LEMMA TypeStep == TypeOK /\ [Next]_vars => TypeOK'
<1> SUFFICES ASSUME TypeOK, [Next]_vars PROVE TypeOK'
  OBVIOUS
<1> USE DEF TypeOK, Keys
<1>1. ASSUME NEW k \in Keys, NEW cb \in Callbacks, Subscribe(k, cb)
      PROVE  TypeOK'
  BY <1>1 DEF Subscribe
<1>2. ASSUME NEW k \in Keys, NEW cb \in Callbacks, Unsubscribe(k, cb)
      PROVE  TypeOK'
  <2>1. subs' \in [Keys -> Seq(Callbacks)]
    <3>1. PICK i \in DOMAIN subs[k] :
            subs' = [subs EXCEPT ![k] =
              SubSeq(subs[k], 1, i - 1) \o SubSeq(subs[k], i + 1, Len(subs[k]))]
      BY <1>2 DEF Unsubscribe
    <3>2. subs[k] \in Seq(Callbacks)
      OBVIOUS
    <3>3. SubSeq(subs[k], 1, i - 1) \o SubSeq(subs[k], i + 1, Len(subs[k]))
            \in Seq(Callbacks)
      BY <3>2, RestType
    <3> QED BY <3>1, <3>3
  <2>2. joined' \in [Callbacks -> Int]
    BY <1>2 DEF Unsubscribe
  <2> QED BY <1>2, <2>1, <2>2 DEF Unsubscribe
<1>3. ASSUME NEW type \in Types, Publish(type)
      PROVE  TypeOK'
  BY <1>3, PutType DEF Publish
<1>4. ASSUME NEW t \in Tasks, Start(t)
      PROVE  TypeOK'
  BY <1>4 DEF Start
<1>5. ASSUME NEW t \in Tasks, TakeEvent(t)
      PROVE  TypeOK'
  <2>1. Head(queue) \in 1 .. Len(log) /\ Tail(queue) \in Seq(1 .. Len(log))
    BY <1>5 DEF TakeEvent
  <2>2. Len(Tail(queue)) <= MaxSize
    BY <1>5, BoundAssumption DEF TakeEvent
  <2>3. subs[log[Head(queue)]] \in Seq(Callbacks)
    BY <2>1
  <2> QED BY <1>5, <2>1, <2>2, <2>3 DEF TakeEvent
<1>6. ASSUME NEW t \in Tasks, TakeSentinel(t)
      PROVE  TypeOK'
  <2>1. Tail(queue) \in Seq(1 .. Len(log)) /\ Len(Tail(queue)) <= MaxSize
    BY <1>6, BoundAssumption DEF TakeSentinel
  <2> QED BY <1>6, <2>1 DEF TakeSentinel
<1>7. ASSUME NEW t \in Tasks, Invoke(t)
      PROVE  TypeOK'
  BY <1>7 DEF Invoke
<1>8. ASSUME NEW t \in Tasks, ToWildcard(t)
      PROVE  TypeOK'
  BY <1>8 DEF ToWildcard, WildcardSnapshot
<1>9. ASSUME NEW t \in Tasks, ToNextEvent(t)
      PROVE  TypeOK'
  BY <1>9 DEF ToNextEvent
<1>10. ASSUME NEW t \in Tasks, Die(t)
      PROVE  TypeOK'
  BY <1>10 DEF Die
<1>11. ASSUME NEW s \in Stoppers, StopSentinel(s)
      PROVE  TypeOK'
  BY <1>11, PutType DEF StopSentinel, Await
<1>12. ASSUME NEW s \in Stoppers, StopCancel(s)
      PROVE  TypeOK'
  BY <1>12 DEF StopCancel, CancelTask, Await
<1>13. ASSUME NEW s \in Stoppers, StopReturn(s)
      PROVE  TypeOK'
  BY <1>13 DEF StopReturn
<1>14. CASE UNCHANGED vars
  BY <1>14 DEF vars, busVars
<1> QED
  BY <1>1, <1>2, <1>3, <1>4, <1>5, <1>6, <1>7, <1>8, <1>9, <1>10, <1>11,
     <1>12, <1>13, <1>14 DEF Next, Dispatch

(* Every variable always has its type; in particular the queue never holds *)
(* more than maxsize entries, whoever publishes or stops (bus.py:38-63).   *)
THEOREM TypeCorrect == Spec => []TypeOK
<1>1. Init => TypeOK
  BY BoundAssumption DEF Init, TypeOK
<1> QED BY <1>1, TypeStep, PTL DEF Spec

-----------------------------------------------------------------------------
(* The queue is the part of the log that was not taken.                    *)

LEMMA FifoPut ==
  ASSUME TypeOK, QueueIsFifo, NEW object \in Keys, Put(object), taken' = taken
  PROVE  QueueIsFifo'
<1>1. Len(queue') = Len(queue) + 1 /\ Len(log') = Len(log) + 1
  BY DEF TypeOK, Put
<1>2. \A i \in 1 .. Len(queue) : queue'[i] = queue[i]
  BY DEF TypeOK, Put
<1>3. queue'[Len(queue) + 1] = Len(log) + 1
  BY DEF TypeOK, Put
<1>4. Len(log) + 1 = taken + (Len(queue) + 1)
  BY DEF TypeOK, QueueIsFifo
<1>5. ASSUME NEW i \in 1 .. Len(queue) + 1 PROVE queue'[i] = taken + i
  <2>1. CASE i = Len(queue) + 1
    BY <2>1, <1>3, <1>4
  <2>2. CASE i # Len(queue) + 1
    <3>1. i \in 1 .. Len(queue)
      BY <2>2 DEF TypeOK
    <3> QED BY <3>1, <1>2 DEF QueueIsFifo
  <2> QED BY <2>1, <2>2
<1> QED BY <1>1, <1>5 DEF TypeOK, QueueIsFifo

LEMMA FifoTake ==
  ASSUME TypeOK, QueueIsFifo, queue # << >>, queue' = Tail(queue),
         taken' = taken + 1, log' = log
  PROVE  QueueIsFifo'
<1>1. Len(queue') = Len(queue) - 1
  BY DEF TypeOK
<1>2. \A i \in 1 .. Len(queue) - 1 : queue'[i] = queue[i + 1]
  BY DEF TypeOK
<1>3. \A i \in 1 .. Len(queue') : queue'[i] = taken' + i
  BY <1>1, <1>2 DEF TypeOK, QueueIsFifo
<1> QED BY <1>1, <1>3 DEF TypeOK, QueueIsFifo

LEMMA FifoStep == TypeOK /\ QueueIsFifo /\ [Next]_vars => QueueIsFifo'
<1> SUFFICES ASSUME TypeOK, QueueIsFifo, [Next]_vars PROVE QueueIsFifo'
  OBVIOUS
<1>1. ASSUME NEW type \in Types, Publish(type)
      PROVE  QueueIsFifo'
  BY <1>1, FifoPut DEF Publish, Keys
<1>2. ASSUME NEW s \in Stoppers, StopSentinel(s)
      PROVE  QueueIsFifo'
  BY <1>2, FifoPut DEF StopSentinel, Keys
<1>3. ASSUME NEW t \in Tasks, TakeEvent(t) \/ TakeSentinel(t)
      PROVE  QueueIsFifo'
  BY <1>3, FifoTake DEF TakeEvent, TakeSentinel
<1>4. ASSUME UNCHANGED << queue, taken, log >>
      PROVE  QueueIsFifo'
  BY <1>4 DEF QueueIsFifo
<1>5. ASSUME NEW k \in Keys, NEW cb \in Callbacks,
             Subscribe(k, cb) \/ Unsubscribe(k, cb)
      PROVE  QueueIsFifo'
  BY <1>5, <1>4 DEF Subscribe, Unsubscribe
<1>6. ASSUME NEW t \in Tasks,
             Start(t) \/ Invoke(t) \/ ToWildcard(t) \/ ToNextEvent(t) \/ Die(t)
      PROVE  QueueIsFifo'
  BY <1>6, <1>4 DEF Start, Invoke, ToWildcard, ToNextEvent, Die
<1>7. ASSUME NEW s \in Stoppers, StopCancel(s) \/ StopReturn(s)
      PROVE  QueueIsFifo'
  BY <1>7, <1>4 DEF StopCancel, StopReturn
<1>8. CASE UNCHANGED vars
  BY <1>8, <1>4 DEF vars, busVars
<1> QED
  BY <1>1, <1>2, <1>3, <1>5, <1>6, <1>7, <1>8 DEF Next, Dispatch

(* Nothing the bus accepted is lost from the queue, repeated or reordered, *)
(* even with several dispatchers (bus.py:38-63, 75-79).                    *)
THEOREM Fifo == Spec => []QueueIsFifo
<1>1. Init => QueueIsFifo
  BY DEF Init, QueueIsFifo
<1> QED BY <1>1, TypeCorrect, FifoStep, PTL DEF Spec

-----------------------------------------------------------------------------
(* One dispatcher.  The invariant is not inductive alone: a stop() that    *)
(* resumes clears _task, so it must be known that the task it awaited is   *)
(* the one the bus still knows, or that the bus knows none.                *)

StopAwaitsTheTask ==
  \A s \in Stoppers : awaiting[s] # 0 => task \in {0, awaiting[s]}

DispatcherInv == SingleDispatcher /\ StopAwaitsTheTask

LEMMA DispatcherStep ==
  ASSUME ~OverlapStart, TypeOK, DispatcherInv, [Next]_vars
  PROVE  DispatcherInv'
<1> USE DEF TypeOK, DispatcherInv, SingleDispatcher, StopAwaitsTheTask, Live
<1> 0 \notin Tasks
  BY DEF Tasks
<1>1. ASSUME UNCHANGED << task, phase, awaiting >>
      PROVE  DispatcherInv'
  BY <1>1
<1>2. ASSUME NEW k \in Keys, NEW cb \in Callbacks,
             Subscribe(k, cb) \/ Unsubscribe(k, cb)
      PROVE  DispatcherInv'
  BY <1>2, <1>1 DEF Subscribe, Unsubscribe
<1>3. ASSUME NEW type \in Types, Publish(type)
      PROVE  DispatcherInv'
  BY <1>3, <1>1 DEF Publish
<1>4. ASSUME NEW t \in Tasks, Start(t)
      PROVE  DispatcherInv'
  BY <1>4 DEF Start, Running
<1>5. ASSUME NEW t \in Tasks, Dispatch(t)
      PROVE  DispatcherInv'
  <2>1. UNCHANGED << task, awaiting >>
    BY <1>5 DEF Dispatch, TakeEvent, TakeSentinel, Invoke, ToWildcard,
                ToNextEvent, Die
  <2>2. \A u \in Tasks : Live(u)' => Live(u)
    BY <1>5 DEF Dispatch, Runs, TakeEvent, TakeSentinel, Invoke, ToWildcard,
                ToNextEvent, Die
  <2> QED BY <2>1, <2>2
<1>6. ASSUME NEW s \in Stoppers, StopSentinel(s) \/ StopCancel(s)
      PROVE  DispatcherInv'
  <2>1. Await(s) /\ phase' = phase /\ awaiting[s] = 0 /\ task # 0
    BY <1>6 DEF StopSentinel, StopCancel
  <2>2. CASE phase[task] = "done" /\ task' = 0 /\ UNCHANGED awaiting
    BY <2>1, <2>2
  <2>3. CASE awaiting' = [awaiting EXCEPT ![s] = task] /\ UNCHANGED task
    BY <2>1, <2>3
  <2> QED BY <2>1, <2>2, <2>3 DEF Await
<1>7. ASSUME NEW s \in Stoppers, StopReturn(s)
      PROVE  DispatcherInv'
  BY <1>7 DEF StopReturn
<1>8. CASE UNCHANGED vars
  BY <1>8, <1>1 DEF vars, busVars
<1> QED
  BY <1>2, <1>3, <1>4, <1>5, <1>6, <1>7, <1>8 DEF Next

(* If start() never overlaps a pending stop(), as in app.py, at most one   *)
(* dispatcher is alive and it is the one the bus knows (bus.py:45-63).     *)
THEOREM OneDispatcher ==
  ASSUME ~OverlapStart
  PROVE  Spec => []SingleDispatcher
<1>1. Init => DispatcherInv
  BY DEF Init, DispatcherInv, SingleDispatcher, StopAwaitsTheTask, Live
<1>2. TypeOK /\ DispatcherInv /\ [Next]_vars => DispatcherInv'
  BY DispatcherStep
<1>3. DispatcherInv => SingleDispatcher
  BY DEF DispatcherInv
<1> QED BY <1>1, <1>2, <1>3, TypeCorrect, PTL DEF Spec

-----------------------------------------------------------------------------
(* Ordered delivery.  The event a dispatcher holds is the last one taken.  *)

Busy(t) == phase[t] \in {"typed", "wildcard"}

HoldsLastTaken ==
  \A t \in Tasks : Busy(t) =>
    /\ event[t] = taken
    /\ taken \in 1 .. Len(log)
    /\ log[taken] # None

LEMMA PutKeepsLog ==
  ASSUME TypeOK, NEW object, Put(object), taken \in 1 .. Len(log)
  PROVE  taken \in 1 .. Len(log') /\ log'[taken] = log[taken]
BY DEF TypeOK, Put

LEMMA HoldsStep ==
  ASSUME TypeOK, SingleDispatcher, QueueIsFifo, HoldsLastTaken, [Next]_vars
  PROVE  HoldsLastTaken'
<1> USE DEF HoldsLastTaken, Busy
<1>1. ASSUME UNCHANGED << phase, event, taken >>,
             \/ UNCHANGED log
             \/ \E object : Put(object)
      PROVE  HoldsLastTaken'
  <2>1. CASE UNCHANGED log
    BY <1>1, <2>1
  <2>2. ASSUME NEW object, Put(object) PROVE HoldsLastTaken'
    BY <1>1, <2>2, PutKeepsLog
  <2> QED BY <1>1, <2>1, <2>2
<1>2. ASSUME NEW k \in Keys, NEW cb \in Callbacks,
             Subscribe(k, cb) \/ Unsubscribe(k, cb)
      PROVE  HoldsLastTaken'
  BY <1>2, <1>1 DEF Subscribe, Unsubscribe
<1>3. ASSUME NEW type \in Types, Publish(type)
      PROVE  HoldsLastTaken'
  BY <1>3, <1>1 DEF Publish
<1>4. ASSUME NEW s \in Stoppers,
             StopSentinel(s) \/ StopCancel(s) \/ StopReturn(s)
      PROVE  HoldsLastTaken'
  BY <1>4, <1>1 DEF StopSentinel, StopCancel, StopReturn
<1>5. ASSUME NEW t \in Tasks, Start(t)
      PROVE  HoldsLastTaken'
  BY <1>5 DEF Start, TypeOK
<1>6. ASSUME NEW t \in Tasks, TakeEvent(t)
      PROVE  HoldsLastTaken'
  <2>1. Head(queue) = taken + 1 /\ taken + 1 \in 1 .. Len(log)
    BY <1>6, SMTT(30) DEF TakeEvent, QueueIsFifo, TypeOK
  <2>2. \A u \in Tasks \ {t} : ~Busy(u)
    BY <1>6 DEF TakeEvent, Runs, SingleDispatcher, Live
  <2>3. /\ UNCHANGED log /\ taken' = taken + 1
        /\ phase' = [phase EXCEPT ![t] = "typed"]
        /\ event' = [event EXCEPT ![t] = taken + 1]
        /\ log[taken + 1] # None
    BY <1>6, <2>1 DEF TakeEvent
  <2>4. event'[t] = taken'
    BY <2>3 DEF TypeOK
  <2>5. \A u \in Tasks : Busy(u)' => u = t
    BY <2>2, <2>3 DEF TypeOK
  <2>6. taken' \in 1 .. Len(log') /\ log'[taken'] # None
    BY <2>1, <2>3
  <2> QED BY <2>4, <2>5, <2>6
<1>7. ASSUME NEW t \in Tasks, TakeSentinel(t)
      PROVE  HoldsLastTaken'
  <2>1. \A u \in Tasks : ~Busy(u)
    BY <1>7 DEF TakeSentinel, Runs, SingleDispatcher, Live
  <2> QED BY <1>7, <2>1 DEF TakeSentinel, TypeOK
<1>8. ASSUME NEW t \in Tasks, Invoke(t) \/ ToWildcard(t) \/ ToNextEvent(t) \/ Die(t)
      PROVE  HoldsLastTaken'
  BY <1>8 DEF Invoke, ToWildcard, ToNextEvent, Die, Runs, TypeOK
<1>9. CASE UNCHANGED vars
  BY <1>9, <1>1 DEF vars, busVars
<1> QED
  BY <1>2, <1>3, <1>4, <1>5, <1>6, <1>7, <1>8, <1>9 DEF Next, Dispatch

(* The four invariants ordered delivery rests on, together.                *)
BusInv == TypeOK /\ QueueIsFifo /\ DispatcherInv /\ HoldsLastTaken

LEMMA BusInvariant ==
  ASSUME ~OverlapStart
  PROVE  Spec => []BusInv
<1>1. Init => BusInv
  <2>1. Init => TypeOK
    BY BoundAssumption DEF Init, TypeOK
  <2> QED
    BY <2>1 DEF Init, BusInv, QueueIsFifo, DispatcherInv, SingleDispatcher,
                StopAwaitsTheTask, Live, HoldsLastTaken, Busy
<1>2. BusInv /\ [Next]_vars => BusInv'
  BY TypeStep, FifoStep, DispatcherStep, HoldsStep DEF BusInv, DispatcherInv
<1> QED BY <1>1, <1>2, PTL DEF Spec

(* What was seen was taken, in order.                                      *)
SeenInv ==
  /\ SeenInOrder
  /\ \A cb \in Callbacks : \A i \in DOMAIN seen[cb] : seen[cb][i] <= taken

LEMMA SeenStep == BusInv /\ SeenInv /\ [Next]_vars => SeenInv'
<1> SUFFICES ASSUME BusInv, SeenInv, [Next]_vars PROVE SeenInv'
  OBVIOUS
<1> USE DEF SeenInv, SeenInOrder
<1>1. ASSUME UNCHANGED seen, taken' \in Nat, taken <= taken'
      PROVE  SeenInv'
  BY <1>1 DEF BusInv, TypeOK
<1>2. ASSUME NEW t \in Tasks, Invoke(t)
      PROVE  SeenInv'
  <2> DEFINE cb == Head(todo[t])
  <2>1. cb \in Callbacks
    BY <1>2 DEF Invoke, BusInv, TypeOK
  <2>2. /\ seen' = [seen EXCEPT ![cb] = Append(@, taken)]
        /\ UNCHANGED taken
    BY <1>2 DEF Invoke, Runs, BusInv, HoldsLastTaken, Busy
  <2>3. seen \in [Callbacks -> Seq(Nat)] /\ taken \in Nat
    BY DEF BusInv, TypeOK
  <2> HIDE DEF cb
  <2>4. \A c \in Callbacks : c # cb => seen'[c] = seen[c]
    BY <2>2, <2>3
  <2>5. seen'[cb] = Append(seen[cb], taken)
    BY <2>1, <2>2, <2>3
  <2>6. /\ Len(seen'[cb]) = Len(seen[cb]) + 1
        /\ DOMAIN seen'[cb] = 1 .. Len(seen[cb]) + 1
        /\ \A i \in 1 .. Len(seen[cb]) : seen'[cb][i] = seen[cb][i]
        /\ seen'[cb][Len(seen[cb]) + 1] = taken
    BY <2>1, <2>3, <2>5
  <2>7. \A i \in DOMAIN seen'[cb] : seen'[cb][i] <= taken
    BY <2>1, <2>3, <2>6
  <2>8. \A i, j \in DOMAIN seen'[cb] : i < j => seen'[cb][i] <= seen'[cb][j]
    <3> SUFFICES ASSUME NEW i \in DOMAIN seen'[cb], NEW j \in DOMAIN seen'[cb],
                        i < j
                 PROVE  seen'[cb][i] <= seen'[cb][j]
      OBVIOUS
    <3>1. CASE j = Len(seen[cb]) + 1
      BY <3>1, <2>6, <2>7
    <3>2. CASE j # Len(seen[cb]) + 1
      <4>1. i \in DOMAIN seen[cb] /\ j \in DOMAIN seen[cb]
        BY <3>2, <2>1, <2>3, <2>6
      <4> QED BY <4>1, <2>1, <2>3, <2>6
    <3> QED BY <3>1, <3>2
  <2>9. \A c \in Callbacks : c # cb =>
          /\ \A i \in DOMAIN seen'[c] : seen'[c][i] <= taken
          /\ \A i, j \in DOMAIN seen'[c] : i < j => seen'[c][i] <= seen'[c][j]
    BY <2>4
  <2> QED BY <2>2, <2>7, <2>8, <2>9
<1>3. ASSUME NEW t \in Tasks, TakeEvent(t) \/ TakeSentinel(t)
      PROVE  SeenInv'
  <2>1. seen' = seen /\ taken' = taken + 1
    BY <1>3 DEF TakeEvent, TakeSentinel
  <2>2. taken \in Nat
    BY DEF BusInv, TypeOK
  <2>3. taken' \in Nat /\ taken <= taken'
    BY <2>1, <2>2
  <2> QED BY <2>1, <2>3, <1>1
<1>4. ASSUME UNCHANGED << seen, taken >>
      PROVE  SeenInv'
  BY <1>4, <1>1 DEF BusInv, TypeOK
<1>5. ASSUME NEW t \in Tasks,
             Start(t) \/ ToWildcard(t) \/ ToNextEvent(t) \/ Die(t)
      PROVE  SeenInv'
  BY <1>5, <1>4 DEF Start, ToWildcard, ToNextEvent, Die
<1>6. ASSUME NEW k \in Keys, NEW cb \in Callbacks,
             Subscribe(k, cb) \/ Unsubscribe(k, cb)
      PROVE  SeenInv'
  BY <1>6, <1>4 DEF Subscribe, Unsubscribe
<1>7. ASSUME NEW type \in Types, Publish(type)
      PROVE  SeenInv'
  BY <1>7, <1>4 DEF Publish
<1>8. ASSUME NEW s \in Stoppers,
             StopSentinel(s) \/ StopCancel(s) \/ StopReturn(s)
      PROVE  SeenInv'
  BY <1>8, <1>4 DEF StopSentinel, StopCancel, StopReturn
<1>9. CASE UNCHANGED vars
  BY <1>9, <1>4 DEF vars
<1> QED
  BY <1>2, <1>3, <1>5, <1>6, <1>7, <1>8, <1>9 DEF Next, Dispatch

(* Every subscriber sees events in the order the bus accepted them, across *)
(* stops, cancellations and restarts (bus.py:75-86).                       *)
THEOREM OrderedDelivery ==
  ASSUME ~OverlapStart
  PROVE  Spec => []SeenInOrder
<1>1. Init => SeenInv
  BY DEF Init, SeenInv, SeenInOrder
<1>2. Spec => []BusInv
  BY BusInvariant
<1>3. SeenInv => SeenInOrder
  BY DEF SeenInv
<1> QED BY <1>1, <1>2, <1>3, SeenStep, PTL DEF Spec

-----------------------------------------------------------------------------
(* Refinement.                                                             *)

LEMMA AbstractStep == BusInv /\ [Next]_vars => [Abstract!Next]_(Abstract!vars)
<1> SUFFICES ASSUME BusInv, [Next]_vars
             PROVE  Abstract!Next \/ UNCHANGED << log, taken, seen >>
  BY DEF Abstract!vars
<1>1. ASSUME NEW object \in Keys, Put(object), UNCHANGED << taken, seen >>
      PROVE  Abstract!Next
  BY <1>1 DEF Put, Keys, Abstract!Next, Abstract!Accept
<1>2. ASSUME NEW type \in Types, Publish(type)
      PROVE  Abstract!Next
  BY <1>2, <1>1 DEF Publish, Keys
<1>3. ASSUME NEW s \in Stoppers, StopSentinel(s)
      PROVE  Abstract!Next
  BY <1>3, <1>1 DEF StopSentinel, Keys
<1>4. ASSUME NEW t \in Tasks, TakeEvent(t) \/ TakeSentinel(t)
      PROVE  Abstract!Next
  <2>1. taken < Len(log)
    BY <1>4 DEF TakeEvent, TakeSentinel, BusInv, TypeOK, QueueIsFifo
  <2> QED BY <1>4, <2>1 DEF TakeEvent, TakeSentinel, Abstract!Next, Abstract!Advance
<1>5. ASSUME NEW t \in Tasks, Invoke(t)
      PROVE  Abstract!Next
  <2>1. Head(todo[t]) \in Callbacks
    BY <1>5 DEF Invoke, BusInv, TypeOK
  <2>2. event[t] = taken /\ taken > 0 /\ log[taken] # None
    BY <1>5 DEF Invoke, Runs, BusInv, HoldsLastTaken, Busy
  <2>3. Abstract!Hand(Head(todo[t]))
    BY <1>5, <2>2 DEF Invoke, Abstract!Hand
  <2> QED BY <2>1, <2>3 DEF Abstract!Next
<1>6. ASSUME NEW t \in Tasks,
             Start(t) \/ ToWildcard(t) \/ ToNextEvent(t) \/ Die(t)
      PROVE  UNCHANGED << log, taken, seen >>
  BY <1>6 DEF Start, ToWildcard, ToNextEvent, Die
<1>7. ASSUME NEW k \in Keys, NEW cb \in Callbacks,
             Subscribe(k, cb) \/ Unsubscribe(k, cb)
      PROVE  UNCHANGED << log, taken, seen >>
  BY <1>7 DEF Subscribe, Unsubscribe
<1>8. ASSUME NEW s \in Stoppers, StopCancel(s) \/ StopReturn(s)
      PROVE  UNCHANGED << log, taken, seen >>
  BY <1>8 DEF StopCancel, StopReturn
<1>9. CASE UNCHANGED vars
  BY <1>9 DEF vars
<1> QED
  BY <1>2, <1>3, <1>4, <1>5, <1>6, <1>7, <1>8, <1>9 DEF Next, Dispatch

(* The bus implements ordered broadcast from one log: nothing a subscriber *)
(* observes tells it from a cursor that walks the log.                     *)
THEOREM Implementation ==
  ASSUME ~OverlapStart
  PROVE  Spec => ImplementsBroadcastLog
<1>1. Init => Abstract!Init
  BY DEF Init, Abstract!Init
<1>2. Spec => []BusInv
  BY BusInvariant
<1> QED
  BY <1>1, <1>2, AbstractStep, PTL DEF Spec, ImplementsBroadcastLog, Abstract!Spec

-----------------------------------------------------------------------------
(* Nobody is left out.  A wildcard registration is in the list; a busy     *)
(* dispatcher that has copied the list still has in its copy every older   *)
(* registration that has not seen its event.                               *)

Has(list, cb) == \E i \in DOMAIN list : list[i] = cb

JoinedAreListed ==
  \A cb \in Callbacks : joined[cb] >= 0 => Has(subs[None], cb)

IdleHoldsNone ==
  \A t \in Tasks :
    /\ phase[t] \in {"unborn", "get"} => event[t] = 0
    /\ phase[t] = "done" /\ event[t] # 0 => cancelled[t]
    /\ event[t] <= taken

CopyIsWhole ==
  \A t \in Tasks, cb \in Callbacks :
    phase[t] = "wildcard" /\ joined[cb] >= 0 /\ event[t] > joined[cb] =>
      Has(todo[t], cb) \/ Has(seen[cb], event[t])

WildInv == JoinedAreListed /\ IdleHoldsNone /\ CopyIsWhole /\ WildcardSeesAll

LEMMA AppendHas ==
  ASSUME NEW S, NEW list \in Seq(S), NEW e \in S
  PROVE  /\ Append(list, e) \in Seq(S)
         /\ \A x : Has(Append(list, e), x) <=> Has(list, x) \/ x = e
<1>1. /\ Append(list, e) \in Seq(S)
      /\ DOMAIN Append(list, e) = 1 .. Len(list) + 1
      /\ DOMAIN list = 1 .. Len(list)
      /\ \A i \in 1 .. Len(list) : Append(list, e)[i] = list[i]
      /\ Append(list, e)[Len(list) + 1] = e
      /\ Len(list) \in Nat
  OBVIOUS
<1>2. \A i \in 1 .. Len(list) + 1 : i = Len(list) + 1 \/ i \in 1 .. Len(list)
  BY <1>1
<1>3. 1 .. Len(list) \subseteq 1 .. Len(list) + 1 /\ Len(list) + 1 \in 1 .. Len(list) + 1
  BY <1>1
<1> QED BY <1>1, <1>2, <1>3, Zenon DEF Has

LEMMA TailHas ==
  ASSUME NEW S, NEW list \in Seq(S), list # << >>
  PROVE  \A x : Has(list, x) => x = Head(list) \/ Has(Tail(list), x)
<1> SUFFICES ASSUME NEW i \in DOMAIN list, list[i] # Head(list)
             PROVE  \E j \in DOMAIN Tail(list) : Tail(list)[j] = list[i]
  BY DEF Has
<1>1. i # 1 /\ i - 1 \in DOMAIN Tail(list)
  OBVIOUS
<1>2. Tail(list)[i - 1] = list[i]
  BY <1>1
<1> QED BY <1>1, <1>2

(* Dropping an entry drops no other callback.                              *)
LEMMA RestHas ==
  ASSUME NEW S, NEW list \in Seq(S), NEW i \in DOMAIN list
  PROVE  LET rest == SubSeq(list, 1, i - 1) \o SubSeq(list, i + 1, Len(list))
         IN  \A x : x # list[i] /\ Has(list, x) => Has(rest, x)
<1> DEFINE low == SubSeq(list, 1, i - 1)
           high == SubSeq(list, i + 1, Len(list))
<1>1. /\ low \in Seq(S) /\ high \in Seq(S)
      /\ Len(low) = i - 1 /\ Len(high) = Len(list) - i
      /\ \A j \in 1 .. i - 1 : low[j] = list[j]
      /\ \A j \in 1 .. Len(list) - i : high[j] = list[i + j]
  OBVIOUS
<1> SUFFICES ASSUME NEW j \in DOMAIN list, list[j] # list[i]
             PROVE  \E k \in DOMAIN (low \o high) : (low \o high)[k] = list[j]
  BY DEF Has
<1> HIDE DEF low, high
<1>2. /\ DOMAIN (low \o high) = 1 .. Len(list) - 1
      /\ \A k \in 1 .. i - 1 : (low \o high)[k] = low[k]
      /\ \A k \in 1 .. Len(list) - i : (low \o high)[i - 1 + k] = high[k]
  <2>1. /\ Len(low \o high) = Len(low) + Len(high)
        /\ DOMAIN (low \o high) = 1 .. Len(low \o high)
        /\ \A k \in 1 .. Len(low) + Len(high) :
             (low \o high)[k] = IF k <= Len(low) THEN low[k] ELSE high[k - Len(low)]
    <3>1. low \o high \in Seq(S)
      BY <1>1, ConcatProperties
    <3> QED BY <1>1, <3>1, ConcatProperties, SMTT(30)
  <2>2. Len(low) + Len(high) = Len(list) - 1
    BY <1>1
  <2>3. ASSUME NEW k \in 1 .. i - 1 PROVE (low \o high)[k] = low[k]
    <3>1. k \in 1 .. Len(list) - 1 /\ k <= i - 1
      OBVIOUS
    <3> QED BY <1>1, <2>1, <2>2, <3>1
  <2>4. ASSUME NEW k \in 1 .. Len(list) - i
        PROVE  (low \o high)[i - 1 + k] = high[k]
    <3>1. /\ i - 1 + k \in 1 .. Len(low) + Len(high)
          /\ ~(i - 1 + k <= Len(low))
          /\ i - 1 + k - Len(low) = k
      <4>1. Len(low) = i - 1 /\ Len(high) = Len(list) - i
        BY <1>1
      <4>2. Len(list) \in Nat /\ i \in 1 .. Len(list) /\ k \in 1 .. Len(list) - i
        OBVIOUS
      <4>3. \A n \in Nat : \A a \in 1 .. n : \A b \in 1 .. n - a :
              /\ a - 1 + b \in 1 .. (a - 1) + (n - a)
              /\ ~(a - 1 + b <= a - 1)
              /\ a - 1 + b - (a - 1) = b
        OBVIOUS
      <4> QED BY <4>1, <4>2, <4>3
    <3> QED BY <2>1, <3>1, SMTT(30)
  <2> QED BY <2>1, <2>2, <2>3, <2>4
<1>3. CASE j < i
  BY <1>1, <1>2, <1>3
<1>4. CASE j > i
  <2>1. j - i \in 1 .. Len(list) - i /\ j - 1 \in 1 .. Len(list) - 1
    BY <1>4
  <2>2. (low \o high)[i - 1 + (j - i)] = high[j - i] /\ high[j - i] = list[i + (j - i)]
    BY <1>1, <1>2, <2>1
  <2>3. i - 1 + (j - i) = j - 1 /\ i + (j - i) = j
    OBVIOUS
  <2> QED BY <1>2, <2>1, <2>2, <2>3
<1> QED BY <1>3, <1>4

(* Steps that touch neither the lists nor the dispatchers, and steps that  *)
(* only add to the log.                                                    *)
LEMMA WildAside ==
  ASSUME TypeOK, QueueIsFifo, WildInv,
         UNCHANGED << subs, phase, event, todo, taken, seen, joined >>,
         \A t \in Tasks : cancelled[t] => cancelled'[t],
         UNCHANGED log \/ \E object \in Keys : Put(object)
  PROVE  WildInv'
<1>1. \A p \in 1 .. taken : log'[p] = log[p]
  <2>1. taken <= Len(log)
    BY DEF TypeOK, QueueIsFifo
  <2>2. ASSUME NEW object \in Keys, Put(object)
        PROVE  \A p \in 1 .. taken : log'[p] = log[p]
    BY <2>1, <2>2 DEF Put, TypeOK
  <2> QED BY <2>2
<1>2. JoinedAreListed' /\ CopyIsWhole'
  BY DEF WildInv, JoinedAreListed, CopyIsWhole
<1>3. IdleHoldsNone'
  BY DEF WildInv, IdleHoldsNone
<1>4. WildcardSeesAll'
  <2> SUFFICES ASSUME NEW cb \in Callbacks, joined[cb] >= 0,
                      NEW p \in joined[cb] + 1 .. taken, log[p] # None
               PROVE  \/ \E t \in Tasks : event[t] = p /\ (Live(t) \/ cancelled'[t])
                      \/ \E i \in DOMAIN seen[cb] : seen[cb][i] = p
    <3>1. \A cb \in Callbacks : joined[cb] \in Int
      BY DEF TypeOK
    <3>2. \A cb \in Callbacks : joined[cb] >= 0 =>
            \A p \in joined[cb] + 1 .. taken : p \in 1 .. taken
      BY <3>1
    <3> QED BY <1>1, <3>2 DEF WildcardSeesAll, Live
  <2> QED BY DEF WildInv, WildcardSeesAll
<1> QED BY <1>2, <1>3, <1>4 DEF WildInv

LEMMA WildSubscribe ==
  ASSUME TypeOK, WildInv, NEW k \in Keys, NEW cb \in Callbacks,
         Subscribe(k, cb) \/ Unsubscribe(k, cb)
  PROVE  WildInv'
<1>1. /\ UNCHANGED << phase, event, todo, cancelled, log, taken, seen >>
      /\ None \in Keys /\ subs[None] \in Seq(Callbacks)
      /\ taken \in Nat /\ event \in [Tasks -> Nat] /\ joined \in [Callbacks -> Int]
  BY DEF Subscribe, Unsubscribe, TypeOK, Keys
<1>2. \A c \in Callbacks : joined'[c] \in {joined[c], -1, taken}
  BY DEF Subscribe, Unsubscribe, TypeOK
<1>3. JoinedAreListed'
  <2> SUFFICES ASSUME NEW c \in Callbacks, joined'[c] >= 0
               PROVE  Has(subs'[None], c)
    BY DEF JoinedAreListed
  <2>1. CASE Subscribe(k, cb)
    <3>1. \A x : Has(Append(subs[None], cb), x) <=> Has(subs[None], x) \/ x = cb
      BY <1>1, AppendHas
    <3>2. subs' = [subs EXCEPT ![k] = Append(@, cb)]
      BY <2>1 DEF Subscribe
    <3>3. joined' = [joined EXCEPT ![cb] = IF k = None /\ @ < 0 THEN taken ELSE @]
      BY <2>1 DEF Subscribe
    <3>4. CASE k = None /\ c = cb
      BY <3>1, <3>2, <3>4, <1>1 DEF TypeOK
    <3>5. CASE k # None \/ c # cb
      <4>1. joined'[c] = joined[c]
        BY <3>3, <3>5, <1>1
      <4>2. Has(subs[None], c)
        BY <4>1 DEF WildInv, JoinedAreListed
      <4>3. subs'[None] = subs[None] \/ subs'[None] = Append(subs[None], cb)
        BY <3>2, <1>1 DEF TypeOK
      <4> QED BY <3>1, <4>2, <4>3
    <3> QED BY <3>4, <3>5
  <2>2. CASE Unsubscribe(k, cb)
    <3> DEFINE Rest(i) == SubSeq(subs[k], 1, i - 1) \o SubSeq(subs[k], i + 1, Len(subs[k]))
    <3>1. PICK i \in DOMAIN subs[k] :
            /\ subs[k][i] = cb
            /\ subs' = [subs EXCEPT ![k] = Rest(i)]
            /\ joined' = [joined EXCEPT ![cb] =
                 IF k = None /\ \A j \in DOMAIN Rest(i) : Rest(i)[j] # cb
                 THEN -1 ELSE @]
      BY <2>2 DEF Unsubscribe
    <3>2. \A x : x # cb /\ Has(subs[k], x) => Has(Rest(i), x)
      <4>1. subs[k] \in Seq(Callbacks)
        BY DEF TypeOK
      <4> QED BY <3>1, <4>1, RestHas
    <3> HIDE DEF Rest
    <3>3. joined'[c] = joined[c]
      BY <3>1, <1>1
    <3>4. Has(subs[None], c)
      BY <3>3 DEF WildInv, JoinedAreListed
    <3>5. CASE k # None
      BY <3>1, <3>4, <3>5, <1>1 DEF TypeOK
    <3>6. CASE k = None /\ c # cb
      BY <3>1, <3>2, <3>4, <3>6, <1>1 DEF TypeOK
    <3>7. CASE k = None /\ c = cb
      <4>1. \E j \in DOMAIN Rest(i) : Rest(i)[j] = cb
        BY <3>1, <3>7, <1>1
      <4>2. subs'[None] = Rest(i)
        BY <3>1, <3>7, <1>1 DEF TypeOK
      <4> QED BY <3>7, <4>1, <4>2 DEF Has
    <3> QED BY <3>5, <3>6, <3>7
  <2> QED BY <2>1, <2>2
<1>4. IdleHoldsNone'
  BY <1>1 DEF WildInv, IdleHoldsNone
<1>5. CopyIsWhole'
  <2> SUFFICES ASSUME NEW t \in Tasks, NEW c \in Callbacks, phase[t] = "wildcard",
                      joined'[c] >= 0, event[t] > joined'[c]
               PROVE  Has(todo[t], c) \/ Has(seen[c], event[t])
    BY <1>1 DEF CopyIsWhole
  <2>1. event[t] <= taken
    BY DEF WildInv, IdleHoldsNone
  <2>2. joined'[c] = joined[c]
    BY <1>1, <1>2, <2>1
  <2> QED BY <2>2 DEF WildInv, CopyIsWhole
<1>6. WildcardSeesAll'
  <2> SUFFICES ASSUME NEW c \in Callbacks, joined'[c] >= 0,
                      NEW p \in joined'[c] + 1 .. taken
               PROVE  \/ log[p] = None
                      \/ \E t \in Tasks : event[t] = p /\ (Live(t) \/ cancelled[t])
                      \/ \E i \in DOMAIN seen[c] : seen[c][i] = p
    BY <1>1 DEF WildcardSeesAll, Live
  <2>1. joined'[c] = joined[c]
    BY <1>1, <1>2
  <2> QED BY <2>1 DEF WildInv, WildcardSeesAll
<1> QED BY <1>3, <1>4, <1>5, <1>6 DEF WildInv

LEMMA WildTake ==
  ASSUME TypeOK, QueueIsFifo, WildInv, NEW t \in Tasks,
         TakeEvent(t) \/ TakeSentinel(t)
  PROVE  WildInv'
<1>1. /\ UNCHANGED << subs, cancelled, log, seen, joined >>
      /\ phase[t] = "get" /\ ~cancelled[t] /\ event[t] = 0
      /\ queue # << >> /\ taken' = taken + 1
  BY DEF TakeEvent, TakeSentinel, Runs, WildInv, IdleHoldsNone
<1>2. Head(queue) = taken + 1
  BY <1>1 DEF QueueIsFifo, TypeOK
<1>3. /\ taken \in Nat /\ event \in [Tasks -> Nat] /\ joined \in [Callbacks -> Int]
      /\ phase \in [Tasks -> {"unborn", "get", "typed", "wildcard", "done"}]
      /\ todo \in [Tasks -> Seq(Callbacks)]
  BY DEF TypeOK
<1>4. \/ /\ log[taken + 1] # None
         /\ phase' = [phase EXCEPT ![t] = "typed"]
         /\ event' = [event EXCEPT ![t] = taken + 1]
         /\ \A u \in Tasks : u # t => todo'[u] = todo[u]
      \/ /\ log[taken + 1] = None
         /\ phase' = [phase EXCEPT ![t] = "done"]
         /\ UNCHANGED << event, todo >>
  BY <1>2, <1>3 DEF TakeEvent, TakeSentinel
<1>5. \A u \in Tasks : u # t =>
        phase'[u] = phase[u] /\ event'[u] = event[u] /\ todo'[u] = todo[u]
  BY <1>3, <1>4
<1>6. /\ phase'[t] \in {"typed", "done"}
      /\ phase'[t] = "typed" => event'[t] = taken + 1
      /\ phase'[t] = "done" => event'[t] = 0
  BY <1>1, <1>3, <1>4
<1>7. JoinedAreListed'
  BY <1>1 DEF WildInv, JoinedAreListed
<1>8. IdleHoldsNone'
  <2> SUFFICES ASSUME NEW u \in Tasks
               PROVE  /\ phase'[u] \in {"unborn", "get"} => event'[u] = 0
                      /\ phase'[u] = "done" /\ event'[u] # 0 => cancelled[u]
                      /\ event'[u] <= taken + 1
    BY <1>1 DEF IdleHoldsNone
  <2>1. CASE u = t
    BY <2>1, <1>3, <1>6
  <2>2. CASE u # t
    BY <2>2, <1>3, <1>5 DEF WildInv, IdleHoldsNone
  <2> QED BY <2>1, <2>2
<1>9. CopyIsWhole'
  BY <1>1, <1>5, <1>6 DEF WildInv, CopyIsWhole
<1>10. WildcardSeesAll'
  <2> SUFFICES ASSUME NEW cb \in Callbacks, joined[cb] >= 0,
                      NEW p \in joined[cb] + 1 .. taken + 1
               PROVE  \/ log[p] = None
                      \/ \E u \in Tasks : event'[u] = p /\ (Live(u)' \/ cancelled[u])
                      \/ \E i \in DOMAIN seen[cb] : seen[cb][i] = p
    BY <1>1 DEF WildcardSeesAll
  <2>1. CASE p = taken + 1
    <3>1. log[p] = None \/ (event'[t] = p /\ Live(t)')
      BY <2>1, <1>3, <1>4 DEF Live
    <3> QED BY <3>1
  <2>2. CASE p # taken + 1
    <3>1. p \in joined[cb] + 1 .. taken /\ p # 0
      BY <2>2, <1>3
    <3>2. \A u \in Tasks : event[u] = p => u # t
      BY <3>1, <1>1
    <3>3. \A u \in Tasks : u # t => event'[u] = event[u] /\ (Live(u) => Live(u)')
      BY <1>5 DEF Live
    <3> QED BY <3>1, <3>2, <3>3 DEF WildInv, WildcardSeesAll
  <2> QED BY <2>1, <2>2
<1> QED BY <1>7, <1>8, <1>9, <1>10 DEF WildInv

LEMMA WildInvoke ==
  ASSUME TypeOK, WildInv, NEW t \in Tasks, Invoke(t)
  PROVE  WildInv'
<1> DEFINE h == Head(todo[t])
<1>1. /\ UNCHANGED << subs, phase, event, cancelled, log, taken, joined >>
      /\ todo[t] \in Seq(Callbacks) /\ todo[t] # << >> /\ h \in Callbacks
      /\ seen' = [seen EXCEPT ![h] = Append(@, event[t])]
      /\ todo' = [todo EXCEPT ![t] = Tail(@)]
      /\ seen \in [Callbacks -> Seq(Nat)] /\ todo \in [Tasks -> Seq(Callbacks)]
      /\ event[t] \in Nat
  BY DEF Invoke, TypeOK
<1>2. \A x : Has(todo[t], x) => x = h \/ Has(todo'[t], x)
  <2>1. todo'[t] = Tail(todo[t])
    BY <1>1
  <2> QED BY <1>1, <2>1, TailHas
<1>3. \A x : Has(seen'[h], x) <=> Has(seen[h], x) \/ x = event[t]
  <2> DEFINE Numbers == Nat
  <2>1. seen'[h] = Append(seen[h], event[t])
    BY <1>1
  <2>2. seen[h] \in Seq(Numbers) /\ event[t] \in Numbers
    BY <1>1
  <2> HIDE DEF Numbers
  <2>3. \A x : Has(Append(seen[h], event[t]), x) <=> Has(seen[h], x) \/ x = event[t]
    BY <2>2, AppendHas
  <2> QED BY <2>1, <2>3
<1>4. Has(seen'[h], event[t])
  BY <1>3
<1>5. \A cb \in Callbacks : \A p : Has(seen[cb], p) => Has(seen'[cb], p)
  <2> SUFFICES ASSUME NEW cb \in Callbacks, NEW p, Has(seen[cb], p)
               PROVE  Has(seen'[cb], p)
    OBVIOUS
  <2>1. CASE cb = h
    BY <1>3, <2>1
  <2>2. CASE cb # h
    BY <1>1, <2>2
  <2> QED BY <2>1, <2>2
<1> HIDE DEF h
<1>6. JoinedAreListed' /\ IdleHoldsNone'
  BY <1>1 DEF WildInv, JoinedAreListed, IdleHoldsNone
<1>7. CopyIsWhole'
  <2> SUFFICES ASSUME NEW u \in Tasks, NEW cb \in Callbacks,
                      phase[u] = "wildcard", joined[cb] >= 0, event[u] > joined[cb]
               PROVE  Has(todo'[u], cb) \/ Has(seen'[cb], event[u])
    BY <1>1 DEF CopyIsWhole
  <2>1. Has(todo[u], cb) \/ Has(seen[cb], event[u])
    BY DEF WildInv, CopyIsWhole
  <2>2. CASE u = t
    BY <2>1, <2>2, <1>2, <1>4, <1>5
  <2>3. CASE u # t
    <3>1. todo'[u] = todo[u]
      BY <2>3, <1>1
    <3> QED BY <2>1, <3>1, <1>5
  <2> QED BY <2>2, <2>3
<1>8. WildcardSeesAll'
  <2> SUFFICES ASSUME NEW cb \in Callbacks, joined[cb] >= 0,
                      NEW p \in joined[cb] + 1 .. taken, log[p] # None,
                      ~ \E u \in Tasks : event[u] = p /\ (Live(u) \/ cancelled[u])
               PROVE  \E i \in DOMAIN seen'[cb] : seen'[cb][i] = p
    BY <1>1 DEF WildcardSeesAll, Live
  <2>1. \E i \in DOMAIN seen[cb] : seen[cb][i] = p
    BY DEF WildInv, WildcardSeesAll
  <2>2. Has(seen'[cb], p)
    BY <2>1, <1>5 DEF Has
  <2> QED BY <2>2 DEF Has
<1> QED BY <1>6, <1>7, <1>8 DEF WildInv

LEMMA WildMove ==
  ASSUME TypeOK, WildInv, NEW t \in Tasks,
         Start(t) \/ ToWildcard(t) \/ ToNextEvent(t) \/ Die(t)
  PROVE  WildInv'
<1>1. /\ UNCHANGED << subs, cancelled, log, taken, seen, joined >>
      /\ phase \in [Tasks -> {"unborn", "get", "typed", "wildcard", "done"}]
      /\ event \in [Tasks -> Nat] /\ joined \in [Callbacks -> Int]
      /\ taken \in Nat /\ todo \in [Tasks -> Seq(Callbacks)]
  BY DEF Start, ToWildcard, ToNextEvent, Die, TypeOK
<1>2. \A u \in Tasks : u # t =>
        phase'[u] = phase[u] /\ event'[u] = event[u] /\ todo'[u] = todo[u]
  BY <1>1 DEF Start, ToWildcard, ToNextEvent, Die
<1>3. JoinedAreListed'
  BY <1>1 DEF WildInv, JoinedAreListed
<1>4. IdleHoldsNone'
  <2> SUFFICES ASSUME NEW u \in Tasks
               PROVE  /\ phase'[u] \in {"unborn", "get"} => event'[u] = 0
                      /\ phase'[u] = "done" /\ event'[u] # 0 => cancelled[u]
                      /\ event'[u] <= taken
    BY <1>1 DEF IdleHoldsNone
  <2>1. CASE u = t
    BY <2>1, <1>1 DEF WildInv, IdleHoldsNone, Start, ToWildcard, ToNextEvent, Die, Runs
  <2>2. CASE u # t
    BY <2>2, <1>2 DEF WildInv, IdleHoldsNone
  <2> QED BY <2>1, <2>2
<1>5. CopyIsWhole'
  <2> SUFFICES ASSUME NEW u \in Tasks, NEW cb \in Callbacks, phase'[u] = "wildcard",
                      joined[cb] >= 0, event'[u] > joined[cb]
               PROVE  Has(todo'[u], cb) \/ Has(seen[cb], event'[u])
    BY <1>1 DEF CopyIsWhole
  <2>1. CASE u # t
    BY <2>1, <1>2 DEF WildInv, CopyIsWhole
  <2>2. CASE u = t
    <3>1. ToWildcard(t)
      BY <2>2, <1>1 DEF Start, ToWildcard, ToNextEvent, Die
    <3>2. todo'[t] = subs[None]
      BY <3>1, <1>1 DEF ToWildcard, WildcardSnapshot
    <3> QED BY <2>2, <3>2 DEF WildInv, JoinedAreListed
  <2> QED BY <2>1, <2>2
<1>6. WildcardSeesAll'
  <2> SUFFICES ASSUME NEW cb \in Callbacks, joined[cb] >= 0,
                      NEW p \in joined[cb] + 1 .. taken
               PROVE  \/ log[p] = None
                      \/ \E u \in Tasks : event'[u] = p /\ (Live(u)' \/ cancelled[u])
                      \/ \E i \in DOMAIN seen[cb] : seen[cb][i] = p
    BY <1>1 DEF WildcardSeesAll
  <2> SUFFICES ASSUME log[p] # None, ~ \E i \in DOMAIN seen[cb] : seen[cb][i] = p
               PROVE  \E u \in Tasks : event'[u] = p /\ (Live(u)' \/ cancelled[u])
    OBVIOUS
  <2>1. PICK u \in Tasks : event[u] = p /\ (Live(u) \/ cancelled[u])
    BY DEF WildInv, WildcardSeesAll
  <2>2. CASE u # t
    BY <2>1, <2>2, <1>2 DEF Live
  <2>3. CASE u = t
    <3>1. p # 0 /\ p > joined[cb]
      BY <1>1
    <3>2. ~Start(t)
      BY <2>1, <2>3, <3>1 DEF Start, WildInv, IdleHoldsNone
    <3>3. ~ToNextEvent(t)
      <4> SUFFICES ASSUME ToNextEvent(t) PROVE FALSE
        OBVIOUS
      <4>1. phase[t] = "wildcard" /\ todo[t] = << >>
        BY DEF ToNextEvent, Runs
      <4>2. Has(todo[t], cb)
        BY <2>1, <2>3, <3>1, <4>1 DEF WildInv, CopyIsWhole, Has
      <4> QED BY <4>1, <4>2 DEF Has
    <3>4. event'[t] = p
      BY <2>1, <2>3, <3>2, <3>3 DEF ToWildcard, Die
    <3>5. Live(t)' \/ cancelled[t]
      BY <1>1, <3>2, <3>3 DEF ToWildcard, Die, Live
    <3> QED BY <3>4, <3>5
  <2> QED BY <2>2, <2>3
<1> QED BY <1>3, <1>4, <1>5, <1>6 DEF WildInv

LEMMA WildStep == TypeOK /\ QueueIsFifo /\ WildInv /\ [Next]_vars => WildInv'
<1> SUFFICES ASSUME TypeOK, QueueIsFifo, WildInv, [Next]_vars PROVE WildInv'
  OBVIOUS
<1>1. ASSUME NEW k \in Keys, NEW cb \in Callbacks,
             Subscribe(k, cb) \/ Unsubscribe(k, cb)
      PROVE  WildInv'
  BY <1>1, WildSubscribe
<1>2. ASSUME NEW type \in Types, Publish(type)
      PROVE  WildInv'
  BY <1>2, WildAside DEF Publish, Keys
<1>3. ASSUME NEW s \in Stoppers,
             StopSentinel(s) \/ StopCancel(s) \/ StopReturn(s)
      PROVE  WildInv'
  <2>1. \A t \in Tasks : cancelled[t] => cancelled'[t]
    BY <1>3 DEF StopSentinel, StopCancel, CancelTask, StopReturn, TypeOK
  <2> QED BY <1>3, <2>1, WildAside DEF StopSentinel, StopCancel, StopReturn, Keys
<1>4. ASSUME NEW t \in Tasks, TakeEvent(t) \/ TakeSentinel(t)
      PROVE  WildInv'
  BY <1>4, WildTake
<1>5. ASSUME NEW t \in Tasks, Invoke(t)
      PROVE  WildInv'
  BY <1>5, WildInvoke
<1>6. ASSUME NEW t \in Tasks,
             Start(t) \/ ToWildcard(t) \/ ToNextEvent(t) \/ Die(t)
      PROVE  WildInv'
  BY <1>6, WildMove
<1>7. CASE UNCHANGED vars
  BY <1>7, WildAside DEF vars, busVars
<1> QED
  BY <1>1, <1>2, <1>3, <1>4, <1>5, <1>6, <1>7 DEF Next, Dispatch

(* However subscribers come and go while dispatchers are suspended, and    *)
(* although start() and stop() may overlap, a wildcard subscriber is left  *)
(* out of no event but one whose dispatch stop() cut short (bus.py:75-86). *)
THEOREM NobodyIsLeftOut == Spec => []WildcardSeesAll
<1>1. Init => WildInv
  BY DEF Init, WildInv, JoinedAreListed, IdleHoldsNone, CopyIsWhole,
         WildcardSeesAll
<1>2. WildInv => WildcardSeesAll
  BY DEF WildInv
<1> QED BY <1>1, <1>2, WildStep, TypeCorrect, Fifo, PTL DEF Spec
=============================================================================
