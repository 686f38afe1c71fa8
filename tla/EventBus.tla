------------------------------ MODULE EventBus ------------------------------
(***************************************************************************)
(* The asyncio event bus of ailm (core/bus.py): a bounded queue, the lists *)
(* of subscribers, and a dispatcher task that takes one event at a time    *)
(* and awaits each subscriber in turn.                                     *)
(*                                                                         *)
(* An action is what the code does between two suspension points of the    *)
(* event loop.  Every subscriber may suspend, so other coroutines may run  *)
(* between two invocations (a synchronous subscriber leaves no such gap:   *)
(* the module allows more interleavings than it takes part in).            *)
(*                                                                         *)
(* An object put in the queue is named by its position in the history log; *)
(* log, taken, seen and joined are history variables that no guard reads,  *)
(* but for the bound on the length of log.                                 *)
(***************************************************************************)
EXTENDS Integers, Sequences

CONSTANTS
  Types,        (* Event types with subscribers of their own.              *)
  Callbacks,    (* The subscribers.                                        *)
  Stoppers,     (* Coroutines that may call stop().                        *)
  None,         (* Python's None: wildcard key, and sentinel in the queue. *)
  MaxSize,      (* maxsize of the asyncio.Queue.                           *)
  MaxSubs,      (* Bound: registrations per key.                           *)
  MaxLog,       (* Bound: objects ever put in the queue.                   *)
  MaxTasks,     (* Bound: dispatcher tasks ever created.                   *)
  OverlapStart  (* May start() be called while a stop() is awaiting?       *)

ASSUME NoneAssumption == None \notin Types
ASSUME BoundAssumption ==
  /\ MaxSize \in Nat \ {0}
  /\ MaxSubs \in Nat
  /\ MaxLog \in Nat
  /\ MaxTasks \in Nat
  /\ OverlapStart \in BOOLEAN

Tasks == 1 .. MaxTasks

Keys == Types \union {None}

VARIABLES
  queue,        (* _queue: references into log, oldest first.              *)
  subs,         (* _subscribers.                                           *)
  task,         (* _task: the dispatcher the bus knows, 0 for None.        *)
  phase,        (* Where each dispatcher task is in _dispatch.             *)
  event,        (* The event a dispatcher holds, 0 if none.                *)
  todo,         (* What is left of the snapshot a dispatcher iterates.     *)
  cancelled,    (* Task.cancel() was called on the dispatcher.             *)
  awaiting,     (* The task a stop() awaits, 0 if none.                    *)
  log,          (* History: the objects ever put in the queue.             *)
  taken,        (* History: how many objects were taken out of it.         *)
  seen,         (* History: the events each callback was invoked with.     *)
  joined        (* History: taken when the callback's present wildcard     *)
                (* registration was made, -1 if it has none.               *)

busVars == << queue, subs, task, phase, event, todo, cancelled, awaiting >>
vars == << busVars, log, taken, seen, joined >>

Live(t) == phase[t] \in {"get", "typed", "wildcard"}

Init ==
  /\ queue = << >>
  /\ subs = [k \in Keys |-> << >>]
  /\ task = 0
  /\ phase = [t \in Tasks |-> "unborn"]
  /\ event = [t \in Tasks |-> 0]
  /\ todo = [t \in Tasks |-> << >>]
  /\ cancelled = [t \in Tasks |-> FALSE]
  /\ awaiting = [s \in Stoppers |-> 0]
  /\ log = << >>
  /\ taken = 0
  /\ seen = [cb \in Callbacks |-> << >>]
  /\ joined = [cb \in Callbacks |-> -1]

-----------------------------------------------------------------------------
(* Registration.                                                           *)

Subscribe(k, cb) ==
  /\ Len(subs[k]) < MaxSubs
  /\ subs' = [subs EXCEPT ![k] = Append(@, cb)]
  /\ joined' = [joined EXCEPT ![cb] = IF k = None /\ @ < 0 THEN taken ELSE @]
  /\ UNCHANGED << queue, task, phase, event, todo, cancelled, awaiting, log,
                  taken, seen >>

(* list.remove drops the first occurrence; a callback that is not in the   *)
(* list raises ValueError, which is swallowed: no step.                    *)
Unsubscribe(k, cb) ==
  \E i \in DOMAIN subs[k] :
    LET rest == SubSeq(subs[k], 1, i - 1) \o SubSeq(subs[k], i + 1, Len(subs[k]))
    IN  /\ subs[k][i] = cb
        /\ \A j \in 1 .. i - 1 : subs[k][j] # cb
        /\ subs' = [subs EXCEPT ![k] = rest]
        /\ joined' = [joined EXCEPT ![cb] =
             IF k = None /\ \A j \in DOMAIN rest : rest[j] # cb THEN -1 ELSE @]
        /\ UNCHANGED << queue, task, phase, event, todo, cancelled, awaiting,
                        log, taken, seen >>

-----------------------------------------------------------------------------
(* The queue.  put_nowait succeeds only below maxsize.                     *)

Full == Len(queue) >= MaxSize

(* Seeded fault: a new object goes to the head of the queue.               *)
PutFirst(object) ==
  /\ Len(log) < MaxLog
  /\ log' = Append(log, object)
  /\ queue' = << Len(log) + 1 >> \o queue

Put(object) ==
  /\ Len(log) < MaxLog
  /\ log' = Append(log, object)
  /\ queue' = Append(queue, Len(log) + 1)

(* On a full queue the event is dropped and nothing changes: no step.      *)
Publish(type) ==
  /\ ~Full
  /\ Put(type)
  /\ UNCHANGED << subs, task, phase, event, todo, cancelled, awaiting, taken,
                  seen, joined >>

-----------------------------------------------------------------------------
(* start() and stop().                                                     *)

(* Seeded faults: start() does not look at the task it has; it takes a     *)
(* task that is busy with an event for a finished one.                     *)
RunningNever == FALSE
RunningIfWaiting == task # 0 /\ phase[task] = "get"

Running == task # 0 /\ phase[task] # "done"

Start(t) ==
  /\ ~Running
  /\ OverlapStart \/ \A s \in Stoppers : awaiting[s] = 0
  /\ phase[t] = "unborn"
  /\ phase' = [phase EXCEPT ![t] = "get"]
  /\ task' = t
  /\ UNCHANGED << queue, subs, event, todo, cancelled, awaiting, log, taken,
                  seen, joined >>

(* Awaiting a task that is already done does not suspend, and _task is     *)
(* reset at once.                                                          *)
Await(s) ==
  \/ /\ phase[task] = "done"
     /\ task' = 0
     /\ UNCHANGED awaiting
  \/ /\ phase[task] # "done"
     /\ awaiting' = [awaiting EXCEPT ![s] = task]
     /\ UNCHANGED task

StopSentinel(s) ==
  /\ awaiting[s] = 0
  /\ task # 0
  /\ ~Full
  /\ Put(None)
  /\ Await(s)
  /\ UNCHANGED << subs, phase, event, todo, cancelled, taken, seen, joined >>

(* task.cancel() has no effect on a task that is done.                     *)
(* Seeded fault: stop() relies on the full queue being drained.            *)
NoCancel == UNCHANGED cancelled

CancelTask == cancelled' = [cancelled EXCEPT ![task] = @ \/ phase[task] # "done"]

(* On a full queue the dispatcher is cancelled instead.                    *)
StopCancel(s) ==
  /\ awaiting[s] = 0
  /\ task # 0
  /\ Full
  /\ CancelTask
  /\ Await(s)
  /\ UNCHANGED << queue, subs, phase, event, todo, log, taken, seen, joined >>

StopReturn(s) ==
  /\ awaiting[s] # 0
  /\ phase[awaiting[s]] = "done"
  /\ task' = 0
  /\ awaiting' = [awaiting EXCEPT ![s] = 0]
  /\ UNCHANGED << queue, subs, phase, event, todo, cancelled, log, taken, seen,
                  joined >>

-----------------------------------------------------------------------------
(* The dispatcher task.                                                    *)

(* Seeded fault: the dispatcher holds still while a stop() is pending.     *)
RunsUntilStop(t, where) ==
  phase[t] = where /\ ~cancelled[t] /\ \A s \in Stoppers : awaiting[s] = 0

Runs(t, where) == phase[t] = where /\ ~cancelled[t]

TakeEvent(t) ==
  /\ Runs(t, "get")
  /\ queue # << >>
  /\ log[Head(queue)] # None
  /\ queue' = Tail(queue)
  /\ taken' = taken + 1
  /\ phase' = [phase EXCEPT ![t] = "typed"]
  /\ event' = [event EXCEPT ![t] = Head(queue)]
  /\ todo' = [todo EXCEPT ![t] = subs[log[Head(queue)]]]
  /\ UNCHANGED << subs, task, cancelled, awaiting, log, seen, joined >>

TakeSentinel(t) ==
  /\ Runs(t, "get")
  /\ queue # << >>
  /\ log[Head(queue)] = None
  /\ queue' = Tail(queue)
  /\ taken' = taken + 1
  /\ phase' = [phase EXCEPT ![t] = "done"]
  /\ UNCHANGED << subs, task, event, todo, cancelled, awaiting, log, seen,
                  joined >>

(* An exception of the callback is logged and has no other effect.         *)
Invoke(t) ==
  /\ Runs(t, "typed") \/ Runs(t, "wildcard")
  /\ todo[t] # << >>
  /\ seen' = [seen EXCEPT ![Head(todo[t])] = Append(@, event[t])]
  /\ todo' = [todo EXCEPT ![t] = Tail(@)]
  /\ UNCHANGED << queue, subs, task, phase, event, cancelled, awaiting, log,
                  taken, joined >>

(* Seeded fault: an event with typed subscribers is not offered to the     *)
(* wildcard ones.                                                          *)
SnapshotIfUnmatched(t) ==
  IF subs[log[event[t]]] = << >> THEN subs[None] ELSE << >>

WildcardSnapshot(t) == subs[None]

(* The wildcard list is copied only when the typed callbacks are through.  *)
ToWildcard(t) ==
  /\ Runs(t, "typed")
  /\ todo[t] = << >>
  /\ phase' = [phase EXCEPT ![t] = "wildcard"]
  /\ todo' = [todo EXCEPT ![t] = WildcardSnapshot(t)]
  /\ UNCHANGED << queue, subs, task, event, cancelled, awaiting, log, taken,
                  seen, joined >>

ToNextEvent(t) ==
  /\ Runs(t, "wildcard")
  /\ todo[t] = << >>
  /\ phase' = [phase EXCEPT ![t] = "get"]
  /\ event' = [event EXCEPT ![t] = 0]
  /\ UNCHANGED << queue, subs, task, todo, cancelled, awaiting, log, taken,
                  seen, joined >>

(* CancelledError is raised at the await the task is suspended in and      *)
(* passes every handler (_invoke catches Exception only).                  *)
Die(t) ==
  /\ cancelled[t]
  /\ Live(t)
  /\ phase' = [phase EXCEPT ![t] = "done"]
  /\ UNCHANGED << queue, subs, task, event, todo, cancelled, awaiting, log,
                  taken, seen, joined >>

Dispatch(t) ==
  \/ TakeEvent(t)
  \/ TakeSentinel(t)
  \/ Invoke(t)
  \/ ToWildcard(t)
  \/ ToNextEvent(t)
  \/ Die(t)

Next ==
  \/ \E k \in Keys, cb \in Callbacks : Subscribe(k, cb) \/ Unsubscribe(k, cb)
  \/ \E type \in Types : Publish(type)
  \/ \E t \in Tasks : Start(t) \/ Dispatch(t)
  \/ \E s \in Stoppers : StopSentinel(s) \/ StopCancel(s) \/ StopReturn(s)

Spec == Init /\ [][Next]_vars

(* The event loop runs every ready task, and every callback returns.       *)
Fairness ==
  /\ \A t \in Tasks : WF_vars(Dispatch(t))
  /\ \A s \in Stoppers : WF_vars(StopReturn(s))

FairSpec == Spec /\ Fairness

-----------------------------------------------------------------------------
(* Each variable has its type.                                             *)
TypeOK ==
  /\ queue \in Seq(1 .. Len(log)) /\ Len(queue) <= MaxSize
  /\ subs \in [Keys -> Seq(Callbacks)]
  /\ task \in Tasks \union {0}
  /\ phase \in [Tasks -> {"unborn", "get", "typed", "wildcard", "done"}]
  /\ event \in [Tasks -> Nat]
  /\ todo \in [Tasks -> Seq(Callbacks)]
  /\ cancelled \in [Tasks -> BOOLEAN]
  /\ awaiting \in [Stoppers -> Tasks \union {0}]
  /\ log \in Seq(Keys)
  /\ taken \in Nat
  /\ seen \in [Callbacks -> Seq(Nat)]
  /\ joined \in [Callbacks -> Int]

(* At most one dispatcher task is alive, and it is the one the bus knows:  *)
(* two of them would deliver events concurrently and out of order, and the *)
(* one the bus has forgotten could never be stopped (bus.py:45-63).        *)
SingleDispatcher == \A t \in Tasks : Live(t) => t = task

(* What was put in the queue and not yet taken is in the queue, in order:  *)
(* however publishes, stops, cancellations and restarts interleave, the    *)
(* bus loses, repeats and reorders nothing it accepted.                    *)
QueueIsFifo ==
  /\ Len(queue) = Len(log) - taken
  /\ \A i \in 1 .. Len(queue) : queue[i] = taken + i

(* Each subscriber sees events in the order they were accepted, across     *)
(* restarts of the bus (bus.py:75-86).                                     *)
SeenInOrder ==
  \A cb \in Callbacks : \A i, j \in DOMAIN seen[cb] :
    i < j => seen[cb][i] <= seen[cb][j]

(* A wildcard subscriber is invoked with every event taken since it was    *)
(* registered, but for the event under way and one whose dispatch a        *)
(* cancellation by stop() cut short.                                       *)
WildcardSeesAll ==
  \A cb \in Callbacks : joined[cb] >= 0 =>
    \A p \in joined[cb] + 1 .. taken :
      \/ log[p] = None
      \/ \E t \in Tasks : event[t] = p /\ (Live(t) \/ cancelled[t])
      \/ \E i \in DOMAIN seen[cb] : seen[cb][i] = p

(* stop() returns, even when the queue is full (bus.py:56 "non-blocking to *)
(* avoid deadlock"; test_stress.py:72).                                    *)
StopReturns == \A s \in Stoppers : awaiting[s] # 0 ~> awaiting[s] = 0

(* An event in the queue of a bus whose dispatcher runs is dispatched,     *)
(* unless that dispatcher ends first.                                      *)
AcceptedIsDispatched ==
  \A p \in 1 .. MaxLog, t \in Tasks :
    (p <= Len(log) /\ Live(t)) ~> (taken >= p \/ ~Live(t))

Abstract == INSTANCE BroadcastLog WITH cursor <- taken

(* The bus implements ordered broadcast from one log.                      *)
ImplementsBroadcastLog == Abstract!Spec
=============================================================================
