------------------------------- MODULE Desktop -------------------------------
(***************************************************************************)
(* The application with its window (run_with_ui in __main__.py): the Qt    *)
(* thread submits coroutines to the event loop of the bridge's thread      *)
(* (ui/bridge.py), start_app() once and stop_app() each time the user      *)
(* quits; start_app() has the events forwarded to the feed (ui/feed.py)    *)
(* and loads the recent ones into it.                                      *)
(*                                                                         *)
(* Of the application itself there is what the bridge meets: whether it is *)
(* started, whether its services (the dispatcher of the bus, pollers,      *)
(* jobs) run, and the event that the dispatcher stores.  Events are        *)
(* numbered as they are taken from the bus, which says nothing of their    *)
(* timestamps: a journal entry was buffered and a line of pacman's log is  *)
(* older than its reading (journald.py:256, pacman.py:87).                 *)
(***************************************************************************)
EXTENDS Integers, Sequences, FiniteSets, SequencesExt

CONSTANTS
  Quits,      (* The calls of stop_app().                                  *)
  Limit,      (* The recent events loaded: 50.                             *)
  MaxCards,   (* The cards of the feed: 200.                               *)
  MaxEvents   (* Bound: events, and their timestamps.                      *)

Calls == {"start"} \union Quits

VARIABLES
  qt,         (* The Qt thread: "wiring" after bridge.start(), or "exec".  *)
  thread,     (* The thread of the bridge: it has no loop yet ("born"), a  *)
              (* loop it does not run ("looped"), runs it ("running"), has *)
              (* left it ("left"), waits for its tasks ("gathering"), or   *)
              (* is over: "closed", or "broken" when that was interrupted. *)
  ready,      (* The callbacks of the loop: calls, and "stop".             *)
  leaving,    (* loop.stop() was called.                                   *)
  gathered,   (* What the thread waits for: calls, and "services".         *)
  call,       (* Where each call is; start_app() may end "short" of the    *)
              (* recent events.                                            *)
  app_ref,    (* Is app_ref[0] set?                                        *)
  started,    (* app._started.                                             *)
  services,   (* Do the services run?                                      *)
  stop_failed,  (* History: has app.stop() raised?                         *)
  late,       (* History: the calls queued after stop_loop() was called.   *)
  stops,      (* History: the calls of stop_loop(), capped at 2.           *)
  at,         (* The timestamp that each event has, as the text that the   *)
              (* query of the recent events sorts by (repository.py:71).   *)
  made,       (* The number of the last event.                             *)
  stored,     (* The events in the database.                               *)
  holding,    (* The event the dispatcher stores, 0 if none.               *)
  failed,     (* Has its insert raised?                                    *)
  forward,    (* Is it forwarded then?                                     *)
  subscribed, (* Are events forwarded?                                     *)
  after,      (* History: the last event before that.                      *)
  recent,     (* What the query of the recent events found.                *)
  signals,    (* The signals on their way to the Qt thread: an event, and  *)
              (* whether it was loaded.                                    *)
  cards,      (* The cards of the feed, from the top.                      *)
  early,      (* History: the events taken to be forwarded before the      *)
              (* recent ones came.                                         *)
  in_flight,  (* History: the event being stored when start_app() had the  *)
              (* events forwarded; 0 if none.                              *)
  trimmed     (* History: the cards that the feed dropped.                 *)

loops == << qt, thread, ready, leaving, gathered, late, stops >>
app == << app_ref, started, services, stop_failed >>
dispatch == << at, made, stored, holding, failed, forward >>
feed == << signals, cards, early, trimmed >>
loading == << subscribed, after, recent, in_flight >>
vars == << loops, call, app, dispatch, feed, loading >>

Init ==
  /\ qt = "wiring"
  /\ thread = "born"
  /\ ready = << >> /\ leaving = FALSE /\ gathered = {}
  /\ call = [c \in Calls |-> "none"]
  /\ app_ref = FALSE /\ started = FALSE /\ services = FALSE /\ stop_failed = FALSE
  /\ late = {} /\ stops = 0
  /\ made \in 0 .. MaxEvents /\ stored = 1 .. made
  /\ at \in [1 .. made -> 1 .. MaxEvents]
  /\ holding = 0 /\ failed = FALSE /\ forward = FALSE
  /\ subscribed = FALSE /\ after = 0 /\ recent = {} /\ in_flight = 0
  /\ signals = << >> /\ cards = << >> /\ early = {} /\ trimmed = {}

Is(c, where) == call[c] = where

Moves(c, from, to) == Is(c, from) /\ call' = [call EXCEPT ![c] = to]

(* The calls whose task is there and has not ended.                        *)
Under == {"made", "booting", "welcoming", "loading", "read", "stopping"}

(* loop.is_running()                                                       *)
LoopRuns == thread \in {"running", "gathering"}

-----------------------------------------------------------------------------
(* The Qt thread: submit().                                                *)

Free == \A c \in Calls : ~Is(c, "checked")

MaySubmit(c) == IF c = "start" THEN qt = "wiring" ELSE qt = "exec" /\ Free

SubmitChecks(c) ==
  /\ MaySubmit(c)
  /\ Moves(c, "none", IF LoopRuns THEN "checked" ELSE "refused")
  /\ qt' = IF LoopRuns THEN qt ELSE "exec"
  /\ UNCHANGED << thread, ready, leaving, gathered, late, stops >>
  /\ UNCHANGED << app, dispatch, feed, loading >>

(* On a loop that was closed in between, it raises.                        *)
SubmitQueues(c) ==
  /\ Moves(c, "checked", IF thread = "closed" THEN "refused" ELSE "queued")
  /\ qt' = "exec"
  /\ ready' = IF thread = "closed" THEN ready ELSE Append(ready, c)
  /\ late' = IF stops > 0 /\ thread # "closed" THEN late \union {c} ELSE late
  /\ UNCHANGED << thread, leaving, gathered, stops >>
  /\ UNCHANGED << app, dispatch, feed, loading >>

(* The feed drops what is too much at its end.                            *)
Trimmed(list) == SubSeq(list, 1, IF Len(list) < MaxCards THEN Len(list) ELSE MaxCards)

(* A card is added at the top.                                            *)
Deliver ==
  /\ qt = "exec" /\ Free
  /\ signals # << >>
  /\ signals' = Tail(signals)
  /\ LET more == << Head(signals) >> \o cards
     IN /\ cards' = Trimmed(more)
        /\ trimmed' = trimmed \union (Range(more) \ Range(cards'))
  /\ UNCHANGED << loops, call, app, dispatch, early, loading >>

-----------------------------------------------------------------------------
(* The thread of the bridge: run().                                        *)

Thread(from, to) ==
  /\ thread = from
  /\ thread' = to
  /\ UNCHANGED << qt, late, stops, app, dispatch, feed, loading >>

MakeLoop == Thread("born", "looped") /\ UNCHANGED << ready, leaving, gathered, call >>

RunLoop == Thread("looped", "running") /\ UNCHANGED << ready, leaving, gathered, call >>

RunCallback ==
  /\ LoopRuns
  /\ ready # << >>
  /\ ready' = Tail(ready)
  /\ IF Head(ready) = "stop"
     THEN leaving' = TRUE /\ UNCHANGED call
     ELSE Moves(Head(ready), "queued", "made") /\ UNCHANGED leaving
  /\ UNCHANGED << qt, thread, gathered, late, stops, app, dispatch, feed, loading >>

(* The loop is left at the end of its iteration.                           *)
LeaveLoop ==
  /\ leaving
  /\ Thread("running", "left")
  /\ leaving' = FALSE
  /\ UNCHANGED << ready, gathered, call >>

(* Seeded fault: nothing that is pending is waited for.                    *)
NothingPending == {}

Pending ==
  {c \in Calls : call[c] \in Under} \union (IF services THEN {"services"} ELSE {})

Gather ==
  /\ Thread("left", "gathering")
  /\ gathered' = Pending
  /\ UNCHANGED << ready, leaving, call >>

AllDone ==
  /\ \A c \in gathered \ {"services"} : call[c] \notin Under
  /\ "services" \in gathered => ~services

(* What the loop has not done is never done.                               *)
RestIsLost ==
  call' = [c \in Calls |-> IF call[c] \in Under \union {"queued"} THEN "lost" ELSE call[c]]

CloseLoop ==
  /\ AllDone
  /\ Thread("gathering", "closed")
  /\ RestIsLost
  /\ services' = FALSE
  /\ UNCHANGED << ready, leaving, gathered >>

(* stop_loop() while the thread waits for its tasks makes that raise.      *)
BreakOff ==
  /\ leaving
  /\ ~AllDone
  /\ Thread("gathering", "broken")
  /\ RestIsLost
  /\ UNCHANGED << ready, leaving, gathered >>

-----------------------------------------------------------------------------
(* start_app().                                                            *)

Start(from, to) == LoopRuns /\ Moves("start", from, to) /\ UNCHANGED loops

StartBegins ==
  /\ Start("made", "booting")
  /\ app_ref' = TRUE
  /\ UNCHANGED << started, services, stop_failed, dispatch, feed, loading >>

ServicesBegin ==
  /\ LoopRuns
  /\ Is("start", "booting")
  /\ ~services
  /\ services' = TRUE
  /\ UNCHANGED << loops, call, app_ref, started, stop_failed, dispatch, feed, loading >>

AppIsStarted ==
  /\ services
  /\ Start("booting", "welcoming")
  /\ started' = TRUE
  /\ UNCHANGED << app_ref, services, stop_failed, dispatch, feed, loading >>

(* An event that is not there yet, with whatever timestamp.                *)
Appears ==
  /\ made < MaxEvents
  /\ made' = made + 1
  /\ \E t \in 1 .. MaxEvents : at' = Append(at, t)

(* Seeded fault: the recent events are read before.                        *)
AfterReading == FALSE

BeforeReading == TRUE

(* maybe_insert_welcome() is over, and the events are forwarded.  When the *)
(* application was stopped meanwhile, there is no database to load from.   *)
Subscribe ==
  /\ Start("welcoming", IF services THEN "loading" ELSE "short")
  /\ \/ services /\ stored = {} /\ Appears /\ stored' = {made'}
     \/ (services /\ stored = {} => made = MaxEvents) /\ UNCHANGED << at, made, stored >>
  /\ subscribed' = BeforeReading
  /\ after' = made'
  /\ in_flight' = holding
  /\ UNCHANGED << holding, failed, forward, recent, app, feed >>

(* What a query of n events, by descending timestamps, may find.           *)
Newest(n) ==
  {found \in SUBSET stored :
     /\ Cardinality(found) = n \/ (found = stored /\ Cardinality(found) < n)
     /\ \A e \in found, f \in stored \ found : at[f] <= at[e]}

(* The database is open.                                                   *)
LoadReads ==
  /\ services
  /\ Start("loading", "read")
  /\ recent' \in Newest(Limit)
  /\ UNCHANGED << subscribed, after, in_flight, app, dispatch, feed >>

Live(e) == [event |-> e, loaded |-> FALSE]
Loaded(e) == [event |-> e, loaded |-> TRUE]

OldestFirst(events) ==
  {list \in [1 .. Cardinality(events) -> events] :
     /\ Range(list) = events
     /\ \A i, j \in DOMAIN list : i < j => list[i] # list[j] /\ at[list[i]] <= at[list[j]]}

LoadEmits ==
  /\ Start("read", "done")
  /\ \E list \in OldestFirst(recent) :
       signals' = signals \o [i \in DOMAIN list |-> Loaded(list[i])]
  /\ subscribed' = TRUE
  /\ UNCHANGED << after, recent, in_flight, cards, early, trimmed, app, dispatch >>

StartRaises ==
  /\ \E stage \in {"booting", "welcoming", "loading"} : Start(stage, "short")
  /\ UNCHANGED << app, dispatch, feed, loading >>

-----------------------------------------------------------------------------
(* stop_app().                                                             *)

(* It ends, and asks the loop to stop.                                     *)
QuitEnds(q, stage) ==
  /\ LoopRuns
  /\ Moves(q, stage, "done")
  /\ app_ref' = FALSE
  /\ ready' = Append(ready, "stop")
  /\ stops' = IF stops = 2 THEN 2 ELSE stops + 1
  /\ UNCHANGED << qt, thread, leaving, gathered, late, stop_failed, dispatch, feed, loading >>

(* Without an application, or with one that is not started, there is       *)
(* nothing to stop.                                                        *)
QuitAtOnce(q) ==
  /\ ~app_ref \/ ~started
  /\ QuitEnds(q, "made")
  /\ UNCHANGED << started, services >>

QuitStopsApp(q) ==
  /\ LoopRuns
  /\ app_ref /\ started
  /\ Moves(q, "made", "stopping")
  /\ UNCHANGED << loops, app, dispatch, feed, loading >>

(* Seeded fault: app.stop() leaves a service behind.                       *)
StillServing == services

NoneServing == FALSE

AppIsStopped(q) ==
  /\ holding = 0
  /\ QuitEnds(q, "stopping")
  /\ started' = FALSE
  /\ services' = NoneServing

AppStopRaises(q) ==
  /\ LoopRuns
  /\ Moves(q, "stopping", "done")
  /\ stop_failed' = TRUE
  /\ UNCHANGED << loops, app_ref, started, services, dispatch, feed, loading >>

-----------------------------------------------------------------------------
(* The dispatcher of the bus: the subscribers of an event are those of the *)
(* moment it is taken; _persist_event() is one, and comes first.           *)

Dispatches ==
  /\ LoopRuns
  /\ services
  /\ UNCHANGED << loops, call, app, loading >>

TakeEvent ==
  /\ Dispatches
  /\ holding = 0
  /\ Appears
  /\ holding' = made + 1
  /\ forward' = subscribed
  /\ early' = IF subscribed /\ ~Is("start", "done") THEN early \union {made + 1} ELSE early
  /\ UNCHANGED << stored, failed, signals, cards, trimmed >>

(* A worker thread inserts it.                                             *)
StoreEvent ==
  /\ services
  /\ holding \notin stored \union {0} /\ ~failed
  /\ stored' = stored \union {holding}
  /\ UNCHANGED << loops, call, app, at, made, holding, failed, forward, feed, loading >>

(* What the insert raises is logged.                                       *)
StoreFails ==
  /\ services
  /\ holding \notin stored \union {0} /\ ~failed
  /\ failed' = TRUE
  /\ UNCHANGED << loops, call, app, at, made, stored, holding, forward, feed, loading >>

ForwardEvent ==
  /\ Dispatches
  /\ holding # 0 /\ (holding \in stored \/ failed)
  /\ holding' = 0 /\ failed' = FALSE /\ forward' = FALSE
  /\ signals' = IF forward THEN Append(signals, Live(holding)) ELSE signals
  /\ UNCHANGED << at, made, stored, cards, early, trimmed >>

-----------------------------------------------------------------------------
Bridge == MakeLoop \/ RunLoop \/ RunCallback \/ LeaveLoop \/ Gather \/ CloseLoop \/ BreakOff

StartApp ==
  \/ StartBegins
  \/ ServicesBegin
  \/ AppIsStarted
  \/ Subscribe
  \/ LoadReads
  \/ LoadEmits
  \/ StartRaises

StopApp == \E q \in Quits : QuitAtOnce(q) \/ QuitStopsApp(q) \/ AppIsStopped(q)

Dispatcher == StoreEvent \/ StoreFails \/ ForwardEvent

Next ==
  \/ \E c \in Calls : SubmitChecks(c) \/ SubmitQueues(c)
  \/ Deliver
  \/ Bridge
  \/ StartApp
  \/ StopApp
  \/ \E q \in Quits : AppStopRaises(q)
  \/ TakeEvent
  \/ Dispatcher

(* The threads run, and the loop comes to each of its tasks and callbacks. *)
Spec ==
  /\ Init /\ [][Next]_vars
  /\ WF_vars(Bridge)
  /\ WF_vars(StartApp)
  /\ WF_vars(StopApp)
  /\ WF_vars(Dispatcher)

-----------------------------------------------------------------------------
(* Each variable has its type.                                             *)
TypeOK ==
  /\ qt \in {"wiring", "exec"}
  /\ thread \in {"born", "looped", "running", "left", "gathering", "closed", "broken"}
  /\ ready \in Seq(Calls \union {"stop"})
  /\ gathered \subseteq Calls \union {"services"}
  /\ call \in [Calls -> Under \union {"none", "checked", "refused", "queued", "done", "short", "lost"}]
  /\ {leaving, app_ref, started, services, stop_failed, failed, forward, subscribed} \subseteq BOOLEAN
  /\ late \subseteq Calls
  /\ stops \in 0 .. 2
  /\ at \in Seq(1 .. MaxEvents) /\ Len(at) = made
  /\ {made, after, holding, in_flight} \subseteq 0 .. MaxEvents
  /\ {stored, recent, early} \subseteq SUBSET (1 .. MaxEvents)
  /\ {signals, cards} \subseteq Seq([event : 1 .. MaxEvents, loaded : BOOLEAN])
  /\ trimmed \subseteq [event : 1 .. MaxEvents, loaded : BOOLEAN]

Phase(c) ==
  IF call[c] \in {"none", "checked"} THEN "none"
  ELSE IF call[c] \in Under \union {"queued"} THEN "accepted"
  ELSE IF call[c] = "short" THEN "done" ELSE call[c]

(* A coroutine that is accepted comes to its end, however the stop of the  *)
(* loop falls between the check and the callback: what was queued before   *)
(* stop_loop() has a task by then, and run() waits for it                  *)
(* (bridge.py:28-54).                                                      *)
Promise == INSTANCE OneShotCalls WITH phase <- [c \in Calls |-> Phase(c)]

ImplementsCalls == Promise!Spec

(* Once the application is started, a quit ends the thread of the bridge,  *)
(* also during the rest of start_app(), a second quit, or an event being   *)
(* stored: nothing that run() waits for goes on for ever, unless           *)
(* app.stop() raises (bridge.py:33-39, __main__.py:98-102).                *)
QuitEndsBridge ==
  (\E q \in Quits : call[q] = "made") /\ app_ref /\ started
    ~> thread \in {"closed", "broken"} \/ stop_failed

(* A card that is in the feed, will be, or was.                            *)
Shown(card) == card \in Range(cards) \union Range(signals) \union trimmed

(* The query of the recent events left it out for the limit.               *)
LeftOut(e) == Cardinality(recent) = Limit /\ \A f \in recent : at[e] <= at[f]

(* Each event that is taken once start_app() has subscribed gets a card,   *)
(* also when its insert fails.  When start_app() is done, each stored      *)
(* event of before got one as well, unless it is not newer than the        *)
(* recent ones or was being stored then, which the query may come too      *)
(* early for (__main__.py:83-95, bus.py:82-86, app.py:279-285).            *)
FeedHasNoGap ==
  /\ subscribed => \A e \in after + 1 .. made : e = holding \/ Shown(Live(e))
  /\ call["start"] = "done" =>
       \A e \in stored : e <= after => e = in_flight \/ LeftOut(e) \/ Shown(Loaded(e))

(* What may be above what.  Events that are forwarded stand in the order   *)
(* in which the bus dispatched them, whatever their timestamps; events     *)
(* that were loaded, newest first.  An event has one card of each kind,    *)
(* and has both, or is below a loaded one though it was forwarded, only    *)
(* when it came before the recent events did.                              *)
InOrder(upper, lower) ==
  /\ upper.loaded /\ lower.loaded => at[lower.event] <= at[upper.event]
  /\ ~upper.loaded /\ ~lower.loaded => lower.event < upper.event
  /\ upper.loaded = lower.loaded => upper.event # lower.event
  /\ upper.event = lower.event => lower.event \in early
  /\ upper.loaded /\ ~lower.loaded => lower.event \in early

(* The cards are in that order (__main__.py:83-95, feed.py:106-112).       *)
FeedIsOrdered == \A i, j \in DOMAIN cards : i < j => InOrder(cards[i], cards[j])

(* The feed is whole and in order, but for what came while the recent      *)
(* events were loaded (__main__.py:83-95).                                 *)
FeedIsWhole == FeedHasNoGap /\ FeedIsOrdered
=============================================================================
