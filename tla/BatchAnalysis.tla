--------------------------- MODULE BatchAnalysis ---------------------------
(***************************************************************************)
(* The batch analysis (llm/batch.py): the scheduler's interval job reads   *)
(* the events without a summary of the last five minutes, asks the LLM     *)
(* about all of them at once, and writes a summary to each.  The query,    *)
(* the request and every update suspend, and events keep being stored.     *)
(*                                                                         *)
(* An event is named by its row id.  The interval job sleeps again when    *)
(* the analysis is over (scheduler/engine.py), so that the time of the     *)
(* analysis comes on top of the interval.                                  *)
(***************************************************************************)
EXTENDS Integers, Sequences, FiniteSets

CONSTANTS
  Interval,    (* The interval of the job, and the window of the query;    *)
  Limit,       (* the limit of the query: both positive.                   *)
  MaxLag,      (* How old an event may be when it is stored.               *)
  MaxEvents,   (* Bound: the events stored.                                *)
  MaxTime      (* Bound: the time the behaviour covers.                    *)

VARIABLES
  now,        (* The clock.                                                *)
  events,     (* The table: the timestamp and the summary of each row.     *)
  available,  (* llm.available.                                            *)
  pc,         (* Where the job is.                                         *)
  wake,       (* When it wakes.                                            *)
  since,      (* The start of the window it reads.                         *)
  batch,      (* unanalyzed: the ids it has read.                          *)
  todo,       (* The updates it has still to make: [id, summary].          *)
  fails,      (* Does an exception end this batch: for an answer without   *)
              (* the expected shape, or an update that raises?             *)
  busy,       (* History: the moments, from MaxLag before an analysis on,  *)
              (* that an analysis went on.                                 *)
  outage,     (* History: was a batch ever skipped, broken off or cut by   *)
              (* the limit?                                                *)
  nulled      (* History: the rows whose last update wrote NULL.           *)

vars == << now, events, available, pc, wake, since, batch, todo, fails, busy, outage, nulled >>

Summaries == {"none", "given", "llm", "raw"}

Init ==
  /\ now = 0
  /\ events = << >>
  /\ available \in BOOLEAN
  /\ pc = "asleep"
  /\ wake = Interval
  /\ since = 0
  /\ batch = {}
  /\ todo = {}
  /\ fails = FALSE
  /\ busy = {}
  /\ outage = FALSE
  /\ nulled = {}

(* An event is stored, with the summary its source may have given it.  It  *)
(* is older than its row: a journal entry by the time it was buffered, any *)
(* event by the time it was in the bus.                                    *)
Insert(summary, lag) ==
  /\ Len(events) < MaxEvents
  /\ lag <= now
  /\ events' = Append(events, [at |-> now - lag, summary |-> summary])
  /\ UNCHANGED << now, available, pc, wake, since, batch, todo, fails, busy, outage, nulled >>

(* The health check changes its mind.                                      *)
HealthChanges ==
  /\ available' = ~available
  /\ UNCHANGED << now, events, pc, wake, since, batch, todo, fails, busy, outage, nulled >>

Due == pc = "asleep" /\ wake <= now

Tick ==
  /\ now < MaxTime
  /\ ~Due
  /\ now' = now + 1
  /\ UNCHANGED << events, available, pc, wake, since, batch, todo, fails, busy, outage, nulled >>

Sleep ==
  /\ pc' = "asleep"
  /\ wake' = now + Interval

(* The analysis that began at the end of its window is over.               *)
Over == busy' = busy \union (since + Interval - MaxLag .. now - 1)

Skip ==
  /\ Due
  /\ ~available
  /\ Sleep
  /\ outage' = TRUE
  /\ UNCHANGED << now, events, available, since, batch, todo, fails, busy, nulled >>

WindowStart == now - Interval

Begin ==
  /\ Due
  /\ available
  /\ pc' = "reading"
  /\ since' = WindowStart
  /\ UNCHANGED << now, events, available, wake, batch, todo, fails, busy, outage, nulled >>

(* get_unanalyzed_since: the rows that qualify.                            *)
Unanalyzed == {id \in DOMAIN events : events[id].summary = "none" /\ events[id].at >= since}

Earlier(a, b) == events[a].at < events[b].at \/ (events[a].at = events[b].at /\ a < b)

(* The first rows by timestamp, up to the limit.                           *)
AreOldest(rows) ==
  /\ IF Cardinality(Unanalyzed) <= Limit
       THEN rows = Unanalyzed
       ELSE Cardinality(rows) = Limit
  /\ \A a \in rows, b \in Unanalyzed \ rows : Earlier(a, b)

ReadNothing ==
  /\ pc = "reading"
  /\ Unanalyzed = {}
  /\ Sleep
  /\ Over
  /\ batch' = {}
  /\ UNCHANGED << now, events, available, since, todo, fails, outage, nulled >>

Read ==
  /\ pc = "reading"
  /\ Unanalyzed # {}
  /\ batch' \in {rows \in SUBSET Unanalyzed : AreOldest(rows)}
  /\ pc' = "asking"
  /\ outage' = (outage \/ Cardinality(Unanalyzed) > Limit)
  /\ UNCHANGED << now, events, available, wake, since, todo, fails, busy, nulled >>

(* The updates that give each of some events a summary of its raw data.    *)
RawFor(ids) == [id : ids, summary : {"raw"}]

(* No answer, or one that is not JSON.                                     *)
NoAnswer ==
  /\ pc = "asking"
  /\ available' \in {available, FALSE}
  /\ todo' = RawFor(batch)
  /\ fails' = FALSE
  /\ pc' = "updating"
  /\ outage' = (outage \/ ~available')
  /\ UNCHANGED << now, events, wake, since, batch, busy, nulled >>

(* Seeded fault: the events the answer leaves out get no summary.          *)
NothingFor(ids) == {}

(* The events the answer leaves out.                                       *)
RestFor(ids) == RawFor(batch \ ids)

(* The updates of an answer, with a summary for some events and a null one *)
(* for others (item.get("summary", ...) of "summary": null is None).  An   *)
(* answer may list an event twice.                                         *)
Given(answered, nulls) == [id : answered, summary : {"llm"}] \union [id : nulls, summary : {"none"}]

(* The LLM answers for some of the events.                                 *)
Answer(answered, nulls) ==
  /\ pc = "asking"
  /\ todo' = Given(answered, nulls) \union RestFor(answered \union nulls)
  /\ fails' = FALSE
  /\ pc' = "updating"
  /\ UNCHANGED << now, events, available, wake, since, batch, busy, outage, nulled >>

(* JSON of another shape: an exception ends the job after some updates.    *)
StrangeAnswer(answered, nulls) ==
  /\ pc = "asking"
  /\ todo' = Given(answered, nulls)
  /\ fails' = TRUE
  /\ pc' = "updating"
  /\ UNCHANGED << now, events, available, wake, since, batch, busy, outage, nulled >>

(* The events of the answer come first, in the order it has them.          *)
Following == {u \in todo : u.summary = "raw" => \A v \in todo : v.summary = "raw"}

Updated(u) == [events EXCEPT ![u.id].summary = u.summary]

Write(u) ==
  /\ events' = Updated(u)
  /\ nulled' = IF u.summary = "none" THEN nulled \union {u.id} ELSE nulled \ {u.id}

Update(u) ==
  /\ pc = "updating"
  /\ Write(u)
  /\ todo' = todo \ {u}
  /\ UNCHANGED << now, available, pc, wake, since, batch, fails, busy, outage >>

(* The statement or its commit meets that of another task (Database).      *)
UpdateFails(u) ==
  /\ pc = "updating"
  /\ Write(u) \/ UNCHANGED << events, nulled >>
  /\ todo' = {}
  /\ fails' = TRUE
  /\ Sleep
  /\ Over
  /\ outage' = TRUE
  /\ UNCHANGED << now, available, since, batch >>

(* The patterns found are published with a summary of their own, like any  *)
(* event that Insert stores.                                               *)
End ==
  /\ pc = "updating"
  /\ todo = {}
  /\ Sleep
  /\ Over
  /\ outage' = (outage \/ fails)
  /\ UNCHANGED << now, events, available, since, batch, todo, fails, nulled >>

Next ==
  \/ \E summary \in {"none", "given"}, lag \in 0 .. MaxLag : Insert(summary, lag)
  \/ HealthChanges
  \/ Tick
  \/ Skip
  \/ Begin
  \/ ReadNothing
  \/ Read
  \/ NoAnswer
  \/ \E answered, nulls \in SUBSET batch :
       Answer(answered, nulls) \/ StrangeAnswer(answered, nulls)
  \/ \E u \in Following : Update(u) \/ UpdateFails(u)
  \/ End

Spec == Init /\ [][Next]_vars

-----------------------------------------------------------------------------
(* Each variable has its type.                                             *)
TypeOK ==
  /\ now \in 0 .. MaxTime
  /\ events \in Seq([at : 0 .. now, summary : Summaries])
  /\ available \in BOOLEAN
  /\ pc \in {"asleep", "reading", "asking", "updating"}
  /\ wake \in Nat
  /\ since \in Nat
  /\ batch \subseteq DOMAIN events
  /\ todo \subseteq [id : batch, summary : {"none", "llm", "raw"}]
  /\ {fails, outage} \subseteq BOOLEAN
  /\ busy \subseteq Int
  /\ nulled \subseteq DOMAIN events

(* When a batch is over every event in it has a summary, from the LLM or   *)
(* from its raw data, unless an exception broke it off or null is what the *)
(* LLM answered for it: that is written, and the event counts as analyzed  *)
(* (batch.py:74-110).                                                      *)
BatchIsSettled ==
  pc = "asleep" /\ ~fails =>
    \A id \in batch : events[id].summary # "none" \/ id \in nulled

(* While the LLM is available and answers, and no batch exceeds the limit, *)
(* the events left behind the window of the next batch are those of the    *)
(* time an analysis took, and those it answered null for: the windows      *)
(* meet, but for that (batch.py:4, "on unanalyzed events"; batch.py:61).   *)
LeftBehindOnlyDuring ==
  pc = "asleep" /\ ~outage =>
    \A id \in DOMAIN events :
      events[id].summary = "none" /\ events[id].at < wake - Interval
        => events[id].at \in busy \/ id \in nulled

(* An event goes without a summary only for a reason: its batch broke off, *)
(* it came while another one was analyzed, or the LLM answered null for it *)
(* (batch.py:56-110).                                                      *)
NoneIsLeftOut == BatchIsSettled /\ LeftBehindOnlyDuring
=============================================================================
