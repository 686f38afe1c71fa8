# A TLA+ model of ailm

ailm is a Linux desktop daemon that watches a machine (journal, services,
packages, metrics), keeps what it sees in SQLite and in a ring log, lets a local
LLM summarise it, and shows a status in the tray.  It is one asyncio process
with a few threads beside the event loop.  This directory holds TLA+ modules of
its parts, TLC configurations that check them on small instances, and theorems
that TLAPS proves for every value of the constants.

    tlc -workers 2 -config Bus.cfg MCEventBus      check a module
    tlapm EventBusProofs.tla                       check the proofs of a module

Paths below are relative to `src/ailm/` of the repository.  `PROJECT.json` maps
each definition to the lines it translates.

## The system

| Component | State | Operations | Talks to |
|---|---|---|---|
| event bus `core/bus.py` | bounded queue, subscriber lists, dispatcher task | subscribe, unsubscribe, publish, start, stop, dispatch | everything |
| dedup `core/dedup.py` | table of fingerprints, rate windows, last prune | should_publish, change of configuration | journald source |
| journald source `sources/journald.py` | buffer, urgent flag, reader thread, batcher task | read, batch, flush, stop | bus, dedup |
| watchdog sources `sources/base.py`, `sources/pacman.py` | bridge queue, timer, lock, file position | notify (observer thread), debounce, read, stop | bus |
| service monitor `sources/services.py` | units known as failed | poll | bus, `distro/arch.py` |
| metrics `sources/metrics.py`, trends `core/trend.py` | latches, previous counters, sample windows | poll, update | bus |
| status tracker `core/status.py` | recent criticals and warnings, LLM flag, status | on_event, prune, set_llm_available | bus, tray, hooks |
| scheduler `scheduler/engine.py` | tasks | start, add job, run, stop | jobs |
| LLM client `llm/client.py` | HTTP client, availability | start, health check, generate, close | jobs, reload |
| batch analysis `llm/batch.py` | none between two runs | analyze_batch | database, LLM, bus |
| ring log `core/ringlog.py` | log, archives, descriptor, sync thread | open, write, sync_now, rotate, read_tail, close | bus, crash detector |
| crash detector `core/crash.py` | the file last-state | on_start, on_stop | application |
| application `app.py` | all of the above | start, stop, reload_config | desktop, signals |
| database `db/` | one shared connection, its transaction, the schema's version | connect, migrate, insert, update, cleanup, close | bus, batch analysis, UI |
| external collector `sources/external.py` | last answers of each tool, first-scan flags | poll (seven probes), follow docker, stop | bus |
| briefing `scheduler/briefing.py` | none between two runs | generate | database, LLM, bus |
| desktop `ui/bridge.py`, `ui/feed.py`, `__main__.py` | event loop in a thread of its own, its callbacks, cards of the feed | submit, stop_loop, start_app, stop_app, forward, load | application, bus, database |
| rest: actions, hooks, configuration, LLM queue, prompts, widgets | see *Not modelled* | | |

What makes the code hard, and what should hold of it:

* **Bus.** Subscribers suspend, so registrations, publishes, stops and restarts
  interleave with a dispatch.  One dispatcher; one order for every subscriber;
  nobody is left out; `stop()` ends also when the queue is full.
* **Dedup.** Three limits meet at their boundaries (baseline, burst, sliding
  minute) while the table is pruned and the configuration replaced.  Limits hold
  for every minute; the count of what was suppressed is right; memory is bounded.
* **Journald.** A thread fills a bounded buffer while a coroutine drains it and a
  `stop()` cancels that coroutine.  No entry twice, none out of order, a
  critical one at once, none left behind.
* **Watchdog bridge.** Thread, loop and worker threads hand over by flags.  No
  lost wake-up; no line twice.
* **Scheduler.** Wake-ups are late, jobs are long, `stop()` comes at any time.
* **Status.** Truth decays: the status is computed when something arrives.  The
  tray hears of changes only, and repaints in another thread, later.
* **Ring log.** Crashes within a rotation, clock changes, a sync thread.
* **Batch analysis and clients.** State read before an HTTP exchange is used
  after it; a reload replaces the client meanwhile.  An answer may leave an event
  out, or give it nothing.
* **Database.** Every statement and every commit is a job of its own for a worker
  thread, and all coroutines share one connection: a transaction is everybody's.
  What has returned is committed; only who met another may fail; a killed
  migration is taken up again.
* **External collector.** Tools time out, fail without a word or answer in a shape
  that raises, and the first answer is what all later ones are compared with.
* **Desktop.** A Qt thread hands coroutines to a loop that may not run yet, or not
  any more.  None is lost silently, a quit ends, the feed has no gap.
* **Application.** The order of the parts in `start()` and `stop()` decides which
  events are lost and what the next start believes about it.

## The modules

| Module | What it models | Checked by |
|---|---|---|
| `EventBus` | the whole bus; one action per stretch between two suspensions | `Bus`, `EventBusProofs` |
| `BroadcastLog` | what the bus promises: one log, one cursor | property of `Bus`, `EventBusProofs` |
| `EventDedup` | one call of `should_publish` per step, clock, configurations | `Dedup`, `EventDedupProofs` |
| `JournaldSource` | reader thread, batcher, flushes, `stop()` | `Dedup`, `EventDedupProofs` |
| `Cron` | matching of cron fields, as operators | `Status`, `StatusProofs` |
| `Scheduler` | cron and interval tasks, wake-ups, `stop()` (instance of `Cron`) | `Status`, `SchedulerDaily`, `StatusProofs` |
| `Status` | unit poll, bus, tracker, health job, signals to the Qt thread, tray | `Status`, `StatusUnrecovered`, `StatusProofs` |
| `RingLog` | writer, rotation step by step, sync thread, crash, clock | `RingLog`, `RingLogProofs` |
| `Database` | worker threads on the shared connection, cancellation, close, kill, creation and migration of the schema | `Database`, `DatabaseRace`, `DatabaseProofs` |
| `BatchAnalysis` | interval job with the rows it reads and writes | `Database`, `DatabaseProofs` |
| `Lifecycle` | `start()`, `stop()`, state file, traffic from sources to database, several runs of the process | `Application`, `ApplicationProofs` |
| `LLMClients` | clients under reloads, health, batch and briefing jobs, `stop()` | `Application`, `ApplicationProofs` |
| `PacmanSource` | start of the observer, its thread, bridge, timer, reads under the lock | `Threads`, `ThreadsProofs` |
| `Desktop` | Qt thread, loop thread, `start_app()`, `stop_app()`, feed | `Threads`, `Feed`, `ThreadsProofs` |
| `OneShotCalls` | what the bridge promises a caller: refused, or done once | property of `Threads`, `ThreadsProofs` |
| `Metrics` | latches of alerts, error counters, disk trend (instance of `Trend`) | `Collectors`, `CollectorsProofs` |
| `Trend` | window, sample minimum and cooldown of one metric | `Collectors`, `CollectorsProofs` |
| `ExternalCollector` | the cycle of probes, the stream of docker | `Collectors`, `CollectorsProofs` |

`MC...` modules hold constants for TLC (`MCStatus` also the reference definition
of a cron field), and the assumptions on constants of the modules they take as
instances.  Six of them put two modules side by side: `MCEventDedup` (`EventDedup`,
`JournaldSource`), `MCStatus` (`Status`, `Scheduler`), `MCDatabase` (`Database`,
`BatchAnalysis`), `MCApplication` (`Lifecycle`, `LLMClients`), `MCThreads`
(`PacmanSource`, `Desktop`) and `MCCollectors` (`Metrics`, `ExternalCollector`).  The
two share no variable, so a product would show nothing that either does not show
alone: the variable `moves` chooses which of them takes the steps of a behaviour,
and the other keeps its initial state.  The states of a run are the sum, not the
product, of the two.  The theorems are about the specification of each module for
itself (`Spec`, or `J!Spec`, `S!Spec`, ... of the instance).

Where a list is the part of another that has some property, it is specified by
what it is, as a set of lists of which there is one (`InOrder` of `JournaldSource`,
`OldestFirst` of `Desktop`), or as a set of records where its order is not looked at
(the updates of `BatchAnalysis`): the recursive `SelectSeq` says the same, but no
prover here can reason about it.

Variables are named after the attributes of the code; those marked *History* are
read by no guard but bounds.  A comment "Seeded fault" marks a deliberately wrong
variant of the definition after it: put in its place, the property named in
`PROJECT.json` fails.

Concurrency is modelled as the code has it.  On the event loop a step is what
runs between two suspension points (`await` of something that really suspends);
steps of threads interleave with it at every shared operation; a crash may come
between any two steps.  Data is reduced to what the code compares: an event is
its place in the log (and a timestamp where something is sorted by it), a journal
entry its kind, a fingerprint a model value, a write the triple of its task, operation and
statement.

How the parts that interact meet in a module: `Status` holds the bus (as a
bounded queue), the tracker, the queue of Qt and the tray; `Lifecycle` sources, bus, database and
state file; `Desktop` bridge, application and feed; `BatchAnalysis` rows, LLM and
job.  In these the bus is the fifo that `Fifo` and `Implementation` prove it is.

## What each run shows

Each run finishes in two minutes or so with two workers.  TLC looks at every
state within the bounds; wherever the text says why a bound is enough, that is an
argument about which interactions fit in it, not a proof.  Where deadlock is not
checked, the system may rest: a stopped source, a process that is off, a bound
reached.

**Bus** (26 thousand states).  One type, one subscriber that may register by
type, as wildcard and both, two callers of `stop()`, a queue of two, three
objects, two dispatcher generations.  `SingleDispatcher`, `SeenInOrder`,
`WildcardSeesAll`, the refinement `ImplementsBroadcastLog`, and under fairness
`StopReturns` and `AcceptedIsDispatched`.  Two generations and two stoppers are
what a race over `_task` takes; a queue of two has an empty, a partly filled and
a full state.  Fairness: the loop runs each ready task and every subscriber
returns.  `OverlapStart = FALSE`: the application never calls `start()` during a
`stop()`.  With one callback no list of callbacks changes while the dispatcher is
in it; that `WildcardSeesAll` holds then too is left to the theorem
`NobodyIsLeftOut`.  `SeenInOrder` is about order: one callback registered by type
and as wildcard hears an event twice, in the code as well.

**Dedup** (1.3 million).  `EventDedup`: two fingerprints of one source, two
configurations, ten clock readings, a "minute" of four.  `RateLimited`, `Spaced`,
`CountWithinOne`, `TrackedAreRecent`.  The time covers two rate windows and two
pruning intervals.  `JournaldSource`: a buffer of two, three entries, a yield after
two publishes.  `EntriesOnceInOrder`, `CritIsAnnounced`, `StopFlushesBuffer`, and
`EveryEntryLeaves` under fairness of the batcher, of `stop()` and of the reader
between its append and its flag.  Three entries overflow the buffer and fill two
flushes.

**SchedulerDaily** (violation).  `FiresWhenMatched` states the comment
"Check cron match every 60s, fire when matched." (`scheduler/engine.py:131`).  A
daily job breaks it: the guard against firing twice in a minute compares only the
minute of the hour (`engine.py:136`), and for a job like `0 3 * * *` that is
always the minute it fired at last.  It fires on its first day and never again.

**Status** (1.3 million).  `Status`: one unit that fails twice, a bus of two, a
window of two, two signals on their way to the Qt thread.  `TrayTellsOfCritical`:
the status is critical for the whole window, and from the first change on the last
signal that is queued, or else the tray, has the status.  `OneReportPerFailure`.
`TrayComesRight`, under fairness of the health job, the start-up and the event loop
of Qt: the tray comes to show a status that lasts, and the status does not stay
critical once no unit is failed.  Two signals are one that is stale when it is
painted and the one that corrects it; the time ends when the window of an event of
the first moment does.  `Scheduler`: an hourly job, one with an invalid field, an
interval job; hours of two minutes, wake-ups up to half a minute late.
`MinutesAreMet` (no minute is skipped but those the job ran in, and a matching one
is passed over only as a repeat), `StopEndsJobs`; and `FieldAgrees` compares every
field of up to two tokens with a reference definition.  Three minutes fit in the
time, so that a minute of the hour recurs.

**StatusUnrecovered** (violation).  `CriticalUntilRecovered` states
"unrecovered service failures" (`core/models.py:45`, `ui/tray.py:6`).  The list of
critical events is pruned after an hour (`core/status.py:57`), and the monitor
reports a failure once: the status leaves critical though the unit is still failed.

**RingLog** (10.7 million).  Logs of two lines, one archive, five writes, one
crash, one step back of the clock.  `TailIsNewest`, `SurvivesPowerLoss` (critical
lines are durable, other losses are bounded by the sync interval).  Five writes
rotate twice, so that an archive is pruned.

**Database** (5.1 million).  `Database`: an insert, an update and a cleanup of two
statements, three operations, two runs of the process, cancellation, close and
kill anywhere, a database that is new or of version 1.  `SchemaFits`,
`ReturnedIsThrough`, `RaisesOnlyBeside`.  Three operations let a third begin in a
transaction that a cut one left open and a second one committed in part; two runs
let a killed migration be taken up.  `BatchAnalysis`: three events, batches of
two, rows up to one unit later than their timestamp, answers that leave rows out or
give them a null summary.  `NoneIsLeftOut`: an event without a summary is one whose
batch broke off, that was answered with null, or that came while another batch was
analyzed.

**DatabaseRace** (violation).  `HandledIsStored` states "Structured event -
stored in SQLite with embedding" (docs/architecture.md:51).  An insert and the
nightly cleanup break it: sqlite3 looks whether the connection is in a
transaction before it begins or commits one, in the worker thread and without a
lock over both, so that of two overlapping coroutines one may begin a second
transaction.  SQLite refuses the BEGIN of the insert, `_persist_event()` logs the
error (`app.py:284`), and nothing inserts the event again.

**Application** (0.3 million).  `Lifecycle`: one source of each kind, a queue of
two, four events, three runs of the process, kills at every step, parts that raise
in `start()` and `stop()`, inserts that fail.  `NoneUnheard`, `ReportIsRight`: when
no crash is reported, nothing of the run before is lost but what the code is known
to lose, and a run that was stopped is not reported.  It does not say that a run
that is reported lost something: one that was killed with nothing under way is
reported too.  `ShutsDownAll` is about a `stop()` that comes to its end; one that
raises leaves parts up, and one that comes during the start-up does nothing.  Three
runs are needed for a report about a run that itself started after a crash.  `LLMClients`: two reloads that may overlap each other,
health, batch and briefing jobs and `stop()`.  `OneClientOpen`,
`BriefingComesOut`.

**Threads** (69 thousand states).  `PacmanSource`: four lines, two tasks waiting for
the lock, rotations at any time, lines written before the observer runs, reads that
raise.  `OnceInOrder`, and `LinesComeThrough` under fairness of observer thread,
loop, timer and worker threads; the timer is fair since the log is left alone for
0.2 s some time.  `Desktop`: two quits, one event.  `ImplementsCalls` (the refinement
to `OneShotCalls`, a statement of safety: no call is lost without a word or answered
twice; that one ends is `QuitEndsBridge`), and `QuitEndsBridge` under fairness of the
bridge's thread and the coroutines it runs.  Two quits are one that meets the end of
the first.

**Feed** (1.0 million).  `Desktop` again, with three events of any timestamps, which
a query sorts, two recent ones, three cards and one quit; of `PacmanSource` a line is
left.  `FeedIsWhole`: what is taken once `start_app()` has subscribed gets a card,
also when its insert fails; forwarded cards are in the order of the bus, not of
timestamps, which journald and pacman take from their logs (`sources/journald.py:256`,
`sources/pacman.py:87`); the loaded ones are newest first.  Three events are one
before, one during and one after the loading, or a backdated one that the limit of
two leaves out.

**Collectors** (0.5 million).  `Metrics`: one gauge, two programs, one counter, a
window of eight samples, a cooldown of five cycles, missed cycles.
`AlertsAreTold`, `DiskFillIsTold`.  `ExternalCollector`: one name of each kind,
slow probes each second cycle, and one tool installed at a time: tools touch
disjoint state and meet only in the order of the cycle, which an exception cuts.
`NewsIsToldOnce`: a dump once, a `.pacnew` file that the first scan did not find
exactly once while scans list it, a package at least once and once unless a scan
failed, orphans when they are more than were told of.  `KeepsWatching`, under
fairness of the polling loop and the reader of docker's stream.

Fairness is weak everywhere and stated per action: asyncio's ready queue is first
in, first out, and a thread that can run does.  Nothing is assumed of the
environment (publishers, journal, units, users, LLM answers that come at all),
except that a request or a tool ends, by answer, error or time-out, which the code
enforces by time-outs.

## What is proved

Every safety property of a run, the two refinements included, is a theorem for
every value of the constants; the runs show them on small instances, and show the
liveness properties, which no theorem states.

Eight modules hold theorems; each says in its comment which code it is about.
Each `TypeOK` lists the types of a module; those of `EventBus`, `EventDedup` and
`Database` are theorems, the other inductive invariants contain what they need of
types in a form without bounds.  Every `TypeOK` holds in the instance of its run,
where it can be added to the `INVARIANTS`.

`EventBusProofs`, for any types, subscribers, stoppers, queue size and bounds
(assumptions `NoneAssumption`, `BoundAssumption`):

* `TypeCorrect`: `Spec => []TypeOK`.  `TypeOK` is inductive with two lemmas about
  sequences (`PutType`, `RestType`).
* `Fifo`: the queue is the part of the log that was not taken, whatever the
  dispatchers do.
* `OneDispatcher` (if `start()` never overlaps a `stop()`): `SingleDispatcher`.
  It is not inductive alone: a `stop()` that resumes clears `_task`, so
  `StopAwaitsTheTask` is needed, that the task it awaited is the one the bus
  knows, or that it knows none.
* `OrderedDelivery`: `SeenInOrder` follows from `BusInv`, the four invariants
  `TypeOK`, `QueueIsFifo`, `DispatcherInv` and `HoldsLastTaken` (a busy
  dispatcher holds the event taken last), strengthened by "what was seen was
  taken".
* `Implementation`: `Spec => ImplementsBroadcastLog`; under `BusInv` every step
  is one of `BroadcastLog` or a stutter, with `cursor <- taken`.
* `NobodyIsLeftOut`: `WildcardSeesAll`, even if `start()` and `stop()` overlap.
  `WildInv` adds that a registration is in the list, that an idle dispatcher holds
  no event, and that a copy of the list still has every older registration that
  has not seen the event (`CopyIsWhole`); the lemmas `AppendHas`, `TailHas` and
  `RestHas` carry membership over what is done to lists.

`EventDedupProofs`, for any fingerprints, sources, configurations and times
(assumptions `ConfigAssumption`, `TimeAssumption`):

* `TypeCorrect`.
* `RateLimit`: `RateLimited`.  The invariant `RateInv` says that the rate window
  of a source is the end of its emissions and that what was popped is old; the
  lemmas `PopWindow`, `AppendWindow` and `SpreadKept` carry it over a call.
* `Spacing`: `Spaced`, across prunes: a forgotten fingerprint was emitted so
  long ago that a new emission is apart anyway (`StaleLongAgo`).
* `Pruning`: `TrackedAreRecent`.
* `Counting`: `CountWithinOne`.  `CountInv` says the same of the count that no
  emission has carried yet.
* Of `JournaldSource`, for any buffer, batches and pauses (assumption
  `BufferAssumption`): `NoneTwiceNoneAstray` (`EntriesOnceInOrder`), `CritNeverWaits`
  (`CritIsAnnounced`), `StopLosesNoBuffer` (`StopFlushesBuffer`).  `SourceInv` says
  that one of the two flushes runs at a time (`OneFlushes`: it is why the batcher
  must be gone before `stop()` flushes), that what is published is older than what a
  flush holds, and that than the buffer (`InLine`), that every entry is in one place
  (`Placed`), and where what was read before `stop()` is (`StopTakesTheRest`).

`DatabaseProofs`, for any tasks, operations and runs (assumption
`DatabaseAssumption`): `TypeCorrect`, `SchemaAlwaysFits`, `ReturnedMeansCommitted`
(`ReturnedIsThrough`) and `AloneIsSafe` (`RaisesOnlyBeside`).  `DInv` is about who
owns the open transaction: what an operation has done is in it or committed
(`NoneIsLost`), an empty one has somebody about to write (`OpenIsUsed`), an
uncommitted write an operation that will commit it, was cut off or raised
(`PendingIsOwned`), and whoever finds it opened or closed since it looked has met
another (`TurnedAway`).  `Migrates` says where a creation or migration may break off.

Also there, of `BatchAnalysis` for any interval, limit and delay (assumption
`JobAssumption`): `NoEventIsLeftOut` (`NoneIsLeftOut`).  `JobInv` accounts for the
events without a summary in each phase of the job: between two analyses those of
the last window came while it ended (`BetweenBatches`), in one they are in the
window, in the batch or about to be written (`DuringBatch`), or were given null.

`ApplicationProofs`, for any sources, faults, queue, events and runs (assumption
`LifecycleAssumption`): `EveryEventIsHeard` (`NoneUnheard`), `TheReportIsRight`
(`ReportIsRight`), `StopLeavesNothing` (`ShutsDownAll`).  `LInv` relates how far
`start()` or `stop()` has come to the parts that are up (`BusInside`: the bus runs
only within the database), keeps the sentinel last but for events known to be lost
(`Sentinel`), places every accepted event (`Heard`), and says that a file without
"booted" has nothing left to lose (`Settled`).

Also there, of `LLMClients` for any number of reloads and clients: `NoClientIsLost`
(`OneClientOpen`) and `BriefingIsPublished` (`BriefingComesOut`).  `ClientInv`: the
application's client is open; and while one at a time reloads or stops
(`OneAtATime`), whoever does works on that client, and every other one is closed
but those whose `start()` raised.

`StatusProofs`, for any finite set of units, window and queue (assumption
`StatusAssumption`): `NoReportTwice`; its invariant counts, beside the reports, what
a poll under way still owes (`Owed`).  `TrayIsRight`; its invariant says that the
status is critical exactly while a critical event is remembered, and what the last
signal on its way, or the tray, has of it.

Also there, of `Scheduler` and `Cron` for any jobs, plan and clock (assumption
`ClockAssumption`):

* `FieldsMeanTheirTokens`, and from it `FieldsMatchWhatTheySay` (`FieldAgrees`): a
  field of any length is right token by token (`TokenMeaning`, on remainders and
  multiples), and its first decisive token exists (`Least`).
* `StopLeavesNoTask` (`StopEndsJobs`): the tasks `stop()` has passed have ended
  (`StopInv`).
* `NoMinuteIsMissed` (`MinutesAreMet`), if the event loop is at most half a minute
  late (`Slack <= 1`): with a whole minute of delay a sleep of half a minute may
  skip one.  `MinutesInv`: a task that sleeps has met every minute up to the one it
  fell asleep in and is woken before the end of the next (`CronKeepsUp`), and the
  minute it remembers is one it fired at (`RemembersAFiring`).

`RingLogProofs`, for any sizes and intervals (assumption `RingLogAssumption`):
`PowerLossIsSurvived`.  `RInv` follows the rotation step by step (`Control`), and
says that archives are synced and each unsynced line is no older than the time the
sync thread has waited.  `TailIsRead` (`TailIsNewest`): `TInv` adds that
`current.log` is the end of the log, that its lines are counted while it is open,
and, while rotations are a second apart, that the archive with the newest name is
full and holds the lines before it (`NewestPrecedes`).

`ThreadsProofs`: of `PacmanSource`, for any number of lines and tasks:
`PublishedOnceInOrder`.  `PInv` says that what is in the log behind the position a
reader will use is newer than all that was read.  Of `Desktop`, for any number of
quits, events, recent ones and cards (assumption `DesktopAssumption`):

* `BridgeKeepsItsPromise`: `Spec => ImplementsCalls`, the refinement of
  `OneShotCalls`.  Under `BridgeInv` every step is one of it or a stutter: a call
  that was queued before the loop was asked to stop is run before any stop is
  (`QueuedFirst`), what the closing loop does not wait for came later
  (`AwaitedOrLate`), and until a second quit there is one stop (`OneStop`).
* `FeedLacksNothing` (`FeedIsWhole`), for any timestamps.  `FeedInv` places every
  event: of those taken since the subscription, shown, trimmed or just being
  forwarded; of those stored before, loaded, left out by the limit, or the one that
  was being stored (`FeedCovers`); and it orders the cards and the signals under
  way, by the bus or by timestamps (`WillBeOrdered`).

`CollectorsProofs`: of `Metrics`, for any gauges, programs, counters, thresholds and
windows (assumption `MetricsAssumption`): `AlertsAreAlwaysTold`; and `FillIsTold`, if
the window holds the eight samples a slope needs.  Of `ExternalCollector`, for any
peers, endpoints, dumps, files and packages of different names (assumption
`NamesAssumption`): `NewsIsTold` (`NewsIsToldOnce`).  `NewsInv` relates for each probe
what it remembers to how often it told: of peers and endpoints the last state
(`ReachInv`), of dumps what was listed before (`CrashInv`), of the slow probes exactly
which files were told of, what an empty or failed scan forgot, and how many orphans
were (`SlowInv`).

Two arguments look like induction over data and are not: the least or greatest
element of a finite set of numbers (`Least`, `Greatest`) is the one with the
smallest set of lesser or greater ones, since the strict subsets of a finite set
are well founded.

Only model-checked: all liveness (`StopReturns`, `AcceptedIsDispatched`,
`EveryEntryLeaves`, `TrayComesRight`, `LinesComeThrough`, `QuitEndsBridge`,
`KeepsWatching`), which needs ENABLED and fairness; the three violations; and the
types of the modules not named above.

## Where the code departs from what is said of it

The runs `SchedulerDaily`, `DatabaseRace` and `StatusUnrecovered` show three.
Others were met while modelling; the models contain the behaviour, and the
properties are stated as what does hold.

* Bus: a second `stop()` that overlaps the first leaves a second sentinel, which
  ends the dispatcher of the next `start()` at once.  A `start()` during a
  `stop()` is forgotten by it (`core/bus.py:63`).  A full queue drops an event
  silently (`core/bus.py:43`), and a source that latched it does not publish it
  again.
* Dedup: the suppressed count may be one too many, for the emission that
  restarted it; hence `CountWithinOne`.
* Journald: `stop()` loses the entries a batcher had drained and not yet
  published.  Kernel messages above ERR are skipped, though README.md:115 says
  "Kernel transport always."  A `start()` after a `stop()` while the old reader
  still blocks would have two readers (`sources/journald.py:115`).
* Scheduler: a job that died of an invalid cron expression makes `stop()` raise
  and leaves the jobs after it running.
* Status: when Ollama is unavailable from the start the tray is not yellow
  (docs/architecture.md:116): the change comes before it subscribes
  (`__main__.py:87`), and it is told of changes only.  A failed
  `systemctl` reads as "nothing failed" and lets old failures be reported again.
  A callback that raises would keep the callbacks after it from hearing of the
  change (`core/status.py:73`).
* Ring log: with the clock put back, or two rotations in a second, the archives
  are not in the order of their names; hence `apart` in `TailIsNewest`.
* LLM queue: `drain()` pops the head after the answer, which may by then be
  another task if the queue was full.  The application does not use it yet.
* Batch: the next analysis begins an interval after the last one *ended*, but
  looks one interval back: what comes during an analysis may never be analysed.
  An answer with `"summary": null` writes NULL and counts as an answer, so that the
  fallback passes the event over (`llm/batch.py:97`).
* Clients: the analyzer keeps the client a reload closed (`app.py:221`), and so
  does the briefing (`app.py:189-194`): after a reload it is always the plain one.
  A reload that fails restores nothing (ROADMAP.md:122); the tracker is not told
  when a reload disables the LLM.  The plain briefing's "... and N more events"
  counts too few, by the number of types (`scheduler/briefing.py:59`).
* Database: a cleanup that `stop()` cuts off leaves a transaction open, in which
  others go on, until somebody commits.  The index `idx_events_summary_hash` is
  made only by the migration: a new database never has it, nor one killed between
  the two statements of the migration (`db/schema.sql:19`).
* Lifecycle: a `stop()` before `start()` is over does nothing; one that raises
  makes the next start report a crash; reads of the watchdog sources outlive
  their `stop()`; a `stop()` with a full queue drops what is in it and still
  writes "clean"; an insert that fails costs the event.  `unserved` in
  `NotReportedMeansStored` names exactly these losses.
* Pacman: a rotation hides unread lines, and the first lines of a new log that
  has grown past the old position (`behind` in `LinesComeThrough`).  A line that is
  written between the look at the size and the start of the observer is read with
  the next one; so are the lines of a read that raised anything but
  FileNotFoundError (`sources/pacman.py:29`, `:46`).
* Metrics: a disk that stays critical is told of again at every second poll
  (`metrics.py:176-179`), which `AlertsAreTold` allows: of the disk it says only
  that a breach is told of.  An answer of smartctl without the counter lets old
  errors be reported as new; `AlertsAreTold` says nothing of the errors after it.
* Trend: with a window of five to seven, which the configuration accepts
  (`config/schema.py:58`), no trend is ever told; hence the assumption of
  `FillIsTold`.
* External collector: while tailscale is logged out its answer has no map of peers,
  and each cycle ends there with an exception: services, ports, dumps and the slow
  probes are not looked at (`sources/external.py:123`).  The exit status of a tool
  is not looked at either, so a failed arch-audit forgets all it had found and
  tells of it again (`:258-283`); a coredumpctl that finds no dump at the start
  exits with 1 and is taken for not installed (`:45`).  A dump with the pid and the
  signal of an earlier one is taken for it.  While docker is down its reader starts
  over at once (`:82`), and the docker process outlives an exception and `stop()`.
  A peer that left the list and came back another way is not told of.
* Desktop: if the thread's loop does not run yet when the window submits
  `start_app()`, it is refused and nobody asks again: the window runs without an
  application (`ui/bridge.py:47`, `__main__.py:111`); an exception of it is never
  looked at.  A quit before the application is started makes the bridge wait for
  the dispatcher for ever (`ui/bridge.py:35-37`); a second quit may break that
  wait off.  Nothing ends Qt's own loop.  An `app.stop()` that raises leaves the
  loop running.  The feed may lack the one event that was being stored when it
  subscribed, show one twice, or put events of that time under older ones
  (`__main__.py:83-95`).  Forwarded cards are not in the order of timestamps, while
  after the next start the same events are loaded in it.  A card may show an event
  that the database lacks, for its insert failed (`app.py:284`).

## Not modelled

Widgets, themes and the wording of prompts, evidence and briefings
(presentation); hooks (pluggy calls without state); configuration (its ranges are
the assumptions on constants); parsing of command output; logging; the reboot and
snapshot sources (one comparison each; that they poll is in `Lifecycle`).  The LLM
queue and the actions are not wired to the application, and `contrib/` is a
program of its own.  Within modelled parts: the fingerprint hash of dedup, the
arithmetic of trends, the HTTP exchange beyond "answer or none", a restart of one
journald source object, a `fdatasync` that fails (the code ignores it), the
`OSError`s that are swallowed when the ring log or the crash detector cannot write a
file (`core/ringlog.py:102`, `core/crash.py:94`), the moments between the look at the
pacman log and its opening within one read, and between the check and the insert of
`maybe_insert_welcome()` (one step each), the other
trends of `Metrics`, which work as the disk's does.

## Plan

Done so far: all of the table above.  Open, in order:

1. The restart of a `JournaldSource`, and a composition of it with `EventDedup` and
   `EventBus`, the bus replaced by `BroadcastLog`.
2. The types of the remaining modules as theorems, and the step from the
   specification of a composition (`MCSpec`) to those of its parts.
3. A run of the bus with two wildcard callbacks of which one unsubscribes itself.
4. `LLMQueue` and the actions, once they are wired.
