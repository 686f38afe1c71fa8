------------------------------- MODULE Status -------------------------------
(***************************************************************************)
(* From a failed unit to the tray icon: the poll of failed units           *)
(* (sources/services.py), the event bus as a bounded queue, the status     *)
(* tracker (core/status.py), the health job and the wiring of the          *)
(* application (app.py), and the callbacks that hear of a status change    *)
(* (hooks/manager.py, __main__.py, ui/tray.py).                            *)
(*                                                                         *)
(* The program runs on one event loop, so an action is what a coroutine    *)
(* does between two suspensions; only the tray lives in the Qt thread, and *)
(* what is emitted on the loop waits in the queue of Qt until its slot     *)
(* runs there.  The tracker only asks whether its lists are empty, so a    *)
(* list of events is the set of their timestamps.                          *)
(***************************************************************************)
EXTENDS Integers, Sequences, FiniteSets

CONSTANTS
  Units,        (* The systemd units.                                      *)
  Window,       (* STATUS_WINDOW.                                          *)
  QueueMax,     (* The size of the bus queue; events beyond it are dropped.*)
  MaxEpisodes,  (* Bound: the times a unit fails.                          *)
  MaxBlind,     (* Bound: the polls that fail although units are failed.   *)
  MaxWarnings,  (* Bound: warnings and informational events published.     *)
  MaxSignals,   (* Bound: how many changes of the status the Qt thread may *)
                (* be behind.                                              *)
  MaxTime       (* Bound: the time the behaviour covers.                   *)

ASSUME StatusAssumption ==
  /\ IsFiniteSet(Units)
  /\ Window \in Nat \ {0}
  /\ {QueueMax, MaxSignals} \subseteq Nat \ {0}
  /\ {MaxEpisodes, MaxBlind, MaxWarnings, MaxTime} \subseteq Nat

VARIABLES
  failing,        (* Environment: the units that are failed.               *)
  now,            (* The wall clock.                                       *)
  known,          (* _known_failures of the service monitor.               *)
  sample,         (* What the poll under way has read, as a set of at most *)
                  (* one answer.                                           *)
  queue,          (* The bus.                                              *)
  criticals, warnings,   (* _recent_criticals, _recent_warnings.           *)
  llm_available,  (* _llm_available.                                       *)
  status,         (* _status.                                              *)
  health,         (* Where the health job is.                              *)
  wired,          (* How far the start-up has come: which callbacks are    *)
                  (* registered.                                           *)
  signals,        (* The emitted status_changed signals whose slot has not *)
                  (* run yet.                                              *)
  shown,          (* The status the tray shows.                            *)
  episodes,       (* History: how often each unit failed.                  *)
  blind,          (* History: polls that failed while a unit was failed.   *)
  reports,        (* History: how often each unit was reported.            *)
  others,         (* History: how many other events were published.        *)
  heard,          (* History: timestamps of the criticals dispatched.      *)
  changed         (* History: has the status changed since the tray was    *)
                  (* wired?                                                *)

vars == << failing, now, known, sample, queue, criticals, warnings,
           llm_available, status, health, wired, signals, shown, episodes,
           blind, reports, others, heard, changed >>

world == << failing, now, episodes >>
monitor == << known, sample, blind, reports >>
tray == << signals, shown >>
tracker == << criticals, warnings, llm_available, status, tray, changed, heard >>

Statuses == {"healthy", "degraded", "critical"}

Init ==
  /\ failing = {}
  /\ now = 0
  /\ known = {}
  /\ sample = {}
  /\ queue = << >>
  /\ criticals = {}
  /\ warnings = {}
  /\ llm_available = TRUE
  /\ status = "healthy"
  /\ health = "idle"
  /\ wired = "nothing"
  /\ signals = << >>
  /\ shown = "healthy"
  /\ episodes = [u \in Units |-> 0]
  /\ blind = 0
  /\ reports = [u \in Units |-> 0]
  /\ others = 0
  /\ heard = {}
  /\ changed = FALSE

-----------------------------------------------------------------------------
(* The environment.                                                        *)

UnitFails(u) ==
  /\ u \notin failing
  /\ episodes[u] < MaxEpisodes
  /\ failing' = failing \union {u}
  /\ episodes' = [episodes EXCEPT ![u] = @ + 1]
  /\ UNCHANGED << now, queue, health, wired, others >>
  /\ UNCHANGED << monitor, tracker >>

UnitRecovers(u) ==
  /\ u \in failing
  /\ failing' = failing \ {u}
  /\ UNCHANGED << now, episodes, queue, health, wired, others >>
  /\ UNCHANGED << monitor, tracker >>

Tick ==
  /\ now < MaxTime
  /\ now' = now + 1
  /\ UNCHANGED << failing, episodes, queue, health, wired, others >>
  /\ UNCHANGED << monitor, tracker >>

-----------------------------------------------------------------------------
(* The poll of failed units.                                               *)

PollReads ==
  /\ wired # "nothing"
  /\ sample = {}
  /\ sample' = {failing}
  /\ UNCHANGED << known, blind, reports, queue, health, wired, others >>
  /\ UNCHANGED << world, tracker >>

(* systemctl fails: its output is empty, and so is the answer              *)
(* (distro/arch.py:22-40).                                                 *)
PollFails ==
  /\ wired # "nothing"
  /\ sample = {}
  /\ failing # {}
  /\ blind < MaxBlind
  /\ sample' = {{}}
  /\ blind' = blind + 1
  /\ UNCHANGED << known, reports, queue, health, wired, others >>
  /\ UNCHANGED << world, tracker >>

(* What the bus keeps of the events published.                             *)
Accepted(events) ==
  SubSeq(queue \o events, 1,
         IF Len(queue) + Len(events) < QueueMax THEN Len(queue) + Len(events) ELSE QueueMax)

(* Seeded fault: only the new failures are remembered.                     *)
RememberNew(read) == read \ known

Remember(read) == read

(* One event for each new failure.  Nothing suspends between the answer of *)
(* systemctl and the last publish.                                         *)
PollPublishes ==
  /\ \E read \in sample :
       /\ queue' = Accepted([i \in 1 .. Cardinality(read \ known) |->
                               [severity |-> "critical", at |-> now]])
       /\ reports' = [u \in Units |-> reports[u] + IF u \in read \ known THEN 1 ELSE 0]
       /\ known' = Remember(read)
  /\ sample' = {}
  /\ UNCHANGED << blind, health, wired, others >>
  /\ UNCHANGED << world, tracker >>

OtherEvent(severity) ==
  /\ wired # "nothing"
  /\ others < MaxWarnings
  /\ others' = others + 1
  /\ queue' = Accepted(<< [severity |-> severity, at |-> now] >>)
  /\ UNCHANGED << health, wired >>
  /\ UNCHANGED << world, monitor, tracker >>

-----------------------------------------------------------------------------
(* The status tracker.                                                     *)

Recent(stamps) == {t \in stamps : t > now - Window}

Computed(crit, warn, available) ==
  CASE crit # {} -> "critical"
    [] crit = {} /\ (warn # {} \/ ~available) -> "degraded"
    [] OTHER -> "healthy"

(* Seeded fault: only a change for the worse is announced.                 *)
EmitWorse(new) ==
  IF wired = "tray" /\ (new = "critical" \/ status = "healthy") THEN << new >> ELSE << >>

(* Callbacks run in the order of registration: the hooks, then the one     *)
(* that emits a signal for the Qt thread.                                  *)
Emit(new) == IF wired = "tray" THEN << new >> ELSE << >>

Recompute(crit, warn, available) ==
  LET new == Computed(crit, warn, available)
  IN /\ status' = new
     /\ signals' = IF new # status THEN signals \o Emit(new) ELSE signals
     /\ Len(signals') <= MaxSignals
     /\ changed' = (changed \/ (new # status /\ wired = "tray"))
     /\ UNCHANGED shown

OnEvent ==
  /\ queue # << >>
  /\ LET event == Head(queue)
         crit == criticals \union (IF event.severity = "critical" THEN {event.at} ELSE {})
         warn == warnings \union (IF event.severity = "warning" THEN {event.at} ELSE {})
     IN /\ criticals' = Recent(crit)
        /\ warnings' = Recent(warn)
        /\ heard' = heard \union (IF event.severity = "critical" THEN {event.at} ELSE {})
        /\ Recompute(Recent(crit), Recent(warn), llm_available)
  /\ queue' = Tail(queue)
  /\ UNCHANGED << llm_available, health, wired, others >>
  /\ UNCHANGED << world, monitor >>

(* Seeded fault: the critical events are not pruned.                       *)
PruneWarnings ==
  /\ warnings' = Recent(warnings)
  /\ Recompute(criticals, Recent(warnings), llm_available)
  /\ UNCHANGED << criticals, llm_available, heard >>

Prune ==
  /\ criticals' = Recent(criticals)
  /\ warnings' = Recent(warnings)
  /\ Recompute(Recent(criticals), Recent(warnings), llm_available)
  /\ UNCHANGED << llm_available, heard >>

SetLlmAvailable(available) ==
  /\ llm_available' = available
  /\ Recompute(criticals, warnings, available)
  /\ UNCHANGED << criticals, warnings, heard >>

-----------------------------------------------------------------------------
(* The Qt thread.                                                          *)

(* Seeded fault: a tray that shows a problem keeps it.                     *)
PaintOnce(new) == IF shown = "healthy" THEN new ELSE shown

Paint(new) == new

(* The slot runs when the Qt thread comes to it, and the icon is repainted *)
(* when the status is another one.                                         *)
TrayShows ==
  /\ signals # << >>
  /\ shown' = Paint(Head(signals))
  /\ signals' = Tail(signals)
  /\ UNCHANGED << criticals, warnings, llm_available, status, changed, heard >>
  /\ UNCHANGED << queue, health, wired, others >>
  /\ UNCHANGED << world, monitor >>

-----------------------------------------------------------------------------
(* The health job, and the start-up that wires the parts.                  *)

(* The LLM health check suspends: events may be dispatched before it ends, *)
(* and the server answers it or does not.                                  *)
HealthPrunes ==
  /\ health = "idle"
  /\ wired \in {"hooks", "tray"}
  /\ Prune
  /\ health' = "checking"
  /\ UNCHANGED << queue, wired, others >>
  /\ UNCHANGED << world, monitor >>

HealthAnswers ==
  /\ health = "checking"
  /\ \E available \in BOOLEAN : SetLlmAvailable(available)
  /\ health' = "idle"
  /\ UNCHANGED << queue, wired, others >>
  /\ UNCHANGED << world, monitor >>

(* app.start() asks the LLM before anything is subscribed.                 *)
StartLlm ==
  /\ wired = "nothing"
  /\ \E available \in BOOLEAN : SetLlmAvailable(available)
  /\ wired' = "tracker"
  /\ UNCHANGED << queue, health, others >>
  /\ UNCHANGED << world, monitor >>

StartHooks ==
  /\ wired = "tracker"
  /\ wired' = "hooks"
  /\ UNCHANGED << queue, health, others >>
  /\ UNCHANGED << world, monitor, tracker >>

(* The user interface registers its callback when app.start() is over.     *)
StartTray ==
  /\ wired = "hooks"
  /\ wired' = "tray"
  /\ UNCHANGED << queue, health, others >>
  /\ UNCHANGED << world, monitor, tracker >>

Environment ==
  \/ \E u \in Units : UnitFails(u) \/ UnitRecovers(u)
  \/ Tick
  \/ \E severity \in {"warning", "info"} : OtherEvent(severity)

Program ==
  \/ PollReads
  \/ PollFails
  \/ PollPublishes
  \/ OnEvent
  \/ HealthPrunes
  \/ HealthAnswers
  \/ StartLlm
  \/ StartHooks
  \/ StartTray
  \/ TrayShows

Next == Environment \/ Program

Spec == Init /\ [][Next]_vars

(* The scheduler runs the health job again and again, and the server or    *)
(* the time-out of the client ends its request; the event loop of Qt       *)
(* delivers what is queued for it.                                         *)
FairSpec ==
  /\ Spec
  /\ WF_vars(HealthPrunes)
  /\ WF_vars(HealthAnswers)
  /\ WF_vars(StartLlm)
  /\ WF_vars(StartHooks)
  /\ WF_vars(TrayShows)

-----------------------------------------------------------------------------
(* Each variable has its type.                                             *)
TypeOK ==
  /\ {failing, known} \subseteq SUBSET Units
  /\ sample \subseteq SUBSET Units /\ Cardinality(sample) <= 1
  /\ {llm_available, changed} \subseteq BOOLEAN
  /\ now \in 0 .. MaxTime
  /\ queue \in Seq([severity : {"critical", "warning", "info"}, at : 0 .. now])
  /\ Len(queue) <= QueueMax
  /\ {criticals, warnings, heard} \subseteq SUBSET (0 .. now)
  /\ {status, shown} \subseteq Statuses
  /\ signals \in Seq(Statuses) /\ Len(signals) <= MaxSignals
  /\ health \in {"idle", "checking"}
  /\ wired \in {"nothing", "tracker", "hooks", "tray"}
  /\ blind \in 0 .. MaxBlind
  /\ {episodes, reports} \subseteq [Units -> Nat]
  /\ others \in 0 .. MaxWarnings

(* A critical event that was dispatched keeps the status critical for the  *)
(* whole window, whatever is dispatched or checked after it                *)
(* (status.py:38-52, 61-67).                                               *)
CriticalForTheWindow ==
  Recent(heard) # {} => status = "critical"

(* A unit is reported no more often than it failed, but for the polls that *)
(* failed while it was failed: each looks like a recovery and lets one old *)
(* failure be reported again (services.py:27, 43; distro/arch.py:22).      *)
OneReportPerFailure == \A u \in Units : reports[u] <= episodes[u] + blind

(* What the tray shows when the signals on the way have arrived.           *)
WillShow == IF signals = << >> THEN shown ELSE signals[Len(signals)]

(* From the first change on, the last signal that was emitted, or what the *)
(* tray shows when none is on the way, is the status: no change is lost    *)
(* (status.py:69-74, __main__.py:87-89).                                   *)
TrayFollows == changed => WillShow = status

(* While a critical event is recent the status says so, and the tray is    *)
(* told what the status is (status.py:38-74).                              *)
TrayTellsOfCritical == CriticalForTheWindow /\ TrayFollows

(* The tray comes to show a status that lasts, however many changes came   *)
(* before it and however late the Qt thread is (__main__.py:61-68, 87-89,  *)
(* tray.py:43-49).                                                         *)
TrayCatchesUp ==
  \A s \in Statuses : <>[](changed /\ status = s) => <>[](shown = s)

(* When every unit is well again, a status without a recent critical event *)
(* behind it does not stay critical: the health job lets it go             *)
(* (app.py:211-215).                                                       *)
StatusRecovers ==
  (status = "critical" /\ failing = {}) ~>
     (status # "critical" \/ Recent(criticals) # {} \/ failing # {})

(* However late the Qt thread is, the tray comes to show what lasts, and   *)
(* "critical" does not last when nothing is failed (app.py:211-215,        *)
(* __main__.py:61-68, 87-89).                                              *)
TrayComesRight == TrayCatchesUp /\ StatusRecovers

(* The status is critical while there are "unrecovered service failures"   *)
(* (models.py:45, tray.py:6): it changes only when what the monitor knows  *)
(* to have failed has recovered.                                           *)
CriticalUntilRecovered ==
  [][status = "critical" /\ status' # "critical" => known \intersect failing = {}]_vars
=============================================================================
