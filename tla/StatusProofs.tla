----------------------------- MODULE StatusProofs -----------------------------
(***************************************************************************)
(* Theorems about Status, for any set of units, any window and any queue,  *)
(* and about Scheduler, for any jobs and any plan.                         *)
(***************************************************************************)
EXTENDS MCStatus, SequenceTheorems, FiniteSetTheorems, TLAPS

-----------------------------------------------------------------------------
(* Reports of failed units.                                                *)

MonitorTypes ==
  /\ failing \subseteq Units
  /\ known \subseteq Units
  /\ sample \subseteq SUBSET Units
  /\ sample = {} \/ \E read \in SUBSET Units : sample = {read}
  /\ blind \in Nat
  /\ episodes \in [Units -> Nat]
  /\ reports \in [Units -> Nat]

(* What _known_failures will be when the poll under way is over.           *)
NextKnown == IF sample = {} THEN known ELSE UNION sample

Unit(condition) == IF condition THEN 1 ELSE 0

(* The reports of a unit that may come without a new failure of it: that   *)
(* of the poll under way and that of the poll after it.                    *)
Owed(u) == Unit(u \in (UNION sample) \ known) + Unit(u \in failing \ NextKnown)

ReportInv == MonitorTypes /\ \A u \in Units : reports[u] + Owed(u) <= episodes[u] + blind

LEMMA UnionOfOne == UNION {} = {} /\ \A one : UNION {one} = one /\ {one} # {}
<1>1. UNION {} = {}
  OBVIOUS
<1>2. ASSUME NEW one PROVE UNION {one} = one /\ {one} # {}
  BY Zenon
<1> QED BY <1>1, <1>2

LEMMA ReportInit == Init => ReportInv
BY DEF Init, ReportInv, MonitorTypes, Owed, Unit, NextKnown

LEMMA OfUnitFails ==
  ASSUME ReportInv, NEW v \in Units, UnitFails(v)
  PROVE  ReportInv'
<1>1. /\ failing' = failing \union {v} /\ episodes' = [episodes EXCEPT ![v] = @ + 1]
      /\ v \notin failing /\ UNCHANGED << known, sample, blind, reports >>
  BY DEF UnitFails, monitor
<1>2. MonitorTypes'
  BY <1>1 DEF ReportInv, MonitorTypes
<1>3. ASSUME NEW u \in Units
      PROVE  reports'[u] + Owed(u)' <= episodes'[u] + blind'
  <2>1. reports[u] + Owed(u) <= episodes[u] + blind
    BY DEF ReportInv
  <2>2. CASE u = v
    BY <1>1, <2>1, <2>2 DEF ReportInv, MonitorTypes, Owed, Unit, NextKnown
  <2>3. CASE u # v
    BY <1>1, <2>1, <2>3 DEF ReportInv, MonitorTypes, Owed, Unit, NextKnown
  <2> QED BY <2>2, <2>3
<1> QED BY <1>2, <1>3 DEF ReportInv

LEMMA OfUnitRecovers ==
  ASSUME ReportInv, NEW v \in Units, UnitRecovers(v)
  PROVE  ReportInv'
BY DEF UnitRecovers, monitor, ReportInv, MonitorTypes, Owed, Unit, NextKnown

(* The poll under way will remember all that is failed now.                *)
LEMMA OfPollReads ==
  ASSUME ReportInv, PollReads
  PROVE  ReportInv'
<1>1. /\ sample = {} /\ sample' = {failing}
      /\ UNCHANGED << failing, known, blind, reports, episodes >>
  BY DEF PollReads, world
<1>2. MonitorTypes'
  BY <1>1 DEF ReportInv, MonitorTypes
<1>3. UNION sample = {} /\ UNION sample' = failing /\ sample' # {}
  BY <1>1, UnionOfOne, Zenon
<1>4. ASSUME NEW u \in Units PROVE Owed(u)' = Owed(u)
  BY <1>1, <1>3 DEF Owed, Unit, NextKnown
<1> QED BY <1>1, <1>2, <1>4 DEF ReportInv

(* A poll that sees nothing lets one old failure be reported again.        *)
LEMMA OfPollFails ==
  ASSUME ReportInv, PollFails
  PROVE  ReportInv'
<1>1. /\ sample = {} /\ sample' = {{}} /\ blind' = blind + 1
      /\ UNCHANGED << failing, known, reports, episodes >>
  BY DEF PollFails, world
<1>2. MonitorTypes'
  <2>1. {} \in SUBSET Units
    OBVIOUS
  <2>2. sample' \subseteq SUBSET Units /\ \E read \in SUBSET Units : sample' = {read}
    BY <1>1, <2>1, Zenon
  <2>3. blind' \in Nat
    BY <1>1 DEF ReportInv, MonitorTypes
  <2>4. /\ failing' \subseteq Units /\ known' \subseteq Units
        /\ episodes' \in [Units -> Nat] /\ reports' \in [Units -> Nat]
    BY <1>1 DEF ReportInv, MonitorTypes
  <2> QED BY <2>2, <2>3, <2>4 DEF MonitorTypes
<1>3. UNION sample = {} /\ UNION sample' = {} /\ sample' # {}
  BY <1>1, UnionOfOne, Zenon
<1>4. ASSUME NEW u \in Units PROVE Owed(u)' <= Owed(u) + 1 /\ Owed(u) \in Nat /\ Owed(u)' \in Nat
  BY <1>1, <1>3 DEF Owed, Unit, NextKnown
<1>5. ASSUME NEW u \in Units
      PROVE  reports'[u] + Owed(u)' <= episodes'[u] + blind'
  <2>1. reports[u] + Owed(u) <= episodes[u] + blind
    BY DEF ReportInv
  <2>2. reports[u] \in Nat /\ episodes[u] \in Nat /\ blind \in Nat
    BY DEF ReportInv, MonitorTypes
  <2> QED BY <1>1, <1>4, <2>1, <2>2
<1> QED BY <1>2, <1>5 DEF ReportInv

LEMMA OfPollPublishes ==
  ASSUME ReportInv, PollPublishes
  PROVE  ReportInv'
<1>1. PICK read \in sample :
        /\ reports' = [u \in Units |-> reports[u] + IF u \in read \ known THEN 1 ELSE 0]
        /\ known' = read
  BY DEF PollPublishes, Remember
<1>2. sample' = {} /\ UNCHANGED << failing, blind, episodes >>
  BY DEF PollPublishes, world
<1>3. sample = {read} /\ read \subseteq Units
  BY DEF ReportInv, MonitorTypes
<1>4. MonitorTypes'
  BY <1>1, <1>2, <1>3 DEF ReportInv, MonitorTypes
<1>5. UNION sample = read /\ UNION sample' = {} /\ sample # {}
  BY <1>2, <1>3, UnionOfOne, Zenon
<1>6. ASSUME NEW u \in Units
      PROVE  reports'[u] + Owed(u)' = reports[u] + Owed(u)
  BY <1>1, <1>2, <1>5 DEF ReportInv, MonitorTypes, Owed, Unit, NextKnown
<1> QED BY <1>2, <1>4, <1>6 DEF ReportInv

LEMMA OfOtherSteps ==
  ASSUME ReportInv, UNCHANGED << failing, episodes, monitor >>
  PROVE  ReportInv'
BY DEF monitor, ReportInv, MonitorTypes, Owed, Unit, NextKnown

LEMMA ReportStep == ReportInv /\ [Next]_vars => ReportInv'
<1> SUFFICES ASSUME ReportInv, [Next]_vars PROVE ReportInv'
  OBVIOUS
<1>1. CASE Tick \/ OnEvent \/ HealthPrunes \/ HealthAnswers \/ TrayShows
  BY <1>1, OfOtherSteps
  DEF Tick, OnEvent, HealthPrunes, HealthAnswers, TrayShows, world
<1>2. CASE StartLlm \/ StartHooks \/ StartTray
  BY <1>2, OfOtherSteps DEF StartLlm, StartHooks, StartTray, world
<1>3. ASSUME NEW severity, OtherEvent(severity) PROVE ReportInv'
  BY <1>3, OfOtherSteps DEF OtherEvent, world
<1>4. CASE UNCHANGED vars
  BY <1>4, OfOtherSteps DEF vars, monitor
<1> QED BY <1>1, <1>2, <1>3, <1>4, OfUnitFails, OfUnitRecovers, OfPollReads,
          OfPollFails, OfPollPublishes
     DEF Next, Environment, Program

(* A unit is reported no more often than it failed, but once more for each *)
(* poll that saw nothing: whenever the answer of systemctl was read, and   *)
(* whatever failed or recovered before it was used (services.py:27-43).    *)
THEOREM NoReportTwice == Spec => []OneReportPerFailure
<1>1. ReportInv => OneReportPerFailure
  <2> SUFFICES ASSUME ReportInv, NEW u \in Units
      PROVE  reports[u] <= episodes[u] + blind
    BY DEF OneReportPerFailure
  <2>1. Owed(u) \in Nat
    BY DEF Owed, Unit
  <2>2. reports[u] + Owed(u) <= episodes[u] + blind
    BY DEF ReportInv
  <2> QED BY <2>1, <2>2 DEF ReportInv, MonitorTypes
<1> QED BY <1>1, ReportInit, ReportStep, PTL DEF Spec

-----------------------------------------------------------------------------
(* The status and the tray.                                                *)

Events == [severity : {"critical", "warning", "info"}, at : Nat]

StatusTypes ==
  /\ now \in Nat
  /\ queue \in Seq(Events)
  /\ criticals \subseteq Nat
  /\ heard \subseteq Nat
  /\ signals \in Seq(Statuses)

(* The tracker has forgotten no critical event that is still recent, its   *)
(* status says whether it remembers one, and the tray is told of it.       *)
StatusInv ==
  /\ StatusTypes
  /\ known \subseteq Units /\ sample \subseteq SUBSET Units /\ failing \subseteq Units
  /\ status = "critical" <=> criticals # {}
  /\ Recent(heard) \subseteq criticals
  /\ changed => wired = "tray" /\ WillShow = status

LEMMA StatusInit == Init => StatusInv
BY DEF Init, StatusInv, StatusTypes, Recent, Statuses

LEMMA Published ==
  ASSUME queue \in Seq(Events), NEW events \in Seq(Events)
  PROVE  Accepted(events) \in Seq(Events)
<1> DEFINE all == queue \o events
<1> DEFINE n == IF Len(queue) + Len(events) < QueueMax
                THEN Len(queue) + Len(events) ELSE QueueMax
<1>1. all \in Seq(Events) /\ Len(all) = Len(queue) + Len(events)
  OBVIOUS
<1>2. n \in Nat /\ n <= Len(all)
  BY <1>1, StatusAssumption
<1> HIDE DEF all, n
<1>3. \A i \in 1 .. n : all[i] \in Events
  BY <1>1, <1>2
<1>4. SubSeq(all, 1, n) \in Seq(Events)
  BY <1>2, <1>3, SubSeqProperties
<1> QED BY <1>4 DEF all, n, Accepted

(* A recomputation leaves the status in agreement with what the tray is    *)
(* told.                                                                   *)
LEMMA Recomputed ==
  ASSUME changed => wired = "tray" /\ WillShow = status,
         signals \in Seq(Statuses),
         NEW crit, NEW warn, NEW available,
         wired' = wired \/ (wired # "tray" /\ wired' # "tray"),
         Recompute(crit, warn, available)
  PROVE  /\ status' = "critical" <=> crit # {}
         /\ signals' \in Seq(Statuses)
         /\ changed' => wired' = "tray" /\ WillShow' = status'
<1>1. status' = Computed(crit, warn, available) /\ shown' = shown
  BY DEF Recompute
<1>2. (status' = "critical" <=> crit # {}) /\ status' \in Statuses
  BY <1>1 DEF Computed, Statuses
<1>3. signals' = IF status' # status THEN signals \o Emit(status') ELSE signals
  BY <1>1 DEF Recompute
<1>4. changed' <=> (changed \/ (status' # status /\ wired = "tray"))
  BY <1>1 DEF Recompute
<1>5. signals' \in Seq(Statuses)
  BY <1>2, <1>3 DEF Emit
<1>6. CASE status' # status /\ wired = "tray"
  <2>1. signals' = signals \o << status' >>
    BY <1>3, <1>6 DEF Emit
  <2>2. signals' # << >> /\ signals'[Len(signals')] = status'
    BY <2>1
  <2> QED BY <1>2, <1>5, <1>6, <2>2 DEF WillShow
<1>7. CASE status' = status
  BY <1>1, <1>2, <1>3, <1>4, <1>5, <1>7 DEF WillShow
<1>8. CASE wired # "tray"
  BY <1>2, <1>4, <1>5, <1>8
<1> QED BY <1>6, <1>7, <1>8

(* The slot takes the oldest signal: what the tray will show in the end    *)
(* stays what it is.                                                       *)
LEMMA OfTrayShows ==
  ASSUME StatusInv, TrayShows
  PROVE  StatusInv'
<1>1. /\ signals # << >> /\ signals' = Tail(signals) /\ shown' = Head(signals)
      /\ UNCHANGED << criticals, status, changed, heard, queue, wired, now, failing >>
      /\ UNCHANGED << known, sample >>
  BY DEF TrayShows, Paint, world, monitor
<1>2. signals \in Seq(Statuses)
  BY DEF StatusInv, StatusTypes
<1>3. WillShow' = WillShow
  <2>1. CASE Len(signals) = 1
    BY <1>1, <1>2, <2>1 DEF WillShow
  <2>2. CASE Len(signals) # 1
    <3>0. Len(signals) \in Nat /\ Len(signals) # 0
      BY <1>1, <1>2, EmptySeq
    <3>1. Len(signals) \in Nat /\ Len(signals) > 1
      <4>1. \A n \in Nat : n # 0 /\ n # 1 => n > 1
        OBVIOUS
      <4> QED BY <4>1, <3>0, <2>2, Zenon
    <3>2. Len(Tail(signals)) = Len(signals) - 1
      BY <1>1, <1>2
    <3>3. Tail(signals)[Len(signals) - 1] = signals[Len(signals)]
      BY <1>2, <3>1
    <3>4. Tail(signals) # << >>
      BY <3>1, <3>2
    <3> QED BY <1>1, <3>2, <3>3, <3>4 DEF WillShow
  <2> QED BY <2>1, <2>2
<1>4. StatusTypes'
  BY <1>1, <1>2 DEF StatusInv, StatusTypes
<1>5. Recent(heard)' = Recent(heard)
  BY <1>1 DEF Recent
<1> QED BY <1>1, <1>3, <1>4, <1>5 DEF StatusInv

LEMMA OfOnEvent ==
  ASSUME StatusInv, OnEvent
  PROVE  StatusInv'
<1> DEFINE event == Head(queue)
<1> DEFINE crit == criticals \union (IF event.severity = "critical" THEN {event.at} ELSE {})
<1> DEFINE warn == warnings \union (IF event.severity = "warning" THEN {event.at} ELSE {})
<1>1. /\ criticals' = Recent(crit) /\ queue # << >> /\ queue' = Tail(queue)
      /\ heard' = heard \union (IF event.severity = "critical" THEN {event.at} ELSE {})
      /\ Recompute(Recent(crit), Recent(warn), llm_available)
      /\ UNCHANGED << wired, now, known, sample, failing >>
  BY DEF OnEvent, world, monitor
<1>2. event \in Events /\ queue' \in Seq(Events)
  BY <1>1 DEF StatusInv, StatusTypes
<1>3. event.at \in Nat
  BY <1>2 DEF Events
<1> HIDE DEF event
<1>4. /\ status' = "critical" <=> criticals' # {}
      /\ signals' \in Seq(Statuses)
      /\ changed' => wired' = "tray" /\ WillShow' = status'
  BY <1>1, Recomputed DEF StatusInv, StatusTypes
<1>5. StatusTypes'
  BY <1>1, <1>2, <1>3, <1>4 DEF StatusInv, StatusTypes, Recent
<1>6. Recent(heard)' \subseteq criticals'
  BY <1>1 DEF StatusInv, Recent
<1> QED BY <1>1, <1>4, <1>5, <1>6 DEF StatusInv

LEMMA OfPrune ==
  ASSUME StatusInv, Prune, UNCHANGED << wired, queue, now, known, sample, failing >>
  PROVE  StatusInv'
<1>1. criticals' = Recent(criticals) /\ heard' = heard
  BY DEF Prune
<1>2. /\ status' = "critical" <=> criticals' # {}
      /\ signals' \in Seq(Statuses)
      /\ changed' => wired' = "tray" /\ WillShow' = status'
  BY <1>1, Recomputed DEF Prune, StatusInv, StatusTypes
<1>3. StatusTypes' /\ Recent(heard)' \subseteq criticals'
  BY <1>1, <1>2 DEF StatusInv, StatusTypes, Recent
<1> QED BY <1>2, <1>3 DEF StatusInv

LEMMA OfSetLlmAvailable ==
  ASSUME StatusInv, NEW available, SetLlmAvailable(available),
         wired' = wired \/ (wired # "tray" /\ wired' # "tray"),
         UNCHANGED << queue, now, known, sample, failing >>
  PROVE  StatusInv'
<1>1. criticals' = criticals /\ heard' = heard
  BY DEF SetLlmAvailable
<1>2. /\ status' = "critical" <=> criticals' # {}
      /\ signals' \in Seq(Statuses)
      /\ changed' => wired' = "tray" /\ WillShow' = status'
  BY <1>1, Recomputed DEF SetLlmAvailable, StatusInv, StatusTypes
<1>3. StatusTypes' /\ Recent(heard)' \subseteq criticals'
  BY <1>1, <1>2 DEF StatusInv, StatusTypes, Recent
<1> QED BY <1>2, <1>3 DEF StatusInv

(* A step that leaves the tracker alone: time may pass, something may be   *)
(* published or polled, a callback may be registered.                      *)
LEMMA OfRest ==
  ASSUME StatusInv, UNCHANGED tracker,
         now' = now \/ now' = now + 1,
         queue' \in Seq(Events),
         wired' = wired \/ wired # "tray",
         failing' \subseteq Units, known' \subseteq Units, sample' \subseteq SUBSET Units
  PROVE  StatusInv'
<1>1. UNCHANGED << criticals, heard, status, signals, shown, changed >>
  BY DEF tracker, tray
<1>2. StatusTypes'
  BY <1>1 DEF StatusInv, StatusTypes
<1>3. Recent(heard)' \subseteq Recent(heard)
  <2> SUFFICES ASSUME NEW t \in heard, t > now' - Window PROVE t > now - Window
    BY <1>1 DEF Recent
  <2>1. now \in Nat /\ t \in Nat
    BY DEF StatusInv, StatusTypes
  <2>2. Window \in Nat
    BY StatusAssumption
  <2> QED BY <2>1, <2>2
<1>4. changed' => wired' = "tray" /\ WillShow' = status'
  BY <1>1 DEF StatusInv, WillShow
<1> QED BY <1>1, <1>2, <1>3, <1>4 DEF StatusInv

LEMMA OfPoll ==
  ASSUME StatusInv, PollReads \/ PollFails \/ PollPublishes
  PROVE  StatusInv'
<1>1. CASE PollReads
  BY <1>1, OfRest DEF PollReads, world, StatusInv, StatusTypes
<1>2. CASE PollFails
  BY <1>2, OfRest DEF PollFails, world, StatusInv, StatusTypes
<1>3. CASE PollPublishes
  <2>1. PICK read \in sample :
          /\ queue' = Accepted([i \in 1 .. Cardinality(read \ known) |->
                                 [severity |-> "critical", at |-> now]])
          /\ known' = read
    BY <1>3 DEF PollPublishes, Remember
  <2>2. Cardinality(read \ known) \in Nat
    <3>1. read \ known \subseteq Units
      BY DEF StatusInv
    <3> QED BY <3>1, FS_Subset, FS_CardinalityType, StatusAssumption
  <2>3. queue' \in Seq(Events)
    <3> DEFINE n == Cardinality(read \ known)
    <3>1. [i \in 1 .. n |-> [severity |-> "critical", at |-> now]] \in Seq(Events)
      <4>1. [severity |-> "critical", at |-> now] \in Events
        BY DEF Events, StatusInv, StatusTypes
      <4> HIDE DEF n
      <4>2. n \in Nat
        BY <2>2 DEF n
      <4> QED BY <4>1, <4>2
    <3> QED BY <2>1, <3>1, Published DEF StatusInv, StatusTypes
  <2>4. read \subseteq Units
    BY DEF StatusInv
  <2> QED BY <1>3, <2>1, <2>3, <2>4, OfRest DEF PollPublishes, world, StatusInv
<1> QED BY <1>1, <1>2, <1>3

LEMMA StatusStep == StatusInv /\ [Next]_vars => StatusInv'
<1> SUFFICES ASSUME StatusInv, [Next]_vars PROVE StatusInv'
  OBVIOUS
<1>1. ASSUME NEW u \in Units, UnitFails(u) \/ UnitRecovers(u)
      PROVE  StatusInv'
  BY <1>1, OfRest DEF UnitFails, UnitRecovers, monitor, StatusInv, StatusTypes
<1>2. CASE Tick
  BY <1>2, OfRest DEF Tick, monitor, StatusInv, StatusTypes
<1>3. ASSUME NEW severity \in {"warning", "info"}, OtherEvent(severity)
      PROVE  StatusInv'
  <2>1. << [severity |-> severity, at |-> now] >> \in Seq(Events)
    BY DEF Events, StatusInv, StatusTypes
  <2>2. queue' \in Seq(Events)
    BY <1>3, <2>1, Published DEF OtherEvent, StatusInv, StatusTypes
  <2> QED BY <1>3, <2>2, OfRest DEF OtherEvent, world, monitor, StatusInv
<1>4. CASE HealthPrunes
  BY <1>4, OfPrune DEF HealthPrunes, world, monitor
<1>5. ASSUME NEW available, SetLlmAvailable(available), HealthAnswers \/ StartLlm
      PROVE  StatusInv'
  BY <1>5, OfSetLlmAvailable DEF HealthAnswers, StartLlm, world, monitor
<1>6. CASE StartHooks \/ StartTray
  BY <1>6, OfRest DEF StartHooks, StartTray, world, monitor, StatusInv, StatusTypes
<1>7. CASE UNCHANGED vars
  BY <1>7, OfRest DEF vars, tracker, tray, StatusInv, StatusTypes
<1>8. CASE HealthAnswers \/ StartLlm
  BY <1>5, <1>8 DEF HealthAnswers, StartLlm
<1> QED BY <1>1, <1>2, <1>3, <1>4, <1>6, <1>7, <1>8, OfOnEvent, OfPoll, OfTrayShows
     DEF Next, Environment, Program

(* While a critical event is recent the status is critical, whatever is    *)
(* dispatched, pruned or checked in between; and from the first change on  *)
(* that the tray is told of, the last signal on its way, or what the tray  *)
(* shows when none is, is the status, however far the Qt thread is behind  *)
(* (status.py:38-74, __main__.py:87-89).                                   *)
THEOREM TrayIsRight == Spec => []TrayTellsOfCritical
<1>1. StatusInv => TrayTellsOfCritical
  BY DEF StatusInv, TrayTellsOfCritical, CriticalForTheWindow, TrayFollows
<1> QED BY <1>1, StatusInit, StatusStep, PTL DEF Spec

-----------------------------------------------------------------------------
(* Cron fields.                                                            *)

AnyToken ==
  [base : {"any"}, step : Nat]
    \union [base : {"range"}, lo : Nat, hi : Nat, step : Nat]
    \union [base : {"value"}, lo : Nat, step : Nat]
    \union {[base |-> "bad"]}

Multiple(v, s) == \E k \in Nat : v = k * s

LEMMA DivisibleIsMultiple ==
  ASSUME NEW v \in Nat, NEW s \in Nat \ {0}
  PROVE  v % s = 0 <=> Multiple(v, s)
<1>1. ASSUME v % s = 0 PROVE Multiple(v, s)
  <2>1. v = s * (v \div s) + (v % s)
    OBVIOUS
  <2>2. v \div s \in Nat
    OBVIOUS
  <2>3. v = (v \div s) * s
    BY <1>1, <2>1, <2>2
  <2> QED BY <2>2, <2>3 DEF Multiple
<1>2. ASSUME NEW k \in Nat, v = k * s PROVE v % s = 0
  <2> DEFINE q == v \div s
             r == v % s
  <2>1. v = s * q + r /\ r \in 0 .. s - 1 /\ q \in Int
    OBVIOUS
  <2> HIDE DEF q, r
  <2>2. s * (k - q) = r
    BY <1>2, <2>1
  <2>3. k - q <= 0 => s * (k - q) <= 0
    BY <2>1
  <2>4. k - q >= 1 => s * (k - q) >= s
    BY <2>1
  <2>5. r = 0
    BY <2>1, <2>2, <2>3, <2>4
  <2> QED BY <2>5 DEF r
<1> QED BY <1>1, <1>2 DEF Multiple

(* Two numbers with the same remainder differ by a multiple.               *)
LEMMA SameRemainder ==
  ASSUME NEW a \in Nat, NEW b \in Nat, NEW s \in Nat \ {0}, a >= b, a % s = b % s
  PROVE  (a - b) % s = 0
<1>1. a = s * (a \div s) + (a % s) /\ b = s * (b \div s) + (b % s)
  OBVIOUS
<1>2. a - b = (a \div s - b \div s) * s
  BY <1>1
<1>3. a \div s - b \div s \in Nat
  BY <1>1
<1>4. Multiple(a - b, s)
  BY <1>2, <1>3 DEF Multiple
<1>5. a - b \in Nat
  OBVIOUS
<1> QED BY <1>4, <1>5, DivisibleIsMultiple

(* A multiple that a field can hold is one of those Denotes counts up to.  *)
LEMMA MultipleInBounds ==
  ASSUME NEW v \in 0 .. MaxValue, NEW s \in Nat \ {0}, MaxValue \in Nat
  PROVE  Multiple(v, s) <=> \E k \in 0 .. MaxValue : v = k * s
<1>1. ASSUME NEW k \in Nat, v = k * s PROVE k \in 0 .. MaxValue
  <2>1. s = 1 + (s - 1) /\ s - 1 \in Nat
    OBVIOUS
  <2>2. k * s = k + k * (s - 1)
    BY <2>1
  <2>3. k * (s - 1) >= 0
    BY <2>1
  <2> QED BY <1>1, <2>2, <2>3
<1>2. 0 .. MaxValue \subseteq Nat
  OBVIOUS
<1> QED BY <1>1, <1>2, Zenon DEF Multiple

(* A well-formed token hits the values it denotes, and does not fail.      *)
LEMMA TokenMeaning ==
  ASSUME NEW token \in AnyToken, NEW value \in 0 .. MaxValue, WellFormed(token)
  PROVE  /\ ~S!C!Fails(token, value)
         /\ S!C!Hits(token, value) <=> value \in Denotes(token)
<1>1. MaxValue \in Nat
  BY ClockAssumption
<1>2. CASE token.base = "any"
  <2>1. token.step \in Nat \ {0}
    BY <1>2 DEF AnyToken, WellFormed
  <2>2. Denotes(token) = {k * token.step : k \in 0 .. MaxValue}
    BY <1>2 DEF Denotes
  <2>3. value \in Denotes(token) <=> \E k \in 0 .. MaxValue : value = k * token.step
    BY <2>2
  <2>4. value % token.step = 0 <=> value \in Denotes(token)
    <3>1. value \in Nat
      BY <1>1
    <3> QED BY <1>1, <2>1, <2>3, <3>1, DivisibleIsMultiple, MultipleInBounds, Zenon
  <2> QED BY <1>2, <2>1, <2>4 DEF S!C!Fails, S!C!Hits
<1>3. CASE token.base = "range"
  <2>1. token.step \in Nat \ {0} /\ token.lo \in Nat /\ token.hi \in Nat
    BY <1>3 DEF AnyToken, WellFormed
  <2>2. Denotes(token) = {token.lo + k * token.step : k \in 0 .. MaxValue}
                           \intersect (token.lo .. token.hi)
    BY <1>3 DEF Denotes
  <2>3. ASSUME value \in token.lo .. token.hi
        PROVE  (value - token.lo) % token.step = 0 <=> value \in Denotes(token)
    <3>1. value - token.lo \in 0 .. MaxValue
      BY <1>1, <2>1, <2>3
    <3>2. (value - token.lo) % token.step = 0
             <=> \E k \in 0 .. MaxValue : value - token.lo = k * token.step
      <4>1. value - token.lo \in Nat
        BY <1>1, <3>1
      <4> QED BY <1>1, <2>1, <3>1, <4>1, DivisibleIsMultiple, MultipleInBounds, Zenon
    <3>3. \A k \in 0 .. MaxValue : value - token.lo = k * token.step
                                    <=> value = token.lo + k * token.step
      BY <1>1, <2>1
    <3> QED BY <2>2, <2>3, <3>2, <3>3
  <2> QED BY <1>3, <2>1, <2>2, <2>3 DEF S!C!Fails, S!C!Hits
<1>4. CASE token.base = "value"
  BY <1>4 DEF Denotes, S!C!Fails, S!C!Hits
<1> QED BY <1>2, <1>3, <1>4 DEF AnyToken, WellFormed

(* A finite set of numbers has a least: the one with the smallest set of   *)
(* lesser ones.                                                            *)
LEMMA Least ==
  ASSUME NEW T \in SUBSET Nat, IsFiniteSet(T), T # {}
  PROVE  \E m \in T : \A e \in T : m <= e
<1> DEFINE Below(e) == {f \in T : f < e}
           Belows == {Below(e) : e \in T}
<1>1. Belows \subseteq FiniteSubsetsOf(T) /\ Belows # {}
  <2>1. \A e \in T : Below(e) \in SUBSET T /\ IsFiniteSet(Below(e))
    BY FS_Subset
  <2> QED BY <2>1 DEF FiniteSubsetsOf
<1>2. IsWellFoundedOn(StrictSubsetOrdering(T), FiniteSubsetsOf(T))
  BY FS_StrictSubsetOrderingWellFounded
<1>3. PICK m \in T : \A y \in Belows : ~ (<< y, Below(m) >> \in StrictSubsetOrdering(T))
  <2> HIDE DEF Below
  <2>1. \E x \in Belows : \A y \in Belows : ~ (<< y, x >> \in StrictSubsetOrdering(T))
    BY <1>1, <1>2, WFMin
  <2> QED BY <2>1
<1>4. ASSUME NEW e \in T, ~(m <= e) PROVE FALSE
  <2>1. Below(e) \subseteq Below(m) /\ Below(m) \subseteq T /\ e \in Below(m) /\ e \notin Below(e)
    <3>1. e \in Nat /\ m \in Nat /\ e < m
      BY <1>4
    <3>2. ASSUME NEW f \in Below(e) PROVE f \in Below(m)
      <4>1. f \in T /\ f \in Nat /\ f < e
        BY <3>2
      <4>2. f < m
        BY <3>1, <4>1
      <4> QED BY <4>1, <4>2
    <3>3. e \in Below(m)
      BY <3>1
    <3>4. e \notin Below(e)
      BY <3>1
    <3> QED BY <3>2, <3>3, <3>4
  <2>2. << Below(e), Below(m) >> \in StrictSubsetOrdering(T)
    <3> HIDE DEF Below
    <3> QED BY <2>1 DEF StrictSubsetOrdering
  <2> QED BY <1>3, <2>2
<1> QED BY <1>4

(* What FieldAgrees says of one pattern and one value.                     *)
Agrees(pattern, value) ==
  /\ (\A i \in DOMAIN pattern : WellFormed(pattern[i])) =>
       S!C!FieldMatches(pattern, value) =
         IF \E i \in DOMAIN pattern : value \in Denotes(pattern[i]) THEN "yes" ELSE "no"
  /\ pattern[1].base = "bad" => S!C!FieldMatches(pattern, value) = "error"

(* A cron field of any length matches exactly the values its tokens        *)
(* denote, and raises when its first token does not parse                  *)
(* (engine.py:28-50).                                                      *)
THEOREM FieldsMeanTheirTokens ==
  ASSUME NEW pattern \in Seq(AnyToken), pattern # << >>, NEW value \in 0 .. MaxValue
  PROVE  Agrees(pattern, value)
<1> DEFINE decisive == {i \in DOMAIN pattern :
                          S!C!Fails(pattern[i], value) \/ S!C!Hits(pattern[i], value)}
           first == CHOOSE i \in decisive : \A j \in decisive : i <= j
<1>1. S!C!FieldMatches(pattern, value) =
        CASE decisive = {} -> "no"
          [] decisive # {} /\ S!C!Fails(pattern[first], value) -> "error"
          [] OTHER -> "yes"
  BY DEF S!C!FieldMatches
<1>2. decisive \in SUBSET Nat /\ IsFiniteSet(decisive)
  <2>1. DOMAIN pattern = 1 .. Len(pattern) /\ Len(pattern) \in Nat
    BY LenProperties
  <2>2. IsFiniteSet(DOMAIN pattern)
    BY <2>1, FS_Interval
  <2>3. decisive \in SUBSET DOMAIN pattern
    OBVIOUS
  <2> HIDE DEF decisive
  <2>4. IsFiniteSet(decisive)
    BY <2>2, <2>3, FS_Subset
  <2> QED BY <2>1, <2>3, <2>4
<1>3. decisive # {} => first \in decisive /\ \A j \in decisive : first <= j
  <2> HIDE DEF decisive
  <2> QED BY <1>2, Least
<1>4. \A i \in DOMAIN pattern : pattern[i] \in AnyToken
  BY ElementOfSeq, LenProperties
<1>5. ASSUME \A i \in DOMAIN pattern : WellFormed(pattern[i])
      PROVE  S!C!FieldMatches(pattern, value) =
               IF \E i \in DOMAIN pattern : value \in Denotes(pattern[i]) THEN "yes" ELSE "no"
  <2>1. \A i \in DOMAIN pattern :
          /\ ~S!C!Fails(pattern[i], value)
          /\ S!C!Hits(pattern[i], value) <=> value \in Denotes(pattern[i])
    BY <1>4, <1>5, TokenMeaning
  <2>2. decisive = {i \in DOMAIN pattern : value \in Denotes(pattern[i])}
    BY <2>1
  <2>3. decisive # {} => ~S!C!Fails(pattern[first], value)
    BY <1>3, <2>1
  <2> HIDE DEF first
  <2> QED BY <1>1, <2>2, <2>3
<1>6. ASSUME pattern[1].base = "bad"
      PROVE  S!C!FieldMatches(pattern, value) = "error"
  <2>1. 1 \in DOMAIN pattern
    BY LenProperties, EmptySeq
  <2>2. 1 \in decisive
    BY <1>6, <2>1 DEF S!C!Fails
  <2>3. first = 1
    <3>1. first \in decisive /\ first <= 1
      BY <1>3, <2>2
    <3>2. first >= 1
      BY <3>1, LenProperties
    <3> HIDE DEF first
    <3> QED BY <1>2, <3>1, <3>2
  <2>4. S!C!Fails(pattern[first], value)
    BY <1>6, <2>3 DEF S!C!Fails
  <2> HIDE DEF first, decisive
  <2> QED BY <1>1, <2>2, <2>4
<1> QED BY <1>5, <1>6 DEF Agrees

LEMMA PatternsAreTokens ==
  ASSUME NEW pattern \in Patterns
  PROVE  pattern \in Seq(AnyToken) /\ pattern # << >>
<1>1. Tokens \subseteq AnyToken
  <2>1. Bounds \subseteq Nat /\ 0 .. 3 \subseteq Nat /\ {1, 2} \subseteq Nat
    BY ClockAssumption DEF Bounds
  <2>2. ASSUME NEW t \in Tokens PROVE t \in AnyToken
    <3>1. CASE t \in [base : {"any"}, step : 0 .. 3]
      BY <2>1, <3>1 DEF AnyToken
    <3>2. CASE t \in [base : {"range"}, lo : Bounds, hi : Bounds, step : 0 .. 3]
      BY <2>1, <3>2 DEF AnyToken
    <3>3. CASE t \in [base : {"value"}, lo : Bounds, step : {1, 2}]
      BY <2>1, <3>3 DEF AnyToken
    <3>4. CASE t = [base |-> "bad"]
      BY <3>4 DEF AnyToken
    <3> QED BY <2>2, <3>1, <3>2, <3>3, <3>4 DEF Tokens
  <2> QED BY <2>2
<1>2. CASE \E t \in Tokens : pattern = << t >>
  BY <1>1, <1>2
<1>3. CASE \E t, u \in Tokens : pattern = << t, u >>
  BY <1>1, <1>3
<1> QED BY <1>2, <1>3 DEF Patterns

(* The bounded form of FieldsMeanTheirTokens that is checked on a run      *)
(* (engine.py:28-50).                                                      *)
THEOREM FieldsMatchWhatTheySay == S!Spec => []FieldAgrees
<1>1. FieldAgrees
  <2>1. \A pattern \in Patterns, value \in 0 .. MaxValue : Agrees(pattern, value)
    BY PatternsAreTokens, FieldsMeanTheirTokens
  <2> QED BY <2>1 DEF FieldAgrees, Agrees
<1> QED BY <1>1, PTL

-----------------------------------------------------------------------------
(* The tasks of the scheduler.                                             *)

Task == [job : Jobs, pc : {"asleep", "busy", "cancelled", "ended", "failed"},
         wake : Nat, last : {-1} \union Nat, since : Nat]

JobTypes ==
  /\ running \in BOOLEAN
  /\ tasks \in Seq(Task)
  /\ stopper \in {"idle", "cancelling", "raised", "stopped"}
  /\ next \in 1 .. Len(tasks) + 1
  /\ clock \in Nat
  /\ fired \in Seq(Seq(Nat)) /\ Len(fired) = Len(tasks)
  /\ seen \in Seq(SUBSET Nat) /\ Len(seen) = Len(tasks)
  /\ worked \in Seq(SUBSET Nat) /\ Len(worked) = Len(tasks)

LEMMA JobInit == S!Init => JobTypes
<1>1. << >> \in Seq(Task) /\ << >> \in Seq(Seq(Nat)) /\ << >> \in Seq(SUBSET Nat) /\ Len(<< >>) = 0
  BY EmptySeq
<1>2. 1 \in 1 .. Len(<< >>) + 1
  BY <1>1
<1> SUFFICES ASSUME S!Init PROVE JobTypes
  OBVIOUS
<1>3. /\ running = FALSE /\ tasks = << >> /\ stopper = "idle" /\ next = 1 /\ clock = 0
      /\ fired = << >> /\ seen = << >> /\ worked = << >>
  BY DEF S!Init
<1> QED BY <1>1, <1>2, <1>3 DEF JobTypes

LEMMA MinuteIsNat ==
  ASSUME NEW t \in Nat
  PROVE  /\ S!Minute(t) \in Nat
         /\ S!Minute(2 * S!Minute(t)) = S!Minute(t)
         /\ S!Minute(t) <= S!Minute(t + 1) /\ S!Minute(t + 1) <= S!Minute(t) + 1
         /\ S!MinuteOfHour(t) = S!Minute(t) % MinutesPerHour
         /\ S!MinuteOfHour(t) \in Nat
<1>1. /\ S!Minute(t) \in Nat
      /\ S!Minute(2 * S!Minute(t)) = S!Minute(t)
      /\ S!Minute(t) <= S!Minute(t + 1) /\ S!Minute(t + 1) <= S!Minute(t) + 1
  BY DEF S!Minute
<1>2. MinutesPerHour \in Nat \ {0}
  BY ClockAssumption
<1> QED BY <1>1, <1>2 DEF S!MinuteOfHour

LEMMA SleepIsNat ==
  ASSUME NEW j \in Jobs
  PROVE  S!Sleeps(j) \in Nat
BY ClockAssumption DEF S!Sleeps

LEMMA TaskAt ==
  ASSUME JobTypes, NEW i \in DOMAIN tasks
  PROVE  /\ tasks[i] \in Task /\ fired[i] \in Seq(Nat)
         /\ seen[i] \subseteq Nat /\ worked[i] \subseteq Nat
         /\ i \in 1 .. Len(tasks)
         /\ DOMAIN fired = 1 .. Len(tasks) /\ DOMAIN seen = 1 .. Len(tasks)
         /\ DOMAIN worked = 1 .. Len(tasks) /\ DOMAIN tasks = 1 .. Len(tasks)
BY ElementOfSeq, LenProperties DEF JobTypes

LEMMA ListIsSeq ==
  ASSUME NEW T, NEW n \in Nat, NEW f, f = [i \in 1 .. n |-> f[i]], \A i \in 1 .. n : f[i] \in T
  PROVE  f \in Seq(T) /\ Len(f) = n
OBVIOUS

LEMMA JobTypesStep == JobTypes /\ [S!Next]_(S!vars) => JobTypes'
<1> SUFFICES ASSUME JobTypes, [S!Next]_(S!vars) PROVE JobTypes'
  OBVIOUS
<1> USE DEF JobTypes
<1>1. CASE S!Start \/ S!StopBegin
  <2>1. Len(tasks) \in Nat
    BY LenProperties
  <2>2. UNCHANGED << tasks, clock, fired, seen, worked >>
    BY <1>1 DEF S!Start, S!StopBegin
  <2>3. running' \in BOOLEAN /\ stopper' \in {"idle", "cancelling", "raised", "stopped"}
    BY <1>1 DEF S!Start, S!StopBegin
  <2>4. next' = next \/ next' = 1
    BY <1>1 DEF S!Start, S!StopBegin
  <2>5. next' \in 1 .. Len(tasks) + 1
    BY <2>1, <2>4
  <2> QED BY <2>2, <2>3, <2>5
<1>2. ASSUME NEW j \in Jobs, S!AddJob(j) PROVE JobTypes'
  <2>1. [job |-> j, pc |-> "asleep", wake |-> clock + S!Sleeps(j),
         last |-> -1, since |-> S!Minute(clock)] \in Task
    <3>1. clock + S!Sleeps(j) \in Nat /\ S!Minute(clock) \in Nat
      <4>1. S!Sleeps(j) \in Nat /\ S!Minute(clock) \in Nat /\ clock \in Nat
        BY SleepIsNat, MinuteIsNat
      <4> QED BY <4>1
    <3> QED BY <3>1 DEF Task
  <2>2. tasks' \in Seq(Task) /\ Len(tasks') = Len(tasks) + 1
    BY <1>2, <2>1, AppendProperties DEF S!AddJob
  <2>3. fired' \in Seq(Seq(Nat)) /\ Len(fired') = Len(fired) + 1
    BY <1>2, AppendProperties DEF S!AddJob
  <2>4. seen' \in Seq(SUBSET Nat) /\ Len(seen') = Len(seen) + 1
    BY <1>2, AppendProperties DEF S!AddJob
  <2>5. worked' \in Seq(SUBSET Nat) /\ Len(worked') = Len(worked) + 1
    BY <1>2, AppendProperties DEF S!AddJob
  <2> QED BY <1>2, <2>2, <2>3, <2>4, <2>5, LenProperties DEF S!AddJob
<1>3. ASSUME NEW i \in DOMAIN tasks, S!Step(i) \/ S!Dies(i) PROVE JobTypes'
  <2>1. tasks' \in Seq(Task) /\ Len(tasks') = Len(tasks)
    <3>1. PICK t \in Task : tasks' = [tasks EXCEPT ![i] = t]
      <4>1. tasks[i] \in Task /\ tasks[i].job \in Jobs
        BY TaskAt DEF Task
      <4>2. CASE S!CronSleeps(i) \/ S!JobEnds(i)
        <5> DEFINE t == [tasks[i] EXCEPT !.pc = "asleep", !.wake = clock + S!Sleeps(tasks[i].job)]
        <5>1. t \in Task
          <6>1. clock + S!Sleeps(tasks[i].job) \in Nat
            BY <4>1, SleepIsNat
          <6> QED BY <4>1, <6>1 DEF Task
        <5>2. tasks' = [tasks EXCEPT ![i] = t]
          BY <4>1, <4>2 DEF S!CronSleeps, S!JobEnds, S!Sleep
        <5> QED BY <5>1, <5>2
      <4>3. CASE S!CronFires(i)
        <5> DEFINE t == [tasks[i] EXCEPT !.pc = "busy", !.last = S!MinuteOfHour(clock)]
        <5>1. t \in Task
          BY <4>1, MinuteIsNat DEF Task
        <5>2. tasks' = [tasks EXCEPT ![i] = t]
          BY <4>1, <4>3 DEF S!CronFires
        <5> QED BY <5>1, <5>2
      <4>4. CASE S!CronFails(i) \/ S!IntervalFires(i) \/ S!Dies(i)
        <5>1. PICK pc \in {"failed", "busy", "ended"} : tasks' = [tasks EXCEPT ![i].pc = pc]
          BY <4>4 DEF S!CronFails, S!IntervalFires, S!Dies
        <5>2. [tasks[i] EXCEPT !.pc = pc] \in Task
          BY <4>1 DEF Task
        <5> QED BY <5>1, <5>2
      <4> QED BY <1>3, <4>2, <4>3, <4>4 DEF S!Step
    <3> QED BY <3>1, ExceptSeq
  <2>2. fired' \in Seq(Seq(Nat)) /\ Len(fired') = Len(fired)
    <3>1. UNCHANGED fired \/ fired' = [fired EXCEPT ![i] = Append(@, S!Minute(clock))]
      BY <1>3 DEF S!Step, S!CronSleeps, S!CronFires, S!CronFails, S!IntervalFires, S!JobEnds,
                  S!Dies, S!Fires
    <3>2. Append(fired[i], S!Minute(clock)) \in Seq(Nat)
      BY TaskAt, MinuteIsNat, AppendProperties
    <3>3. fired' = fired \/ fired' = [fired EXCEPT ![i] = Append(fired[i], S!Minute(clock))]
      BY <3>1
    <3>4. i \in 1 .. Len(fired) /\ fired \in Seq(Seq(Nat))
      BY TaskAt
    <3>5. CASE fired' = [fired EXCEPT ![i] = Append(fired[i], S!Minute(clock))]
      <4> HIDE DEF JobTypes
      <4> QED BY <3>2, <3>4, <3>5, ExceptSeq
    <3> QED BY <3>3, <3>5
  <2>3. seen' \in Seq(SUBSET Nat) /\ Len(seen') = Len(seen)
    <3>1. UNCHANGED seen \/ seen' = [seen EXCEPT ![i] = @ \union {S!Minute(clock)}]
      BY <1>3 DEF S!Step, S!CronSleeps, S!CronFires, S!CronFails, S!IntervalFires, S!JobEnds,
                  S!Dies, S!Sees
    <3>2. seen[i] \union {S!Minute(clock)} \in SUBSET Nat
      BY TaskAt, MinuteIsNat
    <3>3. seen' = seen \/ seen' = [seen EXCEPT ![i] = seen[i] \union {S!Minute(clock)}]
      BY <3>1
    <3>4. i \in 1 .. Len(seen) /\ seen \in Seq(SUBSET Nat)
      BY TaskAt
    <3>5. CASE seen' = [seen EXCEPT ![i] = seen[i] \union {S!Minute(clock)}]
      <4> HIDE DEF JobTypes
      <4> QED BY <3>2, <3>4, <3>5, ExceptSeq
    <3> QED BY <3>3, <3>5
  <2>4. UNCHANGED << running, stopper, next, clock, worked >>
    BY <1>3 DEF S!Step, S!CronSleeps, S!CronFires, S!CronFails, S!IntervalFires, S!JobEnds, S!Dies
  <2> QED BY <2>1, <2>2, <2>3, <2>4
<1>4. CASE S!Stop
  <2>1. CASE S!StopCancels
    <3>1. tasks' = [tasks EXCEPT ![next].pc = "cancelled"] /\ next \in DOMAIN tasks
      BY <2>1 DEF S!StopCancels, S!Cancelled
    <3>2. tasks[next] \in Task
      BY <3>1, TaskAt
    <3>3. [tasks[next] EXCEPT !.pc = "cancelled"] \in Task
      BY <3>2 DEF Task
    <3>4. tasks' = [tasks EXCEPT ![next] = [tasks[next] EXCEPT !.pc = "cancelled"]]
      BY <3>1
    <3>5. next \in 1 .. Len(tasks)
      BY <3>1, LenProperties
    <3>6. tasks' \in Seq(Task) /\ Len(tasks') = Len(tasks)
      BY <3>3, <3>4, <3>5, ExceptSeq
    <3> QED BY <2>1, <3>6 DEF S!StopCancels
  <2>2. CASE S!StopGoesOn
    BY <2>2, LenProperties DEF S!StopGoesOn
  <2>3. CASE S!StopRaises \/ S!StopReturns
    BY <2>3 DEF S!StopRaises, S!StopReturns
  <2> QED BY <1>4, <2>1, <2>2, <2>3 DEF S!Stop
<1>5. CASE S!Tick
  <2>1. worked' \in Seq(SUBSET Nat) /\ Len(worked') = Len(worked)
    <3>1. DOMAIN worked = 1 .. Len(worked) /\ Len(worked) \in Nat
      BY LenProperties
    <3>2. \A i \in DOMAIN worked : worked'[i] \in SUBSET Nat
      <4>1. ASSUME NEW i \in DOMAIN worked PROVE worked'[i] \in SUBSET Nat
        <5>1. {S!Minute(clock), S!Minute(clock + 1)} \subseteq Nat
          <6>1. clock \in Nat /\ clock + 1 \in Nat
            OBVIOUS
          <6> QED BY <6>1, MinuteIsNat
        <5>2. worked[i] \in SUBSET Nat
          BY ElementOfSeq, LenProperties
        <5> QED BY <1>5, <5>1, <5>2 DEF S!Tick
      <4> QED BY <4>1
    <3>3. worked' = [i \in 1 .. Len(worked) |-> worked'[i]]
      BY <1>5, <3>1 DEF S!Tick
    <3> QED BY <3>1, <3>2, <3>3, ListIsSeq
  <2> QED BY <1>5, <2>1 DEF S!Tick
<1>6. CASE UNCHANGED S!vars
  BY <1>6 DEF S!vars
<1> QED BY <1>1, <1>2, <1>3, <1>4, <1>5, <1>6 DEF S!Next

(* What stop() has done so far.                                            *)
StopInv ==
  /\ JobTypes
  /\ stopper # "idle" => ~running
  /\ \A i \in 1 .. next - 1 : tasks[i].pc = "ended"
  /\ stopper = "stopped" => next = Len(tasks) + 1

LEMMA StopInit == S!Init => StopInv
<1> SUFFICES ASSUME S!Init PROVE StopInv
  OBVIOUS
<1>1. next = 1 /\ stopper = "idle"
  BY DEF S!Init
<1>2. 1 .. next - 1 = {}
  BY <1>1
<1> QED BY <1>1, <1>2, JobInit DEF StopInv

LEMMA StopStep == StopInv /\ [S!Next]_(S!vars) => StopInv'
<1> SUFFICES ASSUME StopInv, [S!Next]_(S!vars) PROVE StopInv'
  OBVIOUS
<1>t. JobTypes /\ JobTypes'
  BY JobTypesStep DEF StopInv
<1>l. /\ DOMAIN tasks = 1 .. Len(tasks) /\ Len(tasks) \in Nat
      /\ next \in 1 .. Len(tasks) + 1
      /\ \A i \in 1 .. next - 1 : i \in DOMAIN tasks
  BY <1>t, LenProperties DEF JobTypes
<1>1. CASE S!Start
  BY <1>1, <1>t DEF S!Start, StopInv
<1>2. CASE S!StopBegin
  <2>1. next' = 1 /\ ~running' /\ stopper' = "cancelling"
    BY <1>2 DEF S!StopBegin
  <2>2. 1 .. next' - 1 = {}
    BY <2>1
  <2> QED BY <1>t, <2>1, <2>2 DEF StopInv
<1>3. ASSUME NEW j \in Jobs, S!AddJob(j) PROVE StopInv'
  <2>1. running /\ stopper = "idle" /\ UNCHANGED << running, stopper, next >>
    BY <1>3 DEF S!AddJob, StopInv
  <2>2. \A i \in 1 .. Len(tasks) : tasks'[i] = tasks[i]
    BY <1>3, <1>l DEF S!AddJob
  <2>3. ASSUME NEW i \in 1 .. next - 1 PROVE tasks'[i].pc = "ended"
    BY <1>l, <2>2 DEF StopInv
  <2> QED BY <1>t, <2>1, <2>3 DEF StopInv
<1>4. ASSUME NEW i \in DOMAIN tasks, S!Step(i) \/ S!Dies(i) PROVE StopInv'
  <2>1. UNCHANGED << running, stopper, next >> /\ Len(tasks') = Len(tasks)
    <3>1. UNCHANGED << running, stopper, next, worked >>
      BY <1>4 DEF S!Step, S!CronSleeps, S!CronFires, S!CronFails, S!IntervalFires, S!JobEnds,
                  S!Dies
    <3> QED BY <1>t, <3>1 DEF JobTypes
  <2>2. \A k \in DOMAIN tasks : k # i => tasks'[k] = tasks[k]
    BY <1>4 DEF S!Step, S!CronSleeps, S!CronFires, S!CronFails, S!IntervalFires, S!JobEnds,
                S!Dies, S!Sleep
  <2>3. tasks[i].pc # "ended"
    BY <1>4 DEF S!Step, S!CronSleeps, S!CronFires, S!CronFails, S!IntervalFires, S!JobEnds,
                S!Dies, S!Due
  <2>4. ASSUME NEW k \in 1 .. next - 1 PROVE tasks'[k].pc = "ended"
    <3>1. k \in DOMAIN tasks /\ tasks[k].pc = "ended"
      BY <1>l DEF StopInv
    <3> QED BY <2>2, <2>3, <3>1
  <2> QED BY <1>t, <2>1, <2>4 DEF StopInv
<1>5. CASE S!Stop
  <2>1. CASE S!StopCancels
    <3>1. UNCHANGED << running, stopper, next >> /\ stopper = "cancelling"
      BY <2>1 DEF S!StopCancels
    <3>2. \A k \in 1 .. next - 1 : tasks'[k] = tasks[k]
      BY <2>1, <1>l DEF S!StopCancels
    <3> QED BY <1>t, <3>1, <3>2 DEF StopInv
  <2>2. CASE S!StopGoesOn
    <3>1. next' = next + 1 /\ UNCHANGED << running, tasks, stopper >> /\ stopper = "cancelling"
          /\ tasks[next].pc = "ended"
      BY <2>2 DEF S!StopGoesOn, S!Awaited
    <3>2. \A k \in 1 .. next' - 1 : k = next \/ k \in 1 .. next - 1
      BY <1>l, <3>1
    <3> QED BY <1>t, <3>1, <3>2 DEF StopInv
  <2>3. CASE S!StopRaises
    BY <1>t, <2>3 DEF S!StopRaises, StopInv
  <2>4. CASE S!StopReturns
    <3>1. next \notin DOMAIN tasks /\ UNCHANGED << running, tasks, next >> /\ ~running
      BY <2>4 DEF S!StopReturns, StopInv
    <3>2. next = Len(tasks) + 1
      BY <1>l, <3>1
    <3> QED BY <1>t, <3>1, <3>2 DEF StopInv
  <2> QED BY <1>5, <2>1, <2>2, <2>3, <2>4 DEF S!Stop
<1>6. CASE S!Tick \/ UNCHANGED S!vars
  <2>1. UNCHANGED << running, tasks, stopper, next >>
    BY <1>6 DEF S!Tick, S!vars
  <2> QED BY <1>t, <2>1 DEF StopInv
<1> QED BY <1>1, <1>2, <1>3, <1>4, <1>5, <1>6 DEF S!Next

(* When stop() has returned it has awaited the task of every job: none     *)
(* will run again, whichever jobs were added and whatever they were doing  *)
(* (engine.py:100-114).                                                    *)
THEOREM StopLeavesNoTask == S!Spec => []StopEndsJobs
<1>1. StopInv => StopEndsJobs
  <2> SUFFICES ASSUME StopInv, stopper = "stopped", NEW i \in DOMAIN tasks
               PROVE  ~S!Live(i)
    BY DEF StopEndsJobs, S!StopEndsJobs
  <2>1. i \in 1 .. next - 1
    BY LenProperties DEF StopInv, JobTypes
  <2>2. tasks[i].pc = "ended"
    BY <2>1 DEF StopInv
  <2> QED BY <2>2 DEF S!Live
<1> QED BY <1>1, StopInit, StopStep, PTL DEF S!Spec

(* The minutes a task has met: it compared them, or its job was running.   *)
Met(i) == seen[i] \union worked[i]

(* A sleeping task has met every minute up to the one it fell asleep in,   *)
(* and is woken in that minute or in the next; a busy one, all of them.    *)
CronKeepsUp(i) ==
  S!IsCron(i) =>
    /\ tasks[i].pc = "asleep" =>
         /\ tasks[i].wake \in Nat \ {0}
         /\ clock <= tasks[i].wake + Slack
         /\ (tasks[i].since + 1) .. S!Minute(tasks[i].wake - 1) \subseteq Met(i)
    /\ tasks[i].pc = "busy" =>
         (tasks[i].since + 1) .. S!Minute(clock) \subseteq Met(i)

(* The minute of the hour that the task remembers is one it fired at.      *)
RemembersAFiring(i) ==
  tasks[i].last # -1 =>
    \E k \in DOMAIN fired[i] :
      /\ fired[i][k] <= S!Minute(clock)
      /\ fired[i][k] % MinutesPerHour = tasks[i].last

Matches(i, m) ==
  S!C!CronMatches(Plan[tasks[i].job].fields, S!DateTime(2 * m)) = "yes"

FiredBefore(i, m) ==
  \E k \in DOMAIN fired[i] : fired[i][k] <= m /\ (m - fired[i][k]) % MinutesPerHour = 0

PassesOverRepeats(i) ==
  S!IsCron(i) => \A m \in seen[i] : Matches(i, m) => FiredBefore(i, m)

Kept(i) == CronKeepsUp(i) /\ RemembersAFiring(i) /\ PassesOverRepeats(i)

MinutesInv == JobTypes /\ \A i \in DOMAIN tasks : Kept(i)

LEMMA MinutesInit == S!Init => MinutesInv
<1> SUFFICES ASSUME S!Init PROVE MinutesInv
  OBVIOUS
<1>1. DOMAIN tasks = {}
  BY DEF S!Init
<1> QED BY <1>1, JobInit DEF MinutesInv

(* Nothing of the task changes.                                            *)
LEMMA KeptAsItIs ==
  ASSUME NEW i, Kept(i),
         UNCHANGED << tasks[i], fired[i], seen[i], worked[i], clock >>
  PROVE  Kept(i)'
BY DEF Kept, CronKeepsUp, RemembersAFiring, PassesOverRepeats, Matches, FiredBefore, Met,
       S!IsCron, S!Minute, S!DateTime, S!MinuteOfHour

(* A task that is cancelled, ended or failed remembers what it did.        *)
LEMMA KeptWhenOut ==
  ASSUME JobTypes, NEW i \in DOMAIN tasks, Kept(i), NEW pc \in {"cancelled", "ended", "failed"},
         tasks' = [tasks EXCEPT ![i].pc = pc],
         UNCHANGED << clock, fired, seen, worked >>
  PROVE  Kept(i)'
<1>1. /\ tasks'[i].pc = pc /\ tasks'[i].job = tasks[i].job /\ tasks'[i].last = tasks[i].last
      /\ UNCHANGED << clock, fired[i], seen[i] >>
  BY TaskAt DEF Task
<1>2. CronKeepsUp(i)'
  BY <1>1 DEF CronKeepsUp
<1>3. RemembersAFiring(i)'
  BY <1>1 DEF Kept, RemembersAFiring, S!Minute
<1>4. PassesOverRepeats(i)'
  BY <1>1 DEF Kept, PassesOverRepeats, Matches, FiredBefore, S!IsCron, S!DateTime, S!Minute,
              S!MinuteOfHour
<1> QED BY <1>2, <1>3, <1>4 DEF Kept

(* A cron task that is due has met every minute but the present one.       *)
LEMMA DueHasMet ==
  ASSUME JobTypes, Slack <= 1, NEW i \in DOMAIN tasks, Kept(i), S!Due(i), S!IsCron(i)
  PROVE  (tasks[i].since + 1) .. S!Minute(clock) \subseteq Met(i) \union {S!Minute(clock)}
<1> DEFINE wake == tasks[i].wake
<1>1. /\ wake \in Nat \ {0} /\ wake <= clock /\ clock <= wake + Slack
      /\ (tasks[i].since + 1) .. S!Minute(wake - 1) \subseteq Met(i)
  BY DEF Kept, CronKeepsUp, S!Due
<1>2. Slack \in {0, 1} /\ clock \in Nat /\ tasks[i].since \in Nat
  BY ClockAssumption, TaskAt, SMTT(30) DEF JobTypes, Task
<1> HIDE DEF wake
<1>3. S!Minute(clock) \in Nat /\ S!Minute(wake - 1) \in Nat
      /\ S!Minute(clock) <= S!Minute(wake - 1) + 1
  BY <1>1, <1>2 DEF S!Minute
<1> QED BY <1>1, <1>2, <1>3

(* The task matches a minute in any half of it.                            *)
LEMMA MatchOfMinute ==
  ASSUME JobTypes, NEW i \in DOMAIN tasks
  PROVE  Matches(i, S!Minute(clock)) <=> S!Match(i) = "yes"
<1>1. S!Minute(2 * S!Minute(clock)) = S!Minute(clock)
  BY MinuteIsNat DEF JobTypes
<1>2. S!DateTime(2 * S!Minute(clock)) = S!DateTime(clock)
  BY <1>1 DEF S!DateTime, S!MinuteOfHour
<1> QED BY <1>2 DEF Matches, S!Match

LEMMA OfCronSleeps ==
  ASSUME JobTypes, Slack <= 1, NEW i \in DOMAIN tasks, Kept(i), S!CronSleeps(i)
  PROVE  Kept(i)'
<1> DEFINE minute == S!Minute(clock)
<1>0. clock \in Nat /\ minute \in Nat /\ tasks[i] \in Task
  BY MinuteIsNat, TaskAt DEF JobTypes
<1>1. /\ tasks'[i] = [tasks[i] EXCEPT !.pc = "asleep", !.wake = clock + 1]
      /\ seen'[i] = seen[i] \union {minute}
      /\ UNCHANGED << clock, fired, worked >>
      /\ S!Due(i) /\ S!IsCron(i)
      /\ S!FiredThisMinute(i) \/ S!Match(i) = "no"
  BY TaskAt DEF S!CronSleeps, S!Sleep, S!Sees, S!Sleeps, S!IsCron
<1>2. /\ tasks'[i].pc = "asleep" /\ tasks'[i].wake = clock + 1 /\ S!IsCron(i)'
      /\ tasks'[i].job = tasks[i].job /\ tasks'[i].last = tasks[i].last
      /\ tasks'[i].since = tasks[i].since
  BY <1>0, <1>1 DEF Task, S!IsCron
<1>3. CronKeepsUp(i)'
  <2>1. (tasks[i].since + 1) .. minute \subseteq Met(i)'
    BY <1>1, DueHasMet DEF Met
  <2>2. clock + 1 \in Nat \ {0} /\ clock <= clock + 1 + Slack /\ (clock + 1) - 1 = clock
    BY <1>0, ClockAssumption
  <2>3. /\ tasks'[i].wake \in Nat \ {0} /\ clock' <= tasks'[i].wake + Slack
        /\ S!Minute(tasks'[i].wake - 1) = minute
    BY <1>1, <1>2, <2>2
  <2>4. (tasks'[i].since + 1) .. S!Minute(tasks'[i].wake - 1) \subseteq Met(i)'
    BY <1>2, <2>1, <2>3
  <2> HIDE DEF minute
  <2> QED BY <1>2, <2>3, <2>4 DEF CronKeepsUp, S!Minute
<1>4. RemembersAFiring(i)'
  BY <1>1, <1>2 DEF Kept, RemembersAFiring, S!Minute
<1>5. ASSUME NEW m \in seen'[i], Matches(i, m)'
      PROVE  FiredBefore(i, m)
  <2>1. Matches(i, m)
    BY <1>2, <1>5 DEF Matches, S!DateTime, S!Minute, S!MinuteOfHour
  <2>2. CASE m \in seen[i]
    BY <1>1, <2>1, <2>2 DEF Kept, PassesOverRepeats
  <2>3. CASE m = minute
    <3>1. S!FiredThisMinute(i)
      BY <1>1, <2>1, <2>3, MatchOfMinute
    <3>2. tasks[i].last = minute % MinutesPerHour /\ tasks[i].last # -1
      BY <1>0, <3>1, MinuteIsNat DEF S!FiredThisMinute
    <3>3. PICK k \in DOMAIN fired[i] :
            fired[i][k] <= minute /\ fired[i][k] % MinutesPerHour = minute % MinutesPerHour
      BY <3>2 DEF Kept, RemembersAFiring
    <3>4. fired[i][k] \in Nat
      BY TaskAt, <3>3, ElementOfSeq, LenProperties
    <3>5. MinutesPerHour \in Nat \ {0}
      BY ClockAssumption
    <3> HIDE DEF minute
    <3>6. (minute - fired[i][k]) % MinutesPerHour = 0
      BY <1>0, <3>3, <3>4, <3>5, SameRemainder
    <3> QED BY <2>3, <3>3, <3>6 DEF FiredBefore
  <2> QED BY <1>1, <1>5, <2>2, <2>3
<1>6. PassesOverRepeats(i)'
  BY <1>1, <1>5 DEF PassesOverRepeats, FiredBefore
<1> QED BY <1>3, <1>4, <1>6 DEF Kept

(* A job starts: the task fired, in this minute.                           *)
LEMMA FiringsStay ==
  ASSUME JobTypes, NEW i \in DOMAIN tasks, fired'[i] = Append(fired[i], S!Minute(clock))
  PROVE  /\ \A k \in DOMAIN fired[i] : k \in DOMAIN fired'[i] /\ fired'[i][k] = fired[i][k]
         /\ Len(fired[i]) + 1 \in DOMAIN fired'[i]
         /\ fired'[i][Len(fired[i]) + 1] = S!Minute(clock)
<1>1. fired[i] \in Seq(Nat) /\ S!Minute(clock) \in Nat
  BY TaskAt, MinuteIsNat DEF JobTypes
<1> QED BY <1>1, AppendProperties, LenProperties

LEMMA OfCronFires ==
  ASSUME JobTypes, Slack <= 1, NEW i \in DOMAIN tasks, Kept(i), S!CronFires(i)
  PROVE  Kept(i)'
<1> DEFINE minute == S!Minute(clock)
<1>0. /\ clock \in Nat /\ minute \in Nat /\ tasks[i] \in Task /\ MinutesPerHour \in Nat \ {0}
      /\ S!MinuteOfHour(clock) = minute % MinutesPerHour
  BY MinuteIsNat, TaskAt, ClockAssumption DEF JobTypes
<1>1. /\ tasks'[i] = [tasks[i] EXCEPT !.pc = "busy", !.last = S!MinuteOfHour(clock)]
      /\ seen'[i] = seen[i] \union {minute}
      /\ fired'[i] = Append(fired[i], minute)
      /\ UNCHANGED << clock, worked >>
      /\ S!Due(i) /\ S!IsCron(i)
  BY TaskAt DEF S!CronFires, S!Fires, S!Sees
<1>2. /\ tasks'[i].pc = "busy" /\ S!IsCron(i)'
      /\ tasks'[i].job = tasks[i].job /\ tasks'[i].last = minute % MinutesPerHour
      /\ tasks'[i].since = tasks[i].since
  BY <1>0, <1>1 DEF Task, S!IsCron
<1>3. CronKeepsUp(i)'
  <2>1. (tasks[i].since + 1) .. minute \subseteq Met(i)'
    BY <1>1, DueHasMet DEF Met
  <2> QED BY <1>1, <1>2, <2>1 DEF CronKeepsUp, S!Minute
<1>f. /\ \A k \in DOMAIN fired[i] : k \in DOMAIN fired'[i] /\ fired'[i][k] = fired[i][k]
      /\ \E k \in DOMAIN fired'[i] : fired'[i][k] = minute
  BY <1>1, FiringsStay
<1>4. RemembersAFiring(i)'
  <2>1. S!Minute(clock)' = minute /\ minute <= minute
    BY <1>0, <1>1 DEF S!Minute
  <2> HIDE DEF minute
  <2> QED BY <1>2, <1>f, <2>1 DEF RemembersAFiring
<1>5. ASSUME NEW m \in seen'[i], Matches(i, m)'
      PROVE  FiredBefore(i, m)'
  <2>1. Matches(i, m)
    BY <1>2, <1>5 DEF Matches, S!DateTime, S!Minute, S!MinuteOfHour
  <2>2. CASE m \in seen[i]
    <3>1. FiredBefore(i, m)
      BY <1>1, <2>1, <2>2 DEF Kept, PassesOverRepeats
    <3> QED BY <1>f, <3>1 DEF FiredBefore
  <2>3. CASE m = minute
    <3>1. (minute - minute) % MinutesPerHour = 0 /\ minute <= minute
      BY <1>0
    <3> HIDE DEF minute
    <3> QED BY <1>f, <2>3, <3>1 DEF FiredBefore
  <2> QED BY <1>1, <1>5, <2>2, <2>3
<1>6. PassesOverRepeats(i)'
  BY <1>5 DEF PassesOverRepeats
<1> QED BY <1>3, <1>4, <1>6 DEF Kept

LEMMA OfIntervalFires ==
  ASSUME JobTypes, NEW i \in DOMAIN tasks, Kept(i), S!IntervalFires(i)
  PROVE  Kept(i)'
<1>1. /\ tasks'[i] = [tasks[i] EXCEPT !.pc = "busy"]
      /\ fired'[i] = Append(fired[i], S!Minute(clock))
      /\ clock' = clock /\ ~S!IsCron(i)
  BY TaskAt DEF S!IntervalFires, S!Fires
<1>2. tasks'[i].last = tasks[i].last /\ ~S!IsCron(i)'
  BY <1>1, TaskAt DEF Task, S!IsCron
<1>3. RemembersAFiring(i)'
  <2>1. \A k \in DOMAIN fired[i] : k \in DOMAIN fired'[i] /\ fired'[i][k] = fired[i][k]
    BY <1>1, FiringsStay
  <2> QED BY <1>1, <1>2, <2>1 DEF Kept, RemembersAFiring, S!Minute
<1> QED BY <1>2, <1>3 DEF Kept, CronKeepsUp, PassesOverRepeats

LEMMA OfJobEnds ==
  ASSUME JobTypes, NEW i \in DOMAIN tasks, Kept(i), S!JobEnds(i)
  PROVE  Kept(i)'
<1>0. clock \in Nat /\ tasks[i] \in Task
  BY TaskAt DEF JobTypes
<1>1. /\ tasks'[i] = [tasks[i] EXCEPT !.pc = "asleep",
                                      !.wake = clock + S!Sleeps(tasks[i].job)]
      /\ tasks[i].pc = "busy"
      /\ UNCHANGED << clock, fired, seen, worked >>
  BY TaskAt DEF S!JobEnds, S!Sleep
<1>2. /\ tasks'[i].pc = "asleep" /\ tasks'[i].wake = clock + S!Sleeps(tasks[i].job)
      /\ tasks'[i].job = tasks[i].job /\ tasks'[i].last = tasks[i].last
      /\ tasks'[i].since = tasks[i].since
  BY <1>0, <1>1 DEF Task
<1>3. CronKeepsUp(i)'
  <2> SUFFICES ASSUME S!IsCron(i)' PROVE CronKeepsUp(i)'
    BY DEF CronKeepsUp
  <2>1. S!IsCron(i) /\ tasks'[i].wake = clock + 1
    BY <1>2 DEF S!IsCron, S!Sleeps
  <2>2. clock + 1 \in Nat \ {0} /\ clock <= clock + 1 + Slack /\ (clock + 1) - 1 = clock
    BY <1>0, ClockAssumption
  <2>3. (tasks[i].since + 1) .. S!Minute(clock) \subseteq Met(i)
    BY <1>1, <2>1 DEF Kept, CronKeepsUp
  <2>4. Met(i)' = Met(i)
    BY <1>1 DEF Met
  <2>5. (tasks'[i].since + 1) .. S!Minute(tasks'[i].wake - 1) \subseteq Met(i)'
    BY <1>2, <2>1, <2>2, <2>3, <2>4
  <2> QED BY <1>1, <1>2, <2>1, <2>2, <2>5 DEF CronKeepsUp, S!Minute
<1>4. RemembersAFiring(i)'
  BY <1>1, <1>2 DEF Kept, RemembersAFiring, S!Minute
<1>5. PassesOverRepeats(i)'
  BY <1>1, <1>2 DEF Kept, PassesOverRepeats, Matches, FiredBefore, S!IsCron, S!DateTime, S!Minute,
                    S!MinuteOfHour
<1> QED BY <1>3, <1>4, <1>5 DEF Kept

LEMMA OfTick ==
  ASSUME JobTypes, NEW i \in DOMAIN tasks, Kept(i), S!Tick
  PROVE  Kept(i)'
<1>0. clock \in Nat /\ tasks[i] \in Task /\ S!Minute(clock) <= S!Minute(clock + 1)
      /\ S!Minute(clock + 1) <= S!Minute(clock) + 1
      /\ S!Minute(clock) \in Nat /\ S!Minute(clock + 1) \in Nat /\ tasks[i].since \in Nat
  <2>1. clock \in Nat /\ clock + 1 \in Nat /\ tasks[i] \in Task
    BY TaskAt DEF JobTypes
  <2> QED BY <2>1, MinuteIsNat DEF Task
<1>1. /\ clock' = clock + 1 /\ UNCHANGED << tasks, fired, seen >>
      /\ worked'[i] = worked[i] \union (IF tasks[i].pc = "busy"
                                        THEN {S!Minute(clock), S!Minute(clock + 1)} ELSE {})
      /\ tasks[i].pc = "asleep" => clock < tasks[i].wake + Slack
  BY TaskAt DEF S!Tick
<1>2. S!Minute(clock)' = S!Minute(clock + 1)
  BY <1>1 DEF S!Minute
<1>3. CronKeepsUp(i)'
  <2> SUFFICES ASSUME S!IsCron(i) PROVE CronKeepsUp(i)'
    BY <1>1 DEF CronKeepsUp, S!IsCron
  <2>1. Met(i) \subseteq Met(i)'
    BY <1>1 DEF Met
  <2>2. ASSUME tasks[i].pc = "asleep"
        PROVE  /\ tasks[i].wake \in Nat \ {0} /\ clock + 1 <= tasks[i].wake + Slack
               /\ (tasks[i].since + 1) .. S!Minute(tasks[i].wake - 1) \subseteq Met(i)'
    <3>1. tasks[i].wake \in Nat \ {0}
          /\ (tasks[i].since + 1) .. S!Minute(tasks[i].wake - 1) \subseteq Met(i)
      BY <2>2 DEF Kept, CronKeepsUp
    <3>2. clock < tasks[i].wake + Slack /\ Slack \in Nat
      BY <1>1, <2>2, ClockAssumption
    <3> QED BY <1>0, <2>1, <3>1, <3>2
  <2>3. ASSUME tasks[i].pc = "busy"
        PROVE  (tasks[i].since + 1) .. S!Minute(clock + 1) \subseteq Met(i)'
    <3>1. (tasks[i].since + 1) .. S!Minute(clock) \subseteq Met(i)
      BY <2>3 DEF Kept, CronKeepsUp
    <3>2. S!Minute(clock + 1) \in Met(i)'
      BY <1>1, <2>3 DEF Met
    <3>3. (tasks[i].since + 1) .. S!Minute(clock + 1)
            \subseteq ((tasks[i].since + 1) .. S!Minute(clock)) \union {S!Minute(clock + 1)}
      BY <1>0
    <3> QED BY <2>1, <3>1, <3>2, <3>3
  <2>4. S!Minute(tasks[i].wake - 1)' = S!Minute(tasks[i].wake - 1)
    BY <1>1 DEF S!Minute
  <2> QED BY <1>1, <1>2, <2>2, <2>3, <2>4 DEF CronKeepsUp
<1>4. RemembersAFiring(i)'
  <2>1. \A k \in DOMAIN fired[i] :
          fired[i][k] <= S!Minute(clock) => fired[i][k] <= S!Minute(clock + 1)
    <3>1. \A k \in DOMAIN fired[i] : fired[i][k] \in Nat
      BY TaskAt, ElementOfSeq, LenProperties
    <3> QED BY <1>0, <3>1
  <2> QED BY <1>1, <1>2, <2>1 DEF Kept, RemembersAFiring
<1>5. PassesOverRepeats(i)'
  BY <1>1 DEF Kept, PassesOverRepeats, Matches, FiredBefore, S!IsCron, S!DateTime, S!Minute,
              S!MinuteOfHour
<1> QED BY <1>3, <1>4, <1>5 DEF Kept

LEMMA MinutesStep ==
  ASSUME Slack <= 1, MinutesInv, [S!Next]_(S!vars)
  PROVE  MinutesInv'
<1>t. JobTypes /\ JobTypes'
  BY JobTypesStep DEF MinutesInv
<1>d. \A i \in DOMAIN tasks : Kept(i)
  BY DEF MinutesInv
<1>1. CASE \/ S!Start \/ S!StopBegin \/ S!StopGoesOn \/ S!StopRaises \/ S!StopReturns
           \/ UNCHANGED S!vars
  <2>1. UNCHANGED << tasks, clock, fired, seen, worked >>
    BY <1>1 DEF S!Start, S!StopBegin, S!StopGoesOn, S!StopRaises, S!StopReturns, S!vars
  <2>2. ASSUME NEW i \in DOMAIN tasks PROVE Kept(i)'
    BY <1>d, <2>1, KeptAsItIs
  <2> QED BY <1>t, <2>1, <2>2 DEF MinutesInv
<1>2. ASSUME NEW j \in Jobs, S!AddJob(j) PROVE MinutesInv'
  <2> PICK new : new = Len(tasks) + 1
    OBVIOUS
  <2>1. /\ DOMAIN tasks = 1 .. Len(tasks) /\ DOMAIN tasks' = 1 .. new /\ clock' = clock
        /\ \A i \in DOMAIN tasks :
             UNCHANGED << tasks[i], fired[i], seen[i], worked[i], clock >>
    BY <1>2, <1>t, LenProperties, AppendProperties DEF S!AddJob, JobTypes
  <2>2. ASSUME NEW i \in DOMAIN tasks PROVE Kept(i)'
    BY <1>d, <2>1, <2>2, KeptAsItIs
  <2>3. Kept(new)'
    <3>1. /\ tasks'[new] = [job |-> j, pc |-> "asleep", wake |-> clock + S!Sleeps(j),
                            last |-> -1, since |-> S!Minute(clock)]
          /\ seen'[new] = {}
      BY <1>2, <1>t DEF S!AddJob, JobTypes
    <3>2. /\ tasks'[new].job = j /\ tasks'[new].pc = "asleep" /\ tasks'[new].last = -1
          /\ tasks'[new].wake = clock + S!Sleeps(j) /\ tasks'[new].since = S!Minute(clock)
      BY <3>1
    <3>3. CronKeepsUp(new)'
      <4> SUFFICES ASSUME S!IsCron(new)' PROVE CronKeepsUp(new)'
        BY DEF CronKeepsUp
      <4>1. tasks'[new].wake = clock + 1
        BY <3>2 DEF S!IsCron, S!Sleeps
      <4>0. clock \in Nat /\ Slack \in Nat
        BY <1>t, ClockAssumption DEF JobTypes
      <4>2. clock + 1 \in Nat \ {0} /\ clock <= clock + 1 + Slack /\ (clock + 1) - 1 = clock
        BY <4>0
      <4>m. S!Minute(clock) \in Nat
        BY <4>0, MinuteIsNat
      <4>3. (S!Minute(clock) + 1) .. S!Minute(clock) = {}
        BY <4>m
      <4>4. (tasks'[new].since + 1) .. S!Minute(tasks'[new].wake - 1) = {}
        BY <3>2, <4>1, <4>2, <4>3
      <4> QED BY <2>1, <3>2, <4>1, <4>2, <4>4 DEF CronKeepsUp, S!Minute
    <3>4. RemembersAFiring(new)'
      BY <3>2 DEF RemembersAFiring
    <3>5. PassesOverRepeats(new)'
      BY <3>1 DEF PassesOverRepeats
    <3> QED BY <3>3, <3>4, <3>5 DEF Kept
  <2>4. \A i \in DOMAIN tasks' : i \in DOMAIN tasks \/ i = new
    <3>1. Len(tasks) \in Nat
      BY <1>t, LenProperties DEF JobTypes
    <3> QED BY <2>1, <3>1
  <2> QED BY <1>t, <2>2, <2>3, <2>4 DEF MinutesInv
<1>3. ASSUME NEW i \in DOMAIN tasks, S!Step(i) \/ S!Dies(i) PROVE MinutesInv'
  <2>1. Kept(i)'
    <3>1. CASE S!CronFails(i) \/ S!Dies(i)
      <4>1. PICK pc \in {"failed", "ended"} :
              tasks' = [tasks EXCEPT ![i].pc = pc] /\ UNCHANGED << clock, fired, seen, worked >>
        BY <3>1 DEF S!CronFails, S!Dies
      <4> QED BY <1>t, <1>d, <4>1, KeptWhenOut
    <3> QED BY <1>3, <1>t, <1>d, <3>1, OfCronSleeps, OfCronFires, OfIntervalFires, OfJobEnds
            DEF S!Step
  <2>2. /\ DOMAIN tasks' = DOMAIN tasks
        /\ \A k \in DOMAIN tasks :
             k # i => UNCHANGED << tasks[k], fired[k], seen[k], worked[k], clock >>
    <3>1. /\ \E t : tasks' = [tasks EXCEPT ![i] = t]
          /\ fired' = fired \/ \E f : fired' = [fired EXCEPT ![i] = f]
          /\ seen' = seen \/ \E m : seen' = [seen EXCEPT ![i] = m]
          /\ UNCHANGED << worked, clock >>
      BY <1>3 DEF S!Step, S!CronSleeps, S!CronFires, S!CronFails, S!IntervalFires, S!JobEnds,
                  S!Dies, S!Sleep, S!Fires, S!Sees
    <3> QED BY <1>t, <3>1, TaskAt
  <2>3. ASSUME NEW k \in DOMAIN tasks, k # i PROVE Kept(k)'
    BY <1>d, <2>2, <2>3, KeptAsItIs
  <2> QED BY <1>t, <2>1, <2>2, <2>3 DEF MinutesInv
<1>4. CASE S!StopCancels
  <2>1. PICK i \in DOMAIN tasks : /\ tasks' = [tasks EXCEPT ![i].pc = "cancelled"]
                                 /\ UNCHANGED << clock, fired, seen, worked >>
    BY <1>4 DEF S!StopCancels, S!Cancelled
  <2>2. Kept(i)'
    BY <1>t, <1>d, <2>1, KeptWhenOut
  <2>3. ASSUME NEW k \in DOMAIN tasks, k # i PROVE Kept(k)'
    BY <1>d, <2>1, <2>3, KeptAsItIs
  <2>4. DOMAIN tasks' = DOMAIN tasks
    BY <2>1
  <2> QED BY <1>t, <2>2, <2>3, <2>4 DEF MinutesInv
<1>5. CASE S!Tick
  <2>1. ASSUME NEW i \in DOMAIN tasks PROVE Kept(i)'
    BY <1>5, <1>t, <1>d, OfTick
  <2>2. tasks' = tasks
    BY <1>5 DEF S!Tick
  <2> QED BY <1>t, <2>1, <2>2 DEF MinutesInv
<1> QED BY <1>1, <1>2, <1>3, <1>4, <1>5 DEF S!Next, S!Stop

(* A cron task looks at every minute in which its job is not running, if   *)
(* the event loop is never more than half a minute late, and a matching    *)
(* minute it does not fire in is one it takes for a repetition: it has     *)
(* fired a whole number of hours before (engine.py:130-143).               *)
THEOREM NoMinuteIsMissed ==
  ASSUME Slack <= 1
  PROVE  S!Spec => []MinutesAreMet
<1>1. MinutesInv => MinutesAreMet
  <2> SUFFICES ASSUME MinutesInv PROVE S!NoMinuteIsSkipped /\ S!PassedOverOnlyAsRepeat
    BY DEF MinutesAreMet, S!MinutesAreMet
  <2>1. JobTypes /\ \A i \in DOMAIN tasks : Kept(i)
    BY DEF MinutesInv
  <2>2. ASSUME NEW i \in DOMAIN tasks, S!IsCron(i), tasks[i].pc \in {"asleep", "busy"}
        PROVE  (tasks[i].since + 1) .. (S!Minute(clock) - 1) \subseteq seen[i] \union worked[i]
    <3>1. clock \in Nat /\ S!Minute(clock) \in Nat /\ tasks[i].since \in Nat /\ Slack \in {0, 1}
      <4>1. clock \in Nat /\ tasks[i].since \in Nat
        BY <2>1, <2>2, TaskAt DEF JobTypes, Task
      <4>2. S!Minute(clock) \in Nat
        BY <4>1, MinuteIsNat
      <4>3. Slack \in {0, 1}
        BY ClockAssumption
      <4> QED BY <4>1, <4>2, <4>3
    <3>2. CASE tasks[i].pc = "asleep"
      <4> DEFINE wake == tasks[i].wake
      <4>1. wake \in Nat \ {0} /\ clock <= wake + Slack
            /\ (tasks[i].since + 1) .. S!Minute(wake - 1) \subseteq Met(i)
        BY <2>1, <2>2, <3>2 DEF Kept, CronKeepsUp
      <4> HIDE DEF wake
      <4>2. S!Minute(clock) <= S!Minute(wake - 1) + 1 /\ S!Minute(wake - 1) \in Nat
        BY <3>1, <4>1 DEF S!Minute
      <4> QED BY <3>1, <4>1, <4>2 DEF Met
    <3>3. CASE tasks[i].pc = "busy"
      <4>1. (tasks[i].since + 1) .. S!Minute(clock) \subseteq Met(i)
        BY <2>1, <2>2, <3>3 DEF Kept, CronKeepsUp
      <4> QED BY <3>1, <4>1 DEF Met
    <3> QED BY <2>2, <3>2, <3>3
  <2>3. ASSUME NEW i \in DOMAIN tasks, S!IsCron(i), NEW m \in seen[i], Matches(i, m)
        PROVE  FiredBefore(i, m)
    BY <2>1, <2>3 DEF Kept, PassesOverRepeats
  <2>4. S!NoMinuteIsSkipped
    BY <2>2 DEF S!NoMinuteIsSkipped
  <2>5. S!PassedOverOnlyAsRepeat
    BY <2>3 DEF S!PassedOverOnlyAsRepeat, Matches, FiredBefore
  <2> QED BY <2>4, <2>5
<1>2. MinutesInv /\ [S!Next]_(S!vars) => MinutesInv'
  BY MinutesStep
<1> QED BY <1>1, <1>2, MinutesInit, PTL DEF S!Spec
=============================================================================
