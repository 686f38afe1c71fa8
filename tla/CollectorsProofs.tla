-------------------------- MODULE CollectorsProofs --------------------------
(***************************************************************************)
(* Theorems about Metrics, for any set of gauges, programs and counters,   *)
(* any window and any cooldown, and, in the last section, about            *)
(* ExternalCollector, for any peers, endpoints, dumps, files and packages. *)
(***************************************************************************)
EXTENDS MCCollectors, TLAPS

-----------------------------------------------------------------------------
(* The gauges: a latch is closed from the alert on until the gauge is low. *)

GaugeTypes ==
  /\ gauge \in [Gauges -> Levels]
  /\ latch \in [Gauges \union Programs -> BOOLEAN]
  /\ told \in [Gauges -> 0 .. 2]

LatchTells ==
  \A g \in Gauges :
    /\ gauge[g] = "high" => latch[g]
    /\ told[g] = IF latch[g] THEN 1 ELSE 0

GaugeInv == GaugeTypes /\ LatchTells

LEMMA GaugeInit == Init => GaugeInv
<1> SUFFICES ASSUME Init PROVE GaugeInv
  OBVIOUS
<1>1. gauge \in [Gauges -> Levels] /\ told \in [Gauges -> 0 .. 2]
  BY DEF Init, Levels
<1>2. latch = [g \in Gauges \union Programs |-> FALSE]
  BY DEF Init
<1>3. latch \in [Gauges \union Programs -> BOOLEAN] /\ \A g \in Gauges : ~latch[g]
  BY <1>2, Zenon
<1>4. \A g \in Gauges : gauge[g] = "low" /\ told[g] = 0
  BY DEF Init
<1> QED BY <1>1, <1>3, <1>4 DEF GaugeInv, GaugeTypes, LatchTells

LEMMA GaugeProbe ==
  ASSUME GaugeInv, NEW g \in Gauges, NEW level \in Levels, Probe(g, level)
  PROVE  GaugeInv'
<1> USE DEF GaugeInv, GaugeTypes, LatchTells
<1>1. gauge' = [gauge EXCEPT ![g] = level] /\ gauge' \in [Gauges -> Levels]
  BY DEF Probe
<1>2. /\ latch'[g] \in BOOLEAN
      /\ latch'[g] = (level = "high" \/ (latch[g] /\ level # "low"))
      /\ \A h \in (Gauges \union Programs) \ {g} : latch'[h] = latch[h]
      /\ latch' \in [Gauges \union Programs -> BOOLEAN]
  <2>1. latch' = [latch EXCEPT ![g] = level = "high" \/ (@ /\ ~(level = "low"))]
    BY DEF Probe, Clears
  <2> QED BY <2>1
<1>3. told' = [told EXCEPT
        ![g] = IF level = "low" THEN 0
               ELSE IF level = "high" /\ ~latch[g] THEN AtMost2(@ + 1) ELSE @]
  BY DEF Probe
<1>4. told' \in [Gauges -> 0 .. 2]
  BY <1>3 DEF AtMost2
<1>5. (gauge'[g] = "high" => latch'[g]) /\ told'[g] = IF latch'[g] THEN 1 ELSE 0
  <2>1. told[g] = IF latch[g] THEN 1 ELSE 0
    OBVIOUS
  <2>2. gauge'[g] = level
    BY <1>1
  <2>3. told'[g] = IF level = "low" THEN 0
                   ELSE IF level = "high" /\ ~latch[g] THEN 1 ELSE told[g]
    BY <1>3, <2>1 DEF AtMost2
  <2> QED BY <1>2, <2>1, <2>2, <2>3 DEF Levels
<1>6. \A h \in Gauges \ {g} :
        (gauge'[h] = "high" => latch'[h]) /\ told'[h] = IF latch'[h] THEN 1 ELSE 0
  BY <1>1, <1>2, <1>3
<1> QED BY <1>1, <1>2, <1>4, <1>5, <1>6

LEMMA GaugeProcesses ==
  ASSUME GaugeInv, NEW big \in SUBSET Programs, Processes(big)
  PROVE  GaugeInv'
<1>1. UNCHANGED << gauge, told >>
  BY DEF Processes
<1>2. PICK seen \in SUBSET big :
        latch' = [g \in DOMAIN latch |-> IF g \in Programs THEN g \in seen ELSE latch[g]]
  BY DEF Processes
<1>3. DOMAIN latch = Gauges \union Programs /\ \A g \in Gauges : g \notin Programs
  BY MetricsAssumption DEF GaugeInv, GaugeTypes
<1>4. \A g \in Gauges : latch'[g] = latch[g]
  BY <1>2, <1>3
<1>5. latch' \in [Gauges \union Programs -> BOOLEAN]
  <2>1. \A g \in Gauges \union Programs :
          (IF g \in Programs THEN g \in seen ELSE latch[g]) \in BOOLEAN
    <3>1. ASSUME NEW g \in Gauges \union Programs, g \in Programs
          PROVE  (IF g \in Programs THEN g \in seen ELSE latch[g]) \in BOOLEAN
      BY <3>1
    <3>2. ASSUME NEW g \in Gauges \union Programs, g \notin Programs
          PROVE  (IF g \in Programs THEN g \in seen ELSE latch[g]) \in BOOLEAN
      <4>1. latch[g] \in BOOLEAN
        BY <3>2 DEF GaugeInv, GaugeTypes
      <4> QED BY <3>2, <4>1, Zenon
    <3> QED BY <3>1, <3>2
  <2> QED BY <1>2, <1>3, <2>1, Zenon
<1> QED BY <1>1, <1>4, <1>5 DEF GaugeInv, GaugeTypes, LatchTells

-----------------------------------------------------------------------------
(* The counters: what was found first, and each increase since.            *)

CounterInv ==
  /\ errors \in [Counters -> 0 .. MaxErrors]
  /\ prev \in [Counters -> -1 .. MaxErrors]
  /\ first \in [Counters -> -1 .. MaxErrors]
  /\ new \in [Counters -> 0 .. MaxErrors]
  /\ \A c \in Counters :
       prev[c] >= 0 => first[c] >= 0 /\ new[c] >= prev[c] - first[c]
  /\ \A c \in Counters : prev[c] < 0 => first[c] < 0

LEMMA CounterInit == Init => CounterInv
<1> SUFFICES ASSUME Init PROVE CounterInv
  OBVIOUS
<1>1. errors \in [Counters -> 0 .. 1]
  BY DEF Init
<1>2. errors \in [Counters -> 0 .. MaxErrors]
  BY <1>1, MetricsAssumption
<1>3. /\ prev = [c \in Counters |-> -1] /\ first = [c \in Counters |-> -1]
      /\ new = [c \in Counters |-> 0]
  BY DEF Init
<1> QED BY <1>2, <1>3, MetricsAssumption DEF CounterInv

LEMMA CounterCount ==
  ASSUME CounterInv, NEW c \in Counters, NEW found \in 0 .. MaxErrors, Count(c, found),
         found <= errors[c]
  PROVE  CounterInv'
<1> USE MetricsAssumption DEF CounterInv
<1>1. /\ prev' = [prev EXCEPT ![c] = found]
      /\ first' = [first EXCEPT ![c] = IF @ < 0 THEN errors[c] ELSE @]
      /\ new' = [new EXCEPT
           ![c] = IF prev[c] >= 0 /\ found > prev[c]
                  THEN T!AtMost(@ + found - prev[c], MaxErrors) ELSE @]
      /\ errors' = errors
  BY DEF Count, WasRead
<1>2. /\ prev' \in [Counters -> -1 .. MaxErrors] /\ first' \in [Counters -> -1 .. MaxErrors]
      /\ prev'[c] = found /\ first'[c] >= 0
      /\ first'[c] = IF first[c] < 0 THEN errors[c] ELSE first[c]
  BY <1>1
<1>3. /\ new' \in [Counters -> 0 .. MaxErrors]
      /\ new'[c] = IF prev[c] >= 0 /\ found > prev[c]
                   THEN T!AtMost(new[c] + found - prev[c], MaxErrors) ELSE new[c]
  BY <1>1 DEF T!AtMost
<1>4. new'[c] >= prev'[c] - first'[c]
  <2>1. CASE prev[c] >= 0
    BY <1>2, <1>3, <2>1 DEF T!AtMost
  <2>2. CASE prev[c] < 0
    BY <1>2, <1>3, <2>2
  <2> QED BY <2>1, <2>2
<1>5. \A d \in Counters \ {c} :
        prev'[d] = prev[d] /\ first'[d] = first[d] /\ new'[d] = new[d]
  BY <1>1
<1> QED BY <1>1, <1>2, <1>3, <1>4, <1>5

LEMMA CounterOccurs ==
  ASSUME CounterInv, NEW c \in Counters, ErrorOccurs(c)
  PROVE  CounterInv'
BY MetricsAssumption DEF CounterInv, ErrorOccurs

-----------------------------------------------------------------------------
(* The disk: its latch, and the trend.                                     *)

CritInv ==
  /\ disk \in {"ok", "warn", "crit"} /\ crits \in 0 .. 2
  /\ dc => crits > 0
  /\ disk = "crit" => crits > 0

(* A reading that is steep ends with an alert, or one is not yet past its  *)
(* cooldown; and an alert among the last readings, which all were filling, *)
(* was one that is published.                                              *)
TrendInv ==
  /\ T!TypeOK
  /\ filling \in 0 .. Enduring
  /\ warned \in {T!Never} \union 0 .. Cooldown
  /\ window >= filling \/ window = WindowSize
  /\ filling > 0 /\ T!Enough(window) => last_alert # T!Never /\ last_alert < Cooldown
  /\ last_alert # T!Never /\ last_alert < Cooldown /\ last_alert < filling =>
       warned = last_alert

LEMMA Halved ==
  /\ T!HalfWindow \in Nat /\ T!HalfWindow >= 4
  /\ WindowSize >= 8 => T!HalfWindow * 2 <= WindowSize
<1> DEFINE both == {WindowSize \div 2, 4}
<1>1. WindowSize \div 2 \in Nat /\ (WindowSize \div 2) * 2 <= WindowSize
  BY MetricsAssumption
<1>2. \E m \in both : \A n \in both : m >= n
  BY <1>1
<1>3. T!HalfWindow \in both /\ \A n \in both : T!HalfWindow >= n
  BY <1>2 DEF T!HalfWindow, T!Max
<1>4. T!HalfWindow = WindowSize \div 2 \/ T!HalfWindow = 4
  BY <1>3
<1>5. T!HalfWindow >= 4
  BY <1>3
<1> QED BY <1>1, <1>4, <1>5

LEMMA TrendInit == Init => CritInv /\ TrendInv
<1> SUFFICES ASSUME Init PROVE CritInv /\ TrendInv
  OBVIOUS
<1>1. /\ disk = "ok" /\ dc = FALSE /\ crits = 0
      /\ window = 0 /\ last_alert = -1 /\ filling = 0 /\ warned = -1
  BY DEF Init, T!Init, T!Never
<1>2. CritInv
  BY <1>1 DEF CritInv
<1>3. Enduring \in Nat
  BY MetricsAssumption DEF Enduring
<1>4. T!TypeOK
  BY <1>1, MetricsAssumption DEF T!TypeOK, T!Never
<1> QED BY <1>1, <1>2, <1>3, <1>4, MetricsAssumption DEF TrendInv, T!Never

LEMMA CritStep ==
  ASSUME CritInv, NEW level \in {"ok", "warn", "crit"}, DiskUsage(level)
  PROVE  CritInv'
<1>1. CASE level = "crit" /\ ~dc
  BY <1>1 DEF CritInv, DiskUsage, AtMost2
<1>2. CASE ~(level = "crit" /\ ~dc)
  BY <1>2 DEF CritInv, DiskUsage
<1> QED BY <1>1, <1>2

LEMMA TrendStep ==
  ASSUME TrendInv, NEW slope \in Slopes, NEW cycles \in 1 .. MaxMissed,
         DiskTrend(slope, cycles)
  PROVE  TrendInv'
<1> DEFINE age == T!Later(last_alert, cycles)
<1> DEFINE alerts == T!Alerts(slope # "flat", cycles)
<1> USE MetricsAssumption DEF Slopes
<1>1. /\ window' = IF window + 1 > WindowSize THEN WindowSize ELSE window + 1
      /\ last_alert' = IF alerts THEN 0 ELSE age
      /\ filling' = IF slope # "filling" THEN 0
                    ELSE IF filling + 1 > Enduring THEN Enduring ELSE filling + 1
      /\ warned' = IF alerts /\ slope = "filling" THEN 0 ELSE T!Later(warned, cycles)
  BY DEF DiskTrend, T!Update, T!Appended, T!AtMost
<1>2. /\ window \in 0 .. WindowSize /\ last_alert \in {-1} \union 0 .. Cooldown
      /\ filling \in 0 .. Enduring /\ warned \in {-1} \union 0 .. Cooldown
      /\ Enduring \in Nat /\ Enduring >= WindowSize /\ Enduring >= Cooldown
      /\ cycles \in Nat /\ cycles > 0
  BY DEF TrendInv, T!TypeOK, T!Never, Enduring
<1>3. /\ age = IF last_alert = -1 THEN -1
               ELSE IF last_alert + cycles > Cooldown THEN Cooldown ELSE last_alert + cycles
      /\ age \in {-1} \union 0 .. Cooldown
      /\ T!Later(warned, cycles) =
           IF warned = -1 THEN -1
           ELSE IF warned + cycles > Cooldown THEN Cooldown ELSE warned + cycles
  BY <1>2 DEF T!Later, T!AtMost, T!Never
<1>4. T!TypeOK' /\ filling' \in 0 .. Enduring /\ warned' \in {T!Never} \union 0 .. Cooldown
  BY <1>1, <1>2, <1>3 DEF T!TypeOK, T!Never
<1>5. window' >= filling' \/ window' = WindowSize
  BY <1>1, <1>2 DEF TrendInv
<1>6. ASSUME filling' > 0, T!Enough(window)'
      PROVE  last_alert' # -1 /\ last_alert' < Cooldown
  <2>1. slope = "filling"
    BY <1>1, <1>6
  <2>2. alerts <=> T!Cool(age)
    BY <1>1, <1>6, <2>1 DEF T!Alerts, T!Enough, T!Appended, T!AtMost, T!HalfWindow
  <2> QED BY <1>1, <1>3, <2>2 DEF T!Cool, T!Never
<1>7. ASSUME last_alert' # -1, last_alert' < Cooldown, last_alert' < filling'
      PROVE  warned' = last_alert'
  <2>1. slope = "filling"
    BY <1>1, <1>2, <1>3, <1>7
  <2>2. CASE alerts
    BY <1>1, <2>1, <2>2
  <2>3. CASE ~alerts
    <3>1. last_alert # -1 /\ last_alert + cycles < Cooldown /\ last_alert' = last_alert + cycles
      BY <1>1, <1>2, <1>3, <1>7, <2>3
    <3>2. last_alert < filling
      BY <1>1, <1>2, <1>7, <2>1, <3>1
    <3>3. warned = last_alert
      BY <1>2, <3>1, <3>2 DEF TrendInv, T!Never
    <3> QED BY <1>1, <1>2, <1>3, <2>3, <3>1, <3>3
  <2> QED BY <2>2, <2>3
<1> QED BY <1>1, <1>4, <1>5, <1>6, <1>7 DEF TrendInv, T!Never, Enduring

-----------------------------------------------------------------------------
MInv == GaugeInv /\ CounterInv /\ CritInv /\ TrendInv

LEMMA InvInit == Init => MInv
BY GaugeInit, CounterInit, TrendInit DEF MInv

LEMMA InvStep == MInv /\ [Next]_vars => MInv'
<1> SUFFICES ASSUME MInv, [Next]_vars PROVE MInv'
  OBVIOUS
<1>1. UNCHANGED gauges => GaugeInv'
  BY DEF gauges, MInv, GaugeInv, GaugeTypes, LatchTells
<1>2. UNCHANGED counters => CounterInv'
  BY DEF counters, MInv, CounterInv
<1>3. UNCHANGED disks => CritInv' /\ TrendInv'
  BY DEF disks, MInv, CritInv, TrendInv, T!TypeOK, T!Enough, T!HalfWindow, T!Never, Enduring
<1>4. ASSUME NEW level \in {"ok", "warn", "crit"}, DiskUsage(level) PROVE MInv'
  <2>1. UNCHANGED << gauges, counters >>
        /\ \E slope \in Slopes, cycles \in 1 .. MaxMissed : DiskTrend(slope, cycles)
    BY <1>4 DEF DiskUsage
  <2> QED BY <1>1, <1>2, <1>4, <2>1, CritStep, TrendStep DEF MInv
<1>5. ASSUME NEW g \in Gauges, NEW level \in Levels, Probe(g, level) PROVE MInv'
  BY <1>2, <1>3, <1>5, GaugeProbe DEF MInv, Probe
<1>6. ASSUME NEW big \in SUBSET Programs, Processes(big) PROVE MInv'
  BY <1>2, <1>3, <1>6, GaugeProcesses DEF MInv, Processes
<1>7. ASSUME NEW c \in Counters, NEW found \in 0 .. MaxErrors, Count(c, found),
             found <= errors[c]
      PROVE  MInv'
  BY <1>1, <1>3, <1>7, CounterCount DEF MInv, Count
<1>8. ASSUME NEW c \in Counters, ErrorOccurs(c) PROVE MInv'
  BY <1>1, <1>3, <1>8, CounterOccurs DEF MInv, ErrorOccurs
<1>9. ASSUME NEW c \in Counters, CountAll(c) PROVE MInv'
  BY <1>7, <1>9 DEF CountAll, MInv, CounterInv
<1>10. ASSUME NEW device \in Devices, CountOmitted(device) PROVE MInv'
  BY <1>7, <1>10, MetricsAssumption DEF CountOmitted, Counters, MInv, CounterInv
<1>11. CASE UNCHANGED vars
  BY <1>1, <1>2, <1>3, <1>11 DEF vars, gauges, counters, disks, MInv
<1> QED BY <1>4, <1>5, <1>6, <1>8, <1>9, <1>10, <1>11 DEF Next

(* The inductive invariant holds in every state: each latch agrees with    *)
(* what was last told (metrics.py:159-391).                                *)
THEOREM Invariance == Spec => []MInv
BY InvInit, InvStep, PTL DEF Spec

(* What is wrong with the machine now has been told of, once, and so has   *)
(* each error that a read found beyond the first, however readings and     *)
(* failing reads follow on each other (metrics.py:159-309, 350-391).       *)
THEOREM AlertsAreAlwaysTold == Spec => []AlertsAreTold
<1>1. ASSUME MInv PROVE AlertsAreTold
  <2>1. disk = "crit" => crits > 0
    BY <1>1 DEF MInv, CritInv
  <2>2. \A g \in Gauges : (gauge[g] = "high" => told[g] = 1) /\ told[g] <= 1
    BY <1>1 DEF MInv, GaugeInv, LatchTells
  <2>3. NoErrorIsMissed
    BY <1>1 DEF MInv, CounterInv, NoErrorIsMissed
  <2> QED BY <2>1, <2>2, <2>3 DEF AlertsAreTold, BreachIsTold
<1> QED BY <1>1, Invariance, PTL

(* A disk that keeps filling is told of again within each cooldown, if the *)
(* window has room for the samples that a slope needs: eight, where the    *)
(* configuration accepts five (schema.py:58, trend.py:80-113).             *)
THEOREM FillIsTold ==
  ASSUME WindowSize >= 8
  PROVE  Spec => []DiskFillIsTold
<1>1. ASSUME MInv, filling = Enduring PROVE warned # T!Never /\ warned < Cooldown
  <2>1. /\ window \in 0 .. WindowSize /\ Enduring \in Nat
        /\ Enduring >= WindowSize /\ Enduring >= Cooldown
    BY <1>1, MetricsAssumption DEF MInv, TrendInv, T!TypeOK, Enduring
  <2>2. window = WindowSize
    BY <1>1, <2>1, MetricsAssumption DEF MInv, TrendInv
  <2>3. T!Enough(window)
    BY <2>2, Halved DEF T!Enough
  <2>4. last_alert # T!Never /\ last_alert < Cooldown /\ last_alert \in Int
    BY <1>1, <2>1, <2>3, MetricsAssumption DEF MInv, TrendInv, T!TypeOK, T!Never
  <2> QED BY <1>1, <2>1, <2>4, MetricsAssumption DEF MInv, TrendInv
<1> QED BY <1>1, Invariance, PTL DEF DiskFillIsTold
-----------------------------------------------------------------------------
(* The external collector.  The peers and the endpoints: one that was ever *)
(* up has a state, and what was told of it is that state.                  *)

Known == {"none", "on", "off"}

ReachInv ==
  /\ peers \in [Peers -> Known]
  /\ state \in [Endpoints -> Known]
  /\ news \in [Peers \union Endpoints -> Known]
  /\ \A p \in Peers : news[p] \in {"none", peers[p]} \/ p \in left
  /\ seen_up \subseteq Endpoints
  /\ \A e \in seen_up : state[e] # "none" /\ (news[e] = "off" <=> state[e] = "off")

(* The dumps: one is known when it was told of, or when the first scan     *)
(* listed it; one of before the start that the first scan did not list is  *)
(* listed later only if that scan failed, or for another crash.            *)
CrashTypes ==
  /\ {listed, known_dumps, old, fresh, due} \subseteq SUBSET Dumps
  /\ {first_scan, scanned} \subseteq BOOLEAN
  /\ crashed \in [Dumps -> Nat]

Crashed(d) == d \in old \/ crashed[d] > 0

DumpInv(d) ==
  /\ reported[d] \in 0 .. 1
  /\ d \in known_dumps \union listed => Crashed(d)
  /\ d \notin known_dumps => reported[d] = 0
  /\ reported[d] = 1 => crashed[d] > 0 \/ (d \in old /\ "coredump" \in blank)
  /\ d \in fresh => /\ scanned /\ d \notin old /\ crashed[d] > 0
                    /\ d \in known_dumps => reported[d] = 1
  /\ d \in due => d \in fresh /\ d \in known_dumps
  /\ d \in listed \ known_dumps /\ scanned /\ crashed[d] = 0 => "coredump" \in blank

CrashInv ==
  /\ CrashTypes
  /\ scanned = ~first_scan
  /\ \A d \in Dumps : DumpInv(d)

(* The slow probes: a file that is known was told of once, unless the      *)
(* first scan and all since have listed it; a package that is not known    *)
(* was not told of since a scan without it, unless a scan failed and all   *)
(* was forgotten; the orphans are no more than those told of last.         *)
SlowInv ==
  /\ known_pacnew \subseteq Files
  /\ baseline \subseteq known_pacnew
  /\ known_vulns \subseteq Packages
  /\ pacnew_read \in BOOLEAN
  /\ ~pacnew_read => known_pacnew = {}
  /\ \A f \in Files : reported[f] = IF f \in known_pacnew \ baseline THEN 1 ELSE 0
  /\ {orphan_count, orphans_told} \subseteq Int
  /\ orphan_count <= orphans_told
  /\ \A v \in Packages : reported[v] \in 0 .. 2
  /\ \A v \in known_vulns : reported[v] > 0
  /\ "audit" \notin blank =>
       \A v \in Packages : reported[v] = IF v \in known_vulns THEN 1 ELSE 0

Named == Dumps \union Files \union Packages

NewsInv ==
  /\ ReachInv
  /\ DOMAIN reported = Named
  /\ CrashInv
  /\ SlowInv
LEMMA NewsInit == X!Init => NewsInv
<1> SUFFICES ASSUME X!Init PROVE NewsInv
  OBVIOUS
<1>1. ReachInv
  BY DEF X!Init, ReachInv, Known
<1>2. reported = [x \in Named |-> 0]
  BY DEF X!Init, Named
<1>3. DOMAIN reported = Named /\ \A x \in Named : reported[x] = 0
  BY <1>2
<1>4. CrashInv
  <2>1. /\ old \subseteq Dumps /\ listed = old /\ first_scan = TRUE /\ known_dumps = {}
        /\ fresh = {} /\ due = {} /\ scanned = FALSE
        /\ crashed \in [Dumps -> Nat] /\ \A d \in Dumps : crashed[d] = 0
    BY DEF X!Init
  <2>2. \A d \in Dumps : reported[d] = 0
    BY <1>3 DEF Named
  <2>3. CrashTypes /\ scanned = ~first_scan
    BY <2>1 DEF CrashTypes
  <2>4. ASSUME NEW d \in Dumps PROVE DumpInv(d)
    BY <2>1, <2>2 DEF DumpInv, Crashed
  <2> QED BY <2>3, <2>4 DEF CrashInv
<1>5. SlowInv
  <2>1. \A x \in Files \union Packages : reported[x] = 0
    BY <1>3 DEF Named
  <2>2. known_pacnew = {} /\ known_vulns = {} /\ pacnew_read = FALSE /\ baseline = {}
    BY DEF X!Init
  <2>3. \A f \in Files : reported[f] = IF f \in known_pacnew \ baseline THEN 1 ELSE 0
    BY <2>1, <2>2
  <2>4. \A v \in Packages : reported[v] = IF v \in known_vulns THEN 1 ELSE 0
    BY <2>1, <2>2
  <2>5. \A v \in Packages : reported[v] \in 0 .. 2
    BY <2>1
  <2>6. {orphan_count, orphans_told} \subseteq Int /\ orphan_count <= orphans_told
    BY DEF X!Init
  <2> QED BY <2>2, <2>3, <2>4, <2>5, <2>6, Zenon DEF SlowInv
<1> QED BY <1>1, <1>3, <1>4, <1>5 DEF NewsInv

LEMMA TurnedMeans ==
  \A was, is \in Known : X!Turned(was, is) <=>
    (was = "on" /\ is = "off") \/ (was = "off" /\ is = "on")
BY DEF X!Turned, Known

LEMMA OfTailscale ==
  ASSUME NewsInv, NEW cur \in [Peers -> Known], X!Tailscale(cur)
  PROVE  NewsInv'
<1>1. /\ peers' = cur
      /\ news' = [x \in DOMAIN news |->
           IF x \in Peers /\ X!Turned(peers[x], cur[x]) THEN cur[x] ELSE news[x]]
      /\ left' = {p \in Peers : cur[p] = "none" \/ (p \in left /\ ~X!Turned(peers[p], cur[p]))}
      /\ UNCHANGED << state, seen_up, X!crashes, X!slow, reported, blank >>
  BY DEF X!Tailscale
<1>2. ReachInv'
  <2>1. news' \in [Peers \union Endpoints -> Known]
    BY <1>1 DEF NewsInv, ReachInv
  <2>2. ASSUME NEW p \in Peers PROVE news'[p] \in {"none", peers'[p]} \/ p \in left'
    <3>1. /\ peers[p] \in Known /\ cur[p] \in Known
          /\ news'[p] = IF X!Turned(peers[p], cur[p]) THEN cur[p] ELSE news[p]
          /\ p \in left' <=> cur[p] = "none" \/ (p \in left /\ ~X!Turned(peers[p], cur[p]))
      BY <1>1 DEF NewsInv, ReachInv
    <3>2. news[p] \in {"none", peers[p]} \/ p \in left
      BY DEF NewsInv, ReachInv
    <3> QED BY <1>1, <3>1, <3>2, TurnedMeans DEF Known
  <2>3. \A e \in Endpoints : news'[e] = news[e]
    BY <1>1, NamesAssumption DEF NewsInv, ReachInv
  <2> QED BY <1>1, <2>1, <2>2, <2>3 DEF NewsInv, ReachInv
<1> QED BY <1>1, <1>2 DEF NewsInv, CrashInv, CrashTypes, DumpInv, Crashed, SlowInv,
       X!crashes, X!slow

LEMMA OfServices ==
  ASSUME NewsInv, NEW up \in SUBSET Endpoints, X!Services(up)
  PROVE  NewsInv'
<1>1. /\ state' = [e \in Endpoints |-> IF e \in up THEN "on" ELSE "off"]
      /\ news' = [x \in DOMAIN news |->
           IF x \in Endpoints /\ x \in up THEN "none"
           ELSE IF x \in Endpoints /\ state[x] = "on" /\ state'[x] = "off" THEN "off" ELSE news[x]]
      /\ seen_up' = seen_up \union up
      /\ UNCHANGED << peers, left, X!crashes, X!slow, reported, blank >>
  BY DEF X!Services
<1>2. ReachInv'
  <2>1. news' \in [Peers \union Endpoints -> Known] /\ state' \in [Endpoints -> Known]
    BY <1>1 DEF NewsInv, ReachInv, Known
  <2>2. \A p \in Peers : news'[p] = news[p]
    BY <1>1, NamesAssumption DEF NewsInv, ReachInv
  <2>3. ASSUME NEW e \in seen_up'
        PROVE  state'[e] # "none" /\ (news'[e] = "off" <=> state'[e] = "off")
    <3>1. /\ e \in Endpoints /\ state[e] \in Known
          /\ state'[e] = IF e \in up THEN "on" ELSE "off"
          /\ news'[e] = IF e \in up THEN "none"
                        ELSE IF state[e] = "on" /\ state'[e] = "off" THEN "off" ELSE news[e]
      BY <1>1 DEF NewsInv, ReachInv
    <3>2. e \notin up => state[e] # "none" /\ (news[e] = "off" <=> state[e] = "off")
      BY <1>1 DEF NewsInv, ReachInv
    <3> QED BY <3>1, <3>2 DEF Known
  <2> QED BY <1>1, <2>1, <2>2, <2>3 DEF NewsInv, ReachInv
<1> QED BY <1>1, <1>2 DEF NewsInv, CrashInv, CrashTypes, DumpInv, Crashed, SlowInv,
       X!crashes, X!slow

(* The dumps that a scan lists, of which none may be listed after a scan   *)
(* that failed.                                                            *)
LEMMA OfScan ==
  ASSUME NewsInv, NEW dumps, X!Scan(dumps), blank \subseteq blank',
         dumps \subseteq listed, dumps = listed \/ "coredump" \in blank',
         "audit" \in blank' <=> "audit" \in blank
  PROVE  NewsInv'
<1>1. /\ known_dumps' = known_dumps \union dumps
      /\ reported' = [x \in DOMAIN reported |->
           IF ~first_scan /\ x \in dumps \ known_dumps
           THEN X!AtMost2(reported[x] + 1) ELSE reported[x]]
      /\ first_scan' = FALSE /\ scanned' = TRUE
      /\ due' = due \union (fresh \intersect dumps)
      /\ UNCHANGED << listed, crashed, old, fresh, X!reach, X!slow >>
  BY DEF X!Scan, X!FirstAfter
<1>2. dumps \subseteq Dumps /\ DOMAIN reported = Named
  BY DEF NewsInv, CrashInv, CrashTypes
<1>3. ReachInv'
  BY <1>1 DEF NewsInv, ReachInv, X!reach
<1>4. CrashInv'
  <2>1. CrashTypes'
    BY <1>1, <1>2 DEF NewsInv, CrashInv, CrashTypes
  <2>2. ASSUME NEW d \in Dumps PROVE DumpInv(d)'
    <3>1. DumpInv(d)
      BY DEF NewsInv, CrashInv
    <3>2. crashed[d] \in Nat /\ scanned = ~first_scan /\ first_scan \in BOOLEAN
      BY DEF NewsInv, CrashInv, CrashTypes
    <3>3. reported'[d] = IF ~first_scan /\ d \in dumps \ known_dumps THEN 1 ELSE reported[d]
      BY <1>1, <1>2, <3>1 DEF Named, DumpInv, X!AtMost2
    <3>4. reported'[d] \in 0 .. 1 /\ (d \notin known_dumps' => reported'[d] = 0)
      BY <1>1, <3>1, <3>3 DEF DumpInv
    <3>5. d \in known_dumps' \union listed' => Crashed(d)'
      BY <1>1, <3>1 DEF DumpInv, Crashed
    <3>6. reported'[d] = 1 => crashed'[d] > 0 \/ (d \in old' /\ "coredump" \in blank')
      <4>1. CASE ~first_scan /\ d \in dumps \ known_dumps
        <5>1. scanned /\ d \in listed \ known_dumps
          BY <3>2, <4>1
        <5>2. crashed[d] > 0 \/ (d \in old /\ "coredump" \in blank)
          BY <3>1, <3>2, <5>1 DEF DumpInv, Crashed
        <5> QED BY <1>1, <5>2
      <4>2. CASE ~(~first_scan /\ d \in dumps \ known_dumps)
        BY <1>1, <3>1, <3>3, <4>2 DEF DumpInv
      <4> QED BY <4>1, <4>2
    <3>7. d \in fresh' => /\ scanned' /\ d \notin old' /\ crashed'[d] > 0
                          /\ d \in known_dumps' => reported'[d] = 1
      BY <1>1, <3>1, <3>2, <3>3 DEF DumpInv
    <3>8. d \in due' => d \in fresh' /\ d \in known_dumps'
      BY <1>1, <3>1 DEF DumpInv
    <3>9. d \in listed' \ known_dumps' => "coredump" \in blank'
      BY <1>1
    <3> QED BY <3>4, <3>5, <3>6, <3>7, <3>8, <3>9 DEF DumpInv
  <2> QED BY <1>1, <2>1, <2>2 DEF CrashInv
<1>5. SlowInv'
  <2>1. \A x \in Files \union Packages : reported'[x] = reported[x]
    BY <1>1, <1>2, NamesAssumption DEF Named
  <2> QED BY <1>1, <2>1 DEF NewsInv, SlowInv, X!slow
<1> QED BY <1>1, <1>2, <1>3, <1>4, <1>5 DEF NewsInv

LEMMA OfCrash ==
  ASSUME NewsInv, NEW d \in Dumps, X!Crash(d) \/ X!AnHourPasses(d)
  PROVE  NewsInv'
<1>1. UNCHANGED << X!reach, X!slow, reported, blank, first_scan, known_dumps, old, due, scanned >>
  BY DEF X!Crash, X!AnHourPasses
<1>2. CrashInv'
  <2>1. CASE X!Crash(d)
    <3>1. /\ crashed' = [crashed EXCEPT ![d] = @ + 1]
          /\ listed' = listed \union {d}
          /\ fresh' = IF scanned /\ d \notin old /\ crashed[d] = 0 THEN fresh \union {d} ELSE fresh
      BY <2>1 DEF X!Crash
    <3>2. CrashTypes'
      BY <1>1, <3>1 DEF NewsInv, CrashInv, CrashTypes
    <3>3. ASSUME NEW e \in Dumps PROVE DumpInv(e)'
      <4>1. DumpInv(e) /\ crashed[e] \in Nat
        BY DEF NewsInv, CrashInv, CrashTypes
      <4>2. crashed'[e] = IF e = d THEN crashed[e] + 1 ELSE crashed[e]
        BY <3>1 DEF NewsInv, CrashInv, CrashTypes
      <4> QED BY <1>1, <3>1, <4>1, <4>2 DEF DumpInv, Crashed
    <3> QED BY <1>1, <3>2, <3>3 DEF NewsInv, CrashInv
  <2>2. CASE X!AnHourPasses(d)
    BY <1>1, <2>2 DEF X!AnHourPasses, NewsInv, CrashInv, CrashTypes, DumpInv, Crashed
  <2> QED BY <2>1, <2>2
<1> QED BY <1>1, <1>2 DEF NewsInv, ReachInv, SlowInv, X!reach, X!slow

LEMMA OfTell ==
  ASSUME NewsInv, NEW cur, NEW found, NEW kind, X!Tell(cur, found, kind), kind \subseteq Named
  PROVE  /\ DOMAIN reported' = Named
         /\ \A x \in Named \ kind : reported'[x] = reported[x]
         /\ \A x \in kind :
              reported'[x] = IF x \in found THEN X!AtMost2(reported[x] + 1)
                             ELSE IF x \in cur THEN reported[x] ELSE 0
BY DEF X!Tell, NewsInv

LEMMA OfPacnew ==
  ASSUME NewsInv, NEW cur \in SUBSET Files, X!Pacnew(cur)
  PROVE  NewsInv'
<1>1. /\ pacnew_read' = TRUE /\ known_pacnew' = cur
      /\ baseline' = IF pacnew_read THEN baseline \intersect cur ELSE cur
      /\ UNCHANGED << known_vulns, orphan_count, orphans_told, X!reach, X!crashes, blank >>
  BY DEF X!Pacnew
<1>2. /\ DOMAIN reported' = Named
      /\ \A x \in Named \ Files : reported'[x] = reported[x]
      /\ \A f \in Files :
           reported'[f] = IF ~pacnew_read THEN reported[f]
                          ELSE IF f \in cur \ known_pacnew THEN X!AtMost2(reported[f] + 1)
                          ELSE IF f \in cur THEN reported[f] ELSE 0
  <2>1. CASE pacnew_read
    <3>1. X!Tell(cur, cur \ known_pacnew, Files) /\ Files \subseteq Named
      BY <2>1 DEF X!Pacnew, Named
    <3> QED BY <2>1, <3>1, OfTell
  <2>2. CASE ~pacnew_read
    BY <2>2 DEF X!Pacnew, NewsInv
  <2> QED BY <2>1, <2>2
<1>3. \A d \in Dumps : reported'[d] = reported[d]
  BY <1>2, NamesAssumption DEF Named
<1>4. \A v \in Packages : reported'[v] = reported[v]
  BY <1>2, NamesAssumption DEF Named
<1>5. ASSUME NEW f \in Files
      PROVE  reported'[f] = IF f \in cur \ baseline' THEN 1 ELSE 0
  <2>1. reported[f] = IF f \in known_pacnew \ baseline THEN 1 ELSE 0
    BY DEF NewsInv, SlowInv
  <2>2. /\ ~pacnew_read => reported[f] = 0
        /\ baseline \subseteq known_pacnew
    BY <2>1 DEF NewsInv, SlowInv
  <2> QED BY <1>1, <1>2, <2>1, <2>2 DEF X!AtMost2
<1>6. SlowInv'
  BY <1>1, <1>4, <1>5 DEF NewsInv, SlowInv
<1>7. CrashInv' /\ ReachInv'
  BY <1>1, <1>3 DEF NewsInv, CrashInv, CrashTypes, DumpInv, Crashed, ReachInv, X!reach, X!crashes
<1> QED BY <1>2, <1>6, <1>7 DEF NewsInv

LEMMA OfSecurity ==
  ASSUME NewsInv, NEW cur \in SUBSET Packages, X!Security(cur)
  PROVE  NewsInv'
<1>1. /\ known_vulns' = cur /\ X!Tell(cur, cur \ known_vulns, Packages)
      /\ UNCHANGED << pacnew_read, known_pacnew, orphan_count, baseline, orphans_told >>
      /\ UNCHANGED << X!reach, X!crashes, blank >>
  BY DEF X!Security
<1>2. /\ DOMAIN reported' = Named
      /\ \A x \in Named \ Packages : reported'[x] = reported[x]
      /\ \A v \in Packages :
           reported'[v] = IF v \in cur \ known_vulns THEN X!AtMost2(reported[v] + 1)
                          ELSE IF v \in cur THEN reported[v] ELSE 0
  <2>1. Packages \subseteq Named
    BY DEF Named
  <2> QED BY <1>1, <2>1, OfTell
<1>3. \A d \in Dumps : reported'[d] = reported[d]
  BY <1>2, NamesAssumption DEF Named
<1>4. \A f \in Files : reported'[f] = reported[f]
  BY <1>2, NamesAssumption DEF Named
<1>5. ASSUME NEW v \in Packages
      PROVE  /\ reported'[v] \in 0 .. 2
             /\ v \in cur => reported'[v] > 0
             /\ "audit" \notin blank => reported'[v] = IF v \in cur THEN 1 ELSE 0
  <2>1. reported[v] \in 0 .. 2 /\ (v \in known_vulns => reported[v] > 0)
    BY DEF NewsInv, SlowInv
  <2>2. "audit" \notin blank => reported[v] = IF v \in known_vulns THEN 1 ELSE 0
    BY DEF NewsInv, SlowInv
  <2>3. reported'[v] = IF v \in cur \ known_vulns THEN X!AtMost2(reported[v] + 1)
                       ELSE IF v \in cur THEN reported[v] ELSE 0
    BY <1>2
  <2> QED BY <2>1, <2>2, <2>3 DEF X!AtMost2
<1>6. SlowInv'
  BY <1>1, <1>4, <1>5 DEF NewsInv, SlowInv
<1>7. CrashInv' /\ ReachInv'
  BY <1>1, <1>3 DEF NewsInv, CrashInv, CrashTypes, DumpInv, Crashed, ReachInv, X!reach, X!crashes
<1> QED BY <1>2, <1>6, <1>7 DEF NewsInv

LEMMA OfSecurityBlank ==
  ASSUME NewsInv, X!SecurityBlank
  PROVE  NewsInv'
<1>1. /\ known_vulns' = {} /\ blank' = blank \union {"audit"}
      /\ UNCHANGED << pacnew_read, known_pacnew, orphan_count, baseline, orphans_told >>
      /\ UNCHANGED << X!reach, X!crashes, reported >>
  BY DEF X!SecurityBlank
<1>2. SlowInv'
  BY <1>1 DEF NewsInv, SlowInv
<1> QED BY <1>1, <1>2 DEF NewsInv, CrashInv, CrashTypes, DumpInv, Crashed, ReachInv,
       X!reach, X!crashes

LEMMA OfOrphans ==
  ASSUME NewsInv, NEW count \in Nat, X!Orphans(count)
  PROVE  NewsInv'
<1>1. /\ orphan_count' = count
      /\ orphans_told' = IF orphan_count = -1 \/ count > orphan_count
                         THEN count ELSE orphans_told
      /\ UNCHANGED << pacnew_read, known_pacnew, known_vulns, baseline >>
      /\ UNCHANGED << X!reach, X!crashes, reported, blank >>
  BY DEF X!Orphans
<1>2. /\ orphan_count \in Int /\ orphans_told \in Int
      /\ orphan_count <= orphans_told
  BY DEF NewsInv, SlowInv
<1>3. {orphan_count', orphans_told'} \subseteq Int /\ orphan_count' <= orphans_told'
  BY <1>1, <1>2
<1>4. SlowInv'
  BY <1>1, <1>3 DEF NewsInv, SlowInv
<1> QED BY <1>1, <1>4 DEF NewsInv, CrashInv, CrashTypes, DumpInv, Crashed, ReachInv,
       X!reach, X!crashes

(* The steps that find nothing: of the loop, of the reader of docker, and  *)
(* of the environment.                                                     *)
Idle == UNCHANGED << X!reach, X!crashes, X!slow, reported, blank >>

LEMMA OfIdle ==
  ASSUME NewsInv, Idle
  PROVE  NewsInv'
BY DEF Idle, NewsInv, CrashInv, CrashTypes, DumpInv, Crashed, ReachInv, SlowInv,
   X!reach, X!crashes, X!slow

LEMMA NewsStep == NewsInv /\ [X!Next]_(X!vars) => NewsInv'
<1> SUFFICES ASSUME NewsInv, [X!Next]_(X!vars) PROVE NewsInv'
  OBVIOUS
<1>1. CASE UNCHANGED X!vars
  BY <1>1, OfIdle DEF X!vars, Idle
<1>2. CASE X!Poll
  <2>1. CASE \E cur \in [Peers -> Known] : X!Tailscale(cur)
    BY <2>1, OfTailscale
  <2>2. CASE \E up \in SUBSET Endpoints : X!Services(up)
    BY <2>2, OfServices
  <2>3. CASE X!Coredumps
    BY <2>3, OfScan DEF X!Coredumps
  <2>4. CASE X!CoredumpsBlank
    BY <2>4, OfScan DEF X!CoredumpsBlank
  <2>5. CASE \E cur \in SUBSET Files : X!Pacnew(cur)
    BY <2>5, OfPacnew
  <2>6. CASE \E cur \in SUBSET Packages : X!Security(cur)
    BY <2>6, OfSecurity
  <2>7. CASE X!SecurityBlank
    BY <2>7, OfSecurityBlank
  <2>8. CASE X!Wake \/ X!TailscaleRaises
    BY <2>8, OfIdle DEF X!Wake, X!TailscaleRaises, Idle
  <2>9. ASSUME NEW probe, X!NoAnswer(probe) PROVE NewsInv'
    BY <2>9, OfIdle DEF X!NoAnswer, Idle
  <2>10. ASSUME NEW count \in 0 .. MaxOrphans, X!Orphans(count) PROVE NewsInv'
    <3>1. count \in Nat
      OBVIOUS
    <3> QED BY <2>10, <3>1, OfOrphans
  <2> QED BY <1>2, <2>1, <2>2, <2>3, <2>4, <2>5, <2>6, <2>7, <2>8, <2>9, <2>10
          DEF X!Poll, Known
<1>3. CASE X!Reader \/ X!StreamRaises
  BY <1>3, OfIdle DEF X!Reader, X!StreamRaises, X!StreamSpawns, X!StreamCannotSpawn,
     X!StreamEnds, X!StreamWakes, X!Streams, Idle
<1>4. CASE X!Stop
  BY <1>4, OfIdle DEF X!Stop, Idle
<1>5. CASE X!Environment
  <2>1. CASE \E d \in Dumps : X!Crash(d) \/ X!AnHourPasses(d)
    BY <2>1, OfCrash
  <2>2. CASE X!TailscaleChanges
    BY <2>2, OfIdle DEF X!TailscaleChanges, Idle
  <2>3. ASSUME NEW to, X!DockerChanges(to) PROVE NewsInv'
    BY <2>3, OfIdle DEF X!DockerChanges, Idle
  <2> QED BY <1>5, <2>1, <2>2, <2>3 DEF X!Environment
<1> QED BY <1>1, <1>2, <1>3, <1>4, <1>5 DEF X!Next

(* Whatever the tools answer or fail to, each piece of news is told of, is *)
(* told of once and is what was found last, for any peers, endpoints,      *)
(* dumps, files and packages, and for any number of crashes                *)
(* (external.py:109-308).                                                  *)
THEOREM NewsIsTold == X!Spec => []NewsIsToldOnce
<1>1. ASSUME NewsInv PROVE NewsIsToldOnce
  <2>1. X!NewsIsCurrent
    BY <1>1 DEF NewsInv, ReachInv, X!NewsIsCurrent
  <2>2. ASSUME NEW d \in Dumps
        PROVE  /\ d \in due => reported[d] > 0
               /\ reported[d] <= crashed[d] + (IF d \in old /\ "coredump" \in blank THEN 1 ELSE 0)
    <3>1. DumpInv(d) /\ crashed[d] \in Nat
      BY <1>1 DEF NewsInv, CrashInv, CrashTypes
    <3> QED BY <3>1 DEF DumpInv
  <2>3. X!CrashIsToldOnce
    BY <2>2 DEF X!CrashIsToldOnce
  <2>4. X!NewIsToldOnce
    BY <1>1 DEF NewsInv, SlowInv, X!NewIsToldOnce
  <2> QED BY <2>1, <2>3, <2>4 DEF NewsIsToldOnce, X!NewsIsToldOnce
<1> QED BY <1>1, NewsInit, NewsStep, PTL DEF X!Spec
=============================================================================
