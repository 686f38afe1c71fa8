------------------------------- MODULE Metrics -------------------------------
(***************************************************************************)
(* The alerts of the metrics collector (sources/metrics.py).  A probe      *)
(* reads a gauge and publishes when it is high, once: a latch keeps it     *)
(* quiet until the gauge is low again.  The disk has two latches, for the  *)
(* two levels it warns of.  A counter of errors is compared with what the  *)
(* last read of it found.  The probes of a cycle run one after the other,  *)
(* and any of them may be left out: check() skips those that are not due   *)
(* and those after one that raises, so the model takes them in any order.  *)
(*                                                                         *)
(* Each reading of the disk also goes to the trend tracker (Trend), which  *)
(* tells of any steep slope; the collector publishes only that of a disk   *)
(* that will be full within three days.                                    *)
(*                                                                         *)
(* A gauge reads "low", "between" or "high": below the level that clears   *)
(* its latch, from there to its threshold, at its threshold or above.      *)
(***************************************************************************)
EXTENDS Integers, FiniteSets

CONSTANTS
  Gauges,      (* Pressures, temperatures and GPU readings.                *)
  Programs,    (* The names that processes have.                           *)
  Devices,     (* The disks that smartctl is asked about.                  *)
  Keys,        (* The counters of "btrfs device stats".                    *)
  TopProcs,    (* The processes looked at: 5 in the code.                  *)
  WindowSize,  (* The configuration accepts any size over 4 (schema.py:58). *)
  Cooldown,    (* The cooldown of the tracker, in cycles.                  *)
  MaxMissed,   (* Bound: cycles from one reading of the disk to the next.  *)
  MaxErrors    (* Bound: errors of a counter.                              *)

ASSUME MetricsAssumption ==
  /\ IsFiniteSet(Programs) /\ Gauges \intersect Programs = {}
  /\ TopProcs \in Nat \ {0}
  /\ WindowSize \in Nat /\ WindowSize > 4
  /\ Cooldown \in Nat \ {0}
  /\ MaxMissed \in Nat \ {0}
  /\ MaxErrors \in Nat \ {0}

Counters == Devices \union Keys

Levels == {"low", "between", "high"}

(* The slope of the disk over the window: not steep; so steep that it will *)
(* be full within 72 hours; or steep, but falling or not full so soon.     *)
Slopes == {"flat", "filling", "other"}

VARIABLES
  disk,      (* History: what the disk read last: "ok", "warn", "crit".    *)
  dc, dw,    (* The latches of the disk.                                   *)
  crits,     (* History: critical disk alerts since it was below critical. *)
  window,    (* The number of samples of the disk that the tracker holds.  *)
  last_alert,  (* The cycles since its last alert, capped at the cooldown. *)
  filling,   (* History: readings in a row with the slope "filling".       *)
  warned,    (* History: the cycles since "Disk full in ..." was published. *)
  gauge,     (* History: what each gauge read last.                        *)
  latch,     (* The latch of each gauge and of each program.               *)
  told,      (* History: alerts of a gauge since it was low, capped at 2.  *)
  errors,    (* The errors that each counter has.                          *)
  prev,      (* What the last read found; -1 before the first read.        *)
  first,     (* History: the errors at the first read, -1 before it.       *)
  new        (* History: the new errors reported, capped at MaxErrors.      *)

vars == << disk, dc, dw, crits, window, last_alert, filling, warned,
           gauge, latch, told, errors, prev, first, new >>
disks == << disk, dc, dw, crits, window, last_alert, filling, warned >>
gauges == << gauge, latch, told >>
counters == << errors, prev, first, new >>

T == INSTANCE Trend

Init ==
  /\ disk = "ok" /\ dc = FALSE /\ dw = FALSE /\ crits = 0
  /\ T!Init /\ filling = 0 /\ warned = T!Never
  /\ gauge = [g \in Gauges |-> "low"]
  /\ latch = [g \in Gauges \union Programs |-> FALSE]
  /\ told = [g \in Gauges |-> 0]
  /\ errors \in [Counters -> 0 .. 1]
  /\ prev = [c \in Counters |-> -1]
  /\ first = [c \in Counters |-> -1]
  /\ new = [c \in Counters |-> 0]

AtMost2(n) == IF n > 2 THEN 2 ELSE n

-----------------------------------------------------------------------------
(* _disk_usage().                                                          *)

Enduring == IF WindowSize > Cooldown THEN WindowSize ELSE Cooldown

(* The trend of the disk, `cycles' after the reading before.               *)
DiskTrend(slope, cycles) ==
  /\ T!Update(slope # "flat", cycles)
  /\ filling' = IF slope # "filling" THEN 0 ELSE T!AtMost(filling + 1, Enduring)
  /\ warned' = IF T!Alerts(slope # "flat", cycles) /\ slope = "filling"
               THEN 0 ELSE T!Later(warned, cycles)

DiskUsage(level) ==
  /\ disk' = level
  /\ IF level = "crit" /\ ~dc
     THEN dc' = TRUE /\ UNCHANGED dw /\ crits' = AtMost2(crits + 1)
     ELSE /\ dc' = FALSE
          /\ dw' = (level # "ok")
          /\ crits' = IF level = "crit" THEN crits ELSE 0
  /\ \E slope \in Slopes, cycles \in 1 .. MaxMissed : DiskTrend(slope, cycles)
  /\ UNCHANGED << gauges, counters >>

-----------------------------------------------------------------------------
(* _psi(), _temps() and _nvidia().                                         *)

Clears(level) == level = "low"

Probe(g, level) ==
  /\ gauge' = [gauge EXCEPT ![g] = level]
  /\ latch' = [latch EXCEPT ![g] = level = "high" \/ (@ /\ ~Clears(level))]
  /\ told' = [told EXCEPT
       ![g] = IF level = "low" THEN 0
              ELSE IF level = "high" /\ ~latch[g] THEN AtMost2(@ + 1) ELSE @]
  /\ UNCHANGED << disks, counters >>

LookedAt(big) == IF Cardinality(big) < TopProcs THEN Cardinality(big) ELSE TopProcs

(* Programs of more than 10 GB, of which only the largest are looked at.   *)
Processes(big) ==
  /\ \E seen \in SUBSET big :
       /\ Cardinality(seen) = LookedAt(big)
       /\ latch' = [g \in DOMAIN latch |->
                      IF g \in Programs THEN g \in seen ELSE latch[g]]
  /\ UNCHANGED << gauge, told, disks, counters >>

-----------------------------------------------------------------------------
(* _smart() and _btrfs(): the increase since the last read is reported.    *)

(* Seeded fault: a counter that was zero is taken for one not yet read.    *)
ReadAndNotZero(c) == prev[c] > 0

WasRead(c) == prev[c] >= 0

Count(c, found) ==
  /\ new' = [new EXCEPT
       ![c] = IF WasRead(c) /\ found > prev[c]
              THEN T!AtMost(@ + found - prev[c], MaxErrors) ELSE @]
  /\ prev' = [prev EXCEPT ![c] = found]
  /\ first' = [first EXCEPT ![c] = IF @ < 0 THEN errors[c] ELSE @]
  /\ UNCHANGED << errors, disks, gauges >>

(* A read that fails or times out leaves everything as it was.             *)
CountAll(c) == Count(c, errors[c])

(* The answer of smartctl lacks the counter: it is taken for zero.         *)
CountOmitted(device) == Count(device, 0)

ErrorOccurs(c) ==
  /\ errors[c] < MaxErrors
  /\ errors' = [errors EXCEPT ![c] = @ + 1]
  /\ UNCHANGED << prev, first, new, disks, gauges >>

Next ==
  \/ \E level \in {"ok", "warn", "crit"} : DiskUsage(level)
  \/ \E g \in Gauges, level \in Levels : Probe(g, level)
  \/ \E big \in SUBSET Programs : Processes(big)
  \/ \E c \in Counters : CountAll(c) \/ ErrorOccurs(c)
  \/ \E device \in Devices : CountOmitted(device)

Spec == Init /\ [][Next]_vars

-----------------------------------------------------------------------------
(* Each variable has its type.                                             *)
TypeOK ==
  /\ disk \in {"ok", "warn", "crit"}
  /\ {dc, dw} \subseteq BOOLEAN
  /\ crits \in 0 .. 2
  /\ T!TypeOK
  /\ filling \in 0 .. Enduring
  /\ warned \in {T!Never} \union 0 .. Cooldown
  /\ gauge \in [Gauges -> Levels]
  /\ latch \in [Gauges \union Programs -> BOOLEAN]
  /\ Cardinality({g \in Programs : latch[g]}) <= TopProcs
  /\ told \in [Gauges -> 0 .. 2]
  /\ errors \in [Counters -> 0 .. MaxErrors]
  /\ {prev, first} \subseteq [Counters -> -1 .. MaxErrors]
  /\ new \in [Counters -> 0 .. MaxErrors]

(* A disk that is critical has been told of since it became so, also when  *)
(* it only dipped to the warning range since the last time, and a gauge    *)
(* that is high has been told of exactly once since it was low, however it *)
(* moved about its threshold (metrics.py:171-186, 228-265, 292-309).       *)
BreachIsTold ==
  /\ disk = "crit" => crits > 0
  /\ \A g \in Gauges :
       /\ gauge[g] = "high" => told[g] = 1
       /\ told[g] <= 1

(* "Detects gradual metric changes (disk filling, ...)" (trend.py:4): when *)
(* the disk has been filling for as long as the window and the cooldown    *)
(* are, it has been told of, and that within the last cooldown, although   *)
(* any other steep slope may have used the cooldown up (metrics.py:162).   *)
DiskFillIsTold ==
  filling = Enduring => warned # T!Never /\ warned < Cooldown

(* Each error that a read found beyond the first read is reported, from a  *)
(* zero on as well (metrics.py:350-366, 382-391).                          *)
NoErrorIsMissed ==
  \A c \in Counters : prev[c] >= 0 => new[c] >= prev[c] - first[c]

(* What is wrong with the machine now, and each error so far, has been     *)
(* told of (metrics.py:159-309, 350-391).                                  *)
AlertsAreTold == BreachIsTold /\ NoErrorIsMissed
=============================================================================
