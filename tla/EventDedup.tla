----------------------------- MODULE EventDedup -----------------------------
(***************************************************************************)
(* The deduplication and rate-limiting filter of the journald source       *)
(* (core/dedup.py).  A fingerprint stands for the hash of source, unit and *)
(* normalised message, so it belongs to one source.  Times are whole units *)
(* of the monotonic clock; several calls may fall on the same reading.     *)
(*                                                                         *)
(* sent, out and missed are history variables; no guard reads them.        *)
(***************************************************************************)
EXTENDS Integers, Sequences

CONSTANTS
  Fps,          (* Fingerprints.                                           *)
  Sources,      (* Event sources.                                          *)
  SourceOf,     (* The source of each fingerprint.                         *)
  Configs,      (* Records [window, baseline, max]: the configurations the *)
                (* filter may be given.                                    *)
  RateSpan,     (* The 60.0 seconds of _rate_check.                        *)
  MaxRate,      (* No configuration allows more emissions per source.      *)
  MinGap,       (* No configuration has a shorter window or baseline.      *)
  MaxBaseline,  (* No configuration has a longer baseline.                 *)
  StartTimes,   (* Readings of the clock when the filter is created.       *)
  MaxTime,      (* Bound: last reading of the clock.                       *)
  MaxCount      (* Bound: occurrences counted for one fingerprint.         *)

ASSUME ConfigAssumption ==
  /\ SourceOf \in [Fps -> Sources]
  /\ Configs \subseteq [window : Nat \ {0}, baseline : Nat \ {0}, max : Nat \ {0}]
  /\ MaxRate \in Nat \ {0} /\ MinGap \in Nat /\ MaxBaseline \in Nat
  /\ \A c \in Configs : /\ c.max <= MaxRate
                        /\ MinGap <= c.window /\ MinGap <= c.baseline
                        /\ c.baseline <= MaxBaseline
ASSUME TimeAssumption ==
  RateSpan \in Nat /\ StartTimes \subseteq Nat /\ MaxTime \in Nat /\ MaxCount \in Nat

Never == -1

VARIABLES
  now,          (* time.monotonic().                                       *)
  config,       (* _config.                                                *)
  count,        (* _states[fp].count, 0 when fp is not tracked.            *)
  last_seen,    (* _states[fp].last_seen.                                  *)
  last_emitted, (* _states[fp].last_emitted, Never for None.               *)
  rate,         (* _rate_windows: emission times per source.               *)
  last_prune,   (* _last_prune.                                            *)
  decision,     (* The last decision returned, with the time of the call   *)
                (* and, as history, what was really missed.                *)
  sent,         (* History: every emission time of a source.               *)
  out,          (* History: every emission time of a fingerprint.          *)
  missed        (* History: suppressions since fp's last emission or since *)
                (* it was last forgotten.                                  *)

vars == << now, config, count, last_seen, last_emitted, rate, last_prune,
           decision, sent, out, missed >>

Init ==
  /\ now \in StartTimes
  /\ config \in Configs
  /\ count = [fp \in Fps |-> 0]
  /\ last_seen = [fp \in Fps |-> 0]
  /\ last_emitted = [fp \in Fps |-> Never]
  /\ rate = [s \in Sources |-> << >>]
  /\ last_prune = 0
  /\ decision = [action |-> "none", suppressed_count |-> 0, missed |-> 0, at |-> now]
  /\ sent = [s \in Sources |-> << >>]
  /\ out = [fp \in Fps |-> << >>]
  /\ missed = [fp \in Fps |-> 0]

-----------------------------------------------------------------------------
(* _maybe_prune: every two baselines, forget the states not seen for two.  *)

Interval == 2 * config.baseline

PruneDue == now - last_prune >= Interval

(* Seeded fault: prune keeps states for two intervals.                     *)
StaleLate(fp) == PruneDue /\ last_seen[fp] < now - 2 * Interval

Stale(fp) == PruneDue /\ last_seen[fp] < now - Interval

Tracked(fp) == count[fp] > 0 /\ ~Stale(fp)

(* f as it is once the stale fingerprints are forgotten.                   *)
Pruned(f, default) == [fp \in Fps |-> IF Stale(fp) THEN default ELSE f[fp]]

(* Seeded fault: an emission exactly RateSpan old is popped.               *)
ExpiredEarly(s, n) ==
  /\ \A i \in 1 .. n : rate[s][i] <= now - RateSpan
  /\ n < Len(rate[s]) => rate[s][n + 1] > now - RateSpan

(* _rate_check pops the n oldest emissions, those older than RateSpan.     *)
Expired(s, n) ==
  /\ \A i \in 1 .. n : rate[s][i] < now - RateSpan
  /\ n < Len(rate[s]) => rate[s][n + 1] >= now - RateSpan

Recent(s, n) == SubSeq(rate[s], n + 1, Len(rate[s]))

UnderLimit(s, n) == Len(Recent(s, n)) < config.max

Age(fp) == now - last_emitted[fp]

Seen(fp) ==
  /\ last_seen' = [Pruned(last_seen, 0) EXCEPT ![fp] = now]
  /\ last_prune' = IF PruneDue THEN now ELSE last_prune
  /\ UNCHANGED << now, config >>

(* An emission: counting starts again from restart, at is stored as its    *)
(* time.                                                                   *)
EmitWith(fp, n, suppressed, restart, at) ==
  LET s == SourceOf[fp] IN
  /\ Seen(fp)
  /\ count' = [Pruned(count, 0) EXCEPT ![fp] = restart]
  /\ last_emitted' = [Pruned(last_emitted, Never) EXCEPT ![fp] = at]
  /\ rate' = [rate EXCEPT ![s] = Append(Recent(s, n), now)]
  /\ sent' = [sent EXCEPT ![s] = Append(@, now)]
  /\ out' = [out EXCEPT ![fp] = Append(@, now)]
  /\ decision' = [action |-> "emit", suppressed_count |-> suppressed,
                  missed |-> Pruned(missed, 0)[fp], at |-> now]
  /\ missed' = [Pruned(missed, 0) EXCEPT ![fp] = 0]

(* Seeded faults: the time of the emission is not stored; the count is not *)
(* restarted.                                                              *)
EmitNoTime(fp, n, suppressed) == EmitWith(fp, n, suppressed, 1, last_emitted[fp])
EmitNoReset(fp, n, suppressed) == EmitWith(fp, n, suppressed, count[fp] + 1, now)

Emit(fp, n, suppressed) == EmitWith(fp, n, suppressed, 1, now)

Suppress(fp, n) ==
  LET s == SourceOf[fp] IN
  /\ Seen(fp)
  /\ count[fp] < MaxCount
  /\ count' = [Pruned(count, 0) EXCEPT ![fp] = @ + 1]
  /\ last_emitted' = Pruned(last_emitted, Never)
  /\ rate' = [rate EXCEPT ![s] = Recent(s, n)]
  /\ decision' = [action |-> "suppress", suppressed_count |-> 0, missed |-> 0,
                  at |-> now]
  /\ missed' = [Pruned(missed, 0) EXCEPT ![fp] = @ + 1]
  /\ UNCHANGED << sent, out >>

(* The branches of should_publish, in the order of the code.  The count is *)
(* incremented before "count - 1" is reported: what is reported is the     *)
(* count before the call.                                                  *)
ShouldPublish(fp) ==
  \E n \in 0 .. Len(rate[SourceOf[fp]]) :
    /\ Expired(SourceOf[fp], n)
    /\ \/ /\ ~UnderLimit(SourceOf[fp], n)
          /\ Suppress(fp, n)
       \/ /\ ~Tracked(fp)
          /\ UnderLimit(SourceOf[fp], n)
          /\ Emit(fp, n, 0)
       \/ /\ Tracked(fp)
          /\ UnderLimit(SourceOf[fp], n)
          /\ \/ last_emitted[fp] = Never
             \/ Age(fp) >= config.baseline
             \/ Age(fp) >= config.window
          /\ Emit(fp, n, count[fp])
       \/ /\ Tracked(fp)
          /\ UnderLimit(SourceOf[fp], n)
          /\ last_emitted[fp] # Never
          /\ Age(fp) < config.baseline
          /\ Age(fp) < config.window
          /\ Suppress(fp, n)

SetConfig ==
  /\ config' \in Configs
  /\ UNCHANGED << now, count, last_seen, last_emitted, rate, last_prune,
                  decision, sent, out, missed >>

Tick ==
  /\ now < MaxTime
  /\ now' = now + 1
  /\ UNCHANGED << config, count, last_seen, last_emitted, rate, last_prune,
                  decision, sent, out, missed >>

Next ==
  \/ \E fp \in Fps : ShouldPublish(fp)
  \/ SetConfig
  \/ Tick

Spec == Init /\ [][Next]_vars

-----------------------------------------------------------------------------
(* Each variable has its type.                                             *)
TypeOK ==
  /\ now \in Nat
  /\ config \in Configs
  /\ count \in [Fps -> Nat]
  /\ last_seen \in [Fps -> Nat]
  /\ last_emitted \in [Fps -> Nat \union {Never}]
  /\ rate \in [Sources -> Seq(Nat)]
  /\ last_prune \in Nat
  /\ decision \in [action : {"none", "emit", "suppress"},
                   suppressed_count : Nat, missed : Nat, at : Nat]
  /\ sent \in [Sources -> Seq(Nat)]
  /\ out \in [Fps -> Seq(Nat)]
  /\ missed \in [Fps -> Nat]

(* Rate limit: however calls, prunes, configuration changes and the clock  *)
(* interleave, any MaxRate + 1 consecutive emissions of a source span more *)
(* than RateSpan (dedup.py:189-207).                                       *)
RateLimited ==
  \A s \in Sources : \A i, j \in DOMAIN sent[s] :
    j = i + MaxRate => sent[s][j] - sent[s][i] > RateSpan

(* Deduplication: two emissions of one fingerprint are at least the        *)
(* shortest window or baseline apart, also when its state was pruned and   *)
(* made anew between them (dedup.py:135-187).                              *)
Spaced ==
  \A fp \in Fps : \A i, j \in DOMAIN out[fp] :
    j = i + 1 => out[fp][j] - out[fp][i] >= MinGap

(* Pruning: at each call every tracked fingerprint was seen during the     *)
(* last four baselines (dedup.py:210 "prevent memory growth").             *)
TrackedAreRecent ==
  \A fp \in Fps : count[fp] > 0 => decision.at - last_seen[fp] <= 4 * MaxBaseline

(* The reported number of suppressed occurrences is never too small, and   *)
(* at most one too large (dedup.py:156-187).                               *)
CountWithinOne ==
  decision.action = "emit" =>
    decision.suppressed_count - decision.missed \in {0, 1}
=============================================================================
