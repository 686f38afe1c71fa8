-------------------------- MODULE EventDedupProofs --------------------------
(***************************************************************************)
(* Theorems about EventDedup, for every set of configurations and every    *)
(* behaviour of the clock, and, in the last section, about JournaldSource, *)
(* for any buffer, pauses and entries.                                     *)
(***************************************************************************)
EXTENDS MCEventDedup, FiniteSetTheorems, TLAPS

-----------------------------------------------------------------------------
(* What a call of should_publish does, whatever branch it takes.           *)

LEMMA Branches ==
  ASSUME NEW fp \in Fps, ShouldPublish(fp)
  PROVE  \E n \in 0 .. Len(rate[SourceOf[fp]]) :
           /\ Expired(SourceOf[fp], n)
           /\ \/ Suppress(fp, n)
              \/ /\ UnderLimit(SourceOf[fp], n)
                 /\ \/ ~Tracked(fp)
                    \/ last_emitted[fp] = Never
                    \/ Age(fp) >= config.baseline
                    \/ Age(fp) >= config.window
                 /\ \E suppressed \in {0, count[fp]} : Emit(fp, n, suppressed)
BY DEF ShouldPublish

LEMMA ConfigType ==
  ASSUME TypeOK
  PROVE  /\ config.baseline \in Nat /\ config.window \in Nat /\ config.max \in Nat
         /\ config.max <= MaxRate
         /\ MinGap <= config.baseline /\ MinGap <= config.window
         /\ config.baseline <= MaxBaseline
         /\ Interval = 2 * config.baseline /\ Interval \in Nat
         /\ MaxRate \in Nat \ {0} /\ MinGap \in Nat /\ MaxBaseline \in Nat
<1>1. config \in [window : Nat \ {0}, baseline : Nat \ {0}, max : Nat \ {0}]
  BY ConfigAssumption DEF TypeOK
<1> QED BY <1>1, ConfigAssumption DEF TypeOK, Interval

LEMMA RecentType ==
  ASSUME TypeOK, NEW s \in Sources, NEW n \in 0 .. Len(rate[s])
  PROVE  /\ Recent(s, n) \in Seq(Nat)
         /\ Len(Recent(s, n)) = Len(rate[s]) - n
         /\ \A i \in 1 .. Len(rate[s]) - n : Recent(s, n)[i] = rate[s][n + i]
<1>1. rate[s] \in Seq(Nat)
  BY DEF TypeOK
<1> QED BY <1>1 DEF Recent

-----------------------------------------------------------------------------
(* Type correctness.                                                       *)

LEMMA TypeStep == TypeOK /\ [Next]_vars => TypeOK'
<1> SUFFICES ASSUME TypeOK, [Next]_vars PROVE TypeOK'
  OBVIOUS
<1>1. ASSUME NEW fp \in Fps, ShouldPublish(fp)
      PROVE  TypeOK'
  <2> DEFINE s == SourceOf[fp]
  <2>1. s \in Sources
    BY ConfigAssumption
  <2>2. PICK n \in 0 .. Len(rate[s]) :
          \/ Suppress(fp, n)
          \/ \E suppressed \in {0, count[fp]} : Emit(fp, n, suppressed)
    BY <1>1, Branches
  <2>3. Recent(s, n) \in Seq(Nat)
    BY <2>1, RecentType
  <2> HIDE DEF s
  <2>4. /\ Pruned(last_seen, 0) \in [Fps -> Nat]
        /\ Pruned(count, 0) \in [Fps -> Nat]
        /\ Pruned(missed, 0) \in [Fps -> Nat]
        /\ Pruned(last_emitted, Never) \in [Fps -> Nat \union {Never}]
    BY DEF Pruned, TypeOK
  <2>5. /\ Seen(fp) => /\ last_seen' \in [Fps -> Nat]
                       /\ last_prune' \in Nat
                       /\ now' \in Nat
                       /\ config' \in Configs
    BY <2>4 DEF Seen, TypeOK
  <2>6. CASE Suppress(fp, n)
    <3>1. Seen(fp) /\ UNCHANGED << sent, out >>
      BY <2>6 DEF Suppress
    <3>2. count' \in [Fps -> Nat] /\ missed' \in [Fps -> Nat]
      BY <2>6, <2>4 DEF Suppress
    <3>3. last_emitted' \in [Fps -> Nat \union {Never}]
      BY <2>6, <2>4 DEF Suppress
    <3>4. rate' \in [Sources -> Seq(Nat)]
      BY <2>6, <2>1, <2>3 DEF Suppress, TypeOK, s
    <3>5. decision' \in [action : {"none", "emit", "suppress"},
                         suppressed_count : Nat, missed : Nat, at : Nat]
      BY <2>6 DEF Suppress, TypeOK
    <3> QED BY <3>1, <3>2, <3>3, <3>4, <3>5, <2>5 DEF TypeOK
  <2>7. ASSUME NEW suppressed \in {0, count[fp]}, Emit(fp, n, suppressed)
        PROVE  TypeOK'
    <3> USE <2>7 DEF Emit, EmitWith
    <3>1. Seen(fp)
      OBVIOUS
    <3>2. count' \in [Fps -> Nat] /\ missed' \in [Fps -> Nat]
      BY <2>4
    <3>3. last_emitted' \in [Fps -> Nat \union {Never}]
      BY <2>4 DEF TypeOK
    <3>4. rate' \in [Sources -> Seq(Nat)] /\ sent' \in [Sources -> Seq(Nat)]
      BY <2>1, <2>3, SMTT(30) DEF TypeOK, s
    <3>5. out' \in [Fps -> Seq(Nat)]
      BY DEF TypeOK
    <3>6. suppressed \in Nat /\ Pruned(missed, 0)[fp] \in Nat /\ now \in Nat
      BY <2>4 DEF TypeOK
    <3>7. decision' \in [action : {"none", "emit", "suppress"},
                         suppressed_count : Nat, missed : Nat, at : Nat]
      BY <3>6
    <3> QED BY <3>1, <3>2, <3>3, <3>4, <3>5, <3>7, <2>5 DEF TypeOK
  <2> QED BY <2>2, <2>6, <2>7 DEF s
<1>2. CASE SetConfig
  BY <1>2 DEF SetConfig, TypeOK
<1>3. CASE Tick
  BY <1>3 DEF Tick, TypeOK
<1>4. CASE UNCHANGED vars
  BY <1>4 DEF vars, TypeOK
<1> QED BY <1>1, <1>2, <1>3, <1>4 DEF Next

LEMMA TypeInit == Init => TypeOK
BY TimeAssumption, ConfigAssumption DEF Init, TypeOK, Never

(* Every variable always has its type.                                     *)
THEOREM TypeCorrect == Spec => []TypeOK
BY TypeInit, TypeStep, PTL DEF Spec

-----------------------------------------------------------------------------
(* The rate limit, on one source: w is its window, h all its emissions, t  *)
(* the time.  The window is the end of the history, and everything before  *)
(* it is older than RateSpan.                                              *)

WindowOf(w, h, t) ==
  /\ Len(w) <= Len(h)
  /\ \A i \in 1 .. Len(w) : w[i] = h[(Len(h) - Len(w)) + i]
  /\ \A i \in 1 .. Len(h) - Len(w) : h[i] < t - RateSpan
  /\ \A i \in 1 .. Len(h) : h[i] <= t

Spread(h) ==
  \A i, j \in DOMAIN h : j = i + MaxRate => h[j] - h[i] > RateSpan

LEMMA PopWindow ==
  ASSUME NEW w \in Seq(Nat), NEW h \in Seq(Nat), NEW t \in Nat,
         NEW n \in 0 .. Len(w), WindowOf(w, h, t),
         \A i \in 1 .. n : w[i] < t - RateSpan
  PROVE  WindowOf(SubSeq(w, n + 1, Len(w)), h, t)
<1> DEFINE v == SubSeq(w, n + 1, Len(w))
<1>1. /\ v \in Seq(Nat)
      /\ Len(v) = Len(w) - n
      /\ \A i \in 1 .. Len(v) : v[i] = w[n + i]
  OBVIOUS
<1> HIDE DEF v
<1>2. ASSUME NEW i \in 1 .. Len(v) PROVE v[i] = h[(Len(h) - Len(v)) + i]
  <2>1. n + i \in 1 .. Len(w) /\ v[i] = w[n + i]
    BY <1>1
  <2>2. w[n + i] = h[(Len(h) - Len(w)) + (n + i)]
    BY <2>1 DEF WindowOf
  <2>3. (Len(h) - Len(w)) + (n + i) = (Len(h) - Len(v)) + i
    BY <1>1
  <2> QED BY <2>1, <2>2, <2>3
<1>3. ASSUME NEW i \in 1 .. Len(h) - Len(v) PROVE h[i] < t - RateSpan
  <2>1. CASE i <= Len(h) - Len(w)
    BY <2>1 DEF WindowOf
  <2>2. CASE i > Len(h) - Len(w)
    <3> DEFINE k == i - (Len(h) - Len(w))
    <3>1. k \in 1 .. n /\ k \in 1 .. Len(w) /\ (Len(h) - Len(w)) + k = i
      BY <1>1, <2>2, SMTT(30) DEF WindowOf
    <3> HIDE DEF k
    <3>2. w[k] = h[i]
      BY <3>1 DEF WindowOf
    <3> QED BY <3>1, <3>2
  <2> QED BY <2>1, <2>2
<1>4. Len(v) <= Len(h)
  BY <1>1 DEF WindowOf
<1>5. WindowOf(v, h, t)
  BY <1>2, <1>3, <1>4 DEF WindowOf
<1> QED BY <1>5 DEF v

LEMMA AppendWindow ==
  ASSUME NEW w \in Seq(Nat), NEW h \in Seq(Nat), NEW t \in Nat, WindowOf(w, h, t)
  PROVE  WindowOf(Append(w, t), Append(h, t), t)
<1> DEFINE v == Append(w, t)
           g == Append(h, t)
<1>1. /\ Len(v) = Len(w) + 1 /\ v[Len(w) + 1] = t
      /\ \A i \in 1 .. Len(w) : v[i] = w[i]
      /\ Len(g) = Len(h) + 1 /\ g[Len(h) + 1] = t
      /\ \A i \in 1 .. Len(h) : g[i] = h[i]
  OBVIOUS
<1> HIDE DEF v, g
<1>2. Len(g) - Len(v) = Len(h) - Len(w) /\ Len(v) <= Len(g)
  BY <1>1 DEF WindowOf
<1>3. ASSUME NEW i \in 1 .. Len(v) PROVE v[i] = g[(Len(h) - Len(w)) + i]
  <2>1. CASE i = Len(w) + 1
    BY <1>1, <2>1
  <2>2. CASE i # Len(w) + 1
    <3>1. i \in 1 .. Len(w) /\ (Len(h) - Len(w)) + i \in 1 .. Len(h)
      BY <1>1, <2>2 DEF WindowOf
    <3> QED BY <1>1, <3>1 DEF WindowOf
  <2> QED BY <2>1, <2>2
<1>4. \A i \in 1 .. Len(h) - Len(w) : g[i] < t - RateSpan
  BY <1>1, SMTT(30) DEF WindowOf
<1>5. \A i \in 1 .. Len(g) : g[i] <= t
  BY <1>1, SMTT(30) DEF WindowOf
<1> QED BY <1>2, <1>3, <1>4, <1>5 DEF WindowOf, v, g

(* An emission that finds fewer than MaxRate others in the window follows  *)
(* the MaxRate-th last one by more than RateSpan.                          *)
LEMMA SpreadKept ==
  ASSUME NEW w \in Seq(Nat), NEW h \in Seq(Nat), NEW t \in Nat,
         WindowOf(w, h, t), Len(w) < MaxRate, Spread(h)
  PROVE  Spread(Append(h, t))
<1>0. MaxRate \in Nat \ {0} /\ RateSpan \in Nat
  BY ConfigAssumption, TimeAssumption
<1> DEFINE g == Append(h, t)
<1>1. /\ DOMAIN g = 1 .. Len(h) + 1 /\ DOMAIN h = 1 .. Len(h)
      /\ g[Len(h) + 1] = t
      /\ \A i \in 1 .. Len(h) : g[i] = h[i]
  OBVIOUS
<1> HIDE DEF g
<1>2. ASSUME NEW i \in DOMAIN g, NEW j \in DOMAIN g, j = i + MaxRate
      PROVE  g[j] - g[i] > RateSpan
  <2>1. CASE j = Len(h) + 1
    <3>1. i + MaxRate = Len(h) + 1 /\ i \in Nat \ {0}
      BY <1>1, <1>2, <2>1
    <3>2. i \in 1 .. Len(h) - Len(w) /\ i \in 1 .. Len(h)
      BY <1>0, <3>1
    <3>3. h[i] < t - RateSpan
      BY <3>2 DEF WindowOf
    <3>4. h[i] \in Nat
      BY <3>2
    <3>5. g[j] = t /\ g[i] = h[i]
      BY <1>1, <2>1, <3>2
    <3> QED BY <1>0, <3>3, <3>5, <3>4
  <2>2. CASE j # Len(h) + 1
    <3>1. i \in DOMAIN h /\ j \in DOMAIN h
      BY <1>0, <1>1, <1>2, <2>2
    <3> QED BY <1>1, <1>2, <3>1 DEF Spread
  <2> QED BY <2>1, <2>2
<1> QED BY <1>2 DEF Spread, g

RateInv ==
  \A s \in Sources : WindowOf(rate[s], sent[s], now) /\ Spread(sent[s])

LEMMA RateStep == TypeOK /\ RateInv /\ [Next]_vars => RateInv'
<1> SUFFICES ASSUME TypeOK, RateInv, [Next]_vars PROVE RateInv'
  OBVIOUS
<1>1. ASSUME NEW fp \in Fps, ShouldPublish(fp)
      PROVE  RateInv'
  <2>1. SourceOf[fp] \in Sources
    BY ConfigAssumption
  <2>2. PICK s \in Sources : s = SourceOf[fp]
    BY <2>1
  <2>3. PICK n \in 0 .. Len(rate[s]) :
          /\ Expired(s, n)
          /\ \/ Suppress(fp, n)
             \/ /\ UnderLimit(s, n)
                /\ \E suppressed \in {0, count[fp]} : Emit(fp, n, suppressed)
    BY <1>1, <2>2, Branches
  <2>4. /\ rate[s] \in Seq(Nat) /\ sent[s] \in Seq(Nat) /\ now \in Nat
        /\ Recent(s, n) \in Seq(Nat)
        /\ WindowOf(Recent(s, n), sent[s], now)
    BY <2>3, PopWindow, RecentType DEF TypeOK, RateInv, Expired, Recent
  <2>5. CASE Suppress(fp, n)
    <3>1. /\ rate' = [rate EXCEPT ![s] = Recent(s, n)]
          /\ sent' = sent /\ now' = now
      BY <2>2, <2>5 DEF Suppress, Seen
    <3> QED BY <3>1, <2>4 DEF RateInv, TypeOK
  <2>6. CASE UnderLimit(s, n)
             /\ \E suppressed \in {0, count[fp]} : Emit(fp, n, suppressed)
    <3>1. /\ rate' = [rate EXCEPT ![s] = Append(Recent(s, n), now)]
          /\ sent' = [sent EXCEPT ![s] = Append(sent[s], now)]
          /\ now' = now
      BY <2>2, <2>6 DEF Emit, EmitWith, Seen
    <3>2. WindowOf(Append(Recent(s, n), now), Append(sent[s], now), now)
      BY <2>4, AppendWindow
    <3>3. Len(Recent(s, n)) < MaxRate
      BY <2>4, <2>6, ConfigType DEF UnderLimit
    <3>4. Spread(Append(sent[s], now))
      BY <2>4, <3>3, SpreadKept DEF RateInv
    <3> QED BY <3>1, <3>2, <3>4 DEF RateInv, TypeOK
  <2> QED BY <2>3, <2>5, <2>6
<1>2. ASSUME UNCHANGED << rate, sent >>, now' \in Nat, now <= now'
      PROVE  RateInv'
  <2>1. ASSUME NEW h \in Seq(Nat), NEW w \in Seq(Nat), WindowOf(w, h, now)
        PROVE  WindowOf(w, h, now')
    <3>1. now \in Nat /\ RateSpan \in Nat
      BY TimeAssumption DEF TypeOK
    <3>2. ASSUME NEW i \in 1 .. Len(h) PROVE h[i] <= now'
      BY <1>2, <2>1, <3>1 DEF WindowOf
    <3>3. ASSUME NEW i \in 1 .. Len(h) - Len(w) PROVE h[i] < now' - RateSpan
      <4>1. h[i] < now - RateSpan /\ h[i] \in Nat
        BY <2>1 DEF WindowOf
      <4> QED BY <1>2, <3>1, <4>1
    <3> QED BY <2>1, <3>2, <3>3 DEF WindowOf
  <2> QED BY <1>2, <2>1 DEF RateInv, TypeOK
<1>3. CASE SetConfig
  BY <1>3, <1>2 DEF SetConfig, TypeOK
<1>4. CASE Tick
  <2>1. now' \in Nat /\ now <= now' /\ UNCHANGED << rate, sent >>
    BY <1>4 DEF Tick, TypeOK
  <2> QED BY <2>1, <1>2
<1>5. CASE UNCHANGED vars
  BY <1>5, <1>2 DEF vars, TypeOK
<1> QED BY <1>1, <1>3, <1>4, <1>5 DEF Next

(* Any MaxRate + 1 consecutive emissions of a source span more than        *)
(* RateSpan, for every set of configurations (dedup.py:189-207).           *)
THEOREM RateLimit == Spec => []RateLimited
<1>1. Init => RateInv
  BY DEF Init, RateInv, WindowOf, Spread
<1>2. RateInv => RateLimited
  BY DEF RateInv, RateLimited, Spread
<1> QED BY <1>1, <1>2, RateStep, TypeCorrect, PTL DEF Spec

-----------------------------------------------------------------------------
(* Spacing, on one fingerprint: h are its emissions, e its last_emitted, c *)
(* its count, l its last_seen, t the time.  A fingerprint whose last       *)
(* emission is not remembered was last emitted long enough ago.            *)

Apart(h) == \A i, j \in DOMAIN h : j = i + 1 => h[j] - h[i] >= MinGap

LongAgo(h, t) == Len(h) > 0 => t - h[Len(h)] >= MinGap

Remembers(h, e, c, l, t) ==
  /\ Apart(h)
  /\ c = 0 => e = Never
  /\ e = Never => LongAgo(h, t)
  /\ c > 0 /\ e # Never => Len(h) > 0 /\ h[Len(h)] = e
  /\ c > 0 => l <= t /\ (Len(h) > 0 => h[Len(h)] <= l)

LEMMA ApartKept ==
  ASSUME NEW h \in Seq(Nat), NEW t \in Nat, Apart(h), LongAgo(h, t)
  PROVE  Apart(Append(h, t))
<1> DEFINE g == Append(h, t)
<1>1. /\ DOMAIN g = 1 .. Len(h) + 1 /\ DOMAIN h = 1 .. Len(h)
      /\ g[Len(h) + 1] = t
      /\ \A i \in 1 .. Len(h) : g[i] = h[i]
  OBVIOUS
<1> HIDE DEF g
<1>2. ASSUME NEW i \in DOMAIN g, NEW j \in DOMAIN g, j = i + 1
      PROVE  g[j] - g[i] >= MinGap
  <2>1. CASE j = Len(h) + 1
    <3>1. i = Len(h) /\ Len(h) > 0 /\ i \in 1 .. Len(h)
      BY <1>1, <1>2, <2>1
    <3>2. t - h[Len(h)] >= MinGap
      BY <3>1 DEF LongAgo
    <3>3. g[j] = t /\ g[i] = h[Len(h)]
      BY <1>1, <2>1, <3>1
    <3> QED BY <3>2, <3>3
  <2>2. CASE j # Len(h) + 1
    <3>1. i \in DOMAIN h /\ j \in DOMAIN h
      BY <1>1, <1>2, <2>2
    <3> QED BY <1>1, <1>2, <3>1 DEF Apart
  <2> QED BY <2>1, <2>2
<1> QED BY <1>2 DEF Apart, g

SpacedInv ==
  \A fp \in Fps :
    Remembers(out[fp], last_emitted[fp], count[fp], last_seen[fp], now)

(* A stale fingerprint was last emitted more than two baselines ago.       *)
LEMMA StaleLongAgo ==
  ASSUME TypeOK, SpacedInv, NEW fp \in Fps, count[fp] > 0, Stale(fp)
  PROVE  LongAgo(out[fp], now)
<1>1. /\ now \in Nat /\ last_seen[fp] \in Nat /\ out[fp] \in Seq(Nat)
      /\ MinGap \in Nat /\ Interval \in Nat /\ MinGap <= Interval
  BY ConfigType, SMTT(30) DEF TypeOK
<1>2. last_seen[fp] < now - Interval
  BY DEF Stale
<1>3. ASSUME Len(out[fp]) > 0 PROVE now - out[fp][Len(out[fp])] >= MinGap
  <2>1. out[fp][Len(out[fp])] <= last_seen[fp] /\ out[fp][Len(out[fp])] \in Nat
    BY <1>1, <1>3 DEF SpacedInv, Remembers
  <2> QED BY <1>1, <1>2, <2>1
<1> QED BY <1>3 DEF LongAgo

(* Forgetting the stale fingerprints keeps the invariant.                  *)
LEMMA PruneKeepsSpaced ==
  ASSUME TypeOK, SpacedInv, NEW fp \in Fps
  PROVE  /\ Remembers(out[fp], Pruned(last_emitted, Never)[fp],
                      Pruned(count, 0)[fp], Pruned(last_seen, 0)[fp], now)
         /\ ~Tracked(fp) => LongAgo(out[fp], now)
<1>1. count[fp] \in Nat
  BY DEF TypeOK
<1>2. CASE Stale(fp)
  <2>1. /\ Pruned(last_emitted, Never)[fp] = Never
        /\ Pruned(count, 0)[fp] = 0
    BY <1>2 DEF Pruned
  <2>2. LongAgo(out[fp], now)
    BY <1>1, <1>2, StaleLongAgo DEF SpacedInv, Remembers
  <2> QED BY <2>1, <2>2 DEF Remembers, SpacedInv
<1>3. CASE ~Stale(fp)
  <2>1. /\ Pruned(last_emitted, Never)[fp] = last_emitted[fp]
        /\ Pruned(count, 0)[fp] = count[fp]
        /\ Pruned(last_seen, 0)[fp] = last_seen[fp]
    BY <1>3 DEF Pruned
  <2>2. ~Tracked(fp) => count[fp] = 0
    BY <1>1, <1>3 DEF Tracked
  <2> QED BY <2>1, <2>2 DEF Remembers, SpacedInv
<1> QED BY <1>2, <1>3

LEMMA SpacedStep == TypeOK /\ SpacedInv /\ [Next]_vars => SpacedInv'
<1> SUFFICES ASSUME TypeOK, SpacedInv, [Next]_vars PROVE SpacedInv'
  OBVIOUS
<1>1. ASSUME NEW fp \in Fps, ShouldPublish(fp)
      PROVE  SpacedInv'
  <2>1. PICK n \in 0 .. Len(rate[SourceOf[fp]]) :
          \/ Suppress(fp, n)
          \/ /\ \/ ~Tracked(fp)
                \/ last_emitted[fp] = Never
                \/ Age(fp) >= config.baseline
                \/ Age(fp) >= config.window
             /\ \E suppressed \in {0, count[fp]} : Emit(fp, n, suppressed)
    BY <1>1, Branches
  <2>2. /\ now' = now
        /\ last_seen' = [Pruned(last_seen, 0) EXCEPT ![fp] = now]
    BY <2>1 DEF Suppress, Emit, EmitWith, Seen
  <2>3. /\ now \in Nat /\ out[fp] \in Seq(Nat) /\ count[fp] \in Nat
        /\ Pruned(count, 0)[fp] \in Nat /\ last_seen[fp] \in Nat
        /\ Pruned(last_seen, 0)[fp] \in Nat
    BY DEF TypeOK, Pruned
  <2>4. \A g \in Fps :
          Remembers(out[g], Pruned(last_emitted, Never)[g], Pruned(count, 0)[g],
                    Pruned(last_seen, 0)[g], now)
    BY PruneKeepsSpaced
  <2>5. Len(out[fp]) > 0 => out[fp][Len(out[fp])] \in Nat
    BY <2>3
  <2>6. CASE Suppress(fp, n)
    <3>1. /\ count' = [Pruned(count, 0) EXCEPT ![fp] = @ + 1]
          /\ last_emitted' = Pruned(last_emitted, Never)
          /\ out' = out
      BY <2>6 DEF Suppress
    <3>2. ASSUME NEW g \in Fps, g # fp
          PROVE  Remembers(out'[g], last_emitted'[g], count'[g], last_seen'[g], now')
      BY <2>2, <2>4, <3>1, <3>2 DEF Pruned
    <3>3. /\ count'[fp] = Pruned(count, 0)[fp] + 1 /\ last_seen'[fp] = now
          /\ last_emitted'[fp] = Pruned(last_emitted, Never)[fp]
      BY <2>2, <3>1 DEF Pruned
    <3>4. Len(out[fp]) > 0 => out[fp][Len(out[fp])] <= now
      <4>1. CASE Pruned(count, 0)[fp] = 0
        <5>1. LongAgo(out[fp], now)
          BY <4>1, <2>4 DEF Remembers
        <5>2. MinGap \in Nat
          BY ConfigAssumption
        <5> QED BY <2>3, <2>5, <5>1, <5>2 DEF LongAgo
      <4>2. CASE Pruned(count, 0)[fp] > 0
        BY <4>2, <2>3, <2>4, <2>5 DEF Remembers
      <4> QED BY <4>1, <4>2, <2>3
    <3>5. Remembers(out'[fp], last_emitted'[fp], count'[fp], last_seen'[fp], now')
      BY <2>2, <2>3, <2>4, <3>1, <3>3, <3>4 DEF Remembers
    <3> QED BY <3>2, <3>5 DEF SpacedInv
  <2>7. CASE /\ \/ ~Tracked(fp)
                \/ last_emitted[fp] = Never
                \/ Age(fp) >= config.baseline
                \/ Age(fp) >= config.window
             /\ \E suppressed \in {0, count[fp]} : Emit(fp, n, suppressed)
    <3>1. /\ count' = [Pruned(count, 0) EXCEPT ![fp] = 1]
          /\ last_emitted' = [Pruned(last_emitted, Never) EXCEPT ![fp] = now]
          /\ out' = [out EXCEPT ![fp] = Append(out[fp], now)]
      BY <2>7 DEF Emit, EmitWith
    <3>2. LongAgo(out[fp], now)
      <4>1. CASE ~Tracked(fp)
        BY <4>1, PruneKeepsSpaced
      <4>2. CASE Tracked(fp) /\ last_emitted[fp] = Never
        BY <4>2 DEF SpacedInv, Remembers
      <4>3. CASE Tracked(fp) /\ last_emitted[fp] # Never
        <5>1. out[fp][Len(out[fp])] = last_emitted[fp]
          BY <4>3 DEF SpacedInv, Remembers, Tracked
        <5>2. now - last_emitted[fp] >= MinGap
          <6>1. last_emitted[fp] \in Nat
            BY <4>3 DEF TypeOK
          <6>2. Age(fp) >= config.baseline \/ Age(fp) >= config.window
            BY <2>7, <4>3
          <6> QED BY <2>3, <6>1, <6>2, ConfigType DEF Age
        <5> QED BY <5>1, <5>2 DEF LongAgo
      <4> QED BY <4>1, <4>2, <4>3
    <3>3. Apart(Append(out[fp], now))
      BY <2>3, <3>2, ApartKept DEF SpacedInv, Remembers
    <3>4. ASSUME NEW g \in Fps, g # fp
          PROVE  Remembers(out'[g], last_emitted'[g], count'[g], last_seen'[g], now')
      BY <2>2, <2>4, <3>1, <3>4 DEF Pruned, TypeOK
    <3>5. /\ out'[fp] = Append(out[fp], now) /\ last_emitted'[fp] = now
          /\ count'[fp] = 1 /\ last_seen'[fp] = now
      BY <2>2, <3>1 DEF Pruned, TypeOK
    <3>6. Len(Append(out[fp], now)) > 0
          /\ Append(out[fp], now)[Len(Append(out[fp], now))] = now
      BY <2>3
    <3>7. Remembers(out'[fp], last_emitted'[fp], count'[fp], last_seen'[fp], now')
      BY <2>2, <2>3, <3>3, <3>5, <3>6 DEF Remembers, Never
    <3> QED BY <3>4, <3>7 DEF SpacedInv
  <2> QED BY <2>1, <2>6, <2>7
<1>2. ASSUME UNCHANGED << out, last_emitted, count, last_seen >>,
             now' \in Nat, now <= now'
      PROVE  SpacedInv'
  <2> SUFFICES ASSUME NEW fp \in Fps
               PROVE  Remembers(out[fp], last_emitted[fp], count[fp], last_seen[fp], now')
    BY <1>2 DEF SpacedInv
  <2>1. /\ now \in Nat /\ MinGap \in Nat /\ last_seen[fp] \in Nat
        /\ Len(out[fp]) > 0 => out[fp][Len(out[fp])] \in Nat
    BY ConfigAssumption, SMTT(30) DEF TypeOK
  <2>2. LongAgo(out[fp], now) => LongAgo(out[fp], now')
    BY <1>2, <2>1 DEF LongAgo
  <2> QED BY <1>2, <2>1, <2>2 DEF SpacedInv, Remembers
<1>3. CASE SetConfig
  BY <1>3, <1>2 DEF SetConfig, TypeOK
<1>4. CASE Tick
  <2>1. now' \in Nat /\ now <= now'
        /\ UNCHANGED << out, last_emitted, count, last_seen >>
    BY <1>4 DEF Tick, TypeOK
  <2> QED BY <2>1, <1>2
<1>5. CASE UNCHANGED vars
  BY <1>5, <1>2 DEF vars, TypeOK
<1> QED BY <1>1, <1>3, <1>4, <1>5 DEF Next

(* Two emissions of one fingerprint are at least MinGap apart, whatever    *)
(* was pruned between them (dedup.py:135-187, 209-220).                    *)
THEOREM Spacing == Spec => []Spaced
<1>1. Init => SpacedInv
  <2>1. \A t : Remembers(<< >>, Never, 0, 0, t)
    BY DEF Remembers, Apart, LongAgo
  <2> QED BY <2>1 DEF Init, SpacedInv
<1>2. SpacedInv => Spaced
  BY DEF SpacedInv, Remembers, Apart, Spaced
<1> QED BY <1>1, <1>2, SpacedStep, TypeCorrect, PTL DEF Spec

-----------------------------------------------------------------------------
(* Pruning.  At a call the last prune is less than two baselines ago, and  *)
(* what a prune leaves was seen in the two baselines before it.            *)

PruneInv ==
  /\ last_prune <= now
  /\ \A fp \in Fps : count[fp] > 0 =>
       /\ last_prune - last_seen[fp] <= 2 * MaxBaseline
       /\ decision.at - last_prune <= 2 * MaxBaseline

LEMMA PruneStep == TypeOK /\ PruneInv /\ [Next]_vars => PruneInv'
<1> SUFFICES ASSUME TypeOK, PruneInv, [Next]_vars PROVE PruneInv'
  OBVIOUS
<1>1. ASSUME NEW fp \in Fps, ShouldPublish(fp)
      PROVE  PruneInv'
  <2>1. PICK n \in 0 .. Len(rate[SourceOf[fp]]) :
          Suppress(fp, n) \/ \E suppressed \in {0, count[fp]} : Emit(fp, n, suppressed)
    BY <1>1, Branches
  <2>2. /\ now' = now
        /\ decision'.at = now
        /\ last_seen' = [Pruned(last_seen, 0) EXCEPT ![fp] = now]
        /\ last_prune' = IF PruneDue THEN now ELSE last_prune
        /\ \A g \in Fps \ {fp} : count'[g] = Pruned(count, 0)[g]
    <3>1. CASE Suppress(fp, n)
      BY <3>1 DEF Suppress, Seen, Pruned
    <3>2. ASSUME NEW suppressed, Emit(fp, n, suppressed)
          PROVE  /\ Seen(fp)
                 /\ decision'.at = now
                 /\ \A g \in Fps \ {fp} : count'[g] = Pruned(count, 0)[g]
      BY <3>2 DEF Emit, EmitWith, Pruned
    <3> QED BY <2>1, <3>1, <3>2 DEF Seen
  <2>3. /\ now \in Nat /\ last_prune \in Nat /\ Interval \in Nat
        /\ Interval <= 2 * MaxBaseline /\ MaxBaseline \in Nat
    BY ConfigType, SMTT(30) DEF TypeOK
  <2>4. last_prune' <= now' /\ now - last_prune' <= 2 * MaxBaseline
        /\ last_prune' \in Nat
    BY <2>2, <2>3 DEF PruneDue, PruneInv
  <2>5. last_seen'[fp] = now
    BY <2>2 DEF Pruned
  <2>6. ASSUME NEW g \in Fps, g # fp, count'[g] > 0
        PROVE  last_prune' - last_seen'[g] <= 2 * MaxBaseline
    <3>1. ~Stale(g) /\ count[g] > 0 /\ last_seen'[g] = last_seen[g]
      BY <2>2, <2>6 DEF Pruned
    <3>2. last_seen[g] \in Nat
      BY DEF TypeOK
    <3>3. CASE PruneDue
      <4>1. last_seen[g] >= now - Interval /\ last_prune' = now
        BY <2>2, <2>3, <3>1, <3>2, <3>3 DEF Stale
      <4> QED BY <2>3, <3>1, <3>2, <4>1
    <3>4. CASE ~PruneDue
      BY <2>2, <3>1, <3>4 DEF PruneInv
    <3> QED BY <3>3, <3>4
  <2>7. last_prune' - last_seen'[fp] <= 2 * MaxBaseline
    BY <2>2, <2>3, <2>4, <2>5
  <2> QED BY <2>2, <2>4, <2>6, <2>7 DEF PruneInv
<1>2. CASE SetConfig
  BY <1>2 DEF SetConfig, PruneInv
<1>3. CASE Tick
  BY <1>3 DEF Tick, PruneInv, TypeOK
<1>4. CASE UNCHANGED vars
  BY <1>4 DEF vars, PruneInv
<1> QED BY <1>1, <1>2, <1>3, <1>4 DEF Next

(* At each call every tracked fingerprint was seen during the last four    *)
(* baselines: states do not pile up while calls come in (dedup.py:209-220).*)
THEOREM Pruning == Spec => []TrackedAreRecent
<1>1. Init => PruneInv
  BY TimeAssumption DEF Init, PruneInv
<1>2. TypeOK /\ PruneInv => TrackedAreRecent
  <2> SUFFICES ASSUME TypeOK, PruneInv, NEW fp \in Fps, count[fp] > 0
               PROVE  decision.at - last_seen[fp] <= 4 * MaxBaseline
    BY DEF TrackedAreRecent
  <2>1. /\ decision.at \in Nat /\ last_prune \in Nat /\ last_seen[fp] \in Nat
        /\ MaxBaseline \in Nat
    BY ConfigAssumption DEF TypeOK
  <2> QED BY <2>1 DEF PruneInv
<1> QED BY <1>1, <1>2, PruneStep, TypeCorrect, PTL DEF Spec

-----------------------------------------------------------------------------
(* The count: it is restarted at 1 for the first occurrence, and at 0 by   *)
(* a prune, so it is what was missed or one more.                          *)

Counted(c, m) == c - m \in {0, 1} /\ (c = 0 => m = 0)

CountInv ==
  /\ CountWithinOne
  /\ \A fp \in Fps : Counted(count[fp], missed[fp])

LEMMA PruneKeepsCount ==
  ASSUME TypeOK, CountInv, NEW fp \in Fps
  PROVE  /\ Counted(Pruned(count, 0)[fp], Pruned(missed, 0)[fp])
         /\ Tracked(fp) => /\ Pruned(count, 0)[fp] = count[fp]
                           /\ Pruned(missed, 0)[fp] = missed[fp]
         /\ ~Tracked(fp) => Pruned(missed, 0)[fp] = 0
         /\ Pruned(count, 0)[fp] \in Nat /\ Pruned(missed, 0)[fp] \in Nat
BY DEF TypeOK, CountInv, Counted, Pruned, Tracked

LEMMA OfCall ==
  ASSUME TypeOK, CountInv, NEW fp \in Fps, ShouldPublish(fp)
  PROVE  CountInv'
<1>1. PICK n \in 0 .. Len(rate[SourceOf[fp]]) :
        \/ Suppress(fp, n)
        \/ ~Tracked(fp) /\ Emit(fp, n, 0)
        \/ Tracked(fp) /\ Emit(fp, n, count[fp])
  BY DEF ShouldPublish
<1>2. ASSUME NEW other \in Fps \ {fp},
             count'[other] = Pruned(count, 0)[other],
             missed'[other] = Pruned(missed, 0)[other]
      PROVE  Counted(count'[other], missed'[other])
  BY <1>2, PruneKeepsCount
<1>3. CASE Suppress(fp, n)
  <2>1. /\ count' = [Pruned(count, 0) EXCEPT ![fp] = @ + 1]
        /\ missed' = [Pruned(missed, 0) EXCEPT ![fp] = @ + 1]
        /\ decision'.action = "suppress"
    BY <1>3 DEF Suppress
  <2>2. /\ count'[fp] = Pruned(count, 0)[fp] + 1
        /\ missed'[fp] = Pruned(missed, 0)[fp] + 1
        /\ \A other \in Fps \ {fp} : /\ count'[other] = Pruned(count, 0)[other]
                                       /\ missed'[other] = Pruned(missed, 0)[other]
    BY <2>1 DEF Pruned
  <2>3. Counted(count'[fp], missed'[fp])
    BY <2>2, PruneKeepsCount DEF Counted
  <2>4. CountWithinOne'
    BY <2>1 DEF CountWithinOne
  <2> QED BY <1>2, <2>2, <2>3, <2>4 DEF CountInv
<1>4. ASSUME NEW suppressed \in Nat, Emit(fp, n, suppressed),
             suppressed - Pruned(missed, 0)[fp] \in {0, 1}
      PROVE  CountInv'
  <2>1. /\ count' = [Pruned(count, 0) EXCEPT ![fp] = 1]
        /\ missed' = [Pruned(missed, 0) EXCEPT ![fp] = 0]
        /\ decision' = [action |-> "emit", suppressed_count |-> suppressed,
                        missed |-> Pruned(missed, 0)[fp], at |-> now]
    BY <1>4 DEF Emit, EmitWith
  <2>2. /\ count'[fp] = 1 /\ missed'[fp] = 0
        /\ \A other \in Fps \ {fp} : /\ count'[other] = Pruned(count, 0)[other]
                                       /\ missed'[other] = Pruned(missed, 0)[other]
    BY <2>1 DEF Pruned
  <2>3. Counted(count'[fp], missed'[fp])
    BY <2>2 DEF Counted
  <2>4. CountWithinOne'
    BY <1>4, <2>1 DEF CountWithinOne
  <2> QED BY <1>2, <2>2, <2>3, <2>4 DEF CountInv
<1>5. CASE ~Tracked(fp) /\ Emit(fp, n, 0)
  BY <1>4, <1>5, PruneKeepsCount
<1>6. CASE Tracked(fp) /\ Emit(fp, n, count[fp])
  BY <1>4, <1>6, PruneKeepsCount DEF Counted, TypeOK
<1> QED BY <1>1, <1>3, <1>5, <1>6

LEMMA CountStep == TypeOK /\ CountInv /\ [Next]_vars => CountInv'
<1> SUFFICES ASSUME TypeOK, CountInv, [Next]_vars PROVE CountInv'
  OBVIOUS
<1>1. CASE SetConfig \/ Tick \/ UNCHANGED vars
  BY <1>1 DEF SetConfig, Tick, vars, CountInv, CountWithinOne
<1> QED BY <1>1, OfCall DEF Next

(* The number of suppressed occurrences that an emission reports is never  *)
(* too small and at most one too large, whatever prunes, rate limits and   *)
(* configurations come between (dedup.py:135-187).                         *)
THEOREM Counting == Spec => []CountWithinOne
<1>1. Init => CountInv
  BY DEF Init, CountInv, CountWithinOne, Counted
<1>2. CountInv => CountWithinOne
  BY DEF CountInv
<1> QED BY <1>1, <1>2, CountStep, TypeCorrect, PTL DEF Spec

-----------------------------------------------------------------------------
(* The journald source.  An entry moves from the buffer into the list of a *)
(* flush and on to the bus, or is gone; in each place they are in journal  *)
(* order, and each place is behind the next one.                           *)

Held == J!Range(entries["batcher"]) \union J!Range(entries["stop"])

Listed == J!Range(published) \union Held \union J!Range(buffer)

Gone == UNION {gone[r] : r \in J!Reasons}

Rising(s) == \A i, j \in DOMAIN s : i < j => s[i] < s[j]

Below(low, high) == \A d \in low, e \in high : d < e

SourceTypes ==
  /\ journal \in Seq(J!Kinds)
  /\ {buffer, published} \subseteq Seq(Nat)
  /\ entries \in [J!Flushers -> Seq(Nat)]
  /\ gone \in [J!Reasons -> SUBSET Nat]
  /\ at \in [J!Flushers -> {"off", "asleep", "drain", "publish", "yield"}]
  /\ stopper \in {"idle", "cancelling", "flushing", "stopped"}

(* One of the two flushes at a time, and one that does not has no list.    *)
OneFlushes ==
  /\ at["batcher"] = "off" <=> stopper \in {"flushing", "stopped"}
  /\ at["stop"] # "off" <=> stopper = "flushing"
  /\ at["stop"] # "asleep"
  /\ \A f \in J!Flushers : at[f] \in {"off", "asleep"} => entries[f] = << >>

InLine ==
  /\ Rising(published) /\ Rising(buffer)
  /\ \A f \in J!Flushers : Rising(entries[f])
  /\ Below(J!Range(published), Held)
  /\ Below(J!Range(published), J!Range(buffer))
  /\ Below(Held, J!Range(buffer))

Placed ==
  /\ Listed \union Gone = 1 .. Len(journal)
  /\ Listed \intersect Gone = {}
  /\ \A q, r \in J!Reasons : q # r => gone[q] \intersect gone[r] = {}

(* What was read before stop() and is not out is in its last flush, or is  *)
(* drained by it.                                                          *)
StopTakesTheRest ==
  /\ atStop \subseteq 1 .. Len(journal)
  /\ stopper \in {"flushing", "stopped"} =>
       atStop \subseteq J!Range(published) \union Gone \union Held
                          \union (IF at["stop"] = "drain" THEN J!Range(buffer) ELSE {})

SourceInv ==
  /\ SourceTypes
  /\ OneFlushes
  /\ InLine
  /\ Placed
  /\ StopTakesTheRest
  /\ J!CritIsAnnounced

(* The end of a sequence in order.                                         *)
LEMMA RisingAppend ==
  ASSUME NEW s \in Seq(Nat), Rising(s), NEW x \in Nat, \A d \in J!Range(s) : d < x
  PROVE  /\ Append(s, x) \in Seq(Nat) /\ Rising(Append(s, x))
         /\ J!Range(Append(s, x)) = J!Range(s) \union {x}
<1> PICK t : t = Append(s, x)
  OBVIOUS
<1>1. /\ t \in Seq(Nat) /\ Len(s) \in Nat
      /\ DOMAIN s = 1 .. Len(s) /\ DOMAIN t = 1 .. Len(s) + 1
      /\ \A i \in 1 .. Len(s) : t[i] = s[i]
      /\ t[Len(s) + 1] = x
  OBVIOUS
<1>2. Rising(t)
  <2> SUFFICES ASSUME NEW i \in DOMAIN t, NEW j \in DOMAIN t, i < j PROVE t[i] < t[j]
    BY DEF Rising
  <2>1. i \in DOMAIN s /\ t[i] = s[i] /\ s[i] \in J!Range(s)
    BY <1>1 DEF J!Range
  <2>2. CASE j \in DOMAIN s
    BY <1>1, <2>1, <2>2 DEF Rising
  <2>3. CASE j \notin DOMAIN s
    <3>1. t[j] = x
      BY <1>1, <2>3
    <3> QED BY <2>1, <3>1
  <2> QED BY <2>2, <2>3
<1>3. J!Range(t) = J!Range(s) \union {x}
  <2>1. ASSUME NEW i \in DOMAIN t PROVE t[i] \in J!Range(s) \union {x}
    <3>1. CASE i \in DOMAIN s
      BY <1>1, <3>1 DEF J!Range
    <3>2. CASE i \notin DOMAIN s
      <4>1. t[i] = x
        BY <1>1, <3>2
      <4> QED BY <4>1
    <3> QED BY <3>1, <3>2
  <2>2. ASSUME NEW i \in DOMAIN s PROVE s[i] \in J!Range(t)
    <3>1. i \in DOMAIN t /\ t[i] = s[i]
      BY <1>1
    <3> QED BY <3>1 DEF J!Range
  <2>3. x \in J!Range(t)
    <3>1. Len(s) + 1 \in DOMAIN t
      BY <1>1
    <3> QED BY <1>1, <3>1 DEF J!Range
  <2> QED BY <2>1, <2>2, <2>3 DEF J!Range
<1> QED BY <1>1, <1>2, <1>3

(* The head of a sequence in order, and the rest of it.                    *)
LEMMA RisingTail ==
  ASSUME NEW s \in Seq(Nat), Rising(s), s # << >>
  PROVE  /\ Head(s) \in Nat /\ Tail(s) \in Seq(Nat) /\ Rising(Tail(s))
         /\ J!Range(s) = {Head(s)} \union J!Range(Tail(s))
         /\ \A d \in J!Range(Tail(s)) : Head(s) < d
<1> PICK t : t = Tail(s)
  OBVIOUS
<1>1. /\ t \in Seq(Nat) /\ Len(s) \in Nat \ {0} /\ Head(s) = s[1] /\ Head(s) \in Nat
      /\ DOMAIN s = 1 .. Len(s) /\ DOMAIN t = 1 .. Len(s) - 1
      /\ \A i \in DOMAIN t : t[i] = s[i + 1] /\ i + 1 \in DOMAIN s
  OBVIOUS
<1>2. Rising(t)
  <2> SUFFICES ASSUME NEW i \in DOMAIN t, NEW j \in DOMAIN t, i < j PROVE t[i] < t[j]
    BY DEF Rising
  <2>1. i + 1 < j + 1
    BY <1>1
  <2> QED BY <1>1, <2>1 DEF Rising
<1>3. ASSUME NEW i \in DOMAIN t PROVE t[i] \in J!Range(s) /\ Head(s) < t[i]
  <2>1. 1 \in DOMAIN s /\ 1 < i + 1
    BY <1>1
  <2> QED BY <1>1, <2>1 DEF Rising, J!Range
<1>4. ASSUME NEW i \in DOMAIN s PROVE s[i] \in {Head(s)} \union J!Range(t)
  <2>1. CASE i = 1
    BY <1>1, <2>1
  <2>2. CASE i # 1
    <3>1. i - 1 \in DOMAIN t /\ t[i - 1] = s[(i - 1) + 1] /\ (i - 1) + 1 = i
      BY <1>1, <2>2
    <3> QED BY <3>1 DEF J!Range
  <2> QED BY <2>1, <2>2
<1>5. Head(s) \in J!Range(s)
  <2>1. 1 \in DOMAIN s
    BY <1>1
  <2> QED BY <1>1, <2>1 DEF J!Range
<1> QED BY <1>1, <1>2, <1>3, <1>4, <1>5 DEF J!Range

LEMMA ListIsSeq ==
  ASSUME NEW n \in Nat, NEW list \in [1 .. n -> Nat]
  PROVE  list \in Seq(Nat)
OBVIOUS

(* The critical entries of a list in order.                                *)
LEMMA RisingCrits ==
  ASSUME NEW s \in Seq(Nat), Rising(s), NEW kept \in J!Crits(s)
  PROVE  /\ kept \in Seq(Nat) /\ Rising(kept)
         /\ J!Range(kept) = {e \in J!Range(s) : J!IsCrit(e)}
<1> PICK places : places = {i \in DOMAIN s : J!IsCrit(s[i])}
  OBVIOUS
<1> PICK which \in J!InOrder(places) : kept = [k \in DOMAIN which |-> s[which[k]]]
  BY DEF J!Crits
<1>1. /\ which \in [1 .. J!Cardinality(places) -> places] /\ J!Range(which) = places
      /\ \A i, j \in DOMAIN which : i < j => which[i] < which[j]
  BY DEF J!InOrder
<1>2. DOMAIN s = 1 .. Len(s) /\ Len(s) \in Nat /\ \A i \in DOMAIN s : s[i] \in Nat
  OBVIOUS
<1>3. J!Cardinality(places) \in Nat
  <2>1. IsFiniteSet(1 .. Len(s))
    BY <1>2, FS_Interval
  <2>2. places \in SUBSET (1 .. Len(s))
    BY <1>2
  <2>3. IsFiniteSet(places)
    BY <2>1, <2>2, FS_Subset, ZenonT(30)
  <2>4. J!Cardinality(places) = Cardinality(places)
    BY DEF J!Cardinality, Cardinality
  <2> QED BY <2>3, <2>4, FS_CardinalityType
<1>4. /\ DOMAIN which = 1 .. J!Cardinality(places) /\ DOMAIN kept = DOMAIN which
      /\ \A k \in DOMAIN which : which[k] \in places /\ kept[k] = s[which[k]]
  BY <1>1
<1>5. \A k \in DOMAIN kept : kept[k] \in Nat
  BY <1>2, <1>4
<1>6. kept \in Seq(Nat)
  <2> PICK n : n = J!Cardinality(places)
    OBVIOUS
  <2>1. n \in Nat /\ kept \in [1 .. n -> Nat]
    BY <1>3, <1>4, <1>5
  <2> QED BY <2>1, ListIsSeq
<1>7. Rising(kept)
  BY <1>1, <1>4 DEF Rising
<1>8. ASSUME NEW k \in DOMAIN kept PROVE kept[k] \in {e \in J!Range(s) : J!IsCrit(e)}
  BY <1>4 DEF J!Range
<1>9. ASSUME NEW i \in DOMAIN s, J!IsCrit(s[i]) PROVE s[i] \in J!Range(kept)
  <2>1. i \in J!Range(which)
    BY <1>1, <1>9
  <2>2. PICK k \in DOMAIN which : which[k] = i
    BY <2>1 DEF J!Range
  <2> QED BY <1>4, <2>2 DEF J!Range
<1>10. J!Range(kept) = {e \in J!Range(s) : J!IsCrit(e)}
  <2>1. \A e \in J!Range(kept) : e \in J!Range(s) /\ J!IsCrit(e)
    BY <1>8 DEF J!Range
  <2>2. \A e \in J!Range(s) : J!IsCrit(e) => e \in J!Range(kept)
    BY <1>9 DEF J!Range
  <2> QED BY <2>1, <2>2
<1> QED BY <1>6, <1>7, <1>10

LEMMA OfNothing == J!Range(<< >>) = {} /\ Rising(<< >>)
BY DEF J!Range, Rising

LEMMA SourceInit == J!Init => SourceInv
<1> SUFFICES ASSUME J!Init PROVE SourceInv
  OBVIOUS
<1>1. /\ journal = << >> /\ buffer = << >> /\ published = << >> /\ atStop = {}
      /\ at = [batcher |-> "asleep", stop |-> "off"] /\ stopper = "idle"
      /\ entries = [f \in J!Flushers |-> << >>] /\ gone = [r \in J!Reasons |-> {}]
  BY DEF J!Init
<1>2. /\ J!Range(published) = {} /\ J!Range(buffer) = {} /\ Held = {} /\ Gone = {} /\ Listed = {}
  BY <1>1, OfNothing DEF Held, Gone, Listed, J!Flushers
<1>3. SourceTypes
  <2>1. journal \in Seq(J!Kinds) /\ {buffer, published} \subseteq Seq(Nat)
    BY <1>1
  <2>2. entries \in [J!Flushers -> Seq(Nat)] /\ gone \in [J!Reasons -> SUBSET Nat]
    BY <1>1
  <2>3. at \in [J!Flushers -> {"off", "asleep", "drain", "publish", "yield"}]
    BY <1>1 DEF J!Flushers
  <2> QED BY <1>1, <2>1, <2>2, <2>3 DEF SourceTypes
<1>4. OneFlushes
  BY <1>1 DEF OneFlushes, J!Flushers
<1>5. InLine
  BY <1>1, <1>2 DEF InLine, Rising, Below
<1>6. Placed
  <2>1. 1 .. Len(journal) = {}
    BY <1>1
  <2> QED BY <1>1, <1>2, <2>1 DEF Placed
<1>7. StopTakesTheRest /\ J!CritIsAnnounced
  BY <1>1, <1>2 DEF StopTakesTheRest, J!CritIsAnnounced
<1> QED BY <1>3, <1>4, <1>5, <1>6, <1>7 DEF SourceInv

(* While one flushes, the other has no list and is off, or asleep.         *)
LEMMA Alone ==
  ASSUME SourceTypes, OneFlushes, NEW f \in J!Flushers, at[f] \in {"drain", "publish", "yield"}
  PROVE  /\ Held = J!Range(entries[f])
         /\ \A g \in J!Flushers : g # f => at[g] = "off" /\ entries[g] = << >>
<1>1. \A g \in J!Flushers : g # f => at[g] = "off" /\ entries[g] = << >>
  BY DEF SourceTypes, OneFlushes, J!Flushers
<1> QED BY <1>1, OfNothing DEF Held, J!Flushers

(* The steps that leave each entry where it is.                            *)
Still == UNCHANGED << journal, buffer, entries, published, gone >>

LEMMA OfStill ==
  ASSUME SourceInv, Still, SourceTypes', OneFlushes', StopTakesTheRest', J!CritIsAnnounced'
  PROVE  SourceInv'
<1>1. InLine' /\ Placed'
  BY DEF SourceInv, Still, InLine, Placed, Held, Listed, Gone
<1> QED BY <1>1 DEF SourceInv

LEMMA OfReaderAlone ==
  ASSUME SourceInv,
         \/ J!ReaderCheck \/ J!ReaderIterated \/ J!ReaderFails \/ J!ReaderFlags
         \/ J!GraceEnds \/ J!WakeIdle \/ UNCHANGED J!vars
  PROVE  SourceInv'
<1>1. Still /\ UNCHANGED << at, stopper, atStop >>
  BY DEF J!ReaderCheck, J!ReaderIterated, J!ReaderFails, J!ReaderFlags, J!GraceEnds, J!WakeIdle,
     J!vars, J!loopVars, J!threadVars, Still
<1>2. (urgent => urgent') /\ (reader = "flag" => reader' = "flag" \/ urgent')
  BY DEF J!ReaderCheck, J!ReaderIterated, J!ReaderFails, J!ReaderFlags, J!GraceEnds, J!WakeIdle,
     J!vars, J!loopVars, J!threadVars
<1>3. J!CritIsAnnounced'
  BY <1>1, <1>2 DEF SourceInv, Still, J!CritIsAnnounced, J!IsCrit
<1>4. SourceTypes' /\ OneFlushes'
  BY <1>1 DEF SourceInv, SourceTypes, OneFlushes, Still
<1>5. StopTakesTheRest'
  BY <1>1 DEF SourceInv, StopTakesTheRest, Still, Held, Gone
<1> QED BY <1>1, <1>3, <1>4, <1>5, OfStill

(* The batcher begins a flush, ends one, or one goes on after a pause.     *)
LEMMA OfBatcherAlone ==
  ASSUME SourceInv,
         J!WakeUrgent \/ J!WakeBatch \/ J!BatcherFlushed \/ \E f \in J!Flushers : J!Resume(f)
  PROVE  SourceInv'
<1> PICK f \in J!Flushers : J!WakeUrgent \/ J!WakeBatch \/ J!BatcherFlushed \/ J!Resume(f)
  BY DEF J!Flushers
<1> PICK g \in J!Flushers : g = IF J!WakeUrgent \/ J!WakeBatch \/ J!BatcherFlushed
                                THEN "batcher" ELSE f
  BY DEF J!Flushers
<1>1. /\ UNCHANGED << journal, buffer, published, gone, stopper, atStop, reader >>
      /\ at' = at \/ \E to \in {"asleep", "drain", "publish"} : at' = [at EXCEPT ![g] = to]
      /\ at[g] \notin {"off", "drain"}
      /\ J!WakeUrgent \/ J!WakeBatch => g = "batcher" /\ at[g] = "asleep"
      /\ (buffer # << >> /\ ~urgent') => ~urgent \/ at' = [at EXCEPT ![g] = "drain"]
  BY DEF J!WakeUrgent, J!WakeBatch, J!BatcherFlushed, J!Resume, J!FlushOrSleep, J!BeginFlush,
     J!threadVars
<1>2. entries' = entries
  <2>1. CASE J!WakeUrgent \/ J!WakeBatch
    <3>1. entries' = entries \/ entries' = [entries EXCEPT !["batcher"] = << >>]
      BY <2>1 DEF J!WakeUrgent, J!WakeBatch, J!FlushOrSleep, J!BeginFlush
    <3>2. entries["batcher"] = << >> /\ entries \in [J!Flushers -> Seq(Nat)]
      BY <1>1, <2>1 DEF SourceInv, SourceTypes, OneFlushes
    <3> QED BY <3>1, <3>2
  <2>2. CASE J!BatcherFlushed \/ J!Resume(f)
    BY <2>2 DEF J!BatcherFlushed, J!Resume
  <2> QED BY <2>1, <2>2
<1>3. Still
  BY <1>1, <1>2 DEF Still
<1>4. SourceTypes'
  BY <1>1, <1>2 DEF SourceInv, SourceTypes
<1>5. at' # at => \E to \in {"asleep", "drain", "publish"} :
                    /\ at' = [at EXCEPT ![g] = to]
                    /\ to = "asleep" => entries[g] = << >> /\ g = "batcher"
  BY DEF J!WakeUrgent, J!WakeBatch, J!BatcherFlushed, J!Resume, J!FlushOrSleep, J!BeginFlush
<1>6. OneFlushes'
  BY <1>1, <1>2, <1>5 DEF SourceInv, OneFlushes, SourceTypes, J!Flushers
<1>7. StopTakesTheRest'
  <2>1. at["stop"] = "drain" => at'["stop"] = "drain"
    BY <1>1 DEF SourceInv, SourceTypes, J!Flushers
  <2>2. UNCHANGED << Held, Gone >>
    BY <1>1, <1>2 DEF Held, Gone
  <2> QED BY <1>1, <2>1, <2>2 DEF SourceInv, StopTakesTheRest
<1>8. J!CritIsAnnounced'
  <2> SUFFICES ASSUME NEW e \in J!Range(buffer), J!IsCrit(e), ~urgent', reader # "flag"
               PROVE  \E h \in J!Flushers : at'[h] = "drain"
    BY <1>1 DEF J!CritIsAnnounced, J!IsCrit
  <2>1. buffer # << >>
    BY OfNothing
  <2>2. CASE at' = [at EXCEPT ![g] = "drain"]
    BY <2>2 DEF SourceInv, SourceTypes
  <2>3. CASE ~urgent
    <3>1. PICK h \in J!Flushers : at[h] = "drain"
      BY <2>3 DEF SourceInv, J!CritIsAnnounced
    <3>2. at'[h] = "drain"
      BY <1>1, <3>1 DEF SourceInv, SourceTypes
    <3> QED BY <3>2
  <2> QED BY <1>1, <2>1, <2>2, <2>3
<1> QED BY <1>3, <1>4, <1>6, <1>7, <1>8, OfStill

(* An entry comes to the journal, and to the buffer unless it is skipped;  *)
(* a full buffer drops its oldest.                                         *)
LEMMA OfReaderSkips ==
  ASSUME SourceInv, J!ReaderSkips
  PROVE  SourceInv'
<1> PICK n : n = Len(journal) + 1
  OBVIOUS
<1>1. /\ journal' = Append(journal, "kernel_notice")
      /\ gone' = [gone EXCEPT !["skipped"] = @ \union {n}]
      /\ UNCHANGED << buffer, entries, published, at, stopper, atStop, urgent, reader >>
  BY DEF J!ReaderSkips, J!Lose, J!loopVars
<1>2. /\ journal' \in Seq(J!Kinds) /\ Len(journal') = n /\ n - 1 = Len(journal) /\ n \in Nat \ {0}
      /\ \A e \in 1 .. Len(journal) : journal'[e] = journal[e]
  BY <1>1 DEF SourceInv, SourceTypes, J!Kinds
<1>3. UNCHANGED << Held, Listed >>
  BY <1>1 DEF Held, Listed
<1>4. Gone' = Gone \union {n}
  BY <1>1 DEF SourceInv, SourceTypes, Gone, J!Reasons
<1>5. SourceTypes' /\ OneFlushes' /\ InLine'
  <2>1. gone' \in [J!Reasons -> SUBSET Nat]
    BY <1>1, <1>2 DEF SourceInv, SourceTypes
  <2> QED BY <1>1, <1>2, <1>3, <2>1 DEF SourceInv, SourceTypes, OneFlushes, InLine
<1>6. n \notin Listed \union Gone /\ 1 .. n = (1 .. Len(journal)) \union {n}
  BY <1>2 DEF SourceInv, Placed
<1>7. Placed'
  <2>1. \A r \in J!Reasons : n \notin gone[r]
    BY <1>6 DEF Gone
  <2>2. \A q, r \in J!Reasons : q # r => gone'[q] \intersect gone'[r] = {}
    BY <1>1, <2>1 DEF SourceInv, SourceTypes, Placed
  <2> QED BY <1>2, <1>3, <1>4, <1>6, <2>2 DEF SourceInv, Placed
<1>8. StopTakesTheRest'
  BY <1>1, <1>2, <1>3, <1>4, <1>6 DEF SourceInv, StopTakesTheRest
<1>9. J!CritIsAnnounced'
  <2>1. \A e \in J!Range(buffer) : journal'[e] = journal[e]
    BY <1>2 DEF SourceInv, Placed, Listed
  <2> QED BY <1>1, <2>1 DEF SourceInv, J!CritIsAnnounced, J!IsCrit
<1> QED BY <1>5, <1>7, <1>8, <1>9 DEF SourceInv

LEMMA OfReaderAppends ==
  ASSUME SourceInv, NEW kind \in {"crit", "err"}, J!ReaderAppends(kind)
  PROVE  SourceInv'
<1> PICK n : n = Len(journal) + 1
  OBVIOUS
<1> PICK rest : rest = IF J!BufferFull THEN Tail(buffer) ELSE buffer
  OBVIOUS
<1> PICK oldest : oldest = IF J!BufferFull THEN {Head(buffer)} ELSE {}
  OBVIOUS
<1>1. /\ journal' = Append(journal, kind) /\ buffer' = Append(rest, n)
      /\ gone' = [gone EXCEPT !["evicted"] = @ \union oldest]
      /\ reader' = IF kind = "crit" THEN "flag" ELSE "iterate"
      /\ reader # "flag"
      /\ UNCHANGED << entries, published, at, stopper, atStop, urgent >>
  BY DEF J!ReaderAppends, J!Lose, J!loopVars
<1>2. /\ journal' \in Seq(J!Kinds) /\ Len(journal') = n /\ n - 1 = Len(journal) /\ n \in Nat \ {0}
      /\ journal'[n] = kind
      /\ \A e \in 1 .. Len(journal) : journal'[e] = journal[e]
  BY <1>1 DEF SourceInv, SourceTypes, J!Kinds
<1>3. buffer \in Seq(Nat) /\ Rising(buffer)
  BY DEF SourceInv, SourceTypes, InLine
<1>4. /\ rest \in Seq(Nat) /\ Rising(rest) /\ J!Range(buffer) = oldest \union J!Range(rest)
      /\ oldest \intersect J!Range(rest) = {} /\ oldest \subseteq Nat
  <2>1. CASE J!BufferFull
    <3>1. buffer # << >>
      BY <2>1, BufferAssumption DEF J!BufferFull
    <3>2. /\ Head(buffer) \in Nat /\ Tail(buffer) \in Seq(Nat) /\ Rising(Tail(buffer))
          /\ J!Range(buffer) = {Head(buffer)} \union J!Range(Tail(buffer))
          /\ \A d \in J!Range(Tail(buffer)) : Head(buffer) < d
      BY <1>3, <3>1, RisingTail
    <3>3. Head(buffer) \notin J!Range(Tail(buffer))
      BY <3>2
    <3> QED BY <2>1, <3>2, <3>3
  <2>2. CASE ~J!BufferFull
    BY <1>3, <2>2
  <2> QED BY <2>1, <2>2
<1>5. n \notin Listed \union Gone /\ 1 .. n = (1 .. Len(journal)) \union {n}
      /\ \A e \in Listed : e < n
  BY <1>2 DEF SourceInv, Placed
<1>6. /\ buffer' \in Seq(Nat) /\ Rising(buffer')
      /\ J!Range(buffer') = J!Range(rest) \union {n}
  <2>1. \A e \in J!Range(rest) : e < n
    BY <1>4, <1>5 DEF Listed
  <2> QED BY <1>1, <1>2, <1>4, <2>1, RisingAppend
<1>7. Held' = Held /\ Listed' = (Listed \ oldest) \union {n}
  <2>1. oldest \intersect (J!Range(published) \union Held) = {}
    <3>1. Below(J!Range(published), J!Range(buffer)) /\ Below(Held, J!Range(buffer))
      BY DEF SourceInv, InLine
    <3>2. \A e \in oldest : e \in J!Range(buffer) /\ e \in Nat
      BY <1>4
    <3>3. \A e \in oldest : ~(e < e)
      BY <3>2
    <3> QED BY <3>1, <3>2, <3>3 DEF Below
  <2>2. Held' = Held
    BY <1>1 DEF Held
  <2> QED BY <1>1, <1>4, <1>6, <2>1, <2>2 DEF Listed
<1>8. Gone' = Gone \union oldest
  BY <1>1 DEF SourceInv, SourceTypes, Gone, J!Reasons
<1>9. oldest \subseteq Listed
  BY <1>4 DEF Listed
<1>10. SourceTypes'
  <2>1. gone' \in [J!Reasons -> SUBSET Nat]
    BY <1>1, <1>4 DEF SourceInv, SourceTypes
  <2> QED BY <1>1, <1>2, <1>6, <2>1 DEF SourceInv, SourceTypes
<1>11. OneFlushes'
  BY <1>1 DEF SourceInv, OneFlushes
<1>12. InLine'
  <2>1. \A e \in J!Range(published) \union Held : e < n
    BY <1>5 DEF Listed
  <2> QED BY <1>1, <1>4, <1>6, <1>7, <2>1 DEF SourceInv, InLine, Below
<1>13. Placed'
  <2>1. \A r \in J!Reasons : oldest \intersect gone[r] = {}
    BY <1>9 DEF SourceInv, Placed, Gone
  <2>2. \A q, r \in J!Reasons : q # r => gone'[q] \intersect gone'[r] = {}
    BY <1>1, <2>1 DEF SourceInv, SourceTypes, Placed
  <2> QED BY <1>2, <1>5, <1>7, <1>8, <1>9, <2>2 DEF SourceInv, Placed
<1>14. StopTakesTheRest'
  BY <1>1, <1>2, <1>4, <1>5, <1>6, <1>7, <1>8 DEF SourceInv, StopTakesTheRest
<1>15. J!CritIsAnnounced'
  <2> SUFFICES ASSUME NEW e \in J!Range(buffer'), journal'[e] = "crit", ~urgent', reader' # "flag"
               PROVE  \E f \in J!Flushers : at'[f] = "drain"
    BY DEF J!CritIsAnnounced, J!IsCrit
  <2>1. e # n
    BY <1>1, <1>2
  <2>2. e \in J!Range(buffer) /\ e \in 1 .. Len(journal)
    BY <1>4, <1>6, <2>1 DEF SourceInv, Placed, Listed
  <2>3. journal[e] = "crit"
    BY <1>2, <2>2
  <2> QED BY <1>1, <2>2, <2>3 DEF SourceInv, J!CritIsAnnounced, J!IsCrit
<1> QED BY <1>10, <1>11, <1>12, <1>13, <1>14, <1>15 DEF SourceInv

(* Entries leave the list of a flush, for a reason.                        *)
LEMMA OfLeaving ==
  ASSUME SourceInv, SourceTypes', OneFlushes', NEW r \in J!Reasons, NEW leaving \in SUBSET Held,
         UNCHANGED << journal, buffer, published, atStop >>,
         gone' = [gone EXCEPT ![r] = @ \union leaving],
         Held' = Held \ leaving, \A f \in J!Flushers : Rising(entries'[f]),
         stopper' = stopper,
         at["stop"] = "drain" => at'["stop"] = "drain" \/ buffer = << >>,
         J!CritIsAnnounced'
  PROVE  SourceInv'
<1>1. Gone' = Gone \union leaving
  BY DEF SourceInv, SourceTypes, Gone, J!Reasons
<1>2. InLine'
  BY DEF SourceInv, InLine, Below
<1>3. leaving \intersect (J!Range(published) \union J!Range(buffer)) = {}
  <2>1. Below(J!Range(published), Held) /\ Below(Held, J!Range(buffer))
    BY DEF SourceInv, InLine
  <2>2. \A e \in leaving : e \in Held /\ ~(e < e)
    BY DEF SourceInv, Placed, Listed
  <2> QED BY <2>1, <2>2 DEF Below
<1>4. Listed' = Listed \ leaving /\ leaving \subseteq Listed
  BY <1>3 DEF Listed
<1>5. Placed'
  <2>1. \A q \in J!Reasons : leaving \intersect gone[q] = {}
    BY <1>4 DEF SourceInv, Placed, Gone
  <2>2. \A p, q \in J!Reasons : p # q => gone'[p] \intersect gone'[q] = {}
    BY <2>1 DEF SourceInv, SourceTypes, Placed
  <2> QED BY <1>1, <1>4, <2>2 DEF SourceInv, Placed
<1>6. StopTakesTheRest'
  BY <1>1, OfNothing DEF SourceInv, StopTakesTheRest
<1> QED BY <1>2, <1>5, <1>6 DEF SourceInv

LEMMA OfDrained ==
  ASSUME SourceInv, NEW f \in J!Flushers, J!Drained(f)
  PROVE  SourceInv'
<1> PICK kept \in IF grace THEN J!Crits(entries[f]) ELSE {entries[f]} :
      /\ at[f] = "drain" /\ buffer = << >>
      /\ at' = [at EXCEPT ![f] = "publish"]
      /\ entries' = [entries EXCEPT ![f] = kept]
      /\ J!Lose(IF grace THEN {e \in J!Range(entries[f]) : ~J!IsCrit(e)} ELSE {}, "graced")
      /\ UNCHANGED << buffer, urgent, grace, ticks, progress, stopper, published, atStop >>
      /\ UNCHANGED J!threadVars
  BY DEF J!Drained
<1> PICK leaving : leaving = IF grace THEN {e \in J!Range(entries[f]) : ~J!IsCrit(e)} ELSE {}
  OBVIOUS
<1>1. /\ gone' = [gone EXCEPT !["graced"] = @ \union leaving] /\ "graced" \in J!Reasons
      /\ UNCHANGED << journal, buffer, published, atStop, stopper >>
  BY DEF J!Lose, J!threadVars, J!Reasons
<1>2. entries[f] \in Seq(Nat) /\ Rising(entries[f])
  BY DEF SourceInv, SourceTypes, InLine
<1>3. kept \in Seq(Nat) /\ Rising(kept) /\ J!Range(kept) = J!Range(entries[f]) \ leaving
  <2>1. CASE grace
    <3>1. /\ kept \in Seq(Nat) /\ Rising(kept)
          /\ J!Range(kept) = {e \in J!Range(entries[f]) : J!IsCrit(e)}
      BY <1>2, <2>1, RisingCrits
    <3> QED BY <2>1, <3>1
  <2>2. CASE ~grace
    BY <1>2, <2>2
  <2> QED BY <2>1, <2>2
<1>4. /\ Held = J!Range(entries[f])
      /\ \A g \in J!Flushers : g # f => at[g] = "off" /\ entries[g] = << >>
  BY Alone DEF SourceInv
<1>5. /\ entries'[f] = kept /\ \A g \in J!Flushers : g # f => entries'[g] = << >>
      /\ entries' \in [J!Flushers -> Seq(Nat)]
  BY <1>3, <1>4 DEF SourceInv, SourceTypes
<1>6. Held' = J!Range(kept)
  BY <1>5, OfNothing DEF Held, J!Flushers
<1>7. SourceTypes'
  <2>1. leaving \subseteq Nat
    BY <1>4 DEF SourceInv, Placed, Listed
  <2>2. gone' \in [J!Reasons -> SUBSET Nat]
    BY <1>1, <2>1 DEF SourceInv, SourceTypes
  <2> QED BY <1>1, <1>5, <2>2 DEF SourceInv, SourceTypes
<1>8. OneFlushes'
  BY <1>1, <1>4, <1>5 DEF SourceInv, SourceTypes, OneFlushes, J!Flushers
<1>9. \A g \in J!Flushers : Rising(entries'[g])
  BY <1>3, <1>5, OfNothing
<1>10. J!CritIsAnnounced'
  BY <1>1, OfNothing DEF J!CritIsAnnounced
<1>11. leaving \in SUBSET Held /\ Held' = Held \ leaving
  BY <1>3, <1>4, <1>6
<1>12. \A r \in J!Reasons : gone' = [gone EXCEPT ![r] = @ \union leaving] => SourceInv'
  BY <1>1, <1>7, <1>8, <1>9, <1>10, <1>11, OfLeaving
<1> QED BY <1>1, <1>12

LEMMA OfSuppress ==
  ASSUME SourceInv, NEW f \in J!Flushers, J!Suppress(f)
  PROVE  SourceInv'
<1> PICK head : head = Head(entries[f])
  OBVIOUS
<1> PICK rest : rest = Tail(entries[f])
  OBVIOUS
<1>1. /\ at[f] = "publish" /\ entries[f] # << >>
      /\ entries' = [entries EXCEPT ![f] = rest]
      /\ gone' = [gone EXCEPT !["suppressed"] = @ \union {head}] /\ "suppressed" \in J!Reasons
      /\ UNCHANGED << journal, buffer, published, atStop, stopper, at, urgent, reader >>
  BY DEF J!Suppress, J!Lose, J!threadVars, J!Reasons, J!Next1
<1>2. /\ rest \in Seq(Nat) /\ Rising(rest) /\ head \in Nat
      /\ J!Range(entries[f]) = {head} \union J!Range(rest)
      /\ \A d \in J!Range(rest) : head < d
  <2>1. entries[f] \in Seq(Nat) /\ Rising(entries[f])
    BY DEF SourceInv, SourceTypes, InLine
  <2> QED BY <1>1, <2>1, RisingTail
<1>3. /\ Held = J!Range(entries[f])
      /\ \A g \in J!Flushers : g # f => at[g] = "off" /\ entries[g] = << >>
  BY <1>1, Alone DEF SourceInv
<1>4. /\ entries'[f] = rest /\ \A g \in J!Flushers : g # f => entries'[g] = << >>
      /\ entries' \in [J!Flushers -> Seq(Nat)]
  BY <1>1, <1>2, <1>3 DEF SourceInv, SourceTypes
<1>5. Held' = J!Range(rest)
  BY <1>4, OfNothing DEF Held, J!Flushers
<1>6. SourceTypes' /\ OneFlushes'
  <2>1. gone' \in [J!Reasons -> SUBSET Nat]
    BY <1>1, <1>2 DEF SourceInv, SourceTypes
  <2> QED BY <1>1, <1>2, <1>4, <2>1 DEF SourceInv, SourceTypes, OneFlushes
<1>7. \A g \in J!Flushers : Rising(entries'[g])
  BY <1>2, <1>4, OfNothing
<1>8. J!CritIsAnnounced'
  BY <1>1 DEF SourceInv, J!CritIsAnnounced, J!IsCrit
<1>9. {head} \in SUBSET Held /\ Held' = Held \ {head}
  <2>1. head \notin J!Range(rest)
    BY <1>2
  <2> QED BY <1>2, <1>3, <1>5, <2>1
<1>10. \A r \in J!Reasons : gone' = [gone EXCEPT ![r] = @ \union {head}] => SourceInv'
  BY <1>1, <1>6, <1>7, <1>8, <1>9, OfLeaving
<1> QED BY <1>1, <1>10

(* The batcher dies with its list.                                         *)
LEMMA OfStopCancels ==
  ASSUME SourceInv, J!StopCancels
  PROVE  SourceInv'
<1> PICK leaving : leaving = IF at["batcher"] = "yield" THEN J!Range(entries["batcher"]) ELSE {}
  OBVIOUS
<1>1. /\ stopper = "cancelling" /\ at["batcher"] \in {"asleep", "yield"}
      /\ gone' = [gone EXCEPT !["lost"] = @ \union leaving] /\ "lost" \in J!Reasons
      /\ entries' = [f \in J!Flushers |-> << >>]
      /\ at' = [batcher |-> "off", stop |-> IF buffer = << >> THEN "publish" ELSE "drain"]
      /\ stopper' = "flushing"
      /\ UNCHANGED << journal, buffer, published, atStop, urgent, reader >>
  BY DEF J!StopCancels, J!Lose, J!threadVars, J!Reasons, J!BatcherSuspended, J!FinalFlush
<1>2. Held = leaving /\ Held' = {}
  <2>1. entries["stop"] = << >> /\ (at["batcher"] = "asleep" => entries["batcher"] = << >>)
    BY <1>1 DEF SourceInv, OneFlushes, J!Flushers
  <2> QED BY <1>1, <2>1, OfNothing DEF Held, J!Flushers
<1>3. leaving \subseteq 1 .. Len(journal)
  BY <1>2 DEF SourceInv, Placed, Listed
<1>4. SourceTypes' /\ OneFlushes'
  <2>1. gone' \in [J!Reasons -> SUBSET Nat]
    BY <1>1, <1>3 DEF SourceInv, SourceTypes
  <2>2. entries' \in [J!Flushers -> Seq(Nat)]
    BY <1>1
  <2> QED BY <1>1, <2>1, <2>2 DEF SourceInv, SourceTypes, OneFlushes, J!Flushers
<1>5. Gone' = Gone \union leaving
  BY <1>1 DEF SourceInv, SourceTypes, Gone, J!Reasons
<1>6. InLine'
  <2>1. \A f \in J!Flushers : Rising(entries'[f])
    BY <1>1 DEF Rising
  <2> QED BY <1>1, <1>2, <2>1 DEF SourceInv, InLine, Below
<1>7. leaving \intersect (J!Range(published) \union J!Range(buffer)) = {}
  <2>1. Below(J!Range(published), leaving) /\ Below(leaving, J!Range(buffer))
    BY <1>2 DEF SourceInv, InLine
  <2>2. \A e \in leaving : ~(e < e)
    BY <1>3
  <2> QED BY <2>1, <2>2 DEF Below
<1>8. Listed' = Listed \ leaving /\ leaving \subseteq Listed
  BY <1>1, <1>2, <1>7 DEF Listed
<1>9. Placed'
  <2>1. \A q \in J!Reasons : leaving \intersect gone[q] = {}
    BY <1>8 DEF SourceInv, Placed, Gone
  <2>2. \A p, q \in J!Reasons : p # q => gone'[p] \intersect gone'[q] = {}
    BY <1>1, <2>1 DEF SourceInv, SourceTypes, Placed
  <2> QED BY <1>1, <1>5, <1>8, <2>2 DEF SourceInv, Placed
<1>10. StopTakesTheRest'
  <2>1. atStop \subseteq J!Range(published) \union Gone \union Held \union J!Range(buffer)
    BY DEF SourceInv, StopTakesTheRest, Placed, Listed
  <2> QED BY <1>1, <1>2, <1>5, <2>1, OfNothing DEF SourceInv, StopTakesTheRest
<1>11. J!CritIsAnnounced'
  BY <1>1, OfNothing DEF J!CritIsAnnounced, J!Flushers
<1> QED BY <1>4, <1>6, <1>9, <1>10, <1>11 DEF SourceInv

(* An entry goes from the buffer into the list of a flush.                 *)
LEMMA OfDrainOne ==
  ASSUME SourceInv, NEW f \in J!Flushers, J!DrainOne(f)
  PROVE  SourceInv'
<1> PICK head : head = Head(buffer)
  OBVIOUS
<1> PICK more : more = Append(entries[f], head)
  OBVIOUS
<1>1. /\ at[f] = "drain" /\ buffer # << >>
      /\ entries' = [entries EXCEPT ![f] = more]
      /\ buffer' = Tail(buffer)
      /\ UNCHANGED << journal, published, gone, atStop, stopper, at, urgent, reader >>
  BY DEF J!DrainOne, J!threadVars, J!PopLeft
<1>2. /\ buffer' \in Seq(Nat) /\ Rising(buffer') /\ head \in Nat
      /\ J!Range(buffer) = {head} \union J!Range(buffer')
      /\ \A d \in J!Range(buffer') : head < d
  <2>1. buffer \in Seq(Nat) /\ Rising(buffer)
    BY DEF SourceInv, SourceTypes, InLine
  <2> QED BY <1>1, <2>1, RisingTail
<1>3. /\ Held = J!Range(entries[f])
      /\ \A g \in J!Flushers : g # f => at[g] = "off" /\ entries[g] = << >>
  BY <1>1, Alone DEF SourceInv
<1>4. more \in Seq(Nat) /\ Rising(more) /\ J!Range(more) = Held \union {head}
  <2>1. entries[f] \in Seq(Nat) /\ Rising(entries[f]) /\ \A d \in J!Range(entries[f]) : d < head
    BY <1>2, <1>3 DEF SourceInv, SourceTypes, InLine, Below
  <2> QED BY <1>2, <1>3, <2>1, RisingAppend
<1>5. /\ entries'[f] = more /\ \A g \in J!Flushers : g # f => entries'[g] = << >>
      /\ entries' \in [J!Flushers -> Seq(Nat)]
  BY <1>1, <1>3, <1>4 DEF SourceInv, SourceTypes
<1>6. Held' = Held \union {head}
  BY <1>4, <1>5, OfNothing DEF Held, J!Flushers
<1>7. Listed' = Listed /\ Gone' = Gone
  BY <1>1, <1>2, <1>6 DEF Listed, Gone
<1>8. SourceTypes' /\ OneFlushes'
  BY <1>1, <1>2, <1>5 DEF SourceInv, SourceTypes, OneFlushes
<1>9. InLine'
  <2>1. \A g \in J!Flushers : Rising(entries'[g])
    BY <1>4, <1>5, OfNothing
  <2> QED BY <1>1, <1>2, <1>6, <2>1 DEF SourceInv, InLine, Below
<1>10. Placed'
  BY <1>1, <1>7 DEF SourceInv, Placed
<1>11. StopTakesTheRest'
  BY <1>1, <1>2, <1>6, <1>7 DEF SourceInv, StopTakesTheRest
<1>12. J!CritIsAnnounced'
  BY <1>1 DEF J!CritIsAnnounced
<1> QED BY <1>8, <1>9, <1>10, <1>11, <1>12 DEF SourceInv

LEMMA OfPublish ==
  ASSUME SourceInv, NEW f \in J!Flushers, J!Publish(f)
  PROVE  SourceInv'
<1> PICK head : head = Head(entries[f])
  OBVIOUS
<1> PICK rest : rest = Tail(entries[f])
  OBVIOUS
<1>1. /\ at[f] = "publish" /\ entries[f] # << >>
      /\ entries' = [entries EXCEPT ![f] = rest]
      /\ published' = Append(published, head)
      /\ \E to \in {"yield", "publish"} : at' = [at EXCEPT ![f] = to]
      /\ UNCHANGED << journal, buffer, gone, atStop, stopper, urgent, reader >>
  BY DEF J!Publish, J!threadVars, J!Next1
<1>2. /\ rest \in Seq(Nat) /\ Rising(rest) /\ head \in Nat
      /\ J!Range(entries[f]) = {head} \union J!Range(rest)
      /\ \A d \in J!Range(rest) : head < d
  <2>1. entries[f] \in Seq(Nat) /\ Rising(entries[f])
    BY DEF SourceInv, SourceTypes, InLine
  <2> QED BY <1>1, <2>1, RisingTail
<1>3. /\ Held = J!Range(entries[f])
      /\ \A g \in J!Flushers : g # f => at[g] = "off" /\ entries[g] = << >>
  BY <1>1, Alone DEF SourceInv
<1>4. /\ published' \in Seq(Nat) /\ Rising(published')
      /\ J!Range(published') = J!Range(published) \union {head}
  <2>1. published \in Seq(Nat) /\ Rising(published) /\ \A d \in J!Range(published) : d < head
    BY <1>2, <1>3 DEF SourceInv, SourceTypes, InLine, Below
  <2> QED BY <1>1, <1>2, <2>1, RisingAppend
<1>5. /\ entries'[f] = rest /\ \A g \in J!Flushers : g # f => entries'[g] = << >>
      /\ entries' \in [J!Flushers -> Seq(Nat)]
  BY <1>1, <1>2, <1>3 DEF SourceInv, SourceTypes
<1>6. Held' = J!Range(rest) /\ Held = {head} \union Held'
  BY <1>2, <1>3, <1>5, OfNothing DEF Held, J!Flushers
<1>7. Listed' = Listed /\ Gone' = Gone
  BY <1>1, <1>4, <1>6 DEF Listed, Gone
<1>8. SourceTypes' /\ OneFlushes'
  <2>1. /\ at' \in [J!Flushers -> {"off", "asleep", "drain", "publish", "yield"}]
        /\ at'[f] \in {"yield", "publish"} /\ \A g \in J!Flushers : g # f => at'[g] = at[g]
    BY <1>1 DEF SourceInv, SourceTypes
  <2>2. SourceTypes'
    BY <1>1, <1>4, <1>5, <2>1 DEF SourceInv, SourceTypes
  <2> QED BY <1>1, <1>5, <2>1, <2>2 DEF SourceInv, OneFlushes, J!Flushers
<1>9. InLine'
  <2>1. \A g \in J!Flushers : Rising(entries'[g])
    BY <1>2, <1>5, OfNothing
  <2>2. /\ Below(J!Range(published), Held) /\ Below(J!Range(published), J!Range(buffer))
        /\ Below(Held, J!Range(buffer)) /\ Rising(buffer)
    BY DEF SourceInv, InLine
  <2>3. Below(J!Range(published'), Held')
    BY <1>2, <1>4, <1>6, <2>2, Zenon DEF Below
  <2>4. Below(J!Range(published'), J!Range(buffer))
    BY <1>4, <1>6, <2>2, Zenon DEF Below
  <2>5. Below(Held', J!Range(buffer))
    BY <1>6, <2>2, Zenon DEF Below
  <2>6. buffer' = buffer /\ J!Range(buffer)' = J!Range(buffer)
    BY <1>1 DEF J!Range
  <2> QED BY <1>4, <2>1, <2>2, <2>3, <2>4, <2>5, <2>6 DEF InLine, Below, Rising
<1>10. Placed'
  BY <1>1, <1>7 DEF SourceInv, Placed
<1>11. StopTakesTheRest'
  <2>1. at["stop"] # "drain" \/ at'["stop"] = "drain"
    BY <1>1, <1>3 DEF SourceInv, SourceTypes, J!Flushers
  <2>2. J!Range(published') \union Held' = J!Range(published) \union Held
    BY <1>4, <1>6
  <2> QED BY <1>1, <1>7, <2>1, <2>2 DEF SourceInv, StopTakesTheRest
<1>12. J!CritIsAnnounced'
  <2>1. \A g \in J!Flushers : at[g] # "drain"
    BY <1>1, <1>3
  <2> QED BY <1>1, <2>1 DEF SourceInv, J!CritIsAnnounced, J!IsCrit
<1> QED BY <1>8, <1>9, <1>10, <1>11, <1>12 DEF SourceInv

LEMMA OfStopBegin ==
  ASSUME SourceInv, J!StopBegin
  PROVE  SourceInv'
<1>1. /\ Still /\ UNCHANGED << at, urgent, reader >>
      /\ stopper = "idle" /\ stopper' = "cancelling"
      /\ atStop' \subseteq 1 .. Len(journal)
  BY DEF J!StopBegin, Still
<1>2. SourceTypes' /\ OneFlushes'
  BY <1>1 DEF SourceInv, SourceTypes, OneFlushes, Still
<1>3. StopTakesTheRest'
  BY <1>1 DEF StopTakesTheRest, Still
<1>4. J!CritIsAnnounced'
  BY <1>1 DEF SourceInv, J!CritIsAnnounced, J!IsCrit, Still
<1> QED BY <1>1, <1>2, <1>3, <1>4, OfStill

LEMMA OfStopReturns ==
  ASSUME SourceInv, J!StopReturns
  PROVE  SourceInv'
<1>1. /\ Still /\ UNCHANGED << urgent, reader, atStop >>
      /\ at["stop"] = "publish" /\ entries["stop"] = << >>
      /\ stopper = "flushing" /\ stopper' = "stopped"
      /\ at' = [at EXCEPT !["stop"] = "off"]
  BY DEF J!StopReturns, Still, J!threadVars
<1>2. SourceTypes' /\ OneFlushes'
  BY <1>1 DEF SourceInv, SourceTypes, OneFlushes, Still, J!Flushers
<1>3. StopTakesTheRest'
  BY <1>1 DEF SourceInv, SourceTypes, StopTakesTheRest, Still, Held, Gone, J!Flushers
<1>4. J!CritIsAnnounced'
  BY <1>1 DEF SourceInv, SourceTypes, J!CritIsAnnounced, J!IsCrit, Still, J!Flushers
<1> QED BY <1>1, <1>2, <1>3, <1>4, OfStill

LEMMA SourceStep == SourceInv /\ [J!Next]_(J!vars) => SourceInv'
<1> SUFFICES ASSUME SourceInv, [J!Next]_(J!vars) PROVE SourceInv'
  OBVIOUS
<1>1. ASSUME NEW f \in J!Flushers, J!Flush(f) PROVE SourceInv'
  BY <1>1, OfDrainOne, OfDrained, OfSuppress, OfPublish, OfBatcherAlone DEF J!Flush
<1>2. "batcher" \in J!Flushers /\ "stop" \in J!Flushers
  BY DEF J!Flushers
<1>3. CASE J!Reader
  BY <1>3, OfReaderAlone, OfReaderSkips, OfReaderAppends DEF J!Reader
<1>4. CASE J!Batcher
  BY <1>1, <1>2, <1>4, OfReaderAlone, OfBatcherAlone DEF J!Batcher
<1>5. CASE J!Stop
  BY <1>1, <1>2, <1>5, OfStopCancels, OfStopReturns DEF J!Stop
<1>6. CASE J!StopBegin \/ J!GraceEnds \/ UNCHANGED J!vars
  BY <1>6, OfStopBegin, OfReaderAlone
<1> QED BY <1>3, <1>4, <1>5, <1>6 DEF J!Next

LEMMA SourceKeeps == J!Spec => []SourceInv
BY SourceInit, SourceStep, PTL DEF J!Spec

(* Each entry that the reader took is in one place, or gone for one        *)
(* reason, and what is published is so in journal order, for any buffer,   *)
(* pauses and interleaving of the thread, the batcher and stop()           *)
(* (journald.py:184-190, 209-262).                                         *)
THEOREM NoneTwiceNoneAstray == J!Spec => []EntriesOnceInOrder
<1>1. ASSUME SourceInv PROVE EntriesOnceInOrder
  <2>1. J!PublishedInOrder
    BY <1>1 DEF SourceInv, InLine, Rising, J!PublishedInOrder
  <2>2. ASSUME NEW e \in 1 .. Len(journal) PROVE J!Holders(e) = 1
    <3> DEFINE b == {x \in {"buffer"} : e \in J!Range(buffer)}
               l == {f \in J!Flushers : e \in J!Range(entries[f])}
               p == {i \in DOMAIN published : published[i] = e}
               g == {r \in J!Reasons : e \in gone[r]}
    <3>1. \A S : J!Cardinality(S) = Cardinality(S)
      BY DEF J!Cardinality, Cardinality
    <3>2. J!Holders(e) = Cardinality(b) + Cardinality(l) + Cardinality(p) + Cardinality(g)
      BY <3>1 DEF J!Holders
    <3>3. b = IF e \in J!Range(buffer) THEN {"buffer"} ELSE {}
      OBVIOUS
    <3>4. IF e \in Held THEN \E f \in J!Flushers : l = {f} ELSE l = {}
      <4>1. entries["batcher"] = << >> \/ entries["stop"] = << >>
        BY <1>1 DEF SourceInv, SourceTypes, OneFlushes, J!Flushers
      <4> QED BY <4>1, OfNothing DEF Held, J!Flushers
    <3>5. IF e \in J!Range(published) THEN \E i : p = {i} ELSE p = {}
      <4>1. CASE e \in J!Range(published)
        <5>1. PICK i \in DOMAIN published : published[i] = e
          BY <4>1 DEF J!Range
        <5>2. ASSUME NEW j \in p PROVE j = i
          <6>1. published \in Seq(Nat)
            BY <1>1 DEF SourceInv, SourceTypes
          <6>2. i \in Nat /\ j \in Nat /\ ~(e < e)
            BY <6>1, <5>1, <5>2
          <6>3. ~(i < j) /\ ~(j < i)
            BY <5>1, <5>2, <6>2, <1>1 DEF SourceInv, InLine, Rising
          <6> QED BY <6>2, <6>3
        <5> QED BY <4>1, <5>1, <5>2
      <4>2. CASE e \notin J!Range(published)
        BY <4>2 DEF J!Range
      <4> QED BY <4>1, <4>2
    <3>6. IF e \in Gone THEN \E r : g = {r} ELSE g = {}
      <4>1. CASE e \in Gone
        <5>1. PICK r \in J!Reasons : e \in gone[r]
          BY <4>1 DEF Gone
        <5>2. \A q \in J!Reasons : e \in gone[q] => q = r
          BY <1>1, <5>1 DEF SourceInv, Placed
        <5> QED BY <4>1, <5>1, <5>2
      <4>2. CASE e \notin Gone
        BY <4>2 DEF Gone
      <4> QED BY <4>1, <4>2
    <3>7. /\ e \in J!Range(published) \union Held \union J!Range(buffer) \union Gone
          /\ e \in Gone => e \notin J!Range(published) \union Held \union J!Range(buffer)
      BY <1>1 DEF SourceInv, Placed, Listed
    <3>8. /\ ~(e \in J!Range(published) /\ e \in Held)
          /\ ~(e \in J!Range(published) /\ e \in J!Range(buffer))
          /\ ~(e \in Held /\ e \in J!Range(buffer))
      <4>1. ~(e < e)
        OBVIOUS
      <4> QED BY <1>1, <4>1 DEF SourceInv, InLine, Below
    <3>9. Cardinality({}) = 0 /\ \A x : Cardinality({x}) = 1
      BY FS_EmptySet, FS_Singleton
    <3> HIDE DEF b, l, p, g
    <3>10. Cardinality(b) = IF e \in J!Range(buffer) THEN 1 ELSE 0
      BY <3>3, <3>9
    <3>11. Cardinality(l) = IF e \in Held THEN 1 ELSE 0
      BY <3>4, <3>9
    <3>12. Cardinality(p) = IF e \in J!Range(published) THEN 1 ELSE 0
      BY <3>5, <3>9
    <3>13. Cardinality(g) = IF e \in Gone THEN 1 ELSE 0
      BY <3>6, <3>9
    <3> QED BY <3>2, <3>7, <3>8, <3>10, <3>11, <3>12, <3>13
  <2> QED BY <2>1, <2>2 DEF EntriesOnceInOrder, J!EntriesOnceInOrder, J!EveryEntryOnce
<1> QED BY <1>1, SourceKeeps, PTL

(* A critical entry in the buffer is announced, about to be, or being      *)
(* drained, whatever the thread and the two flushes do at the same time    *)
(* (journald.py:184-186, 200-203).                                         *)
THEOREM CritNeverWaits == J!Spec => []CritIsAnnounced
<1>1. SourceInv => CritIsAnnounced
  BY DEF SourceInv, CritIsAnnounced
<1> QED BY <1>1, SourceKeeps, PTL

(* When stop() has returned, all that was read before it is published or   *)
(* gone for a reason: what was in the buffer went through its last flush   *)
(* (journald.py:119-129, 209-262).                                         *)
THEOREM StopLosesNoBuffer == J!Spec => []StopFlushesBuffer
<1>1. ASSUME SourceInv PROVE StopFlushesBuffer
  <2>1. stopper = "stopped" => at["stop"] = "off" /\ Held = {}
    BY <1>1, OfNothing DEF SourceInv, SourceTypes, OneFlushes, Held, J!Flushers
  <2> QED BY <1>1, <2>1 DEF SourceInv, StopTakesTheRest, StopFlushesBuffer,
             J!StopFlushesBuffer, J!Out, Gone
<1> QED BY <1>1, SourceKeeps, PTL
=============================================================================
