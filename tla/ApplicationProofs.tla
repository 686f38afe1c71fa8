-------------------------- MODULE ApplicationProofs -------------------------
(***************************************************************************)
(* Theorems about Lifecycle, for any set of sources, any faults of the     *)
(* parts, any queue and any number of runs and events, and, in the last    *)
(* section, about LLMClients, for any number of reloads.                   *)
(***************************************************************************)
EXTENDS MCApplication, SequenceTheorems, FiniteSetTheorems, TLAPS

-----------------------------------------------------------------------------
(* The inductive invariant.                                                *)

N == Cardinality(Sources)

(* The parts that publish of themselves.                                   *)
Active == Sources \union {"scheduler"}

Types ==
  /\ made \in Nat
  /\ base \in Nat
  /\ queue \in Seq(Nat)
  /\ holding \in Nat
  /\ at \in 1 .. N + 7
  /\ up \subseteq Sources \union Core

(* Before the detector has subscribed the database nothing is published;   *)
(* a process that is off has no part.                                      *)
Phases ==
  /\ start = "off" => up = {} /\ ~wired /\ stop = "idle"
  /\ stop \in {"going", "raised"} => start = "done"
  /\ ~wired => /\ queue = << >> /\ holding = 0 /\ reading = {}
               /\ up \intersect Active = {}
               /\ start # "done"
               /\ start = "going" => at <= 5
  /\ wired /\ start = "going" => at >= 6
  /\ start # "off" => (wired <=> report # "none")

(* The dispatcher stores in a database that is open, and after the bus is  *)
(* down nothing is published but what is known to be lost.                 *)
BusInside ==
  /\ "bus" \in up => "db" \in up
  /\ start = "going" /\ at >= 2 => "db" \in up
  /\ start = "going" /\ at >= 3 => "bus" \in up
  /\ "bus" \notin up => holding = 0
  /\ wired /\ "bus" \notin up =>
       /\ up \intersect Active = {}
       /\ start = "done"
       /\ \A i \in DOMAIN queue : queue[i] # 0 /\ queue[i] \in unserved

(* The sentinel is put once, when nothing publishes any more.              *)
Sentinel ==
  \A i \in DOMAIN queue : queue[i] = 0 =>
    /\ stop \in {"going", "raised"}
    /\ at = N + 3
    /\ "bus" \in up
    /\ up \intersect Active = {}
    /\ \A j \in DOMAIN queue : j > i => queue[j] # 0 /\ queue[j] \in unserved

Heard ==
  wired => \A e \in base + 1 .. made :
    \/ e \in rows \union unserved
    \/ e = holding
    \/ \E i \in DOMAIN queue : queue[i] = e

(* A file that does not say "booted": nothing of the last run is missing,  *)
(* nor will be.                                                            *)
Settled ==
  state_file # "booted" =>
    /\ base + 1 .. made \subseteq rows \union unserved
    /\ wired => "bus" \notin up

Reports ==
  /\ NotReportedMeansStored
  /\ NoFalseReport
  /\ (start = "off" \/ report = "none") /\ ending = "stopped" => state_file = "clean"

Down ==
  /\ stop = "going" => \A i \in 1 .. at - 1 : StopOrder[i] \notin up
  /\ stop = "going" /\ at > N + 4 => state_file = "clean"
  /\ StoppedInFull => up = {} /\ state_file = "clean"

LInv == Types /\ Phases /\ BusInside /\ Sentinel /\ Heard /\ Settled /\ Reports /\ Down

-----------------------------------------------------------------------------
(* The two orders.                                                         *)

LEMMA Sequence ==
  /\ N \in Nat
  /\ SourceOrder \in Seq(Sources)
  /\ Len(SourceOrder) = N
  /\ \A s \in Sources : \E i \in 1 .. N : SourceOrder[i] = s
<1>1. N \in Nat /\ ExistsBijection(1 .. N, Sources)
  BY LifecycleAssumption, FS_CardinalityType DEF N
<1>2. \E f \in [1 .. N -> Sources] : IsInjective(f)
  BY <1>1 DEF ExistsBijection, Bijection, Injection
<1>3. SourceOrder \in [1 .. N -> Sources] /\ IsInjective(SourceOrder)
  BY <1>2 DEF SourceOrder, SetToSeq, N
<1>4. SourceOrder \in Injection(1 .. N, Sources)
  BY <1>3 DEF Injection
<1>5. Cardinality(1 .. N) = Cardinality(Sources)
  BY <1>1, FS_Interval DEF N
<1>6. SourceOrder \in Surjection(1 .. N, Sources)
  BY <1>4, <1>5, LifecycleAssumption, FS_Injection
<1>7. \A s \in Sources : \E i \in 1 .. N : SourceOrder[i] = s
  BY <1>6 DEF Surjection
<1> QED BY <1>1, <1>3, <1>7

LEMMA Joined ==
  \A S : \A a \in Seq(S), b \in Seq(S), c \in Seq(S) :
    /\ \A i \in 1 .. Len(a) : ((a \o b) \o c)[i] = a[i]
    /\ \A i \in 1 .. Len(b) : ((a \o b) \o c)[Len(a) + i] = b[i]
    /\ \A i \in 1 .. Len(c) : ((a \o b) \o c)[Len(a) + Len(b) + i] = c[i]
<1> SUFFICES ASSUME NEW S, NEW a \in Seq(S), NEW b \in Seq(S), NEW c \in Seq(S)
  PROVE  /\ \A i \in 1 .. Len(a) : ((a \o b) \o c)[i] = a[i]
         /\ \A i \in 1 .. Len(b) : ((a \o b) \o c)[Len(a) + i] = b[i]
         /\ \A i \in 1 .. Len(c) : ((a \o b) \o c)[Len(a) + Len(b) + i] = c[i]
  BY Zenon
<1> DEFINE ab == a \o b
<1>1. /\ ab \in Seq(S) /\ Len(ab) = Len(a) + Len(b) /\ Len(a) \in Nat /\ Len(b) \in Nat
      /\ \A i \in 1 .. Len(a) : ab[i] = a[i]
      /\ \A i \in 1 .. Len(b) : ab[Len(a) + i] = b[i]
  OBVIOUS
<1> HIDE DEF ab
<1>2. /\ \A i \in 1 .. Len(ab) : (ab \o c)[i] = ab[i]
      /\ \A i \in 1 .. Len(c) : (ab \o c)[Len(ab) + i] = c[i]
  BY <1>1
<1>3. \A i \in 1 .. Len(a) : i \in 1 .. Len(ab)
  BY <1>1
<1>4. \A i \in 1 .. Len(b) : Len(a) + i \in 1 .. Len(ab)
  BY <1>1
<1>5. \A i \in 1 .. Len(a) : (ab \o c)[i] = a[i]
  BY <1>1, <1>2, <1>3
<1>6. \A i \in 1 .. Len(b) : (ab \o c)[Len(a) + i] = b[i]
  BY <1>1, <1>2, <1>4
<1>7. \A i \in 1 .. Len(c) : (ab \o c)[Len(a) + Len(b) + i] = c[i]
  BY <1>1, <1>2
<1> QED BY <1>5, <1>6, <1>7 DEF ab

(* Where each part is in the order of start().                             *)
LEMMA Starting ==
  /\ StartOrder[1] = "db" /\ StartOrder[2] = "bus" /\ StartOrder[3] = "llm"
  /\ StartOrder[4] = "ringlog" /\ StartOrder[5] = "detector"
  /\ \A i \in 6 .. N + 5 : StartOrder[i] \in Sources
  /\ StartOrder[N + 6] = "scheduler" /\ StartOrder[N + 7] = "hooks"
<1> DEFINE All == Sources \union Core
<1> DEFINE first == << "db", "bus", "llm", "ringlog", "detector" >>
<1> DEFINE last == << "scheduler", "hooks" >>
<1>1. /\ N \in Nat /\ SourceOrder \in Seq(All) /\ Len(SourceOrder) = N
      /\ \A i \in 1 .. N : SourceOrder[i] \in Sources
  BY Sequence
<1>2. first \in Seq(All) /\ Len(first) = 5
  BY DEF Core
<1>3. last \in Seq(All) /\ Len(last) = 2
  BY DEF Core
<1>4. /\ first[1] = "db" /\ first[2] = "bus" /\ first[3] = "llm" /\ first[4] = "ringlog"
      /\ first[5] = "detector" /\ last[1] = "scheduler" /\ last[2] = "hooks"
  OBVIOUS
<1>5. StartOrder = (first \o SourceOrder) \o last
  BY DEF StartOrder
<1> HIDE DEF first, last, All
<1>6. /\ \A i \in 1 .. 5 : StartOrder[i] = first[i]
      /\ \A i \in 1 .. N : StartOrder[5 + i] = SourceOrder[i]
      /\ \A i \in 1 .. 2 : StartOrder[5 + N + i] = last[i]
  <2>1. /\ \A i \in 1 .. Len(first) : StartOrder[i] = first[i]
        /\ \A i \in 1 .. Len(SourceOrder) : StartOrder[Len(first) + i] = SourceOrder[i]
        /\ \A i \in 1 .. Len(last) : StartOrder[Len(first) + Len(SourceOrder) + i] = last[i]
    <3>1. first \in Seq(All) /\ SourceOrder \in Seq(All) /\ last \in Seq(All)
      BY <1>1, <1>2, <1>3
    <3>2. /\ \A i \in 1 .. Len(first) : ((first \o SourceOrder) \o last)[i] = first[i]
          /\ \A i \in 1 .. Len(SourceOrder) :
               ((first \o SourceOrder) \o last)[Len(first) + i] = SourceOrder[i]
          /\ \A i \in 1 .. Len(last) :
               ((first \o SourceOrder) \o last)[Len(first) + Len(SourceOrder) + i] = last[i]
      <4>1. \A a \in Seq(All), b \in Seq(All), c \in Seq(All) :
              /\ \A i \in 1 .. Len(a) : ((a \o b) \o c)[i] = a[i]
              /\ \A i \in 1 .. Len(b) : ((a \o b) \o c)[Len(a) + i] = b[i]
              /\ \A i \in 1 .. Len(c) : ((a \o b) \o c)[Len(a) + Len(b) + i] = c[i]
        BY Joined
      <4> QED BY <3>1, <4>1, Zenon
    <3> QED BY <1>5, <3>2, Zenon
  <2> QED BY <1>1, <1>2, <1>3, <2>1
<1>7. ASSUME NEW i \in 6 .. N + 5 PROVE StartOrder[i] \in Sources
  <2>1. i - 5 \in 1 .. N /\ 5 + (i - 5) = i
    BY <1>1
  <2>2. StartOrder[i] = SourceOrder[i - 5]
    BY <1>6, <2>1
  <2> QED BY <1>1, <2>1, <2>2
<1>8. N + 6 = 5 + N + 1 /\ N + 7 = 5 + N + 2
  BY <1>1
<1> QED BY <1>4, <1>6, <1>7, <1>8

(* Where each part is in the order of stop().                              *)
LEMMA Stopped ==
  /\ StopOrder[1] = "scheduler"
  /\ \A i \in 2 .. N + 1 : StopOrder[i] \in Sources
  /\ \A s \in Sources : \E i \in 2 .. N + 1 : StopOrder[i] = s
  /\ StopOrder[N + 2] = "llm" /\ StopOrder[N + 3] = "bus"
  /\ StopOrder[N + 4] = "detector" /\ StopOrder[N + 5] = "ringlog"
  /\ StopOrder[N + 6] = "db" /\ StopOrder[N + 7] = "hooks"
<1> DEFINE All == Sources \union Core
<1> DEFINE first == << "scheduler" >>
<1> DEFINE middle == Reverse(SourceOrder)
<1> DEFINE last == << "llm", "bus", "detector", "ringlog", "db", "hooks" >>
<1>1. /\ N \in Nat /\ SourceOrder \in Seq(Sources) /\ Len(SourceOrder) = N
      /\ \A i \in 1 .. N : SourceOrder[i] \in Sources
      /\ \A s \in Sources : \E i \in 1 .. N : SourceOrder[i] = s
  BY Sequence
<1>2. first \in Seq(All) /\ Len(first) = 1
  BY DEF Core
<1>3. last \in Seq(All) /\ Len(last) = 6
  BY DEF Core
<1>4. /\ first[1] = "scheduler" /\ last[1] = "llm" /\ last[2] = "bus"
      /\ last[3] = "detector" /\ last[4] = "ringlog" /\ last[5] = "db" /\ last[6] = "hooks"
  OBVIOUS
<1>5. middle = [i \in 1 .. N |-> SourceOrder[N - i + 1]]
  BY <1>1 DEF Reverse
<1>6. \A i \in 1 .. N : N - i + 1 \in 1 .. N
  BY <1>1
<1>7. /\ middle \in Seq(All) /\ Len(middle) = N
      /\ \A i \in 1 .. N : middle[i] = SourceOrder[N - i + 1]
  BY <1>1, <1>5, <1>6
<1>8. StopOrder = (first \o middle) \o last
  BY DEF StopOrder
<1> HIDE DEF first, middle, last, All
<1>9. /\ \A i \in 1 .. 1 : StopOrder[i] = first[i]
      /\ \A i \in 1 .. N : StopOrder[1 + i] = middle[i]
      /\ \A i \in 1 .. 6 : StopOrder[1 + N + i] = last[i]
  <2>1. /\ \A i \in 1 .. Len(first) : StopOrder[i] = first[i]
        /\ \A i \in 1 .. Len(middle) : StopOrder[Len(first) + i] = middle[i]
        /\ \A i \in 1 .. Len(last) : StopOrder[Len(first) + Len(middle) + i] = last[i]
    <3>1. first \in Seq(All) /\ middle \in Seq(All) /\ last \in Seq(All)
      BY <1>2, <1>3, <1>7
    <3>2. /\ \A i \in 1 .. Len(first) : ((first \o middle) \o last)[i] = first[i]
          /\ \A i \in 1 .. Len(middle) : ((first \o middle) \o last)[Len(first) + i] = middle[i]
          /\ \A i \in 1 .. Len(last) :
               ((first \o middle) \o last)[Len(first) + Len(middle) + i] = last[i]
      <4>1. \A a \in Seq(All), b \in Seq(All), c \in Seq(All) :
              /\ \A i \in 1 .. Len(a) : ((a \o b) \o c)[i] = a[i]
              /\ \A i \in 1 .. Len(b) : ((a \o b) \o c)[Len(a) + i] = b[i]
              /\ \A i \in 1 .. Len(c) : ((a \o b) \o c)[Len(a) + Len(b) + i] = c[i]
        BY Joined
      <4> QED BY <3>1, <4>1, Zenon
    <3> QED BY <1>8, <3>2, Zenon
  <2> QED BY <1>2, <1>3, <1>7, <2>1
<1>10. ASSUME NEW i \in 2 .. N + 1 PROVE StopOrder[i] \in Sources
  <2>1. i - 1 \in 1 .. N /\ 1 + (i - 1) = i
    BY <1>1
  <2>2. StopOrder[i] = SourceOrder[N - (i - 1) + 1]
    BY <1>7, <1>9, <2>1
  <2> QED BY <1>1, <1>6, <2>1, <2>2
<1>11. ASSUME NEW s \in Sources PROVE \E i \in 2 .. N + 1 : StopOrder[i] = s
  <2>1. PICK j \in 1 .. N : SourceOrder[j] = s
    BY <1>1
  <2>2. /\ N - j + 1 \in 1 .. N /\ 1 + (N - j + 1) \in 2 .. N + 1
        /\ N - (N - j + 1) + 1 = j
    BY <1>1
  <2>3. StopOrder[1 + (N - j + 1)] = s
    BY <1>7, <1>9, <2>1, <2>2
  <2> QED BY <2>2, <2>3
<1>12. /\ N + 2 = 1 + N + 1 /\ N + 3 = 1 + N + 2 /\ N + 4 = 1 + N + 3
       /\ N + 5 = 1 + N + 4 /\ N + 6 = 1 + N + 5 /\ N + 7 = 1 + N + 6
  BY <1>1
<1> QED BY <1>4, <1>9, <1>10, <1>11, <1>12

(* The same, from the part to its place.                                   *)
LEMMA Places ==
  /\ N \in Nat
  /\ \A p \in Core : p \notin Sources
  /\ \A i \in 1 .. N + 7 :
       /\ StartOrder[i] \in Sources \union Core
       /\ StartOrder[i] = "db" <=> i = 1
       /\ StartOrder[i] = "bus" <=> i = 2
       /\ StartOrder[i] = "detector" <=> i = 5
       /\ StartOrder[i] = "hooks" <=> i = N + 7
       /\ StartOrder[i] \in Active => i >= 6
  /\ \A i \in 1 .. N + 7 :
       /\ StopOrder[i] = "bus" <=> i = N + 3
       /\ StopOrder[i] = "detector" <=> i = N + 4
       /\ StopOrder[i] = "db" <=> i = N + 6
       /\ StopOrder[i] = "hooks" <=> i = N + 7
  /\ \A p \in Sources \union Core :
       \E i \in 1 .. N + 7 : StopOrder[i] = p /\ (p \in Active => i <= N + 1)
<1>1. N \in Nat
  BY Sequence
<1>2. \A p \in Core : p \notin Sources
  BY LifecycleAssumption
<1>3. ASSUME NEW i \in 1 .. N + 7
      PROVE  /\ StartOrder[i] \in Sources \union Core
             /\ StartOrder[i] = "db" <=> i = 1
             /\ StartOrder[i] = "bus" <=> i = 2
             /\ StartOrder[i] = "detector" <=> i = 5
             /\ StartOrder[i] = "hooks" <=> i = N + 7
             /\ StartOrder[i] \in Active => i >= 6
  <2>1. i \in {1, 2, 3, 4, 5} \/ i \in 6 .. N + 5 \/ i = N + 6 \/ i = N + 7
    BY <1>1
  <2>2. CASE i \in {1, 2, 3, 4, 5}
    BY <1>1, <1>2, <2>2, Starting DEF Core, Active
  <2>3. CASE i \in 6 .. N + 5
    BY <1>1, <1>2, <2>3, Starting DEF Core, Active
  <2>4. CASE i = N + 6 \/ i = N + 7
    BY <1>1, <1>2, <2>4, Starting DEF Core, Active
  <2> QED BY <2>1, <2>2, <2>3, <2>4
<1>4. ASSUME NEW i \in 1 .. N + 7
      PROVE  /\ StopOrder[i] = "bus" <=> i = N + 3
             /\ StopOrder[i] = "detector" <=> i = N + 4
             /\ StopOrder[i] = "db" <=> i = N + 6
             /\ StopOrder[i] = "hooks" <=> i = N + 7
  <2>1. \/ i = 1 \/ i \in 2 .. N + 1 \/ i = N + 2 \/ i = N + 3 \/ i = N + 4
        \/ i = N + 5 \/ i = N + 6 \/ i = N + 7
    BY <1>1
  <2>2. CASE i = 1
    BY <1>1, <2>2, Stopped
  <2>3. CASE i \in 2 .. N + 1
    BY <1>1, <1>2, <2>3, Stopped DEF Core
  <2>4. CASE i = N + 2 \/ i = N + 3 \/ i = N + 4
    BY <1>1, <2>4, Stopped
  <2>5. CASE i = N + 5 \/ i = N + 6 \/ i = N + 7
    BY <1>1, <2>5, Stopped
  <2> QED BY <2>1, <2>2, <2>3, <2>4, <2>5
<1>5. ASSUME NEW p \in Sources \union Core
      PROVE  \E i \in 1 .. N + 7 : StopOrder[i] = p /\ (p \in Active => i <= N + 1)
  <2>1. CASE p \in Sources
    <3>1. PICK i \in 2 .. N + 1 : StopOrder[i] = p
      BY <2>1, Stopped
    <3>2. i \in 1 .. N + 7 /\ i <= N + 1
      BY <1>1
    <3> QED BY <3>1, <3>2
  <2>2. CASE p = "scheduler"
    <3>1. 1 \in 1 .. N + 7 /\ 1 <= N + 1
      BY <1>1
    <3> QED BY <2>2, <3>1, Stopped
  <2>3. CASE p \in Core \ {"scheduler"}
    <3>1. p \notin Active
      BY <1>2, <2>3 DEF Active, Core
    <3>2. /\ N + 2 \in 1 .. N + 7 /\ N + 3 \in 1 .. N + 7 /\ N + 4 \in 1 .. N + 7
          /\ N + 5 \in 1 .. N + 7 /\ N + 6 \in 1 .. N + 7 /\ N + 7 \in 1 .. N + 7
      BY <1>1
    <3>3. \E i \in 1 .. N + 7 : StopOrder[i] = p
      BY <2>3, <3>2, Stopped DEF Core
    <3> QED BY <3>1, <3>3
  <2> QED BY <2>1, <2>2, <2>3
<1> QED BY <1>1, <1>2, <1>3, <1>4, <1>5

-----------------------------------------------------------------------------
(* Sequences.                                                              *)

LEMMA Appended ==
  ASSUME NEW s \in Seq(Nat), NEW x \in Nat
  PROVE  /\ Len(s) \in Nat /\ DOMAIN s = 1 .. Len(s)
         /\ Append(s, x) \in Seq(Nat)
         /\ DOMAIN Append(s, x) = 1 .. Len(s) + 1
         /\ \A i \in DOMAIN s : Append(s, x)[i] = s[i]
         /\ Append(s, x)[Len(s) + 1] = x
OBVIOUS

LEMMA Removed ==
  ASSUME NEW s \in Seq(Nat), s # << >>
  PROVE  /\ Tail(s) \in Seq(Nat)
         /\ 1 \in DOMAIN s /\ Head(s) = s[1] /\ Head(s) \in Nat
         /\ \A i \in DOMAIN Tail(s) :
              /\ i \in Nat /\ i >= 1 /\ i + 1 \in DOMAIN s
              /\ Tail(s)[i] = s[i + 1]
         /\ \A i \in DOMAIN s : i # 1 =>
              i - 1 \in DOMAIN Tail(s) /\ s[i] = Tail(s)[i - 1]
OBVIOUS

-----------------------------------------------------------------------------
(* What most steps leave as it is.                                         *)

LEMMA SameReports ==
  ASSUME Reports, UNCHANGED << state_file, report, prev, base, ending >>,
         start' = "off" <=> start = "off",
         rows \union unserved \subseteq rows' \union unserved'
  PROVE  Reports'
BY DEF Reports, NotReportedMeansStored, NoFalseReport, Running

LEMMA SameDown ==
  ASSUME Down, UNCHANGED << state_file, start, stop, at >>,
         up' = up \/ up' = up \ {"bus"}
  PROVE  Down'
<1>1. \A p : p \notin up => p \notin up'
  OBVIOUS
<1>2. "hooks" \in up' <=> "hooks" \in up
  OBVIOUS
<1>3. stop' = "going" => \A i \in 1 .. at' - 1 : StopOrder[i] \notin up'
  BY <1>1 DEF Down
<1>4. StoppedInFull' => up' = {} /\ state_file' = "clean"
  BY <1>2 DEF Down, StoppedInFull
<1> QED BY <1>3, <1>4 DEF Down

(* The bus leaves everything but the traffic alone.                        *)
LEMMA SameLife ==
  ASSUME LInv, UNCHANGED << state_file, start, stop, at, up, wired, report, prev, base, ending >>,
         rows \union unserved \subseteq rows' \union unserved'
  PROVE  Reports' /\ Down'
<1>1. Reports'
  BY SameReports DEF LInv
<1>2. Down'
  BY SameDown DEF LInv
<1> QED BY <1>1, <1>2

LEMMA LInit == Init => LInv
<1> SUFFICES ASSUME Init PROVE LInv
  OBVIOUS
<1>1. /\ state_file = "unknown" /\ rows = {} /\ start = "off" /\ stop = "idle" /\ at = 1
      /\ up = {} /\ wired = FALSE /\ queue = << >> /\ holding = 0 /\ reading = {}
      /\ made = 0 /\ unserved = {} /\ base = 0 /\ prev = 0 /\ ending = "none"
      /\ report = "none"
  BY DEF Init
<1>2. Types
  BY <1>1, Places DEF Types
<1>3. Phases
  BY <1>1 DEF Phases
<1>4. BusInside
  BY <1>1 DEF BusInside
<1>5. Sentinel
  BY <1>1 DEF Sentinel
<1>6. Heard
  BY <1>1 DEF Heard
<1>7. Settled
  BY <1>1 DEF Settled
<1>8. Reports
  BY <1>1 DEF Reports, NotReportedMeansStored, NoFalseReport, Running
<1>9. Down
  BY <1>1 DEF Down, StoppedInFull
<1> QED BY <1>2, <1>3, <1>4, <1>5, <1>6, <1>7, <1>8, <1>9 DEF LInv

-----------------------------------------------------------------------------
(* start().                                                                *)

LEMMA OfBoot ==
  ASSUME LInv, Boot
  PROVE  LInv'
<1>1. /\ start = "off" /\ start' = "going" /\ at' = 1 /\ report' = "none"
      /\ UNCHANGED << stop, up, wired, base, prev, ending, state_file, rows, queue,
                      holding, buffered, reading, made, unserved >>
  BY DEF Boot, durable, traffic, Running
<1>2. up = {} /\ ~wired /\ stop = "idle" /\ queue = << >> /\ holding = 0 /\ reading = {}
  BY <1>1 DEF LInv, Phases
<1>3. Types'
  BY <1>1, Places DEF LInv, Types
<1>4. Phases'
  BY <1>1, <1>2 DEF Phases
<1>5. BusInside'
  BY <1>1, <1>2 DEF BusInside
<1>6. Sentinel' /\ Heard'
  BY <1>1, <1>2 DEF Sentinel, Heard
<1>7. Settled'
  BY <1>1 DEF LInv, Settled
<1>8. Reports'
  BY <1>1 DEF LInv, Reports, NotReportedMeansStored, NoFalseReport
<1>9. Down'
  BY <1>1, <1>2 DEF Down, StoppedInFull
<1> QED BY <1>3, <1>4, <1>5, <1>6, <1>7, <1>8, <1>9 DEF LInv

LEMMA OfStartPart ==
  ASSUME LInv, NEW part \in Sources \union Core, StartPart(part)
  PROVE  LInv'
<1>1. /\ start = "going" /\ StartOrder[at] = part /\ part \notin {"detector", "hooks"}
      /\ up' = up \union {part} /\ at' = at + 1
      /\ UNCHANGED << start, stop, wired, state_file, rows, queue, holding, buffered,
                      reading, made, unserved, base, prev, ending, report, runs >>
  BY DEF StartPart, Starts, durable, traffic, past
<1>2. N \in Nat /\ at \in 1 .. N + 7 /\ at # N + 7 /\ at # 5
  BY <1>1, Places DEF LInv, Types
<1>3. /\ part = "db" <=> at = 1
      /\ part = "bus" <=> at = 2
      /\ part \in Active => at >= 6
  BY <1>1, <1>2, Places
<1>4. stop \notin {"going", "raised"}
  BY <1>1 DEF LInv, Phases
<1>5. Types'
  BY <1>1, <1>2 DEF LInv, Types
<1>6. Phases'
  <2>1. start' # "off"
    BY <1>1
  <2>2. ~wired => at <= 4 /\ up' \intersect Active = {}
    BY <1>1, <1>2, <1>3 DEF LInv, Phases
  <2>3. wired => at' >= 6
    BY <1>1, <1>2 DEF LInv, Phases
  <2> QED BY <1>1, <1>2, <2>1, <2>2, <2>3 DEF LInv, Phases
<1>7. BusInside'
  <2>1. "db" \in up'
    BY <1>1, <1>2, <1>3 DEF LInv, BusInside
  <2>2. at' >= 3 => "bus" \in up'
    BY <1>1, <1>2, <1>3 DEF LInv, BusInside
  <2>3. "bus" \notin up' => "bus" \notin up
    BY <1>1
  <2>4. wired => "bus" \in up
    BY <1>1 DEF LInv, BusInside
  <2> QED BY <1>1, <2>1, <2>2, <2>3, <2>4 DEF LInv, BusInside
<1>8. Sentinel'
  BY <1>1, <1>4 DEF LInv, Sentinel
<1>9. Heard'
  BY <1>1 DEF LInv, Heard
<1>10. Settled'
  <2>1. ~wired \/ at >= 6
    BY <1>1 DEF LInv, Phases
  <2>2. wired => part # "bus"
    BY <1>3, <2>1
  <2> QED BY <1>1, <2>2 DEF LInv, Settled
<1>11. Reports'
  BY <1>1, SameReports DEF LInv
<1>12. Down'
  BY <1>1, <1>4 DEF Down, StoppedInFull
<1> QED BY <1>5, <1>6, <1>7, <1>8, <1>9, <1>10, <1>11, <1>12 DEF LInv

(* An event of the new run is that of the crash, and it is in the queue.   *)
LEMMA OfStartDetector ==
  ASSUME LInv, StartDetector
  PROVE  LInv'
<1>1. /\ start = "going" /\ StartOrder[at] = "detector"
      /\ state_file' = "booted"
      /\ report' = IF state_file = "booted" THEN "crash" ELSE "clean"
      /\ state_file # "booted" => made' = made /\ queue' = queue
      /\ wired' = TRUE /\ up' = up \union {"detector"} /\ at' = at + 1
      /\ prev' = base /\ base' = made
      /\ UNCHANGED << rows, start, stop, holding, buffered, reading, unserved, ending >>
  BY DEF StartDetector, Starts, CrashDetected
<1>2. N \in Nat /\ at = 5
  BY <1>1, Places DEF LInv, Types
<1>3. ~wired /\ queue = << >> /\ holding = 0 /\ report = "none"
  BY <1>1, <1>2 DEF LInv, Phases
<1>4. /\ "bus" \in up /\ "db" \in up /\ stop \notin {"going", "raised"}
  BY <1>1, <1>2 DEF LInv, BusInside, Phases
<1>5. \/ made' = made /\ queue' = << >>
      \/ made' = made + 1 /\ queue' = << made + 1 >>
  BY <1>1, <1>3 DEF StartDetector, Offer
<1>6. made \in Nat
  BY DEF LInv, Types
<1>7. Types'
  <2>1. queue' \in Seq(Nat)
    <3>1. << >> \in Seq(Nat) /\ << made + 1 >> \in Seq(Nat)
      BY <1>6
    <3> QED BY <1>5, <3>1
  <2>2. up' \subseteq Sources \union Core
    BY <1>1 DEF LInv, Types, Core
  <2> QED BY <1>1, <1>2, <1>5, <1>6, <2>1, <2>2 DEF LInv, Types
<1>8. Phases'
  BY <1>1, <1>2, <1>4 DEF LInv, Phases
<1>9. BusInside'
  BY <1>1, <1>4 DEF LInv, BusInside
<1>10. Sentinel'
  BY <1>5, <1>6 DEF Sentinel
<1>11. Heard'
  BY <1>1, <1>5, <1>6 DEF Heard
<1>12. Settled'
  BY <1>1 DEF Settled
<1>13. Reports'
  <2>1. NotReportedMeansStored'
    <3> SUFFICES ASSUME report' = "clean" PROVE base + 1 .. made \subseteq rows \union unserved
      BY <1>1 DEF NotReportedMeansStored
    <3> QED BY <1>1 DEF LInv, Settled
  <2>2. NoFalseReport'
    BY <1>1, <1>3 DEF LInv, Reports, NoFalseReport
  <2> QED BY <1>1, <2>1, <2>2 DEF Reports
<1>14. Down'
  BY <1>1, <1>4 DEF Down, StoppedInFull
<1> QED BY <1>7, <1>8, <1>9, <1>10, <1>11, <1>12, <1>13, <1>14 DEF LInv

LEMMA OfStartDone ==
  ASSUME LInv, StartDone
  PROVE  LInv'
<1>1. /\ start = "going" /\ StartOrder[at] = "hooks" /\ up' = up \union {"hooks"}
      /\ start' = "done" /\ at' = 1
      /\ UNCHANGED << stop, wired, state_file, rows, queue, holding, buffered,
                      reading, made, unserved, base, prev, ending, report, runs >>
  BY DEF StartDone, Starts, durable, traffic, past
<1>2. N \in Nat /\ at = N + 7
  BY <1>1, Places DEF LInv, Types
<1>3. wired /\ "bus" \in up /\ "db" \in up
  BY <1>1, <1>2 DEF LInv, Phases, BusInside
<1>4. stop \notin {"going", "raised"} /\ "hooks" \in up'
  BY <1>1 DEF LInv, Phases
<1>5. Types'
  BY <1>1, <1>2 DEF LInv, Types, Core
<1>6. Phases'
  BY <1>1, <1>3, <1>4 DEF LInv, Phases
<1>7. BusInside'
  BY <1>1, <1>3 DEF LInv, BusInside
<1>8. Sentinel'
  BY <1>1, <1>4 DEF LInv, Sentinel
<1>9. Heard'
  BY <1>1 DEF LInv, Heard
<1>10. Settled'
  BY <1>1 DEF LInv, Settled
<1>11. Reports'
  BY <1>1, SameReports DEF LInv
<1>12. Down'
  BY <1>1, <1>4 DEF Down, StoppedInFull
<1> QED BY <1>5, <1>6, <1>7, <1>8, <1>9, <1>10, <1>11, <1>12 DEF LInv

LEMMA OfStartRaises ==
  ASSUME LInv, StartRaises
  PROVE  LInv'
<1>1. /\ start = "going" /\ start' = "failed"
      /\ UNCHANGED << stop, at, up, wired, state_file, rows, queue, holding, buffered,
                      reading, made, unserved, base, prev, ending, report, runs >>
  BY DEF StartRaises, durable, traffic, past
<1>2. stop \notin {"going", "raised"}
  BY <1>1 DEF LInv, Phases
<1>3. Types'
  BY <1>1 DEF LInv, Types
<1>4. Phases'
  BY <1>1, <1>2 DEF LInv, Phases
<1>5. BusInside'
  <2>1. wired => "bus" \in up
    BY <1>1 DEF LInv, BusInside
  <2> QED BY <1>1, <2>1 DEF LInv, BusInside
<1>6. Sentinel'
  BY <1>1, <1>2 DEF LInv, Sentinel
<1>7. Heard' /\ Settled'
  BY <1>1 DEF LInv, Heard, Settled
<1>8. Reports'
  BY <1>1, SameReports DEF LInv
<1>9. Down'
  BY <1>1, <1>2 DEF Down, StoppedInFull
<1> QED BY <1>3, <1>4, <1>5, <1>6, <1>7, <1>8, <1>9 DEF LInv

-----------------------------------------------------------------------------
(* The traffic.                                                            *)

(* What is published is in the queue, or is dropped; when the dispatcher   *)
(* will not come to it, it is known to be lost.                            *)
LEMMA OfOffer ==
  ASSUME LInv, Offer, wired,
         UNCHANGED << state_file, rows, holding, start, stop, at, up, wired, prev, base,
                      ending, report >>,
         reading' \subseteq reading,
         unserved \subseteq unserved',
         Served \/ made' = made \/ made' \in unserved'
  PROVE  LInv'
<1>1. Reports' /\ Down'
  BY SameLife
<1>2. CASE made' = made /\ queue' = queue
  <2>1. Types' /\ Phases' /\ BusInside'
    BY <1>2 DEF LInv, Types, Phases, BusInside
  <2>2. Sentinel' /\ Heard' /\ Settled'
    BY <1>2 DEF LInv, Sentinel, Heard, Settled
  <2> QED BY <1>1, <2>1, <2>2 DEF LInv
<1>3. CASE made' = made + 1 /\ queue' = Append(queue, made + 1)
  <2>1. made \in Nat /\ queue \in Seq(Nat) /\ base \in Nat /\ made + 1 \in Nat
    BY DEF LInv, Types
  <2>2. /\ Len(queue) \in Nat /\ DOMAIN queue = 1 .. Len(queue)
        /\ queue' \in Seq(Nat)
        /\ DOMAIN queue' = 1 .. Len(queue) + 1
        /\ \A i \in DOMAIN queue : queue'[i] = queue[i]
        /\ queue'[Len(queue) + 1] = made + 1
    BY <1>3, <2>1, Appended
  <2>3. made' # 0 /\ (Served \/ made + 1 \in unserved')
    BY <1>3, <2>1
  <2>4. \A i \in DOMAIN queue' : i \in DOMAIN queue \/ i = Len(queue) + 1
    BY <2>2
  <2>5. Types'
    BY <1>3, <2>1, <2>2 DEF LInv, Types
  <2>6. Phases'
    BY <1>3 DEF LInv, Phases
  <2>7. BusInside'
    <3>1. ASSUME "bus" \notin up, NEW i \in DOMAIN queue'
          PROVE  queue'[i] # 0 /\ queue'[i] \in unserved'
      <4>1. made + 1 \in unserved'
        BY <2>3, <3>1 DEF Served
      <4>2. CASE i \in DOMAIN queue
        BY <2>2, <3>1, <4>2 DEF LInv, BusInside
      <4>3. CASE i = Len(queue) + 1
        BY <1>3, <2>2, <2>3, <4>1, <4>3
      <4> QED BY <2>4, <4>2, <4>3
    <3> QED BY <3>1 DEF LInv, BusInside
  <2>8. Sentinel'
    <3> SUFFICES ASSUME NEW i \in DOMAIN queue', queue'[i] = 0
        PROVE  /\ stop \in {"going", "raised"} /\ at = N + 3 /\ "bus" \in up
               /\ up \intersect Active = {}
               /\ \A j \in DOMAIN queue' : j > i => queue'[j] # 0 /\ queue'[j] \in unserved'
      BY DEF Sentinel
    <3>1. i \in DOMAIN queue /\ queue[i] = 0
      BY <1>3, <2>2, <2>3, <2>4
    <3>2. 0 \in Range(queue)
      BY <3>1 DEF Range
    <3>3. made + 1 \in unserved'
      BY <2>3, <3>2 DEF Served
    <3>4. ASSUME NEW j \in DOMAIN queue', j > i
          PROVE  queue'[j] # 0 /\ queue'[j] \in unserved'
      <4>1. CASE j \in DOMAIN queue
        BY <2>2, <3>1, <3>4, <4>1 DEF LInv, Sentinel
      <4>2. CASE j = Len(queue) + 1
        BY <1>3, <2>2, <2>3, <3>3, <4>2
      <4> QED BY <2>4, <4>1, <4>2
    <3> QED BY <3>1, <3>4 DEF LInv, Sentinel
  <2>9. Heard'
    <3> SUFFICES ASSUME NEW e \in base + 1 .. made + 1
        PROVE  \/ e \in rows \union unserved'
               \/ e = holding
               \/ \E i \in DOMAIN queue' : queue'[i] = e
      BY <1>3 DEF Heard
    <3>1. CASE e = made + 1
      <4>1. Len(queue) + 1 \in DOMAIN queue'
        BY <2>2
      <4> QED BY <2>2, <3>1, <4>1
    <3>2. CASE e # made + 1
      <4>1. e \in base + 1 .. made
        BY <2>1, <3>2
      <4>2. e \in rows \union unserved \/ e = holding \/ \E i \in DOMAIN queue : queue[i] = e
        BY <4>1 DEF LInv, Heard
      <4>3. \A i \in DOMAIN queue : i \in DOMAIN queue'
        BY <2>2
      <4> QED BY <2>2, <4>2, <4>3
    <3> QED BY <3>1, <3>2
  <2>10. Settled'
    <3> SUFFICES ASSUME state_file # "booted"
        PROVE  base + 1 .. made + 1 \subseteq rows \union unserved' /\ "bus" \notin up
      BY <1>3 DEF Settled
    <3>1. base + 1 .. made \subseteq rows \union unserved /\ "bus" \notin up
      BY DEF LInv, Settled
    <3>2. made + 1 \in unserved'
      BY <2>3, <3>1 DEF Served
    <3>3. \A e \in base + 1 .. made + 1 : e \in base + 1 .. made \/ e = made + 1
      BY <2>1
    <3> QED BY <3>1, <3>2, <3>3
  <2> QED BY <1>1, <2>5, <2>6, <2>7, <2>8, <2>9, <2>10 DEF LInv
<1> QED BY <1>2, <1>3 DEF Offer

(* What is up and publishes of itself has its events served.               *)
LEMMA ActiveIsServed ==
  ASSUME LInv, NEW part \in up \intersect Active
  PROVE  wired /\ Served
<1>1. wired
  BY DEF LInv, Phases
<1>2. "bus" \in up
  BY <1>1 DEF LInv, BusInside
<1>3. \A i \in DOMAIN queue : queue[i] # 0
  BY DEF LInv, Sentinel
<1> QED BY <1>1, <1>2, <1>3 DEF Served, Range

LEMMA OfPublish ==
  ASSUME LInv, NEW part, Publish(part)
  PROVE  LInv'
<1>1. part \in up \intersect Active
  BY DEF Publish, Active, Sources
<1>2. wired /\ Served
  BY <1>1, ActiveIsServed
<1>3. /\ Offer
      /\ UNCHANGED << state_file, rows, holding, start, stop, at, up, wired, prev, base,
                      ending, report, reading, unserved >>
  BY DEF Publish, durable, past
<1> QED BY <1>2, <1>3, OfOffer

LEMMA OfFlush ==
  ASSUME LInv, NEW source \in Sources, Flush(source)
  PROVE  LInv'
<1>1. source \in up \intersect Active
  BY DEF Flush, Active
<1>2. wired /\ Served
  BY <1>1, ActiveIsServed
<1>3. /\ Offer
      /\ UNCHANGED << state_file, rows, holding, start, stop, at, up, wired, prev, base,
                      ending, report, reading, unserved >>
  BY DEF Flush, durable, past
<1> QED BY <1>2, <1>3, OfOffer

LEMMA OfReadEnds ==
  ASSUME LInv, NEW source, ReadEnds(source)
  PROVE  LInv'
<1>1. /\ source \in reading /\ Offer /\ reading' = reading \ {source}
      /\ unserved' = unserved \union (IF Served THEN {} ELSE {made'} \ {made})
      /\ UNCHANGED << state_file, rows, holding, start, stop, at, up, wired, prev, base,
                      ending, report >>
  BY DEF ReadEnds, durable, past
<1>2. wired
  BY <1>1 DEF LInv, Phases
<1>3. /\ unserved \subseteq unserved'
      /\ Served \/ made' = made \/ made' \in unserved'
  BY <1>1
<1> QED BY <1>1, <1>2, <1>3, OfOffer

(* A buffer or a read begins: nothing is published yet.                    *)
LEMMA OfBegin ==
  ASSUME LInv, NEW source \in Sources, Buffer(source) \/ Read(source)
  PROVE  LInv'
<1>1. source \in up \intersect Active
  BY DEF Buffer, Read, Active
<1>2. wired
  BY <1>1, ActiveIsServed
<1>3. UNCHANGED << state_file, rows, queue, holding, made, unserved, start, stop, at, up,
                   wired, prev, base, ending, report >>
  BY DEF Buffer, Read, durable, past
<1>4. Reports' /\ Down'
  BY <1>3, SameLife
<1>5. Types' /\ Phases' /\ BusInside'
  BY <1>2, <1>3 DEF LInv, Types, Phases, BusInside
<1>6. Sentinel' /\ Heard' /\ Settled'
  BY <1>3 DEF LInv, Sentinel, Heard, Settled
<1> QED BY <1>4, <1>5, <1>6 DEF LInv

(* The dispatcher takes an event, or the sentinel and ends.                *)
LEMMA OfTake ==
  ASSUME LInv, Take
  PROVE  LInv'
<1>1. /\ "bus" \in up /\ holding = 0 /\ queue # << >>
      /\ up' = IF Head(queue) = 0 THEN up \ {"bus"} ELSE up
      /\ holding' = IF wired THEN Head(queue) ELSE 0
      /\ queue' = Tail(queue)
      /\ UNCHANGED << reading, made, unserved, start, stop, at, wired, state_file, rows,
                      base, prev, ending, report, runs >>
  BY DEF Take, IsSentinel, durable, past
<1>2. wired
  BY <1>1 DEF LInv, Phases
<1>3. /\ queue' \in Seq(Nat)
      /\ 1 \in DOMAIN queue /\ Head(queue) = queue[1] /\ Head(queue) \in Nat
      /\ \A i \in DOMAIN queue' :
           /\ i \in Nat /\ i >= 1 /\ i + 1 \in DOMAIN queue
           /\ queue'[i] = queue[i + 1]
      /\ \A i \in DOMAIN queue : i # 1 =>
           i - 1 \in DOMAIN queue' /\ queue[i] = queue'[i - 1]
  BY <1>1, Removed DEF LInv, Types
<1>4. queue[1] = 0 =>
        /\ stop \in {"going", "raised"} /\ at = N + 3 /\ up \intersect Active = {}
        /\ start = "done"
        /\ \A i \in DOMAIN queue' : queue'[i] # 0 /\ queue'[i] \in unserved
  <2> SUFFICES ASSUME queue[1] = 0
      PROVE  /\ stop \in {"going", "raised"} /\ at = N + 3 /\ up \intersect Active = {}
             /\ start = "done"
             /\ \A i \in DOMAIN queue' : queue'[i] # 0 /\ queue'[i] \in unserved
    OBVIOUS
  <2>1. /\ stop \in {"going", "raised"} /\ at = N + 3 /\ up \intersect Active = {}
        /\ \A j \in DOMAIN queue : j > 1 => queue[j] # 0 /\ queue[j] \in unserved
    BY <1>3 DEF LInv, Sentinel
  <2>2. \A i \in DOMAIN queue' : i + 1 > 1
    BY <1>3
  <2>3. start = "done"
    BY <2>1 DEF LInv, Phases
  <2> QED BY <1>3, <2>1, <2>2, <2>3
<1>5. Types'
  BY <1>1, <1>3 DEF LInv, Types
<1>6. Phases'
  BY <1>1, <1>2 DEF LInv, Phases
<1>7. BusInside'
  <2>1. CASE queue[1] = 0
    BY <1>1, <1>3, <1>4, <2>1 DEF LInv, BusInside
  <2>2. CASE queue[1] # 0
    BY <1>1, <1>3, <2>2 DEF LInv, BusInside
  <2> QED BY <2>1, <2>2
<1>8. Sentinel'
  <2>1. CASE queue[1] = 0
    BY <1>4, <2>1 DEF Sentinel
  <2>2. CASE queue[1] # 0
    <3> SUFFICES ASSUME NEW i \in DOMAIN queue', queue'[i] = 0
        PROVE  /\ stop' \in {"going", "raised"} /\ at' = N + 3 /\ "bus" \in up'
               /\ up' \intersect Active = {}
               /\ \A j \in DOMAIN queue' : j > i => queue'[j] # 0 /\ queue'[j] \in unserved'
      BY DEF Sentinel
    <3>1. i + 1 \in DOMAIN queue /\ queue[i + 1] = 0
      BY <1>3
    <3>2. /\ stop \in {"going", "raised"} /\ at = N + 3 /\ "bus" \in up
          /\ up \intersect Active = {}
          /\ \A j \in DOMAIN queue : j > i + 1 => queue[j] # 0 /\ queue[j] \in unserved
      BY <3>1 DEF LInv, Sentinel
    <3>3. \A j \in DOMAIN queue' : j > i => j + 1 > i + 1
      BY <1>3
    <3> QED BY <1>1, <1>3, <2>2, <3>2, <3>3
  <2> QED BY <2>1, <2>2
<1>9. Heard'
  <2> SUFFICES ASSUME NEW e \in base + 1 .. made
      PROVE  \/ e \in rows \union unserved
             \/ e = holding'
             \/ \E i \in DOMAIN queue' : queue'[i] = e
    BY <1>1 DEF Heard
  <2>1. e # 0
    BY DEF LInv, Types
  <2>2. e \in rows \union unserved \/ \E i \in DOMAIN queue : queue[i] = e
    BY <1>1, <1>2, <2>1 DEF LInv, Heard
  <2>3. ASSUME NEW i \in DOMAIN queue, queue[i] = e
        PROVE  e = holding' \/ \E j \in DOMAIN queue' : queue'[j] = e
    <3>1. CASE i = 1
      BY <1>1, <1>2, <1>3, <2>3, <3>1
    <3>2. CASE i # 1
      BY <1>3, <2>3, <3>2
    <3> QED BY <3>1, <3>2
  <2> QED BY <2>2, <2>3
<1>10. Settled'
  BY <1>1, <1>2 DEF LInv, Settled
<1>11. Reports'
  BY <1>1, SameReports DEF LInv
<1>12. Down'
  BY <1>1, SameDown DEF LInv
<1> QED BY <1>5, <1>6, <1>7, <1>8, <1>9, <1>10, <1>11, <1>12 DEF LInv

(* What is held is stored, since the database outlives the bus.            *)
LEMMA OfStore ==
  ASSUME LInv, Store \/ StoreFails
  PROVE  LInv'
<1>1. /\ holding # 0 /\ holding' = 0
      /\ UNCHANGED << state_file, queue, reading, made, start, stop, at, up, wired,
                      base, prev, ending, report, runs >>
  BY DEF Store, StoreFails, past
<1>2. "db" \in up
  BY <1>1 DEF LInv, BusInside
<1>3. /\ rows \subseteq rows' /\ unserved \subseteq unserved'
      /\ holding \in rows' \union unserved'
  BY <1>2 DEF Store, StoreFails
<1>4. Reports' /\ Down'
  BY <1>1, <1>3, SameLife
<1>5. Types' /\ Phases'
  BY <1>1 DEF LInv, Types, Phases
<1>6. BusInside'
  BY <1>1, <1>3 DEF LInv, BusInside
<1>7. Sentinel'
  BY <1>1, <1>3 DEF LInv, Sentinel
<1>8. Heard'
  <2> SUFFICES ASSUME wired, NEW e \in base + 1 .. made
      PROVE  \/ e \in rows' \union unserved'
             \/ \E i \in DOMAIN queue : queue[i] = e
    BY <1>1 DEF Heard
  <2> QED BY <1>3 DEF LInv, Heard
<1>9. Settled'
  BY <1>1, <1>3 DEF LInv, Settled
<1> QED BY <1>4, <1>5, <1>6, <1>7, <1>8, <1>9 DEF LInv

-----------------------------------------------------------------------------
(* stop().                                                                 *)

LEMMA OfStopBegins ==
  ASSUME LInv, StopBegins
  PROVE  LInv'
<1>1. /\ stop = "idle" /\ start = "done" /\ stop' = "going" /\ at' = 1
      /\ UNCHANGED << start, up, wired, state_file, rows, queue, holding, buffered,
                      reading, made, unserved, base, prev, ending, report, runs >>
  BY DEF StopBegins, durable, traffic, past
<1>2. Types'
  BY <1>1, Places DEF LInv, Types
<1>3. Phases' /\ BusInside'
  BY <1>1 DEF LInv, Phases, BusInside
<1>4. Sentinel'
  BY <1>1 DEF LInv, Sentinel
<1>5. Heard' /\ Settled'
  BY <1>1 DEF LInv, Heard, Settled
<1>6. Reports'
  BY <1>1, SameReports DEF LInv
<1>7. Down'
  BY <1>1, Places DEF Down, StoppedInFull
<1> QED BY <1>2, <1>3, <1>4, <1>5, <1>6, <1>7 DEF LInv

LEMMA OfStopTooEarly ==
  ASSUME LInv, StopTooEarly
  PROVE  LInv'
<1>1. /\ stop = "idle" /\ start \in {"going", "failed"} /\ stop' = "returned"
      /\ UNCHANGED << start, at, up, wired, state_file, rows, queue, holding, buffered,
                      reading, made, unserved, base, prev, ending, report, runs >>
  BY DEF StopTooEarly, durable, traffic, past
<1>2. Types' /\ Phases' /\ BusInside'
  BY <1>1 DEF LInv, Types, Phases, BusInside
<1>3. Sentinel'
  BY <1>1 DEF LInv, Sentinel
<1>4. Heard' /\ Settled'
  BY <1>1 DEF LInv, Heard, Settled
<1>5. Reports'
  BY <1>1, SameReports DEF LInv
<1>6. Down'
  BY <1>1 DEF Down, StoppedInFull
<1> QED BY <1>2, <1>3, <1>4, <1>5, <1>6 DEF LInv

(* The steps of stop() that take one part down, or the bus that is down.   *)
LEMMA OfStopStep ==
  ASSUME LInv, stop = "going", at # N + 7,
         at' = at + 1, StopOrder[at] \notin up', up' \subseteq up,
         at = N + 3 => up' = up /\ "bus" \notin up,
         "bus" \in up => "bus" \in up',
         "db" \in up => "db" \in up' \/ at = N + 6,
         UNCHANGED << start, stop, wired, rows, queue, holding, reading, made, unserved,
                      base, prev, ending, report >>,
         state_file' = state_file \/ (at = N + 4 /\ state_file' = "clean"),
         at = N + 4 => state_file' = "clean",
         "hooks" \in up => "hooks" \in up'
  PROVE  LInv'
<1>1. N \in Nat /\ at \in 1 .. N + 6 /\ at \in 1 .. N + 7 /\ at' \in 1 .. N + 7
  BY Places DEF LInv, Types
<1>2. start = "done" /\ wired
  BY DEF LInv, Phases
<1>3. \A i \in 1 .. at - 1 : StopOrder[i] \notin up
  BY DEF LInv, Down
<1>4. \A i \in 1 .. at' - 1 : StopOrder[i] \notin up'
  <2> SUFFICES ASSUME NEW i \in 1 .. at' - 1 PROVE StopOrder[i] \notin up'
    OBVIOUS
  <2>1. i \in 1 .. at - 1 \/ i = at
    BY <1>1
  <2> QED BY <1>3, <2>1
<1>5. at > N + 3 => "bus" \notin up
  <2> SUFFICES ASSUME at > N + 3 PROVE "bus" \notin up
    OBVIOUS
  <2>1. N + 3 \in 1 .. at - 1 /\ N + 3 \in 1 .. N + 7
    BY <1>1
  <2>2. StopOrder[N + 3] = "bus"
    BY <2>1, Places
  <2> QED BY <1>3, <2>1, <2>2
<1>6. \A i \in DOMAIN queue : queue[i] # 0
  <2> SUFFICES ASSUME NEW i \in DOMAIN queue, queue[i] = 0 PROVE FALSE
    OBVIOUS
  <2>1. at = N + 3 /\ "bus" \in up
    BY DEF LInv, Sentinel
  <2> QED BY <2>1
<1>7. Types'
  BY <1>1 DEF LInv, Types
<1>8. Phases'
  BY <1>2 DEF LInv, Phases
<1>9. BusInside'
  <2>1. "bus" \in up' => "db" \in up'
    <3> SUFFICES ASSUME "bus" \in up' PROVE "db" \in up'
      OBVIOUS
    <3>1. "bus" \in up /\ at # N + 6
      BY <1>1, <1>5
    <3> QED BY <3>1 DEF LInv, BusInside
  <2> QED BY <1>2, <2>1 DEF LInv, BusInside
<1>10. Sentinel'
  BY <1>6 DEF Sentinel
<1>11. Heard'
  BY DEF LInv, Heard
<1>12. Settled'
  <2>1. CASE state_file' = state_file
    BY <2>1 DEF LInv, Settled
  <2>2. CASE at = N + 4
    <3>1. "bus" \notin up /\ holding = 0
      BY <1>1, <1>5, <2>2 DEF LInv, BusInside
    <3>2. \A i \in DOMAIN queue : queue[i] \in unserved
      BY <1>2, <3>1 DEF LInv, BusInside
    <3>3. base + 1 .. made \subseteq rows \union unserved
      <4> SUFFICES ASSUME NEW e \in base + 1 .. made PROVE e \in rows \union unserved
        OBVIOUS
      <4>1. e # 0
        BY DEF LInv, Types
      <4> QED BY <1>2, <3>1, <3>2, <4>1 DEF LInv, Heard
    <3> QED BY <3>1, <3>3 DEF Settled
  <2> QED BY <2>1, <2>2
<1>13. Reports'
  BY <1>2 DEF LInv, Reports, NotReportedMeansStored, NoFalseReport, Running
<1>14. Down'
  <2>1. at' > N + 4 => state_file' = "clean"
    BY <1>1 DEF LInv, Down
  <2>2. ~StoppedInFull'
    BY DEF StoppedInFull
  <2> QED BY <1>4, <2>1, <2>2 DEF Down
<1> QED BY <1>7, <1>8, <1>9, <1>10, <1>11, <1>12, <1>13, <1>14 DEF LInv

LEMMA OfStopPart ==
  ASSUME LInv, NEW part \in Sources \union Core, StopPart(part)
  PROVE  LInv'
<1>1. /\ stop = "going" /\ StopOrder[at] = part /\ part \notin {"bus", "detector", "hooks"}
      /\ up' = up \ {part} /\ at' = at + 1
      /\ UNCHANGED << start, stop, wired, state_file, rows, queue, holding, reading, made,
                      unserved, base, prev, ending, report >>
  BY DEF StopPart, Stops, durable, traffic, past
<1>2. at \in 1 .. N + 7
  BY DEF LInv, Types
<1>3. at # N + 3 /\ at # N + 4 /\ at # N + 7 /\ (part = "db" <=> at = N + 6)
  BY <1>1, <1>2, Places
<1> QED BY <1>1, <1>3, OfStopStep

LEMMA OfStopBusEnds ==
  ASSUME LInv, StopBusEnds
  PROVE  LInv'
<1>1. /\ stop = "going" /\ StopOrder[at] = "bus" /\ "bus" \notin up /\ at' = at + 1
      /\ UNCHANGED << start, stop, up, wired, state_file, rows, queue, holding, reading, made,
                      unserved, base, prev, ending, report >>
  BY DEF StopBusEnds, Stops, durable, traffic, past
<1>2. at \in 1 .. N + 7 /\ N \in Nat
  BY Places DEF LInv, Types
<1>3. at = N + 3 /\ at # N + 7 /\ at # N + 4
  BY <1>1, <1>2, Places
<1> QED BY <1>1, <1>3, OfStopStep

LEMMA OfStopDetector ==
  ASSUME LInv, StopDetector
  PROVE  LInv'
<1>1. /\ stop = "going" /\ StopOrder[at] = "detector" /\ state_file' = "clean"
      /\ up' = up \ {"detector"} /\ at' = at + 1
      /\ UNCHANGED << start, stop, wired, rows, queue, holding, reading, made,
                      unserved, base, prev, ending, report >>
  BY DEF StopDetector, Stops, traffic, past
<1>2. at \in 1 .. N + 7 /\ N \in Nat
  BY Places DEF LInv, Types
<1>3. at = N + 4 /\ at # N + 7 /\ at # N + 3
  BY <1>1, <1>2, Places
<1> QED BY <1>1, <1>3, OfStopStep

(* When the last step of stop() is reached everything else is down.        *)
LEMMA OfStopDone ==
  ASSUME LInv, StopDone
  PROVE  LInv'
<1>1. /\ stop = "going" /\ StopOrder[at] = "hooks" /\ up' = up \ {"hooks"}
      /\ stop' = "returned"
      /\ UNCHANGED << start, at, wired, state_file, rows, queue, holding, reading, made,
                      unserved, base, prev, ending, report >>
  BY DEF StopDone, Stops, durable, traffic, past
<1>2. N \in Nat /\ at \in 1 .. N + 7 /\ at = N + 7
  BY <1>1, Places DEF LInv, Types
<1>3. start = "done" /\ wired
  BY <1>1 DEF LInv, Phases
<1>4. up' = {}
  <2> SUFFICES ASSUME NEW p \in up' PROVE FALSE
    OBVIOUS
  <2>1. p \in Sources \union Core /\ p \in up /\ p # "hooks"
    BY <1>1 DEF LInv, Types
  <2>2. PICK i \in 1 .. N + 7 : StopOrder[i] = p
    BY <2>1, Places
  <2>3. i \in 1 .. at - 1
    BY <1>1, <1>2, <2>1, <2>2
  <2> QED BY <1>1, <2>1, <2>2, <2>3 DEF LInv, Down
<1>5. "bus" \notin up
  BY <1>1, <1>4
<1>6. \A i \in DOMAIN queue : queue[i] # 0
  BY <1>5 DEF LInv, Sentinel
<1>7. Types'
  BY <1>1 DEF LInv, Types
<1>8. Phases' /\ BusInside'
  BY <1>1, <1>3, <1>4, <1>5 DEF LInv, Phases, BusInside
<1>9. Sentinel'
  BY <1>1, <1>6 DEF Sentinel
<1>10. Heard' /\ Settled'
  BY <1>1, <1>4 DEF LInv, Heard, Settled
<1>11. Reports'
  BY <1>1, SameReports DEF LInv
<1>12. Down'
  <2>1. state_file' = "clean"
    BY <1>1, <1>2 DEF LInv, Down
  <2> QED BY <1>1, <1>4, <2>1 DEF Down
<1> QED BY <1>7, <1>8, <1>9, <1>10, <1>11, <1>12 DEF LInv

LEMMA OfStopRaises ==
  ASSUME LInv, StopRaises
  PROVE  LInv'
<1>1. /\ stop = "going" /\ stop' = "raised"
      /\ UNCHANGED << start, at, up, wired, state_file, rows, queue, holding, buffered,
                      reading, made, unserved, base, prev, ending, report, runs >>
  BY DEF StopRaises, durable, traffic, past
<1>2. Types' /\ Phases' /\ BusInside'
  BY <1>1 DEF LInv, Types, Phases, BusInside
<1>3. Sentinel'
  BY <1>1 DEF LInv, Sentinel
<1>4. Heard' /\ Settled'
  BY <1>1 DEF LInv, Heard, Settled
<1>5. Reports'
  BY <1>1, SameReports DEF LInv
<1>6. Down'
  BY <1>1 DEF Down, StoppedInFull
<1> QED BY <1>2, <1>3, <1>4, <1>5, <1>6 DEF LInv

(* By now nothing publishes of itself: the sentinel is the last, or what   *)
(* is in the full queue is left there.                                     *)
LEMMA OfStopBus ==
  ASSUME LInv, StopBus
  PROVE  LInv'
<1>1. /\ stop = "going" /\ StopOrder[at] = "bus" /\ "bus" \in up
      /\ \A i \in DOMAIN queue : queue[i] # 0
      /\ UNCHANGED << reading, made, start, stop, at, wired, state_file, rows, base, prev,
                      ending, report, runs >>
  BY DEF StopBus, Stops, durable, past
<1>2. N \in Nat /\ at \in 1 .. N + 7 /\ at = N + 3
  BY <1>1, Places DEF LInv, Types
<1>3. start = "done" /\ wired
  BY <1>1 DEF LInv, Phases
<1>4. up \intersect Active = {}
  <2> SUFFICES ASSUME NEW p \in up, p \in Active PROVE FALSE
    OBVIOUS
  <2>1. PICK i \in 1 .. N + 7 : StopOrder[i] = p /\ i <= N + 1
    BY Places DEF LInv, Types
  <2>2. i \in 1 .. at - 1
    BY <1>2, <2>1
  <2> QED BY <1>1, <2>1, <2>2 DEF LInv, Down
<1>5. CASE Room
  <2>1. queue' = Append(queue, 0) /\ UNCHANGED << up, holding, unserved >>
    BY <1>5 DEF StopBus
  <2>2. /\ Len(queue) \in Nat /\ DOMAIN queue = 1 .. Len(queue)
        /\ queue' \in Seq(Nat)
        /\ DOMAIN queue' = 1 .. Len(queue) + 1
        /\ \A i \in DOMAIN queue : queue'[i] = queue[i]
        /\ queue'[Len(queue) + 1] = 0
    BY <2>1, Appended DEF LInv, Types
  <2>3. Types' /\ Phases'
    BY <1>1, <1>3, <2>1, <2>2 DEF LInv, Types, Phases
  <2>4. BusInside'
    BY <1>1, <2>1 DEF LInv, BusInside
  <2>5. Sentinel'
    <3> SUFFICES ASSUME NEW i \in DOMAIN queue', queue'[i] = 0
        PROVE  \A j \in DOMAIN queue' : ~ j > i
      BY <1>1, <1>2, <1>4, <2>1 DEF Sentinel
    <3>1. i \notin DOMAIN queue
      BY <1>1, <2>2
    <3> QED BY <2>2, <3>1
  <2>6. Heard'
    <3> SUFFICES ASSUME NEW e \in base + 1 .. made
        PROVE  \/ e \in rows \union unserved
               \/ e = holding
               \/ \E i \in DOMAIN queue' : queue'[i] = e
      BY <1>1, <2>1 DEF Heard
    <3>1. e \in rows \union unserved \/ e = holding \/ \E i \in DOMAIN queue : queue[i] = e
      BY <1>3 DEF LInv, Heard
    <3>2. \A i \in DOMAIN queue : i \in DOMAIN queue'
      BY <2>2
    <3> QED BY <2>2, <3>1, <3>2
  <2>7. Settled'
    BY <1>1, <2>1 DEF LInv, Settled
  <2>8. Reports' /\ Down'
    BY <1>1, <2>1, SameLife
  <2> QED BY <2>3, <2>4, <2>5, <2>6, <2>7, <2>8 DEF LInv
<1>6. CASE ~Room
  <2>1. /\ up' = up \ {"bus"} /\ holding' = 0 /\ queue' = queue
        /\ unserved' = unserved \union Range(queue) \union ({holding} \ {0})
    BY <1>6 DEF StopBus
  <2>2. \A i \in DOMAIN queue : queue[i] \in unserved'
    BY <2>1 DEF Range
  <2>3. unserved \subseteq unserved'
    BY <2>1
  <2>4. Types' /\ Phases'
    BY <1>1, <1>3, <2>1 DEF LInv, Types, Phases
  <2>5. BusInside'
    BY <1>1, <1>3, <1>4, <2>1, <2>2 DEF LInv, BusInside
  <2>6. Sentinel'
    BY <1>1, <2>1 DEF Sentinel
  <2>7. Heard'
    <3> SUFFICES ASSUME NEW e \in base + 1 .. made
        PROVE  e \in rows \union unserved'
      BY <1>1, <2>1 DEF Heard
    <3>1. e # 0
      BY DEF LInv, Types
    <3>2. e \in rows \union unserved \/ e = holding \/ \E i \in DOMAIN queue : queue[i] = e
      BY <1>3 DEF LInv, Heard
    <3> QED BY <2>1, <2>2, <2>3, <3>1, <3>2
  <2>8. Settled'
    BY <1>1, <2>1, <2>3 DEF LInv, Settled
  <2>9. Reports'
    BY <1>1, <2>3, SameReports DEF LInv
  <2>10. Down'
    BY <1>1, <2>1, SameDown DEF LInv
  <2> QED BY <2>4, <2>5, <2>6, <2>7, <2>8, <2>9, <2>10 DEF LInv
<1> QED BY <1>5, <1>6

-----------------------------------------------------------------------------
(* The end of the process.                                                 *)

LEMMA OfVanish ==
  ASSUME LInv, NEW how, Vanish(how), start # "off",
         how = "stopped" => state_file = "clean"
  PROVE  LInv'
<1>1. /\ start' = "off" /\ stop' = "idle" /\ at' = 1 /\ up' = {} /\ wired' = FALSE
      /\ queue' = << >> /\ holding' = 0 /\ reading' = {} /\ ending' = how
      /\ UNCHANGED << made, unserved, base, prev, report, state_file, rows >>
  BY DEF Vanish, durable
<1>2. Types'
  BY <1>1, Places DEF LInv, Types
<1>3. Phases' /\ BusInside'
  BY <1>1 DEF Phases, BusInside
<1>4. Sentinel' /\ Heard'
  BY <1>1 DEF Sentinel, Heard
<1>5. Settled'
  BY <1>1 DEF LInv, Settled
<1>6. Reports'
  BY <1>1 DEF LInv, Reports, NotReportedMeansStored, NoFalseReport, Running
<1>7. Down'
  BY <1>1 DEF Down, StoppedInFull
<1> QED BY <1>2, <1>3, <1>4, <1>5, <1>6, <1>7 DEF LInv

LEMMA OfEnd ==
  ASSUME LInv, Kill \/ Exit \/ FailedExit
  PROVE  LInv'
<1>1. CASE Kill
  BY <1>1, OfVanish DEF Kill, Running
<1>2. CASE StoppedInFull /\ Vanish("stopped")
  <2>1. state_file = "clean" /\ start # "off"
    BY <1>2 DEF LInv, Down, StoppedInFull
  <2> QED BY <1>2, <2>1, OfVanish
<1>3. CASE stop = "raised" /\ Vanish("raised")
  <2>1. start # "off"
    BY <1>3 DEF LInv, Phases
  <2> QED BY <1>3, <2>1, OfVanish
<1>4. CASE FailedExit
  BY <1>4, OfVanish DEF FailedExit
<1> QED BY <1>1, <1>2, <1>3, <1>4 DEF Exit

-----------------------------------------------------------------------------
LEMMA OfStutter ==
  ASSUME LInv, UNCHANGED vars
  PROVE  LInv'
<1>1. UNCHANGED << state_file, rows, start, stop, at, up, wired, queue, holding, reading,
                   made, unserved, base, prev, ending, report >>
  BY DEF vars
<1>2. Types' /\ Phases' /\ BusInside'
  BY <1>1 DEF LInv, Types, Phases, BusInside
<1>3. Sentinel' /\ Heard' /\ Settled'
  BY <1>1 DEF LInv, Sentinel, Heard, Settled
<1>4. Reports' /\ Down'
  BY <1>1, SameLife
<1> QED BY <1>2, <1>3, <1>4 DEF LInv

LEMMA LStep == LInv /\ [Next]_vars => LInv'
<1> SUFFICES ASSUME LInv, [Next]_vars PROVE LInv'
  OBVIOUS
<1>1. ASSUME NEW part \in Sources \union Core, StartPart(part) \/ Publish(part)
      PROVE  LInv'
  BY <1>1, OfStartPart, OfPublish
<1>2. CASE Boot \/ StartDetector \/ StartDone \/ StartRaises
  BY <1>2, OfBoot, OfStartDetector, OfStartDone, OfStartRaises
<1>3. ASSUME NEW source \in Sources,
             Buffer(source) \/ Flush(source) \/ Read(source) \/ ReadEnds(source)
      PROVE  LInv'
  BY <1>3, OfBegin, OfFlush, OfReadEnds
<1>4. CASE Dispatcher
  BY <1>4, OfTake, OfStore DEF Dispatcher
<1>5. CASE StopBegins \/ StopTooEarly \/ StopRaises
  BY <1>5, OfStopBegins, OfStopTooEarly, OfStopRaises
<1>6. CASE Stopping
  BY <1>6, OfStopPart, OfFlush, OfStopBus, OfStopBusEnds, OfStopDetector, OfStopDone
  DEF Stopping, StopFlushes
<1>7. CASE Kill \/ Exit \/ FailedExit
  BY <1>7, OfEnd
<1>8. CASE UNCHANGED vars
  BY <1>8, OfStutter
<1> QED BY <1>1, <1>2, <1>3, <1>4, <1>5, <1>6, <1>7, <1>8 DEF Next

(* The inductive invariant holds of the application, whatever fails or is  *)
(* killed (app.py, core/crash.py, core/bus.py).                            *)
THEOREM Invariance == Spec => []LInv
BY LInit, LStep, PTL DEF Spec

(* From the report of a crash to the last flush every event accepted is    *)
(* waiting, held, stored, or known to be lost (app.py:96-104, 137-153).    *)
THEOREM EveryEventIsHeard == Spec => []NoneUnheard
<1>1. ASSUME LInv PROVE NoneUnheard
  <2> SUFFICES ASSUME Running, report # "none", NEW e \in base + 1 .. made
      PROVE  e \in rows \union {holding} \union Range(queue) \union unserved
    BY DEF NoneUnheard
  <2>1. wired
    BY <1>1 DEF LInv, Phases, Running
  <2> QED BY <1>1, <2>1 DEF LInv, Heard, Range
<1> QED BY <1>1, Invariance, PTL

(* A start that reports no crash means that every accepted event of the    *)
(* run before is stored but for the losses the code is known to have, and  *)
(* a run of which stop() came to its end is not reported; after a crash at *)
(* any point of start() or stop(), a start() or a stop() that raised, and  *)
(* with any number of runs (crash.py:41-69).                               *)
THEOREM TheReportIsRight == Spec => []ReportIsRight
<1>1. LInv => ReportIsRight
  BY DEF LInv, Reports, ReportIsRight
<1> QED BY <1>1, Invariance, PTL

(* A stop() that comes to its end leaves no part up (app.py:129-159).      *)
THEOREM StopLeavesNothing == Spec => []ShutsDownAll
<1>1. LInv => ShutsDownAll
  BY DEF LInv, Down, ShutsDownAll
<1> QED BY <1>1, Invariance, PTL

-----------------------------------------------------------------------------
(* The clients of the LLM.                                                 *)

Clients == DOMAIN clients

ReloadPlaces == [pc : {"idle", "closing", "closed", "starting", "failed", "done", "asking"},
           client : Nat]

LTypes ==
  /\ clients \in Seq([open : BOOLEAN, available : BOOLEAN])
  /\ llm \in Nat /\ ollama \in BOOLEAN
  /\ reload \in [Reloads -> ReloadPlaces]
  /\ stopping \in ReloadPlaces
  /\ alone \in BOOLEAN
  /\ \A r \in Reloads : reload[r].pc \in {"closing", "starting"} => reload[r].client \in Clients
  /\ health.pc = "asking" => health.client \in Clients
  /\ batch.pc = "asking" => batch.client \in Clients
  /\ stopping.pc = "closing" => stopping.client \in Clients
  /\ L!Briefer \in Clients /\ analyzer \in Clients

(* Whoever closes the client of the application takes it away.             *)
OwnIsOpen == llm # L!None => llm \in Clients /\ clients[llm].open

Busy(r) == reload[r].pc \in {"closing", "closed", "starting"}

(* While one at a time reloads or stops, it works on the application's     *)
(* client.                                                                 *)
OneAtATime ==
  /\ \A r, s \in Reloads : Busy(r) /\ Busy(s) => r = s
  /\ \A r \in Reloads : Busy(r) => stopping.pc # "closing"
  /\ \A r \in Reloads :
       /\ reload[r].pc \in {"closing", "starting"} => reload[r].client = llm
       /\ reload[r].pc = "closed" => llm = L!None
  /\ stopping.pc = "closing" => stopping.client = llm

Leaked(c) == \E r \in Reloads : reload[r] = L!At("failed", c)

OthersAreClosed == \A c \in Clients : clients[c].open => c = llm \/ Leaked(c)

ClientInv ==
  /\ LTypes
  /\ OwnIsOpen
  /\ alone => OneAtATime /\ OthersAreClosed

LEMMA Elements ==
  ASSUME NEW S, NEW s \in Seq(S)
  PROVE  DOMAIN s = 1 .. Len(s) /\ Len(s) \in Nat /\ \A i \in DOMAIN s : s[i] \in S
OBVIOUS

Client == [open : BOOLEAN, available : BOOLEAN]

LEMMA CheckedClient ==
  ASSUME LTypes, NEW c \in Clients, NEW answer \in BOOLEAN
  PROVE  LET new == [clients EXCEPT ![c].available = answer]
         IN /\ new \in Seq(Client) /\ DOMAIN new = Clients
            /\ \A d \in Clients : new[d].open = clients[d].open
<1> DEFINE new == [clients EXCEPT ![c].available = answer]
<1>1. clients \in Seq(Client) /\ \A d \in Clients : clients[d] \in Client
  BY Elements DEF LTypes, Clients, Client
<1>2. [clients[c] EXCEPT !.available = answer] \in Client
  BY <1>1 DEF Client
<1>3. [clients[c] EXCEPT !.available = answer].open = clients[c].open
  BY <1>1 DEF Client
<1>4. new = [clients EXCEPT ![c] = [clients[c] EXCEPT !.available = answer]]
  OBVIOUS
<1>5. new \in Seq(Client) /\ DOMAIN new = Clients
  BY <1>1, <1>2, <1>4 DEF Clients
<1>6. \A d \in Clients : new[d].open = clients[d].open
  BY <1>3, <1>4 DEF Clients
<1> QED BY <1>5, <1>6

LEMMA ClosedClient ==
  ASSUME LTypes, NEW c \in Clients
  PROVE  /\ L!Closed(c) \in Seq(Client) /\ DOMAIN L!Closed(c) = Clients
         /\ ~L!Closed(c)[c].open
         /\ \A d \in Clients : d # c => L!Closed(c)[d] = clients[d]
<1>1. clients \in Seq(Client) /\ [open |-> FALSE, available |-> FALSE] \in Client
  BY DEF LTypes, Client
<1> QED BY <1>1 DEF L!Closed, Clients

LEMMA AddedClient ==
  ASSUME NEW rest \in Seq(Client), NEW new \in Client
  PROVE  /\ Append(rest, new) \in Seq(Client)
         /\ DOMAIN Append(rest, new) = DOMAIN rest \union {Len(rest) + 1}
         /\ Append(rest, new)[Len(rest) + 1] = new
         /\ \A d \in DOMAIN rest : Append(rest, new)[d] = rest[d]
OBVIOUS

LEMMA ClientInit == L!Init => ClientInv
<1> SUFFICES ASSUME L!Init PROVE ClientInv
  OBVIOUS
<1>1. /\ clients = << [open |-> TRUE, available |-> ollama] >> /\ ollama \in BOOLEAN
      /\ llm = 1 /\ analyzer = 1 /\ alone = TRUE
      /\ reload = [r \in Reloads |-> [pc |-> "idle", client |-> 0]]
      /\ stopping = [pc |-> "idle", client |-> 0]
      /\ health.pc = "idle" /\ batch.pc = "idle"
  BY DEF L!Init, L!At, L!None
<1>2. Clients = {1} /\ clients[1].open /\ clients \in Seq(Client)
  BY <1>1 DEF Clients, Client
<1>3. LTypes
  BY <1>1, <1>2 DEF LTypes, ReloadPlaces, Client, L!Briefer
<1>4. OwnIsOpen /\ OthersAreClosed
  BY <1>1, <1>2 DEF OwnIsOpen, OthersAreClosed
<1>5. OneAtATime
  BY <1>1 DEF OneAtATime, Busy
<1> QED BY <1>3, <1>4, <1>5 DEF ClientInv

(* The jobs, and the answers to their requests, close and open no client.  *)
LEMMA OfAnswers ==
  ASSUME ClientInv, UNCHANGED << llm, analyzer, reload, stopping, alone >>,
         clients' \in Seq(Client), DOMAIN clients' = Clients, ollama' \in BOOLEAN,
         \A c \in Clients : clients'[c].open = clients[c].open,
         health'.pc = "asking" => health'.client \in Clients,
         batch'.pc = "asking" => batch'.client \in Clients
  PROVE  ClientInv'
<1>1. Clients' = Clients
  BY DEF Clients
<1>2. LTypes'
  BY <1>1 DEF ClientInv, LTypes, Client
<1> QED BY <1>1, <1>2 DEF ClientInv, OwnIsOpen, OneAtATime, Busy, OthersAreClosed, Leaked

Jobs ==
  \/ L!OllamaChanges
  \/ L!HealthAsks
  \/ L!HealthAnswers
  \/ L!HealthFails
  \/ L!BatchAsks
  \/ L!BatchAnswers
  \/ L!Brief

LEMMA OfJobs ==
  ASSUME ClientInv, Jobs
  PROVE  ClientInv'
<1>1. /\ LTypes /\ clients \in Seq(Client) /\ ollama \in BOOLEAN /\ Clients = DOMAIN clients
      /\ health.pc = "asking" => health.client \in Clients
      /\ batch.pc = "asking" => batch.client \in Clients
  BY DEF ClientInv, LTypes, Client, Clients
<1>2. L!At("idle", L!None).pc = "idle"
  BY DEF L!At
<1>3. CASE L!OllamaChanges
  BY <1>1, <1>3, OfAnswers DEF L!OllamaChanges
<1>4. CASE L!HealthAsks
  <2>1. health'.client \in Clients
    BY <1>4 DEF L!HealthAsks, L!At, ClientInv, OwnIsOpen
  <2> QED BY <1>1, <1>4, <2>1, OfAnswers DEF L!HealthAsks
<1>5. CASE L!HealthAnswers
  <2>1. PICK answer \in L!Found(health.client) :
          clients' = [clients EXCEPT ![health.client].available = answer]
    BY <1>5 DEF L!HealthAnswers, L!Checked
  <2>2. answer \in BOOLEAN /\ health.client \in Clients
    BY <1>1, <1>5 DEF L!Found, L!HealthAnswers
  <2>3. /\ clients' \in Seq(Client) /\ DOMAIN clients' = Clients
        /\ \A c \in Clients : clients'[c].open = clients[c].open
    BY <1>1, <2>1, <2>2, CheckedClient
  <2> QED BY <1>1, <1>2, <1>5, <2>3, OfAnswers DEF L!HealthAnswers
<1>6. CASE L!HealthFails
  BY <1>1, <1>2, <1>6, OfAnswers DEF L!HealthFails
<1>7. CASE L!BatchAsks
  <2>1. batch'.client \in Clients
    BY <1>7 DEF L!BatchAsks, L!At, ClientInv, LTypes
  <2> QED BY <1>1, <1>7, <2>1, OfAnswers DEF L!BatchAsks
<1>8. CASE L!BatchAnswers
  <2>1. \/ clients' = clients
        \/ clients' = [clients EXCEPT ![batch.client].available = FALSE]
    BY <1>8 DEF L!BatchAnswers
  <2>2. batch.client \in Clients
    BY <1>1, <1>8 DEF L!BatchAnswers
  <2>3. /\ clients' \in Seq(Client) /\ DOMAIN clients' = Clients
        /\ \A c \in Clients : clients'[c].open = clients[c].open
    <3>1. CASE clients' = clients
      BY <1>1, <3>1
    <3>2. CASE clients' = [clients EXCEPT ![batch.client].available = FALSE]
      BY <1>1, <2>2, <3>2, CheckedClient
    <3> QED BY <2>1, <3>1, <3>2
  <2> QED BY <1>1, <1>2, <1>8, <2>3, OfAnswers DEF L!BatchAnswers
<1>9. CASE L!Brief
  <2>1. /\ UNCHANGED << ollama, llm, analyzer, tracker, reload, health, batch, stopping, alone >>
        /\ \/ clients' = clients
           \/ clients' = [clients EXCEPT ![L!Briefer].available = FALSE]
    BY <1>9 DEF L!Brief, L!BriefReads, L!BriefReadFails, L!BriefIsPlain, L!BriefAsks,
       L!BriefAnswers, L!BriefIs
  <2>2. /\ clients' \in Seq(Client) /\ DOMAIN clients' = Clients
        /\ \A c \in Clients : clients'[c].open = clients[c].open
    <3>1. L!Briefer \in Clients
      BY <1>1 DEF LTypes
    <3>2. CASE clients' = clients
      BY <1>1, <3>2
    <3>3. CASE clients' = [clients EXCEPT ![L!Briefer].available = FALSE]
      BY <1>1, <3>1, <3>3, CheckedClient
    <3> QED BY <2>1, <3>2, <3>3
  <2> QED BY <1>1, <2>1, <2>2, OfAnswers
<1> QED BY <1>3, <1>4, <1>5, <1>6, <1>7, <1>8, <1>9 DEF Jobs

(* What a reload does to its own place.                                    *)
LEMMA ReloadMoves ==
  ASSUME LTypes, NEW r \in Reloads, NEW where, NEW c, L!SetReload(r, where, c)
  PROVE  /\ reload'[r] = [pc |-> where, client |-> c]
         /\ reload'[r].pc = where /\ reload'[r].client = c
         /\ \A s \in Reloads : s # r => reload'[s] = reload[s]
         /\ [pc |-> where, client |-> c] \in ReloadPlaces => reload' \in [Reloads -> ReloadPlaces]
BY DEF LTypes, L!SetReload, L!At

LEMMA OfReloadBegins ==
  ASSUME ClientInv, NEW r \in Reloads, L!ReloadCloses(r) \/ L!ReloadFindsNone(r)
  PROVE  ClientInv'
<1>1. /\ L!Begins /\ reload[r].pc = "idle"
      /\ \/ llm # L!None /\ L!SetReload(r, "closing", llm)
         \/ llm = L!None /\ L!SetReload(r, "closed", L!None)
      /\ UNCHANGED << ollama, clients, llm, analyzer, health, batch, stopping >>
  BY DEF L!ReloadCloses, L!ReloadFindsNone
<1>2. /\ \/ llm # L!None /\ reload'[r].pc = "closing" /\ reload'[r].client = llm
         \/ llm = L!None /\ reload'[r].pc = "closed"
      /\ \A s \in Reloads : s # r => reload'[s] = reload[s]
      /\ reload' \in [Reloads -> ReloadPlaces]
  BY <1>1, ReloadMoves DEF ClientInv, LTypes, ReloadPlaces, L!None
<1>3. LTypes'
  BY <1>1, <1>2 DEF ClientInv, LTypes, OwnIsOpen, Clients, L!Begins
<1>4. OwnIsOpen'
  BY <1>1 DEF ClientInv, OwnIsOpen, Clients
<1>5. ASSUME alone' PROVE OneAtATime' /\ OthersAreClosed'
  <2>1. alone /\ (\A s \in Reloads : ~Busy(s)) /\ stopping.pc # "closing"
    BY <1>1, <1>5 DEF L!Begins, L!UnderWay, Busy
  <2>2. OneAtATime'
    BY <1>1, <1>2, <2>1 DEF OneAtATime, Busy
  <2>3. \A c : Leaked(c) => Leaked(c)'
    BY <1>1, <1>2 DEF Leaked, L!At
  <2> QED BY <1>1, <2>1, <2>2, <2>3 DEF ClientInv, OthersAreClosed, Clients
<1> QED BY <1>3, <1>4, <1>5 DEF ClientInv

LEMMA OfReloadDisables ==
  ASSUME ClientInv, NEW r \in Reloads, L!ReloadDisables(r)
  PROVE  ClientInv'
<1> DEFINE mine == reload[r].client
<1>1. /\ reload[r].pc = "closing" /\ mine \in Clients
      /\ clients' = L!Closed(mine) /\ llm' = L!None /\ L!SetReload(r, "done", L!None)
      /\ UNCHANGED << ollama, analyzer, health, batch, stopping, alone >>
  BY DEF L!ReloadDisables, L!Forgotten, ClientInv, LTypes
<1>2. /\ clients' \in Seq(Client) /\ Clients' = Clients /\ ~clients'[mine].open
      /\ \A d \in Clients : d # mine => clients'[d] = clients[d]
  BY <1>1, ClosedClient DEF ClientInv, Clients
<1>3. /\ reload'[r].pc = "done" /\ \A s \in Reloads : s # r => reload'[s] = reload[s]
      /\ reload' \in [Reloads -> ReloadPlaces]
  BY <1>1, ReloadMoves DEF ClientInv, ReloadPlaces, L!None
<1>4. LTypes'
  BY <1>1, <1>2, <1>3 DEF ClientInv, LTypes, Client, L!None
<1>5. OwnIsOpen'
  BY <1>1 DEF OwnIsOpen
<1>6. ASSUME alone' PROVE OneAtATime' /\ OthersAreClosed'
  <2>1. Busy(r) /\ OneAtATime /\ OthersAreClosed /\ mine = llm
    BY <1>1, <1>6 DEF ClientInv, OneAtATime, Busy
  <2>2. \A s \in Reloads : ~Busy(s)'
    BY <1>3, <2>1 DEF OneAtATime, Busy
  <2>3. OneAtATime'
    BY <1>1, <2>1, <2>2 DEF OneAtATime, Busy
  <2>4. \A c : Leaked(c) => Leaked(c)'
    BY <1>1, <1>3 DEF Leaked, L!At
  <2> QED BY <1>2, <2>1, <2>3, <2>4 DEF OthersAreClosed
<1> QED BY <1>4, <1>5, <1>6 DEF ClientInv

LEMMA OfReloadCreates ==
  ASSUME ClientInv, NEW r \in Reloads, L!ReloadCreates(r)
  PROVE  ClientInv'
<1> DEFINE mine == reload[r].client
           rest == IF reload[r].pc = "closing" THEN L!Closed(mine) ELSE clients
           fresh == [open |-> TRUE, available |-> FALSE]
           id == Len(clients) + 1
<1>1. /\ reload[r].pc \in {"closing", "closed"}
      /\ clients' = Append(rest, fresh) /\ llm' = id /\ L!SetReload(r, "starting", id)
      /\ UNCHANGED << ollama, analyzer, health, batch, stopping, alone >>
  BY DEF L!ReloadCreates
<1>2. /\ clients \in Seq(Client) /\ Clients = 1 .. Len(clients) /\ Len(clients) \in Nat
      /\ fresh \in Client /\ fresh.open
      /\ reload[r].pc = "closing" => mine \in Clients
  BY DEF ClientInv, LTypes, Clients, Client
<1>3. /\ rest \in Seq(Client) /\ DOMAIN rest = Clients
      /\ \A d \in Clients : rest[d].open =>
           rest[d] = clients[d] /\ (reload[r].pc = "closing" => d # mine)
  BY <1>2, ClosedClient DEF ClientInv, Clients
<1>4. Len(rest) = Len(clients)
  BY <1>2, <1>3
<1> HIDE DEF rest, fresh
<1>5. /\ clients' \in Seq(Client) /\ Clients' = Clients \union {id}
      /\ clients'[id] = fresh /\ \A d \in Clients : clients'[d] = rest[d]
  BY <1>1, <1>2, <1>3, <1>4, AddedClient DEF Clients
<1>6. /\ reload'[r].pc = "starting" /\ reload'[r].client = id
      /\ \A s \in Reloads : s # r => reload'[s] = reload[s]
      /\ reload' \in [Reloads -> ReloadPlaces]
  <2>1. id \in Nat
    BY <1>2
  <2>2. [pc |-> "starting", client |-> id] \in ReloadPlaces
    BY <2>1 DEF ReloadPlaces
  <2> QED BY <1>1, <2>2, ReloadMoves DEF ClientInv
<1>7. LTypes'
  <2>1. clients' \in Seq([open : BOOLEAN, available : BOOLEAN]) /\ llm' \in Nat
    BY <1>1, <1>2, <1>5 DEF Client
  <2>2. /\ L!Briefer \in Clients' /\ analyzer' \in Clients'
        /\ health'.pc = "asking" => health'.client \in Clients'
        /\ batch'.pc = "asking" => batch'.client \in Clients'
        /\ stopping'.pc = "closing" => stopping'.client \in Clients'
    BY <1>1, <1>5 DEF ClientInv, LTypes
  <2>3. ASSUME NEW s \in Reloads, reload'[s].pc \in {"closing", "starting"}
        PROVE  reload'[s].client \in Clients'
    BY <1>5, <1>6, <2>3 DEF ClientInv, LTypes
  <2> QED BY <1>1, <1>6, <2>1, <2>2, <2>3 DEF ClientInv, LTypes
<1>8. OwnIsOpen'
  BY <1>1, <1>2, <1>5 DEF OwnIsOpen
<1>9. ASSUME alone' PROVE OneAtATime' /\ OthersAreClosed'
  <2>1. /\ Busy(r) /\ OneAtATime /\ OthersAreClosed
        /\ IF reload[r].pc = "closing" THEN mine = llm ELSE llm = L!None
    BY <1>1, <1>9 DEF ClientInv, OneAtATime, Busy
  <2>2. \A s \in Reloads : s # r => ~Busy(s)'
    BY <1>6, <2>1 DEF OneAtATime, Busy
  <2>3. OneAtATime'
    BY <1>1, <1>6, <2>1, <2>2 DEF OneAtATime, Busy
  <2>4. \A c : Leaked(c) => Leaked(c)'
    BY <1>1, <1>6 DEF Leaked, L!At
  <2>5. ASSUME NEW c \in Clients, clients'[c].open PROVE Leaked(c)'
    <3>1. clients[c].open /\ c # llm
      BY <1>1, <1>2, <1>3, <1>5, <2>1, <2>5 DEF L!None
    <3> QED BY <2>1, <2>4, <3>1 DEF OthersAreClosed
  <2> QED BY <1>1, <1>5, <2>3, <2>5 DEF OthersAreClosed
<1> QED BY <1>7, <1>8, <1>9 DEF ClientInv

LEMMA OfReloadEnds ==
  ASSUME ClientInv, NEW r \in Reloads, L!ReloadStarted(r) \/ L!ReloadFails(r)
  PROVE  ClientInv'
<1> DEFINE mine == reload[r].client
<1>1. /\ reload[r].pc = "starting" /\ mine \in Clients
      /\ UNCHANGED << ollama, analyzer, health, batch, stopping, alone >>
  BY DEF L!ReloadStarted, L!ReloadFails, ClientInv, LTypes
<1>2. /\ clients' \in Seq(Client) /\ Clients' = Clients
      /\ \A c \in Clients : clients'[c].open = clients[c].open
  <2>1. CASE L!ReloadStarted(r)
    <3>1. PICK answer \in L!Found(mine) : clients' = [clients EXCEPT ![mine].available = answer]
      BY <2>1 DEF L!ReloadStarted, L!Checked
    <3>2. answer \in BOOLEAN
      BY DEF L!Found, ClientInv, LTypes
    <3> QED BY <1>1, <3>1, <3>2, CheckedClient DEF ClientInv, Clients
  <2>2. CASE L!ReloadFails(r)
    BY <2>2 DEF L!ReloadFails, ClientInv, LTypes, Clients, Client
  <2> QED BY <2>1, <2>2
<1>3. /\ \/ reload'[r].pc = "done" /\ llm' = llm
         \/ reload'[r] = L!At("failed", mine) /\ llm' = L!None
      /\ reload'[r].pc \in {"done", "failed"}
      /\ \A s \in Reloads : s # r => reload'[s] = reload[s]
      /\ reload' \in [Reloads -> ReloadPlaces]
  <2>1. mine \in Nat
    BY DEF ClientInv, LTypes, ReloadPlaces
  <2>2. CASE L!ReloadStarted(r)
    BY <2>2, ReloadMoves DEF L!ReloadStarted, ClientInv, ReloadPlaces, L!None
  <2>3. CASE L!ReloadFails(r)
    BY <2>1, <2>3, ReloadMoves DEF L!ReloadFails, L!At, ClientInv, ReloadPlaces
  <2> QED BY <2>2, <2>3
<1>4. LTypes'
  BY <1>1, <1>2, <1>3 DEF ClientInv, LTypes, Client, L!None
<1>5. OwnIsOpen'
  BY <1>2, <1>3 DEF ClientInv, OwnIsOpen
<1>6. ASSUME alone' PROVE OneAtATime' /\ OthersAreClosed'
  <2>1. Busy(r) /\ OneAtATime /\ OthersAreClosed /\ mine = llm
    BY <1>1, <1>6 DEF ClientInv, OneAtATime, Busy
  <2>2. \A s \in Reloads : ~Busy(s)'
    BY <1>3, <2>1 DEF OneAtATime, Busy
  <2>3. OneAtATime'
    BY <1>1, <2>1, <2>2 DEF OneAtATime, Busy
  <2>4. \A c : Leaked(c) => Leaked(c)'
    BY <1>1, <1>3 DEF Leaked, L!At
  <2> PICK k : k = reload[r].client
    OBVIOUS
  <2>5. llm' = llm \/ Leaked(k)'
    BY <1>3 DEF Leaked
  <2>6. ASSUME NEW c \in Clients, clients'[c].open PROVE c = llm' \/ Leaked(c)'
    <3>1. c = k \/ Leaked(c)
      BY <1>2, <2>1, <2>6 DEF OthersAreClosed
    <3> QED BY <2>1, <2>4, <2>5, <3>1
  <2> QED BY <1>2, <2>3, <2>6 DEF OthersAreClosed
<1> QED BY <1>4, <1>5, <1>6 DEF ClientInv

LEMMA ClientsOfStopBegins ==
  ASSUME ClientInv, L!StopBegins
  PROVE  ClientInv'
<1>1. /\ L!Begins /\ stopping.pc = "idle"
      /\ stopping' = IF llm = L!None THEN [pc |-> "done", client |-> L!None]
                                     ELSE [pc |-> "closing", client |-> llm]
      /\ health'.pc = "idle" /\ batch'.pc = "idle"
      /\ UNCHANGED << ollama, clients, llm, analyzer, reload >>
  <2>1. L!At("idle", L!None).pc = "idle"
    BY DEF L!At
  <2>2. /\ L!Begins /\ stopping.pc = "idle"
        /\ stopping' = IF llm = L!None THEN L!At("done", L!None) ELSE L!At("closing", llm)
        /\ health' = L!At("idle", L!None) /\ batch' = L!At("idle", L!None)
        /\ UNCHANGED << ollama, clients, llm, analyzer, reload >>
    BY DEF L!StopBegins
  <2>3. /\ L!At("done", L!None) = [pc |-> "done", client |-> L!None]
        /\ L!At("closing", llm) = [pc |-> "closing", client |-> llm]
    BY DEF L!At
  <2> QED BY <2>1, <2>2, <2>3
<1>2. LTypes'
  BY <1>1 DEF ClientInv, LTypes, OwnIsOpen, Clients, ReloadPlaces, L!Begins, L!None
<1>3. OwnIsOpen'
  BY <1>1 DEF ClientInv, OwnIsOpen, Clients
<1>4. ASSUME alone' PROVE OneAtATime' /\ OthersAreClosed'
  <2>1. alone /\ \A s \in Reloads : ~Busy(s)
    BY <1>1, <1>4 DEF L!Begins, L!UnderWay, Busy
  <2>2. OneAtATime'
    BY <1>1, <2>1 DEF OneAtATime, Busy
  <2> QED BY <1>1, <2>1, <2>2 DEF ClientInv, OthersAreClosed, Clients, Leaked
<1> QED BY <1>2, <1>3, <1>4 DEF ClientInv

LEMMA ClientsOfStopCloses ==
  ASSUME ClientInv, L!StopCloses
  PROVE  ClientInv'
<1> DEFINE mine == stopping.client
<1>1. /\ stopping.pc = "closing" /\ mine \in Clients
      /\ clients' = L!Closed(mine) /\ llm' = L!None
      /\ stopping' = [pc |-> "done", client |-> L!None]
      /\ UNCHANGED << ollama, analyzer, reload, health, batch, alone >>
  BY DEF L!StopCloses, L!At, ClientInv, LTypes
<1>2. /\ clients' \in Seq(Client) /\ Clients' = Clients /\ ~clients'[mine].open
      /\ \A d \in Clients : d # mine => clients'[d] = clients[d]
  BY <1>1, ClosedClient DEF ClientInv, Clients
<1>3. LTypes'
  BY <1>1, <1>2 DEF ClientInv, LTypes, Client, ReloadPlaces, L!None
<1>4. OwnIsOpen'
  BY <1>1 DEF OwnIsOpen
<1>5. ASSUME alone' PROVE OneAtATime' /\ OthersAreClosed'
  <2>1. OneAtATime /\ OthersAreClosed /\ mine = llm /\ \A s \in Reloads : ~Busy(s)
    BY <1>1, <1>5 DEF ClientInv, OneAtATime
  <2>2. OneAtATime'
    BY <1>1, <2>1 DEF OneAtATime, Busy
  <2> QED BY <1>1, <1>2, <2>1, <2>2 DEF OthersAreClosed, Leaked
<1> QED BY <1>3, <1>4, <1>5 DEF ClientInv

LEMMA ClientStep == ClientInv /\ [L!Next]_(L!vars) => ClientInv'
<1> SUFFICES ASSUME ClientInv, [L!Next]_(L!vars) PROVE ClientInv'
  OBVIOUS
<1>1. CASE UNCHANGED L!vars
  <2>1. UNCHANGED << ollama, clients, llm, analyzer, reload, health, batch, stopping, alone >>
    BY <1>1 DEF L!vars
  <2> QED BY <2>1, OfAnswers DEF ClientInv, LTypes, Client, Clients
<1>2. CASE L!Next
  <2>1. \/ Jobs \/ L!StopBegins \/ L!StopCloses
        \/ \E r \in Reloads : L!Reload(r)
    BY <1>2 DEF L!Next, Jobs
  <2>2. ASSUME NEW r \in Reloads, L!Reload(r) PROVE ClientInv'
    BY <2>2, OfReloadBegins, OfReloadDisables, OfReloadCreates, OfReloadEnds DEF L!Reload
  <2> QED BY <2>1, <2>2, OfJobs, ClientsOfStopBegins, ClientsOfStopCloses
<1> QED BY <1>1, <1>2

(* However reloads, jobs, answers and stop() interleave, the client of the *)
(* application is open, and when no more than one at a time was under way, *)
(* and is over, no other is but those whose start() raised, for any number *)
(* of reloads (app.py:229-264, client.py:36-49).                           *)
THEOREM NoClientIsLost == L!Spec => []OneClientOpen
<1>1. ASSUME ClientInv PROVE OneClientOpen
  <2>1. L!LlmIsOpen
    BY <1>1 DEF ClientInv, OwnIsOpen, L!LlmIsOpen
  <2>2. L!NoClientLeaks
    BY <1>1 DEF ClientInv, OthersAreClosed, Leaked, Clients, L!NoClientLeaks
  <2> QED BY <2>1, <2>2 DEF OneClientOpen, L!OneClientOpen
<1> QED BY <1>1, ClientInit, ClientStep, PTL DEF L!Spec

(* A briefing that has read its events is published, or cut off by stop(), *)
(* whatever became of its client meanwhile (briefing.py:130-164).          *)
THEOREM BriefingIsPublished == L!Spec => []BriefingComesOut
<1>1. L!Init => L!BriefingComesOut
  BY DEF L!Init, L!BriefingComesOut
<1>2. ASSUME L!BriefingComesOut, [L!Next]_(L!vars) PROVE L!BriefingComesOut'
  <2>1. CASE L!Brief
    BY <1>2, <2>1 DEF L!Brief, L!BriefReads, L!BriefReadFails, L!BriefIsPlain, L!BriefAsks,
       L!BriefAnswers, L!BriefIs, L!TextFor, L!At, L!BriefingComesOut
  <2>2. CASE L!StopBegins
    BY <1>2, <2>2 DEF L!StopBegins, L!BriefingComesOut
  <2>3. CASE UNCHANGED << brief, briefing >>
    BY <1>2, <2>3 DEF L!BriefingComesOut
  <2>4. ASSUME L!Next, ~L!Brief, ~L!StopBegins PROVE UNCHANGED << brief, briefing >>
    BY <2>4 DEF L!Next, L!OllamaChanges, L!Reload, L!ReloadCloses, L!ReloadFindsNone,
       L!ReloadDisables, L!ReloadCreates, L!ReloadStarted, L!ReloadFails, L!HealthAsks,
       L!HealthAnswers, L!HealthFails, L!BatchAsks, L!BatchAnswers, L!StopCloses, L!briefs
  <2> QED BY <1>2, <2>1, <2>2, <2>3, <2>4 DEF L!vars
<1>3. L!BriefingComesOut => BriefingComesOut
  BY DEF BriefingComesOut
<1> QED BY <1>1, <1>2, <1>3, PTL DEF L!Spec
=============================================================================
