-------------------------- MODULE ExternalCollector --------------------------
(***************************************************************************)
(* The collector of external services (sources/external.py): a polling     *)
(* loop (sources/base.py) asks one tool after the other, compares what it  *)
(* says with what it said before, and publishes the news; a task of its    *)
(* own follows the event stream of docker.                                 *)
(*                                                                         *)
(* A probe is one step: while it waits for its tool, nobody else looks at  *)
(* what it will compare.  A probe that times out, or whose tool cannot be  *)
(* run, leaves everything as it was; the exit status of a tool is not      *)
(* looked at, so that one that fails says nothing.  An exception ends the  *)
(* cycle, and the loop goes on with the next.                              *)
(***************************************************************************)
EXTENDS Integers, Sequences, FiniteSets

CONSTANTS
  Peers,       (* The host names of tailscale.                             *)
  Endpoints,   (* The services and the ports.                              *)
  Dumps,       (* The pairs of a pid and a signal that dumps are known by. *)
  Files,       (* The .pacnew files.                                       *)
  Packages,    (* The packages that arch-audit may name.                   *)
  SlowEvery,   (* The slow probes are due each SlowEvery cycles: 60.       *)
  MaxTools,    (* Bound: the tools that are installed.                     *)
  MaxOrphans,  (* Bound: orphaned packages.                                *)
  MaxCrashes   (* Bound: crashes of a pid and signal.                      *)

Tools == {"docker", "tailscale", "audit", "coredump"}

VARIABLES
  has,           (* The tools that start() found.                          *)
  pc,            (* The next probe of the cycle; "asleep"; "stopped".      *)
  tick,          (* _tick, modulo SlowEvery.                               *)
  odd,           (* Environment: has the answer of tailscale a shape that  *)
                 (* raises (no map of peers, when it is logged out)?       *)
  peers,         (* What is known of each peer: "none", "on" or "off".     *)
  state,         (* The same for the endpoints.                            *)
  listed,        (* Environment: the dumps of the last hour.               *)
  first_scan, known_dumps,
  pacnew_read, known_pacnew,
  known_vulns,
  orphan_count,  (* -1 before the first count.                             *)
  docker,        (* Environment: is docker "up", "down" or "absent"?       *)
  stream,        (* Its reader: "starting", "reading", "sleeping".         *)
  news,          (* History: what was last told of each peer and endpoint. *)
  left,          (* History: the peers that left the list after that.      *)
  seen_up,       (* History: the endpoints that were ever found up.        *)
  crashed,       (* History: the crashes of each dump since the start.     *)
  told,          (* History: how often each dump was told of; each file,   *)
                 (* package since a scan without it (capped at 2).         *)
  baseline,      (* History: the files that the first scan and each one    *)
                 (* after it have listed.                                  *)
  orphans_told,  (* History: the count that was told of last, or that the  *)
                 (* first look took as it was.                             *)
  old,           (* History: the dumps of before the start.                *)
  fresh,         (* History: the dumps that first came after a scan.       *)
  due,           (* History: those of them that a scan has listed.         *)
  scanned,       (* History: was there a scan?                             *)
  blank          (* History: the scans that ever failed without a word.    *)

polled == << has, tick, odd >>
reach == << peers, state, news, left, seen_up >>
crashes == << listed, first_scan, known_dumps, crashed, old, fresh, due, scanned >>
slow == << pacnew_read, known_pacnew, known_vulns, orphan_count, baseline, orphans_told >>
streamed == << docker, stream >>
vars == << polled, pc, reach, crashes, slow, streamed, told, blank >>

AtMost2(n) == IF n > 2 THEN 2 ELSE n

(* start() asks for the tools; the dumps there may be before are old.      *)
Init ==
  /\ has \in {tools \in SUBSET Tools : Cardinality(tools) <= MaxTools}
  /\ pc = "asleep" /\ tick = 0 /\ odd = FALSE
  /\ peers = [p \in Peers |-> "none"]
  /\ state = [e \in Endpoints |-> "none"]
  /\ old \in SUBSET Dumps
  /\ listed = old
  /\ first_scan = TRUE /\ known_dumps = {}
  /\ pacnew_read = FALSE /\ known_pacnew = {}
  /\ known_vulns = {}
  /\ orphan_count = -1
  /\ baseline = {} /\ orphans_told = -1
  /\ docker = "up"
  /\ stream = IF "docker" \in has THEN "reading" ELSE "stopped"
  /\ news = [x \in Peers \union Endpoints |-> "none"]
  /\ left = {} /\ seen_up = {}
  /\ crashed = [d \in Dumps |-> 0]
  /\ told = [x \in Dumps \union Files \union Packages |-> 0]
  /\ fresh = {} /\ due = {} /\ scanned = FALSE /\ blank = {}

-----------------------------------------------------------------------------
(* The polling loop.                                                       *)

Order == << "tailscale", "services", "coredump", "pacnew", "audit", "orphans" >>

SlowDue == tick = 0

Skipped(probe) ==
  \/ probe \in Tools \ has
  \/ probe \in {"pacnew", "audit", "orphans"} /\ ~SlowDue

(* The first probe from place i on that is not skipped.                    *)
From(i) ==
  LET rest == {j \in i .. Len(Order) : ~Skipped(Order[j])}
  IN IF rest = {} THEN "asleep" ELSE Order[CHOOSE j \in rest : \A k \in rest : j <= k]

Wake ==
  /\ pc = "asleep"
  /\ tick' = (tick + 1) % SlowEvery
  /\ pc' = IF "tailscale" \in has THEN "tailscale" ELSE "services"
  /\ UNCHANGED << has, odd, reach, crashes, slow, streamed, told, blank >>

(* A probe hands over to the next, with or without news.                   *)
Probes(probe) ==
  /\ pc = probe
  /\ pc' = From((CHOOSE i \in DOMAIN Order : Order[i] = probe) + 1)
  /\ UNCHANGED << polled, streamed >>

NoAnswer(probe) ==
  /\ probe # "services"
  /\ Probes(probe)
  /\ UNCHANGED << reach, crashes, slow, told, blank >>

(* Seeded fault: the loop does not go on after an exception.               *)
Ended == "dead"

AfterRaise == "asleep"

TailscaleRaises ==
  /\ pc = "tailscale"
  /\ odd
  /\ pc' = AfterRaise
  /\ UNCHANGED << polled, reach, crashes, slow, streamed, told, blank >>

Stop ==
  /\ pc # "stopped"
  /\ pc' = "stopped"
  /\ stream' = "stopped"
  /\ UNCHANGED << polled, reach, crashes, slow, docker, told, blank >>

-----------------------------------------------------------------------------
(* _tailscale() and _services_ports().                                     *)

Turned(was, is) == {was, is} = {"on", "off"}

(* Without a known peer the answer is a baseline.                          *)
Tailscale(cur) ==
  /\ ~odd
  /\ Probes("tailscale")
  /\ peers' = cur
  /\ news' = [x \in DOMAIN news |->
       IF x \in Peers /\ Turned(peers[x], cur[x]) THEN cur[x] ELSE news[x]]
  /\ left' = {p \in Peers : cur[p] = "none" \/ (p \in left /\ ~Turned(peers[p], cur[p]))}
  /\ UNCHANGED << state, seen_up, crashes, slow, told, blank >>

(* One that does not answer in time is down.                               *)
Services(up) ==
  /\ Probes("services")
  /\ state' = [e \in Endpoints |-> IF e \in up THEN "on" ELSE "off"]
  /\ news' = [x \in DOMAIN news |->
       IF x \in Endpoints /\ x \in up THEN "none"
       ELSE IF x \in Endpoints /\ state[x] = "on" /\ state'[x] = "off" THEN "off" ELSE news[x]]
  /\ seen_up' = seen_up \union up
  /\ UNCHANGED << peers, left, crashes, slow, told, blank >>

-----------------------------------------------------------------------------
(* _coredumps().                                                           *)

(* Seeded fault: a first scan that finds nothing is no baseline.           *)
StillFirst(dumps) == first_scan /\ dumps = {}

FirstAfter(dumps) == FALSE

(* A scan that lists these dumps.                                          *)
Scan(dumps) ==
  /\ Probes("coredump")
  /\ known_dumps' = known_dumps \union dumps
  /\ told' = [x \in DOMAIN told |->
       IF ~first_scan /\ x \in dumps \ known_dumps THEN AtMost2(told[x] + 1) ELSE told[x]]
  /\ first_scan' = FirstAfter(dumps)
  /\ scanned' = TRUE
  /\ due' = due \union (fresh \intersect dumps)
  /\ UNCHANGED << listed, crashed, old, fresh, reach, slow >>

Coredumps == Scan(listed) /\ UNCHANGED blank

CoredumpsBlank == Scan({}) /\ blank' = blank \union {"coredump"}

Crash(d) ==
  /\ "coredump" \in has
  /\ crashed[d] < MaxCrashes
  /\ crashed' = [crashed EXCEPT ![d] = @ + 1]
  /\ listed' = listed \union {d}
  /\ fresh' = IF scanned /\ d \notin old /\ crashed[d] = 0 THEN fresh \union {d} ELSE fresh
  /\ UNCHANGED << first_scan, known_dumps, old, due, scanned >>
  /\ UNCHANGED << polled, pc, reach, slow, streamed, told, blank >>

AnHourPasses(d) ==
  /\ d \in listed
  /\ listed' = listed \ {d}
  /\ UNCHANGED << first_scan, known_dumps, crashed, old, fresh, due, scanned >>
  /\ UNCHANGED << polled, pc, reach, slow, streamed, told, blank >>

-----------------------------------------------------------------------------
(* _pacnew(), _security() and _orphans().                                  *)

(* New ones are told of; what a scan does not list may be new again.       *)
Tell(cur, new, kind) ==
  told' = [x \in DOMAIN told |->
    IF x \notin kind THEN told[x]
    ELSE IF x \in new THEN AtMost2(told[x] + 1)
    ELSE IF x \in cur THEN told[x] ELSE 0]

Pacnew(cur) ==
  /\ Probes("pacnew")
  /\ pacnew_read' = TRUE
  /\ known_pacnew' = cur
  /\ IF pacnew_read
       THEN Tell(cur, cur \ known_pacnew, Files) /\ baseline' = baseline \intersect cur
       ELSE baseline' = cur /\ UNCHANGED told
  /\ UNCHANGED << known_vulns, orphan_count, orphans_told, reach, crashes, blank >>

Security(cur) ==
  /\ Probes("audit")
  /\ known_vulns' = cur
  /\ Tell(cur, cur \ known_vulns, Packages)
  /\ UNCHANGED << pacnew_read, known_pacnew, orphan_count, baseline, orphans_told >>
  /\ UNCHANGED << reach, crashes, blank >>

(* Nothing is told, and all that was known is forgotten.                   *)
SecurityBlank ==
  /\ Probes("audit")
  /\ known_vulns' = {}
  /\ blank' = blank \union {"audit"}
  /\ UNCHANGED << pacnew_read, known_pacnew, orphan_count, baseline, orphans_told >>
  /\ UNCHANGED << reach, crashes, told >>

(* A count above the last one is told of; the first is not.                *)
Orphans(count) ==
  /\ Probes("orphans")
  /\ orphan_count' = count
  /\ orphans_told' = IF orphan_count = -1 \/ count > orphan_count THEN count ELSE orphans_told
  /\ UNCHANGED << pacnew_read, known_pacnew, known_vulns, baseline >>
  /\ UNCHANGED << reach, crashes, told, blank >>

-----------------------------------------------------------------------------
(* _docker_stream(): the reader starts again, at once when docker has      *)
(* ended, and after 30 seconds when it cannot be run or a line cannot be   *)
(* decoded.                                                                *)

Streams(from, to) ==
  /\ stream = from
  /\ stream' = to
  /\ UNCHANGED << polled, pc, reach, crashes, slow, docker, told, blank >>

StreamSpawns == docker # "absent" /\ Streams("starting", "reading")

StreamCannotSpawn == docker = "absent" /\ Streams("starting", "sleeping")

StreamEnds == docker # "up" /\ Streams("reading", "starting")

StreamRaises == Streams("reading", "sleeping")

StreamWakes == Streams("sleeping", "starting")

Reader ==
  \/ StreamSpawns
  \/ StreamCannotSpawn
  \/ StreamEnds
  \/ StreamWakes

DockerChanges(to) ==
  /\ "docker" \in has
  /\ docker' = to
  /\ UNCHANGED << polled, pc, reach, crashes, slow, stream, told, blank >>

TailscaleChanges ==
  /\ "tailscale" \in has
  /\ odd' = ~odd
  /\ UNCHANGED << has, tick, pc, reach, crashes, slow, streamed, told, blank >>

-----------------------------------------------------------------------------
Poll ==
  \/ Wake
  \/ \E i \in DOMAIN Order : NoAnswer(Order[i])
  \/ TailscaleRaises
  \/ \E cur \in [Peers -> {"none", "on", "off"}] : Tailscale(cur)
  \/ \E up \in SUBSET Endpoints : Services(up)
  \/ Coredumps
  \/ CoredumpsBlank
  \/ \E cur \in SUBSET Files : Pacnew(cur)
  \/ \E cur \in SUBSET Packages : Security(cur)
  \/ SecurityBlank
  \/ \E count \in 0 .. MaxOrphans : Orphans(count)

Environment ==
  \/ TailscaleChanges
  \/ \E d \in Dumps : Crash(d) \/ AnHourPasses(d)
  \/ \E to \in {"up", "down", "absent"} : DockerChanges(to)

Next == Poll \/ Reader \/ StreamRaises \/ Stop \/ Environment

Spec == Init /\ [][Next]_vars /\ WF_vars(Poll) /\ WF_vars(Reader)

-----------------------------------------------------------------------------
(* Each variable has its type.                                             *)
TypeOK ==
  /\ has \subseteq Tools
  /\ pc \in {Order[i] : i \in DOMAIN Order} \union {"asleep", "stopped"}
  /\ tick \in 0 .. SlowEvery - 1
  /\ {odd, first_scan, pacnew_read, scanned} \subseteq BOOLEAN
  /\ peers \in [Peers -> {"none", "on", "off"}]
  /\ state \in [Endpoints -> {"none", "on", "off"}]
  /\ {listed, known_dumps, old, fresh, due} \subseteq SUBSET Dumps
  /\ {known_pacnew, baseline} \subseteq SUBSET Files
  /\ known_vulns \subseteq Packages
  /\ {orphan_count, orphans_told} \subseteq -1 .. MaxOrphans
  /\ docker \in {"up", "down", "absent"}
  /\ stream \in {"starting", "reading", "sleeping", "stopped"}
  /\ news \in [Peers \union Endpoints -> {"none", "on", "off"}]
  /\ left \subseteq Peers
  /\ seen_up \subseteq Endpoints
  /\ crashed \in [Dumps -> 0 .. MaxCrashes]
  /\ told \in [Dumps \union Files \union Packages -> 0 .. 2]
  /\ blank \subseteq Tools

(* What was told of a peer last is how it is, unless it left the list in   *)
(* between and came back another; an endpoint that was ever up, and is     *)
(* down, has been told of, be it by a refusal or by a timeout              *)
(* (external.py:109-142, 144-184).                                         *)
NewsIsCurrent ==
  /\ \A p \in Peers : news[p] \in {"none", peers[p]} \/ p \in left
  /\ \A e \in seen_up : news[e] = "off" <=> state[e] = "off"

(* A crash after the first scan that a later scan lists is told of, also   *)
(* when the first listed nothing or timed out; none is told of twice, nor  *)
(* one of before the start, unless the first scan failed without a word    *)
(* (external.py:186-226).                                                  *)
CrashIsToldOnce ==
  \A d \in Dumps :
    /\ d \in due => told[d] > 0
    /\ told[d] <= crashed[d] + (IF d \in old /\ "coredump" \in blank THEN 1 ELSE 0)

(* A package that a scan lists has been told of since the last scan        *)
(* without it, once unless a scan failed without a word and all was        *)
(* forgotten.  A file that was not there at the first scan, or was gone at *)
(* one since, has been told of exactly once while the scans list it, and   *)
(* no other has.  There are no more orphans than the user was told of      *)
(* last, or than the first look found (external.py:228-308).               *)
NewIsToldOnce ==
  /\ \A v \in known_vulns : told[v] > 0 /\ (told[v] = 1 \/ "audit" \in blank)
  /\ \A f \in Files : told[f] = IF f \in known_pacnew \ baseline THEN 1 ELSE 0
  /\ orphan_count <= orphans_told

(* What the tools found is told of, is told of once, and is what they      *)
(* found last (external.py:109-308).                                       *)
NewsIsToldOnce == NewsIsCurrent /\ CrashIsToldOnce /\ NewIsToldOnce

(* An exception in a cycle does not end the polling: while tailscale does  *)
(* not raise in each cycle for ever, the services are looked at again and  *)
(* again.  And when docker is up for good, its stream is read again,       *)
(* whatever ended it (base.py:72-78, external.py:82-107).                  *)
KeepsWatching ==
  /\ <>[]~odd => []<>(pc \in {"services", "stopped"})
  /\ "docker" \in has /\ <>[](docker = "up") => []<>(stream \in {"reading", "stopped"})
=============================================================================
