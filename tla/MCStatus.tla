------------------------------ MODULE MCStatus ------------------------------
(* An instance of Status for TLC, and beside it one of Scheduler, which    *)
(* runs the health job of Status.  They share no variable, so that they    *)
(* are checked side by side: each behaviour is one of either, and the      *)
(* other keeps its initial state (one of them, for Status).                *)
(*                                                                         *)
(* The scheduler has an hour of two minutes and a day of two hours.        *)
(* "daily" is minute 0 of hour 0, "hourly" is minute 0 of each hour, and   *)
(* "typo" has a bad hour, reached only at minute 1.  Cron fields are       *)
(* compared with the sets of values they denote as well: every pattern of  *)
(* up to two tokens, every value of a field of twelve.                     *)
EXTENDS Status

CONSTANTS Jobs, Plan, MinutesPerHour, HoursPerDay, DaysPerWeek, Slack,
          MaxClock,   (* Bound: the time the scheduler runs.               *)
          MaxValue    (* Bound: the largest value of a cron field.         *)

ASSUME ClockAssumption ==
  /\ {MinutesPerHour, HoursPerDay, DaysPerWeek} \subseteq Nat \ {0}
  /\ {Slack, MaxClock, MaxValue} \subseteq Nat
  /\ \A j \in Jobs : Plan[j].kind # "cron" => Plan[j].every \in Nat

VARIABLE moves   (* Which of the two takes the steps of the behaviour.     *)

VARIABLES running, tasks, stopper, next, clock, fired, seen, worked

jobs == << running, tasks, stopper, next, clock, fired, seen, worked >>

S == INSTANCE Scheduler WITH now <- clock, MaxTime <- MaxClock

MCInit ==
  /\ Init /\ S!Init
  /\ moves \in {"status", "jobs"}

MCNext ==
  /\ UNCHANGED moves
  /\ \/ moves = "status" /\ Next /\ UNCHANGED jobs
     \/ moves = "jobs" /\ S!Next /\ UNCHANGED vars

Moves(action) == moves = "status" /\ action /\ UNCHANGED << moves, jobs >>

(* The fairness of Status!FairSpec.                                        *)
MCSpec ==
  /\ MCInit /\ [][MCNext]_<< moves, vars, jobs >>
  /\ WF_vars(Moves(HealthPrunes))
  /\ WF_vars(Moves(HealthAnswers))
  /\ WF_vars(Moves(StartLlm))
  /\ WF_vars(Moves(StartHooks))
  /\ WF_vars(Moves(TrayShows))

-----------------------------------------------------------------------------
Value(v) == << [base |-> "value", lo |-> v, step |-> 1] >>
Every(n) == << [base |-> "any", step |-> n] >>
BadToken == << [base |-> "bad"] >>

MCPlan ==
  [daily |-> [kind |-> "cron",
              fields |-> [minute |-> Value(0), hour |-> Value(0), day_of_week |-> Every(1)]],
   hourly |-> [kind |-> "cron",
               fields |-> [minute |-> Value(0), hour |-> Every(1), day_of_week |-> Every(1)]],
   typo |-> [kind |-> "cron",
             fields |-> [minute |-> Value(1), hour |-> BadToken, day_of_week |-> Every(1)]],
   health |-> [kind |-> "interval", every |-> 3]]

MCJobs == {"hourly", "typo", "health"}
Daily == {"daily"}

Bounds == {0, 1, 5, MaxValue}

Tokens ==
  [base : {"any"}, step : 0 .. 3]
    \union [base : {"range"}, lo : Bounds, hi : Bounds, step : 0 .. 3]
    \union [base : {"value"}, lo : Bounds, step : {1, 2}]
    \union {[base |-> "bad"]}

Patterns == {<< t >> : t \in Tokens} \union {<< t, u >> : t, u \in Tokens}

(* What a well-formed token denotes: counting by the step from the start.  *)
Denotes(token) ==
  CASE token.base = "any" -> {k * token.step : k \in 0 .. MaxValue}
    [] token.base = "range" -> {token.lo + k * token.step : k \in 0 .. MaxValue}
                                 \intersect (token.lo .. token.hi)
    [] token.base = "value" -> {token.lo}

WellFormed(token) == token.base # "bad" /\ token.step > 0

(* A field matches exactly the values its tokens denote, and raises for a  *)
(* first token that does not parse (engine.py:28-50).  It depends on no    *)
(* variable, and is evaluated before time passes.                          *)
FieldAgrees ==
  moves = "jobs" /\ clock = 0 /\ tasks = << >> =>
    \A pattern \in Patterns, value \in 0 .. MaxValue :
    LET good == \A i \in DOMAIN pattern : WellFormed(pattern[i])
        result == S!C!FieldMatches(pattern, value)
    IN /\ good => result = IF \E i \in DOMAIN pattern : value \in Denotes(pattern[i])
                           THEN "yes" ELSE "no"
       /\ pattern[1].base = "bad" => result = "error"

(* A cron task looks at every minute but those its job ran in, and passes  *)
(* a matching one over only when it fired at that minute of an hour before *)
(* (engine.py:130-143).                                                    *)
MinutesAreMet == S!MinutesAreMet

(* When stop() has returned no task of the scheduler is left               *)
(* (engine.py:101).                                                        *)
StopEndsJobs == S!StopEndsJobs

(* "Check cron match every 60s, fire when matched." (engine.py:131).       *)
FiresWhenMatched == S!FiresWhenMatched
=============================================================================
