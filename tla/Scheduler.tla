------------------------------ MODULE Scheduler ------------------------------
(***************************************************************************)
(* The scheduler (scheduler/engine.py): one asyncio task per job.  A cron  *)
(* task wakes every 30 seconds and compares the wall clock with its        *)
(* fields; an interval task sleeps its interval.  The job runs inside the  *)
(* task, which sleeps again only when it is over.                          *)
(*                                                                         *)
(* Time is counted in half minutes, the length of the cron task's sleep.   *)
(* What a job does, and whether it raises, makes no difference here: an    *)
(* exception of a job is logged.  An exception of the matching is not, and *)
(* ends the task.                                                          *)
(***************************************************************************)
EXTENDS Integers, Sequences, FiniteSets

CONSTANTS
  Jobs,            (* The jobs that may be added.                          *)
  Plan,            (* The cron fields, or the interval, of each.           *)
  MinutesPerHour, HoursPerDay, DaysPerWeek,   (* The clock.                *)
  Slack,           (* How late the event loop runs a task that is due.     *)
  MaxTime          (* Bound: the time the behaviour covers.                *)

C == INSTANCE Cron

VARIABLES
  running,    (* _running.                                                 *)
  tasks,      (* _tasks, in the order of the calls that added them.        *)
  stopper,    (* Where stop() is.                                          *)
  next,       (* The task its loop has reached.                            *)
  now,        (* The wall clock.                                           *)
  fired,      (* History: the minutes each task ran its job, in order.     *)
  seen,       (* History: the minutes each task compared with its fields.  *)
  worked      (* History: the minutes each task was inside its job.        *)

vars == << running, tasks, stopper, next, now, fired, seen, worked >>

Minute(t) == t \div 2

MinuteOfHour(t) == Minute(t) % MinutesPerHour

(* The fields of the local time that the patterns are compared with.       *)
DateTime(t) ==
  LET hours == Minute(t) \div MinutesPerHour
  IN [minute |-> MinuteOfHour(t),
      hour |-> hours % HoursPerDay,
      day_of_week |-> (hours \div HoursPerDay) % DaysPerWeek]

Init ==
  /\ running = FALSE
  /\ tasks = << >>
  /\ stopper = "idle"
  /\ next = 1
  /\ now = 0
  /\ fired = << >>
  /\ seen = << >>
  /\ worked = << >>

(* Seeded fault: the cron task sleeps 90 seconds.                          *)
SleepsLonger(j) == IF Plan[j].kind = "cron" THEN 3 ELSE Plan[j].every

Sleeps(j) == IF Plan[j].kind = "cron" THEN 1 ELSE Plan[j].every

Start ==
  /\ ~running
  /\ stopper = "idle"
  /\ running' = TRUE
  /\ UNCHANGED << tasks, stopper, next, now, fired, seen, worked >>

(* A job is added between start() and stop(), as the application does.     *)
AddJob(j) ==
  /\ running
  /\ \A i \in DOMAIN tasks : tasks[i].job # j
  /\ tasks' = Append(tasks, [job |-> j, pc |-> "asleep", wake |-> now + Sleeps(j),
                             last |-> -1, since |-> Minute(now)])
  /\ fired' = Append(fired, << >>)
  /\ seen' = Append(seen, {})
  /\ worked' = Append(worked, {})
  /\ UNCHANGED << running, stopper, next, now >>

Due(i) == tasks[i].pc = "asleep" /\ tasks[i].wake <= now

IsCron(i) == Plan[tasks[i].job].kind = "cron"

(* What the comparison with the fields says now.                           *)
Match(i) == C!CronMatches(Plan[tasks[i].job].fields, DateTime(now))

(* Did the task fire at this minute of an hour, whichever the hour?        *)
FiredThisMinute(i) == tasks[i].last = MinuteOfHour(now)

Sees(i) == seen' = [seen EXCEPT ![i] = @ \union {Minute(now)}]

Sleep(i) == tasks' = [tasks EXCEPT ![i].pc = "asleep",
                                   ![i].wake = now + Sleeps(tasks[i].job)]

Fires(i) == fired' = [fired EXCEPT ![i] = Append(@, Minute(now))]

CronSleeps(i) ==
  /\ Due(i)
  /\ IsCron(i)
  /\ FiredThisMinute(i) \/ Match(i) = "no"
  /\ Sleep(i)
  /\ Sees(i)
  /\ UNCHANGED << running, stopper, next, now, fired, worked >>

CronFires(i) ==
  /\ Due(i)
  /\ IsCron(i)
  /\ ~FiredThisMinute(i)
  /\ Match(i) = "yes"
  /\ tasks' = [tasks EXCEPT ![i].pc = "busy", ![i].last = MinuteOfHour(now)]
  /\ Fires(i)
  /\ Sees(i)
  /\ UNCHANGED << running, stopper, next, now, worked >>

CronFails(i) ==
  /\ Due(i)
  /\ IsCron(i)
  /\ ~FiredThisMinute(i)
  /\ Match(i) = "error"
  /\ tasks' = [tasks EXCEPT ![i].pc = "failed"]
  /\ UNCHANGED << running, stopper, next, now, fired, seen, worked >>

IntervalFires(i) ==
  /\ Due(i)
  /\ ~IsCron(i)
  /\ tasks' = [tasks EXCEPT ![i].pc = "busy"]
  /\ Fires(i)
  /\ UNCHANGED << running, stopper, next, now, seen, worked >>

(* The job returns or raises.                                              *)
JobEnds(i) ==
  /\ tasks[i].pc = "busy"
  /\ Sleep(i)
  /\ UNCHANGED << running, stopper, next, now, fired, seen, worked >>

Step(i) ==
  \/ CronSleeps(i)
  \/ CronFires(i)
  \/ CronFails(i)
  \/ IntervalFires(i)
  \/ JobEnds(i)

-----------------------------------------------------------------------------
(* stop(): cancels and awaits one task after the other.                    *)

StopBegin ==
  /\ running
  /\ running' = FALSE
  /\ stopper' = "cancelling"
  /\ next' = 1
  /\ UNCHANGED << tasks, now, fired, seen, worked >>

Live(i) == tasks[i].pc \in {"asleep", "busy", "cancelled"}

(* The CancelledError reaches the task where it sleeps or inside its job.  *)
Cancelled(i) == "cancelled"

StopCancels ==
  /\ stopper = "cancelling"
  /\ next \in DOMAIN tasks
  /\ tasks[next].pc \in {"asleep", "busy"}
  /\ tasks' = [tasks EXCEPT ![next].pc = Cancelled(next)]
  /\ UNCHANGED << running, stopper, next, now, fired, seen, worked >>

Dies(i) ==
  /\ tasks[i].pc = "cancelled"
  /\ tasks' = [tasks EXCEPT ![i].pc = "ended"]
  /\ UNCHANGED << running, stopper, next, now, fired, seen, worked >>

(* Seeded fault: stop() does not await the task it cancelled.              *)
NoAwait(i) == tasks[i].pc \in {"cancelled", "ended"}

Awaited(i) == tasks[i].pc = "ended"

StopGoesOn ==
  /\ stopper = "cancelling"
  /\ next \in DOMAIN tasks
  /\ Awaited(next)
  /\ next' = next + 1
  /\ UNCHANGED << running, tasks, stopper, now, fired, seen, worked >>

(* Awaiting a task that failed raises its exception out of stop().         *)
StopRaises ==
  /\ stopper = "cancelling"
  /\ next \in DOMAIN tasks
  /\ tasks[next].pc = "failed"
  /\ stopper' = "raised"
  /\ UNCHANGED << running, tasks, next, now, fired, seen, worked >>

(* The lists are cleared; the tasks are kept here for the properties.      *)
StopReturns ==
  /\ stopper = "cancelling"
  /\ next \notin DOMAIN tasks
  /\ stopper' = "stopped"
  /\ UNCHANGED << running, tasks, next, now, fired, seen, worked >>

Stop ==
  \/ StopCancels
  \/ StopGoesOn
  \/ StopRaises
  \/ StopReturns

(* Time passes no task that is due by more than Slack.                     *)
Tick ==
  /\ now < MaxTime
  /\ \A i \in DOMAIN tasks : tasks[i].pc = "asleep" => now < tasks[i].wake + Slack
  /\ now' = now + 1
  /\ worked' = [i \in DOMAIN worked |->
                  worked[i] \union
                    (IF tasks[i].pc = "busy" THEN {Minute(now), Minute(now + 1)} ELSE {})]
  /\ UNCHANGED << running, tasks, stopper, next, fired, seen >>

Next ==
  \/ Start
  \/ \E j \in Jobs : AddJob(j)
  \/ \E i \in DOMAIN tasks : Step(i) \/ Dies(i)
  \/ StopBegin
  \/ Stop
  \/ Tick

Spec == Init /\ [][Next]_vars

-----------------------------------------------------------------------------
(* Each variable has its type, and the histories go with the tasks.        *)
TypeOK ==
  /\ running \in BOOLEAN
  /\ tasks \in Seq([job : Jobs, pc : {"asleep", "busy", "cancelled", "ended", "failed"},
                    wake : Nat, last : {-1} \union (0 .. MinutesPerHour - 1), since : Nat])
  /\ stopper \in {"idle", "cancelling", "raised", "stopped"}
  /\ next \in 1 .. Len(tasks) + 1
  /\ now \in Nat
  /\ fired \in Seq(Seq(Nat)) /\ Len(fired) = Len(tasks)
  /\ {seen, worked} \subseteq Seq(SUBSET Nat)
  /\ {Len(seen), Len(worked)} = {Len(tasks)}

(* A task at work compares every minute with its fields, unless its job    *)
(* was running: a sleep of 30 seconds that ends up to 30 seconds late      *)
(* skips no minute (engine.py:134).                                        *)
NoMinuteIsSkipped ==
  \A i \in DOMAIN tasks :
    IsCron(i) /\ tasks[i].pc \in {"asleep", "busy"} =>
      (tasks[i].since + 1) .. (Minute(now) - 1) \subseteq seen[i] \union worked[i]

(* A minute compared and matching but not fired has the minute of the hour *)
(* of a run before it: nothing else makes the task pass over it.           *)
PassedOverOnlyAsRepeat ==
  \A i \in DOMAIN tasks : IsCron(i) =>
    \A m \in seen[i] :
      C!CronMatches(Plan[tasks[i].job].fields, DateTime(2 * m)) = "yes" =>
        \E k \in DOMAIN fired[i] :
          fired[i][k] <= m /\ (m - fired[i][k]) % MinutesPerHour = 0

(* A task sees every minute but those its job ran in, and leaves a         *)
(* matching one out for one reason only (engine.py:130-143).               *)
MinutesAreMet == NoMinuteIsSkipped /\ PassedOverOnlyAsRepeat

(* "Check cron match every 60s, fire when matched." (engine.py:131): a     *)
(* task that compared a matching minute ran its job in it.                 *)
FiresWhenMatched ==
  \A i \in DOMAIN tasks : IsCron(i) =>
    \A m \in seen[i] :
      C!CronMatches(Plan[tasks[i].job].fields, DateTime(2 * m)) = "yes" =>
        \E k \in DOMAIN fired[i] : fired[i][k] = m

(* When stop() has returned no task of the scheduler is left: no job runs  *)
(* after it ("Cancel all running job tasks and clear registered jobs.",    *)
(* engine.py:101).                                                         *)
StopEndsJobs == stopper = "stopped" => \A i \in DOMAIN tasks : ~Live(i)
=============================================================================
