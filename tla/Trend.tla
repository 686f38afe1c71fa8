-------------------------------- MODULE Trend --------------------------------
(***************************************************************************)
(* The trend tracker (core/trend.py) as one metric sees it: the window of  *)
(* the latest samples, the number of samples a slope needs, and the        *)
(* cooldown between alerts.  Time is counted in cycles of the collector,   *)
(* which takes a sample in each or misses some.  Whether the slope over    *)
(* the window exceeds the threshold is part of the input.                  *)
(***************************************************************************)
EXTENDS Integers, FiniteSetsExt

CONSTANTS
  WindowSize,  (* The samples that the window holds.                       *)
  Cooldown     (* The cycles between two alerts.                           *)

VARIABLES
  window,      (* The number of samples in the window.                     *)
  last_alert   (* The cycles since the last alert, capped at the cooldown. *)

Never == -1

Init ==
  /\ window = 0
  /\ last_alert = Never

AtMost(n, limit) == IF n > limit THEN limit ELSE n

(* Time passes for something that happened, or has not happened.           *)
Later(time, cycles) ==
  IF time = Never THEN Never ELSE AtMost(time + cycles, Cooldown)

HalfWindow == Max({WindowSize \div 2, 4})

Appended == AtMost(window + 1, WindowSize)

(* Seeded fault: a slope needs one more sample than the window can have.   *)
OneMore(samples) == samples > HalfWindow * 2

Enough(samples) == samples >= HalfWindow * 2

Cool(age) == age = Never \/ age >= Cooldown

Alerts(is_steep, cycles) ==
  Enough(Appended) /\ is_steep /\ Cool(Later(last_alert, cycles))

(* update() with a sample `cycles' after the one before.                   *)
Update(is_steep, cycles) ==
  /\ window' = Appended
  /\ last_alert' = IF Alerts(is_steep, cycles) THEN 0
                   ELSE Later(last_alert, cycles)

(* Each variable has its type.                                             *)
TypeOK ==
  /\ window \in 0 .. WindowSize
  /\ last_alert \in {Never} \union 0 .. Cooldown
=============================================================================
