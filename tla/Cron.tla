-------------------------------- MODULE Cron --------------------------------
(***************************************************************************)
(* Cron matching (scheduler/engine.py).  A pattern is a sequence of tokens; *)
(* a token is "*", a range or a value, with a step, or text that int()     *)
(* rejects ("bad").  Whether a token is bad is found out only when the     *)
(* token is reached.  Day and month follow the rule of the other fields    *)
(* and are left out.                                                       *)
(***************************************************************************)
EXTENDS Integers, Sequences

(* A token fails when it does not parse, or divides by a step of zero.     *)
Fails(token, value) ==
  \/ token.base = "bad"
  \/ /\ token.step = 0
     /\ \/ token.base = "any"
        \/ token.base = "range" /\ token.lo <= value /\ value <= token.hi

(* Seeded fault: the steps of a range are counted from zero.               *)
HitsFromZero(token, value) ==
  \/ token.base = "any" /\ value % token.step = 0
  \/ token.base = "range" /\ value \in token.lo .. token.hi /\ value % token.step = 0
  \/ token.base = "value" /\ value = token.lo

(* The step of a plain value is parsed and ignored.                        *)
Hits(token, value) ==
  \/ /\ token.base = "any"
     /\ value % token.step = 0
  \/ /\ token.base = "range"
     /\ value \in token.lo .. token.hi
     /\ (value - token.lo) % token.step = 0
  \/ /\ token.base = "value"
     /\ value = token.lo

(* The first token that fails or hits decides.                             *)
FieldMatches(pattern, value) ==
  LET decisive == {i \in DOMAIN pattern :
                     Fails(pattern[i], value) \/ Hits(pattern[i], value)}
      first == CHOOSE i \in decisive : \A j \in decisive : i <= j
  IN CASE decisive = {} -> "no"
       [] decisive # {} /\ Fails(pattern[first], value) -> "error"
       [] OTHER -> "yes"

FieldOrder == << "minute", "hour", "day_of_week" >>

(* The fields are compared in order and the first that does not match      *)
(* decides: a bad token in a later field is not reached before.            *)
CronMatches(fields, dt) ==
  LET results == [k \in DOMAIN FieldOrder |->
                    FieldMatches(fields[FieldOrder[k]], dt[FieldOrder[k]])]
      off == {k \in DOMAIN FieldOrder : results[k] # "yes"}
  IN IF off = {} THEN "yes" ELSE results[CHOOSE k \in off : \A l \in off : k <= l]
=============================================================================
