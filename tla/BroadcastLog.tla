---------------------------- MODULE BroadcastLog ----------------------------
(***************************************************************************)
(* What the event bus promises, without queue, task or shutdown protocol:  *)
(* entries are accepted into one log, one cursor walks the log in order    *)
(* and never goes back, and a subscriber is only ever handed the entry the *)
(* cursor is at.  Hence every subscriber sees a subsequence of the log in  *)
(* log order, and no entry is handed out after a later one.                *)
(***************************************************************************)
EXTENDS Integers, Sequences

CONSTANTS
  Types,        (* The event types.                                        *)
  Callbacks,    (* The subscribers.                                        *)
  None          (* Not an event: the request to stop.                      *)

VARIABLES
  log,          (* Everything accepted, oldest first.                      *)
  cursor,       (* Position in log of the entry on dispatch, 0 at first.   *)
  seen          (* The positions each subscriber was handed, in order.     *)

vars == << log, cursor, seen >>

Init ==
  /\ log = << >>
  /\ cursor = 0
  /\ seen = [cb \in Callbacks |-> << >>]

Accept ==
  /\ \E e \in Types \union {None} : log' = Append(log, e)
  /\ UNCHANGED << cursor, seen >>

Advance ==
  /\ cursor < Len(log)
  /\ cursor' = cursor + 1
  /\ UNCHANGED << log, seen >>

Hand(cb) ==
  /\ cursor > 0
  /\ log[cursor] # None
  /\ seen' = [seen EXCEPT ![cb] = Append(@, cursor)]
  /\ UNCHANGED << log, cursor >>

Next ==
  \/ Accept
  \/ Advance
  \/ \E cb \in Callbacks : Hand(cb)

Spec == Init /\ [][Next]_vars
=============================================================================
