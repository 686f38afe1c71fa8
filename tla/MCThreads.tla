------------------------------ MODULE MCThreads ------------------------------
(* An instance of PacmanSource for TLC, and beside it one of Desktop: the  *)
(* two places where another thread hands work to the event loop.  They     *)
(* share no variable, so that they are checked side by side: each          *)
(* behaviour is one of either, and the other keeps its initial state.      *)
EXTENDS PacmanSource

CONSTANTS Quits, Limit, MaxCards, MaxEvents

(* A quit has a name of its own; the code loads 50 events and shows 200    *)
(* cards.                                                                  *)
ASSUME DesktopAssumption ==
  /\ {"start", "stop", "services"} \intersect Quits = {}
  /\ Limit \in Nat \ {0} /\ MaxCards \in Nat

VARIABLE moves   (* Which of the two takes the steps of the behaviour.     *)

VARIABLES qt, thread, ready, leaving, gathered, call, app_ref, started, services,
          stop_failed, late, stops, at, made, stored, holding, failed, forward,
          subscribed, after, recent, signals, cards, early, in_flight, trimmed

desktop ==
  << qt, thread, ready, leaving, gathered, call, app_ref, started, services,
     stop_failed, late, stops, at, made, stored, holding, failed, forward,
     subscribed, after, recent, signals, cards, early, in_flight, trimmed >>

D == INSTANCE Desktop

MCInit ==
  /\ Init /\ D!Init
  /\ \/ moves = "pacman" /\ made = 0
     \/ moves = "desktop"

MCNext ==
  /\ UNCHANGED moves
  /\ \/ moves = "pacman" /\ Next /\ UNCHANGED desktop
     \/ moves = "desktop" /\ D!Next /\ UNCHANGED vars

Pacman(action) == moves = "pacman" /\ action /\ UNCHANGED << moves, desktop >>
Desktop(action) == moves = "desktop" /\ action /\ UNCHANGED << moves, vars >>

(* The fairness of PacmanSource!FairSpec and of Desktop!Spec.              *)
MCSpec ==
  /\ MCInit /\ [][MCNext]_<< moves, vars, desktop >>
  /\ WF_vars(Pacman(Handler))
  /\ WF_vars(Pacman(LoopSets)) /\ WF_vars(Pacman(BridgeDrains))
  /\ WF_vars(Pacman(TimerFires)) /\ WF_vars(Pacman(TaskLocks))
  /\ WF_vars(Pacman(ThreadReads)) /\ WF_vars(Pacman(TaskPublishes))
  /\ WF_desktop(Desktop(D!Bridge)) /\ WF_desktop(Desktop(D!StartApp))
  /\ WF_desktop(Desktop(D!StopApp)) /\ WF_desktop(Desktop(D!Dispatcher))

(* A coroutine that the bridge accepts comes to its end, unless it came    *)
(* after stop_loop() (bridge.py:28-54).                                    *)
ImplementsCalls == D!ImplementsCalls

(* Once the application is started, a quit ends the thread of the bridge   *)
(* (bridge.py:33-39, __main__.py:98-102).                                  *)
QuitEndsBridge == D!QuitEndsBridge

(* Each event that is taken once start_app() has subscribed has a card,    *)
(* and each stored one of before that the query should find but the one    *)
(* that was being stored; forwarded events are in the order of the bus,    *)
(* loaded ones newest first (__main__.py:83-95, feed.py:106-112).          *)
FeedIsWhole == D!FeedIsWhole
=============================================================================
