--------------------------- MODULE MCApplication ---------------------------
(* An instance of Lifecycle for TLC, and beside it one of LLMClients: what *)
(* the application does with its parts, and with its client of the LLM.    *)
(* The two share no variable, so that they are checked side by side: each  *)
(* behaviour is one of either, and the other keeps its initial state.      *)
EXTENDS Lifecycle

CONSTANT Reloads

VARIABLE moves   (* Which of the two takes the steps of the behaviour.     *)

VARIABLES ollama, clients, llm, analyzer, tracker, reload, health, batch, brief,
          briefing, stopping, alone

llms == << ollama, clients, llm, analyzer, tracker, reload, health, batch, brief,
           briefing, stopping, alone >>

L == INSTANCE LLMClients WITH stop <- stopping

MCInit ==
  /\ Init /\ L!Init
  /\ \/ moves = "lifecycle" /\ ollama
     \/ moves = "llm"

MCNext ==
  /\ UNCHANGED moves
  /\ \/ moves = "lifecycle" /\ Next /\ UNCHANGED llms
     \/ moves = "llm" /\ L!Next /\ UNCHANGED vars

MCSpec == MCInit /\ [][MCNext]_<< moves, vars, llms >>

(* However reloads, jobs and stop() interleave, the client open when they  *)
(* are over is the application's, and with one reload at a time no other   *)
(* is, but those whose start() raised (app.py:229-264, client.py:36-49).   *)
OneClientOpen == L!OneClientOpen

(* A briefing that has read its events is published unless stop() cuts it  *)
(* off (briefing.py:130-164).                                              *)
BriefingComesOut == L!BriefingComesOut
=============================================================================
