----------------------------- MODULE LLMClients -----------------------------
(***************************************************************************)
(* The LLM client of the application and everyone who holds it: start,     *)
(* reload_config() on SIGHUP, the health job, the batch analysis, the      *)
(* morning briefing, and stop() (app.py, llm/client.py,                    *)
(* scheduler/briefing.py).  The clients are numbered in the order  *)
(* of their creation; number 0 is None.                                    *)
(*                                                                         *)
(* A coroutine suspends in the HTTP calls only: aclose() of a client, the  *)
(* request of a health check and of a generation.  What a suspended        *)
(* coroutine has read of the application may have changed when it goes on. *)
(***************************************************************************)
EXTENDS Integers, Sequences, FiniteSets

CONSTANT Reloads   (* The calls of reload_config.                          *)

None == 0

VARIABLES
  ollama,     (* Environment: does the server answer?                      *)
  clients,    (* The clients: is the HTTP client open, and _available.     *)
  llm,        (* app.llm.                                                  *)
  analyzer,   (* The client that the batch analyzer was given.             *)
  tracker,    (* _llm_available of the status tracker.                     *)
  reload,     (* Where each reload is, and the client it works on.         *)
  health,     (* The same for the health job.                              *)
  batch,      (* The same for the batch job.                               *)
  brief,      (* The same for the briefing, which was given client 1.      *)
  briefing,   (* History: what became of the last briefing.                *)
  stop,       (* The same for stop().                                      *)
  alone       (* History: was no reload begun, nor the application stopped,*)
              (* while a reload was under way?                             *)

vars == << ollama, clients, llm, analyzer, tracker, reload, health, batch,
           brief, briefing, stop, alone >>

briefs == << brief, briefing >>

At(where, client) == [pc |-> where, client |-> client]

(* app.start() has created the first client and handed it to the analyzer. *)
Init ==
  /\ ollama \in BOOLEAN
  /\ clients = << [open |-> TRUE, available |-> ollama] >>
  /\ llm = 1
  /\ analyzer = 1
  /\ tracker = ollama
  /\ reload = [r \in Reloads |-> At("idle", None)]
  /\ health = At("idle", None)
  /\ batch = At("idle", None)
  /\ brief = At("idle", None)
  /\ briefing = "none"
  /\ stop = At("idle", None)
  /\ alone = TRUE

OllamaChanges ==
  /\ ollama' = ~ollama
  /\ UNCHANGED << clients, llm, analyzer, tracker, reload, health, batch, stop, alone, briefs >>

(* close() of a client, once aclose() has returned.                        *)
Closed(c) == [clients EXCEPT ![c] = [open |-> FALSE, available |-> FALSE]]

(* Is a reload or the stop closing the client, or has one closed it?       *)
Closing(c) ==
  \/ ~clients[c].open
  \/ stop = At("closing", c)
  \/ \E r \in Reloads : reload[r] = At("closing", c)

(* What a health check may find.  Of a client that is closed meanwhile it  *)
(* may find either: the answer may have been there before.                 *)
Found(c) == IF Closing(c) THEN BOOLEAN ELSE {ollama}

Checked(c, answer) == [clients EXCEPT ![c].available = answer]

-----------------------------------------------------------------------------
(* reload_config().                                                        *)

SetReload(r, where, client) == reload' = [reload EXCEPT ![r] = At(where, client)]

UnderWay == \E r \in Reloads : reload[r].pc \in {"closing", "closed", "starting"}

Begins == alone' = (alone /\ ~UnderWay /\ stop.pc # "closing")

(* With another model or timeout, the client is closed first.  Other       *)
(* changes only replace app.config.                                        *)
ReloadCloses(r) ==
  /\ reload[r].pc = "idle"
  /\ llm # None
  /\ Begins
  /\ SetReload(r, "closing", llm)
  /\ UNCHANGED << ollama, clients, llm, analyzer, tracker, health, batch, stop, briefs >>

ReloadFindsNone(r) ==
  /\ reload[r].pc = "idle"
  /\ llm = None
  /\ Begins
  /\ SetReload(r, "closed", None)
  /\ UNCHANGED << ollama, clients, llm, analyzer, tracker, health, batch, stop, briefs >>

(* Seeded fault: a closed client is not forgotten.                         *)
Remembered == llm

Forgotten == None

(* The new configuration disables the LLM, or a new client is made; its    *)
(* start() opens it before it first suspends.                              *)
ReloadDisables(r) ==
  /\ reload[r].pc = "closing"
  /\ clients' = Closed(reload[r].client)
  /\ llm' = Forgotten
  /\ SetReload(r, "done", None)
  /\ UNCHANGED << ollama, analyzer, tracker, health, batch, stop, alone, briefs >>

ReloadCreates(r) ==
  /\ reload[r].pc \in {"closing", "closed"}
  /\ LET rest == IF reload[r].pc = "closing" THEN Closed(reload[r].client) ELSE clients
     IN clients' = Append(rest, [open |-> TRUE, available |-> FALSE])
  /\ llm' = Len(clients) + 1
  /\ SetReload(r, "starting", Len(clients) + 1)
  /\ UNCHANGED << ollama, analyzer, tracker, health, batch, stop, alone, briefs >>

ReloadStarted(r) ==
  /\ reload[r].pc = "starting"
  /\ \E answer \in Found(reload[r].client) : clients' = Checked(reload[r].client, answer)
  /\ SetReload(r, "done", None)
  /\ UNCHANGED << ollama, llm, analyzer, tracker, health, batch, stop, alone, briefs >>

(* start() raises: for a bad URL, or for a client that someone has closed. *)
(* Nobody closes its HTTP client.                                          *)
ReloadFails(r) ==
  /\ reload[r].pc = "starting"
  /\ llm' = None
  /\ SetReload(r, "failed", reload[r].client)
  /\ UNCHANGED << ollama, clients, analyzer, tracker, health, batch, stop, alone, briefs >>

Reload(r) ==
  \/ ReloadCloses(r)
  \/ ReloadFindsNone(r)
  \/ ReloadDisables(r)
  \/ ReloadCreates(r)
  \/ ReloadStarted(r)
  \/ ReloadFails(r)

-----------------------------------------------------------------------------
(* The health job and the batch job.                                       *)

Working == stop.pc = "idle"

HealthAsks ==
  /\ health.pc = "idle"
  /\ Working
  /\ llm # None
  /\ health' = At("asking", llm)
  /\ UNCHANGED << ollama, clients, llm, analyzer, tracker, reload, batch, stop, alone, briefs >>

HealthAnswers ==
  /\ health.pc = "asking"
  /\ \E answer \in Found(health.client) : clients' = Checked(health.client, answer)
  /\ tracker' = IF llm = None THEN tracker ELSE clients'[llm].available
  /\ health' = At("idle", None)
  /\ UNCHANGED << ollama, llm, analyzer, reload, batch, stop, alone, briefs >>

(* A client that is closed under its request may also raise: that ends the *)
(* job.                                                                    *)
HealthFails ==
  /\ health.pc = "asking"
  /\ Closing(health.client)
  /\ health' = At("idle", None)
  /\ UNCHANGED << ollama, clients, llm, analyzer, tracker, reload, batch, stop, alone, briefs >>

BatchAsks ==
  /\ batch.pc = "idle"
  /\ Working
  /\ clients[analyzer].available
  /\ batch' = At("asking", analyzer)
  /\ UNCHANGED << ollama, clients, llm, analyzer, tracker, reload, health, stop, alone, briefs >>

(* An HTTP error makes the client unavailable; a closed one gives none.    *)
BatchAnswers ==
  /\ batch.pc = "asking"
  /\ \E ok \in BOOLEAN :
       clients' = IF ok THEN clients ELSE [clients EXCEPT ![batch.client].available = FALSE]
  /\ batch' = At("idle", None)
  /\ UNCHANGED << ollama, llm, analyzer, tracker, reload, health, stop, alone, briefs >>

-----------------------------------------------------------------------------
(* The briefing reads the events of a day, and asks the client that start() *)
(* gave it: a reload does not replace it (app.py:189-194).                 *)

Briefer == 1

BriefReads ==
  /\ brief.pc = "idle"
  /\ Working
  /\ brief' = At("reading", None)
  /\ briefing' = "begun"
  /\ UNCHANGED << ollama, clients, llm, analyzer, tracker, reload, health, batch, stop, alone >>

BriefIs(text) ==
  /\ brief' = At("idle", None)
  /\ briefing' = text
  /\ UNCHANGED << ollama, llm, analyzer, tracker, reload, health, batch, stop, alone >>

BriefReadFails ==
  /\ brief.pc = "reading"
  /\ BriefIs("unread")
  /\ UNCHANGED clients

BriefIsPlain ==
  /\ brief.pc = "reading"
  /\ ~clients[Briefer].available \/ ~clients[Briefer].open
  /\ BriefIs("plain")
  /\ UNCHANGED clients

BriefAsks ==
  /\ brief.pc = "reading"
  /\ clients[Briefer].available /\ clients[Briefer].open
  /\ brief' = At("asking", Briefer)
  /\ UNCHANGED << ollama, clients, llm, analyzer, tracker, reload, health, batch, stop, alone, briefing >>

(* Seeded fault: without an answer there is no briefing.                   *)
AnswerOnly(answer) == IF answer = "text" THEN "llm" ELSE "begun"

TextFor(answer) == IF answer = "text" THEN "llm" ELSE "plain"

(* Without a text the briefing is plain: after an HTTP error, which makes  *)
(* the client unavailable, and for an answer without one.                  *)
BriefAnswers ==
  /\ brief.pc = "asking"
  /\ \E answer \in {"text", "no text", "error"} :
       /\ BriefIs(TextFor(answer))
       /\ clients' = IF answer = "error"
                     THEN [clients EXCEPT ![Briefer].available = FALSE] ELSE clients

Brief ==
  \/ BriefReads
  \/ BriefReadFails
  \/ BriefIsPlain
  \/ BriefAsks
  \/ BriefAnswers

-----------------------------------------------------------------------------
(* stop(): the scheduler's jobs are cancelled before the client is closed. *)

StopBegins ==
  /\ stop.pc = "idle"
  /\ Begins
  /\ health' = At("idle", None)
  /\ batch' = At("idle", None)
  /\ brief' = At("idle", None)
  /\ briefing' = IF brief.pc = "idle" THEN briefing ELSE "cut"
  /\ stop' = IF llm = None THEN At("done", None) ELSE At("closing", llm)
  /\ UNCHANGED << ollama, clients, llm, analyzer, tracker, reload >>

StopCloses ==
  /\ stop.pc = "closing"
  /\ clients' = Closed(stop.client)
  /\ llm' = None
  /\ stop' = At("done", None)
  /\ UNCHANGED << ollama, analyzer, tracker, reload, health, batch, alone, briefs >>

Next ==
  \/ OllamaChanges
  \/ \E r \in Reloads : Reload(r)
  \/ HealthAsks
  \/ HealthAnswers
  \/ HealthFails
  \/ BatchAsks
  \/ BatchAnswers
  \/ Brief
  \/ StopBegins
  \/ StopCloses

Spec == Init /\ [][Next]_vars

-----------------------------------------------------------------------------
(* Each variable has its type, and whoever works on a client has one.      *)
TypeOK ==
  LET ids == 0 .. Len(clients)
      Places(pcs) == [pc : pcs, client : ids]
  IN /\ {ollama, tracker, alone} \subseteq BOOLEAN
     /\ clients \in Seq([open : BOOLEAN, available : BOOLEAN])
     /\ llm \in ids
     /\ analyzer \in ids
     /\ reload \in [Reloads -> Places({"idle", "closing", "closed", "starting",
                                       "failed", "done"})]
     /\ health \in Places({"idle", "asking"})
     /\ batch \in Places({"idle", "asking"})
     /\ brief \in Places({"idle", "reading", "asking"})
     /\ briefing \in {"none", "begun", "unread", "llm", "plain", "cut"}
     /\ stop \in Places({"idle", "closing", "done"})
     /\ \A place \in {health, batch, brief, stop} \union {reload[r] : r \in Reloads} :
          place.pc \in {"asking", "closing", "starting"} => place.client # None

Quiet ==
  /\ \A r \in Reloads : reload[r].pc \in {"idle", "failed", "done"}
  /\ stop.pc # "closing"

(* Once the reloads and the stop are over, the client the application has  *)
(* is an open one, however they interleaved: no job talks to a closed one. *)
LlmIsOpen == Quiet /\ llm # None => clients[llm].open

(* One reload at a time leaves no client open but the application's own    *)
(* and those whose start() raised.                                         *)
NoClientLeaks ==
  Quiet /\ alone => \A c \in DOMAIN clients :
    clients[c].open => c = llm \/ \E r \in Reloads : reload[r] = At("failed", c)

(* When nothing closes or opens a client any more, the open one is the     *)
(* application's, and there is no other (app.py:229-264).                  *)
OneClientOpen == LlmIsOpen /\ NoClientLeaks

(* A briefing that has read its events is published, whatever the server,  *)
(* the reloads and the health check did to its client meanwhile; only      *)
(* stop() cuts one off (briefing.py:130-164).                              *)
BriefingComesOut ==
  brief.pc = "idle" => briefing # "begun"
=============================================================================
