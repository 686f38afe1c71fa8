--------------------------- MODULE DatabaseProofs ---------------------------
(***************************************************************************)
(* Theorems about Database, for any number of tasks, operations and runs   *)
(* of the process, and about BatchAnalysis, for any number of events.      *)
(***************************************************************************)
EXTENDS MCDatabase, Sequences, FiniteSetTheorems, TLAPS

-----------------------------------------------------------------------------
(* The inductive invariant.                                                *)

(* The statements that an operation under way has done.                    *)
DoneBy(t) == IF stage[t] \in {"commit", "end"} THEN Statements(t) ELSE stmt[t] - 1

WellCounted == \A t \in Working : stmt[t] \in 1 .. Statements(t)

(* Nothing rolls back what an operation under way has done.                *)
NoneIsLost ==
  \A t \in Working : \A i \in 1 .. DoneBy(t) : << t, op[t], i >> \in pending \union durable

(* What is to be written has not been.                                     *)
OnlyWhatWasWritten ==
  \A w \in pending \union durable :
    /\ w[3] \in 1 .. Statements(w[1])
    /\ w[2] <= op[w[1]]
    /\ w[2] = op[w[1]] /\ stage[w[1]] \in {"execute", "begin", "write"} => w[3] < stmt[w[1]]

Once == pending \intersect durable = {}

(* Whoever opened an empty transaction is about to write into it.          *)
OpenIsUsed ==
  /\ pending # {} => in_txn
  /\ in_txn /\ pending = {} => \E t \in Tasks : stage[t] = "write"

(* A write that is not committed has someone who will commit it, or who    *)
(* was cut off or failed.                                                  *)
PendingIsOwned ==
  \A w \in pending :
    \/ w[1] \in Working /\ w[2] = op[w[1]]
    \/ w[1] \in cut
    \/ << w[1], w[2] >> \in raised

Overlap == \A t, u \in Working : t # u => At(t) \in met

(* Another has opened, or closed, a transaction since the look.            *)
TurnedAway ==
  \A t \in Tasks :
    /\ stage[t] = "begin" /\ in_txn => At(t) \in met
    /\ stage[t] = "end" /\ ~in_txn => At(t) \in met

(* Where a creation or a migration may have been broken off.               *)
Migrates ==
  /\ columns = "none" => version = 0 /\ conn \in {"off", "script"}
  /\ version = 0 => columns \in {"none", "v2"}
  /\ version = 2 => columns = "v2"
  /\ conn # "failed"
  /\ conn \in {"index", "update"} => columns = "v2" /\ version = 1
  /\ conn \in {"ready", "closed"} => columns = "v2" /\ version = 2

DInv ==
  /\ TypeOK
  /\ WellCounted /\ NoneIsLost /\ OnlyWhatWasWritten /\ Once /\ OpenIsUsed
  /\ PendingIsOwned /\ Overlap /\ TurnedAway
  /\ ReturnedIsCommitted /\ RaisesOnlyBeside

-----------------------------------------------------------------------------
(* Steps: of connect(), of a task, of the end of a connection.             *)

LEMMA StatementsType == \A t \in Tasks : Statements(t) \in 1 .. 2
BY DEF Statements

LEMMA Kinds ==
  ASSUME [Next]_vars
  PROVE  \/ UNCHANGED << txn, work, past >> /\ (Connecting \/ UNCHANGED vars)
         \/ \E t \in Tasks : Begin(t) \/ Thread(t) \/ Cancel(t)
         \/ Close \/ Kill
<1>1. CASE Connecting
  BY <1>1 DEF Connecting, Connects, Connect, RunScript, SeedVersion, VersionIsCurrent,
              AddColumn, AddIndex, HadColumn, UpdateVersion
<1>2. CASE UNCHANGED vars
  BY <1>2 DEF vars
<1> QED BY <1>1, <1>2 DEF Next

-----------------------------------------------------------------------------
(* Type correctness and the schema.                                        *)

LEMMA SchemaStep ==
  ASSUME TypeOK, Migrates, Connecting \/ UNCHANGED vars
  PROVE  /\ columns' \in {"none", "v1", "v2"} /\ indexed' \in BOOLEAN /\ version' \in 0 .. 2
         /\ conn' \in {"off", "script", "version", "index", "update", "ready",
                       "closed", "failed"}
         /\ runs' \in Nat
         /\ Migrates'
<1> USE DEF TypeOK, Migrates, Connects, schema
<1>1. CASE Connect
  BY <1>1 DEF Connect
<1>2. CASE RunScript
  BY <1>2 DEF RunScript
<1>3. CASE SeedVersion
  BY <1>3 DEF SeedVersion
<1>4. CASE VersionIsCurrent
  BY <1>4 DEF VersionIsCurrent
<1>5. CASE AddColumn
  BY <1>5 DEF AddColumn, HasColumn
<1>6. CASE AddIndex
  BY <1>6 DEF AddIndex
<1>7. CASE HadColumn
  BY <1>7 DEF HadColumn, HasColumn
<1>8. CASE UpdateVersion
  BY <1>8 DEF UpdateVersion
<1>9. CASE UNCHANGED vars
  BY <1>9 DEF vars
<1> QED BY <1>1, <1>2, <1>3, <1>4, <1>5, <1>6, <1>7, <1>8, <1>9 DEF Connecting

LEMMA TypeOfTask ==
  ASSUME TypeOK, WellCounted, NEW t \in Tasks, Begin(t) \/ Thread(t) \/ Cancel(t)
  PROVE  TypeOK' /\ UNCHANGED << schema, conn, runs >>
<1> USE StatementsType DEF TypeOK, Goes, At, Operations, schema, txn, work, past
<1>0. stage[t] # "none" => stmt[t] \in 1 .. 2 /\ stmt[t] <= Statements(t)
  BY DEF WellCounted, Working
<1>1. CASE Begin(t)
  <2>1. UNCHANGED << schema, conn, txn, cut, returned, raised, runs >>
    BY <1>1 DEF Begin
  <2>2. op' \in [Tasks -> Nat] /\ stmt' \in [Tasks -> 0 .. 2]
    BY <1>1 DEF Begin
  <2>3. stage' \in [Tasks -> {"none", "execute", "begin", "write", "commit", "end"}]
    BY <1>1 DEF Begin
  <2>4. met' \subseteq Operations
    BY <1>1, <2>2 DEF Begin, Working
  <2> QED BY <2>1, <2>2, <2>3, <2>4
<1>2. CASE Look(t)
  BY <1>2 DEF Look
<1>3. CASE OpenTxn(t)
  BY <1>3 DEF OpenTxn
<1>4. CASE OpenTxnFails(t)
  BY <1>4 DEF OpenTxnFails, Fails
<1>5. CASE Write(t)
  <2>1. UNCHANGED << schema, conn, in_txn, op, cut, past, runs >>
    BY <1>5 DEF Write
  <2>2. stmt' \in [Tasks -> 0 .. 2]
    BY <1>5 DEF Write
  <2>3. stage' \in [Tasks -> {"none", "execute", "begin", "write", "commit", "end"}]
    BY <1>5 DEF Write, NextStage
  <2>4. << t, op[t], stmt[t] >> \in Tasks \X Nat \X (1 .. 2)
    BY <1>5, <1>0 DEF Write
  <2>5. {pending', durable'} \subseteq SUBSET (Tasks \X Nat \X (1 .. 2))
    BY <1>5, <2>4 DEF Write
  <2> QED BY <2>1, <2>2, <2>3, <2>5
<1>6. CASE NothingToCommit(t)
  BY <1>6 DEF NothingToCommit, Returns
<1>7. CASE LookCommit(t)
  BY <1>7 DEF LookCommit
<1>8. CASE Commit(t)
  <2>1. durable' \subseteq Tasks \X Nat \X (1 .. 2) /\ pending' = {} /\ in_txn' = FALSE
    BY <1>8 DEF Commit
  <2>2. /\ UNCHANGED << schema, conn, op, stmt, cut, raised, met, runs >>
        /\ Goes(t, "none")
        /\ returned' \subseteq returned \union {At(t)}
    BY <1>8 DEF Commit, Returns
  <2>3. At(t) \in Tasks \X Nat
    OBVIOUS
  <2>4. {pending', durable'} \subseteq SUBSET (Tasks \X Nat \X (1 .. 2))
    BY <2>1
  <2>5. returned' \subseteq Tasks \X Nat
    BY <2>2, <2>3
  <2> QED BY <2>1, <2>2, <2>4, <2>5
<1>9. CASE CommitFails(t)
  BY <1>9 DEF CommitFails, Fails
<1>10. CASE Cancel(t)
  BY <1>10 DEF Cancel
<1> HIDE DEF TypeOK, Goes, At, Operations, schema, txn, work, past
<1> QED BY <1>1, <1>2, <1>3, <1>4, <1>5, <1>6, <1>7, <1>8, <1>9, <1>10 DEF Thread

LEMMA TypeOfEnd ==
  ASSUME TypeOK, Close \/ Kill
  PROVE  TypeOK'
BY DEF TypeOK, Close, Kill, Dropped, schema, past

LEMMA SchemaInit == Init => Migrates
BY DEF Init, Migrates

LEMMA SchemaOfOthers ==
  ASSUME Migrates, Close \/ Kill \/ UNCHANGED << schema, conn >>
  PROVE  Migrates'
BY DEF Migrates, Close, Kill, Dropped, schema

-----------------------------------------------------------------------------
(* The transaction: what each step does to the parts of the invariant.     *)

LEMMA Types ==
  ASSUME DInv
  PROVE  /\ op \in [Tasks -> Nat] /\ stmt \in [Tasks -> 0 .. 2]
         /\ stage \in [Tasks -> {"none", "execute", "begin", "write", "commit", "end"}]
         /\ pending \subseteq Tasks \X Nat \X (1 .. 2)
         /\ durable \subseteq Tasks \X Nat \X (1 .. 2)
         /\ in_txn \in BOOLEAN /\ cut \subseteq Tasks
         /\ \A t \in Tasks : Statements(t) \in 1 .. 2
BY StatementsType DEF DInv, TypeOK

LEMMA OfBegin ==
  ASSUME DInv, NEW t \in Tasks, Begin(t)
  PROVE  DInv'
<1>1. /\ stage[t] = "none" /\ stage' = [stage EXCEPT ![t] = "execute"]
      /\ op' = [op EXCEPT ![t] = @ + 1] /\ stmt' = [stmt EXCEPT ![t] = 1]
      /\ met \subseteq met' /\ UNCHANGED << in_txn, pending, durable, cut, returned, raised >>
      /\ Working # {} => << t, op'[t] >> \in met' /\ \A u \in Working : At(u) \in met'
  BY DEF Begin, Goes, txn
<1>2. TypeOK'
  BY TypeOfTask DEF DInv, Thread
<1>3. WellCounted' /\ NoneIsLost'
  BY <1>1, Types DEF DInv, WellCounted, Working, NoneIsLost, DoneBy
<1>4. OnlyWhatWasWritten' /\ Once'
  BY <1>1, Types DEF DInv, OnlyWhatWasWritten, Once
<1>5. OpenIsUsed' /\ PendingIsOwned'
  BY <1>1, Types DEF DInv, OpenIsUsed, PendingIsOwned, Working
<1>6. Overlap' /\ TurnedAway' /\ RaisesOnlyBeside'
  BY <1>1, Types DEF DInv, Overlap, Working, At, TurnedAway, RaisesOnlyBeside
<1>7. ReturnedIsCommitted'
  BY <1>1, Types DEF DInv, ReturnedIsCommitted, Writes, NoneIsLost, DoneBy, Working, At, OpenIsUsed
<1> QED BY <1>2, <1>3, <1>4, <1>5, <1>6, <1>7 DEF DInv

LEMMA OfLook ==
  ASSUME DInv, NEW t \in Tasks, Look(t)
  PROVE  DInv'
<1>1. /\ stage[t] = "execute"
      /\ stage' = [stage EXCEPT ![t] = IF ~in_txn THEN "begin" ELSE "write"]
      /\ UNCHANGED << in_txn, pending, durable, op, stmt, cut, returned, raised, met >>
  BY DEF Look, Goes, BeginsFirst, txn, past
<1>2. TypeOK'
  BY TypeOfTask DEF DInv, Thread
<1>3. WellCounted' /\ NoneIsLost'
  BY <1>1, Types DEF DInv, WellCounted, Working, NoneIsLost, DoneBy
<1>4. OnlyWhatWasWritten' /\ Once'
  BY <1>1, Types DEF DInv, OnlyWhatWasWritten, Once
<1>5. OpenIsUsed' /\ PendingIsOwned'
  BY <1>1, Types DEF DInv, OpenIsUsed, PendingIsOwned, Working
<1>6. Overlap' /\ TurnedAway' /\ RaisesOnlyBeside'
  BY <1>1, Types DEF DInv, Overlap, Working, At, TurnedAway, RaisesOnlyBeside
<1>7. ReturnedIsCommitted'
  BY <1>1, Types DEF DInv, ReturnedIsCommitted, Writes, NoneIsLost, DoneBy, Working, At, OpenIsUsed
<1> QED BY <1>2, <1>3, <1>4, <1>5, <1>6, <1>7 DEF DInv

LEMMA OfOpenTxn ==
  ASSUME DInv, NEW t \in Tasks, OpenTxn(t)
  PROVE  DInv'
<1>1. /\ stage[t] = "begin" /\ stage' = [stage EXCEPT ![t] = "write"]
      /\ ~in_txn /\ in_txn' = TRUE
      /\ UNCHANGED << pending, durable, op, stmt, cut, returned, raised, met >>
  BY DEF OpenTxn, Goes, past
<1>2. TypeOK'
  BY TypeOfTask DEF DInv, Thread
<1>3. WellCounted' /\ NoneIsLost'
  BY <1>1, Types DEF DInv, WellCounted, Working, NoneIsLost, DoneBy
<1>4. OnlyWhatWasWritten' /\ Once'
  BY <1>1, Types DEF DInv, OnlyWhatWasWritten, Once
<1>5. OpenIsUsed' /\ PendingIsOwned'
  BY <1>1, Types DEF DInv, OpenIsUsed, PendingIsOwned, Working
<1>6. Overlap' /\ TurnedAway' /\ RaisesOnlyBeside'
  BY <1>1, Types DEF DInv, Overlap, Working, At, TurnedAway, RaisesOnlyBeside
<1>7. ReturnedIsCommitted'
  BY <1>1, Types DEF DInv, ReturnedIsCommitted, Writes, NoneIsLost, DoneBy, Working, At, OpenIsUsed
<1> QED BY <1>2, <1>3, <1>4, <1>5, <1>6, <1>7 DEF DInv

LEMMA OfOpenTxnFails ==
  ASSUME DInv, NEW t \in Tasks, OpenTxnFails(t)
  PROVE  DInv'
<1>1. /\ stage[t] = "begin" /\ stage' = [stage EXCEPT ![t] = "none"]
      /\ in_txn /\ raised' = IF t \in cut THEN raised ELSE raised \union {At(t)}
      /\ UNCHANGED << in_txn, pending, durable, op, stmt, cut, returned, met >>
  BY DEF OpenTxnFails, Fails, Goes, txn
<1>2. TypeOK'
  BY TypeOfTask DEF DInv, Thread
<1>3. WellCounted' /\ NoneIsLost'
  BY <1>1, Types DEF DInv, WellCounted, Working, NoneIsLost, DoneBy
<1>4. OnlyWhatWasWritten' /\ Once'
  BY <1>1, Types DEF DInv, OnlyWhatWasWritten, Once
<1>5. OpenIsUsed' /\ PendingIsOwned'
  <2>1. OpenIsUsed'
    BY <1>1, Types DEF DInv, OpenIsUsed
  <2>2. ASSUME NEW w \in pending, w[1] = t, w[2] = op[t]
        PROVE  t \in cut \/ << w[1], w[2] >> \in raised'
    BY <1>1, <2>2 DEF At
  <2>3. Working \subseteq Working' \union {t} /\ raised \subseteq raised'
    BY <1>1, Types DEF Working
  <2>4. PendingIsOwned'
    BY <1>1, <2>2, <2>3 DEF DInv, PendingIsOwned
  <2> QED BY <2>1, <2>4
<1>6. Overlap' /\ TurnedAway' /\ RaisesOnlyBeside'
  BY <1>1, Types DEF DInv, Overlap, Working, At, TurnedAway, RaisesOnlyBeside
<1>7. ReturnedIsCommitted'
  BY <1>1, Types DEF DInv, ReturnedIsCommitted, Writes, NoneIsLost, DoneBy, Working, At, OpenIsUsed
<1> QED BY <1>2, <1>3, <1>4, <1>5, <1>6, <1>7 DEF DInv

LEMMA OfWrite ==
  ASSUME DInv, NEW t \in Tasks, Write(t)
  PROVE  DInv'
<1>1. /\ stage[t] = "write"
      /\ stage' = [stage EXCEPT ![t] = IF t \in cut THEN "none" ELSE NextStage(t)]
      /\ stmt' = [stmt EXCEPT ![t] = IF t \notin cut /\ @ < Statements(t) THEN @ + 1 ELSE @]
      /\ IF in_txn THEN pending' = pending \union {<< t, op[t], stmt[t] >>} /\ UNCHANGED durable
         ELSE durable' = durable \union {<< t, op[t], stmt[t] >>} /\ UNCHANGED pending
      /\ UNCHANGED << in_txn, op, cut, returned, raised, met >>
  BY DEF Write, Goes, past
<1> USE DEF NextStage
<1>2. TypeOK'
  BY TypeOfTask DEF DInv, Thread
<1>3. WellCounted' /\ NoneIsLost'
  BY <1>1, Types DEF DInv, WellCounted, Working, NoneIsLost, DoneBy
<1> DEFINE me == << t, op[t], stmt[t] >>
<1>4. /\ me[1] = t /\ me[2] = op[t] /\ me[3] = stmt[t]
      /\ op[t] \in Nat /\ stmt[t] \in 1 .. Statements(t) /\ Statements(t) \in 1 .. 2
      /\ t \in Working
  BY <1>1, Types DEF DInv, WellCounted, Working
<1>5. pending' \union durable' = (pending \union durable) \union {me}
  BY <1>1
<1>8. me \notin pending \union durable
  BY <1>1, <1>4 DEF DInv, OnlyWhatWasWritten
<1>9. Once'
  BY <1>1, <1>8 DEF DInv, Once
<1>10. OnlyWhatWasWritten'
  <2> SUFFICES ASSUME NEW w \in pending' \union durable'
      PROVE  /\ w[3] \in 1 .. Statements(w[1])
             /\ w[2] <= op[w[1]]
             /\ w[2] = op[w[1]] /\ stage'[w[1]] \in {"execute", "begin", "write"} =>
                  w[3] < stmt'[w[1]]
    BY <1>1 DEF OnlyWhatWasWritten
  <2>1. CASE w = me
    <3>1. stage'[t] \in {"execute", "begin", "write"} => stmt'[t] = stmt[t] + 1
      BY <1>1, <1>4, Types
    <3> QED BY <2>1, <3>1, <1>4
  <2>2. CASE w # me
    <3>1. /\ w \in pending \union durable /\ w[1] \in Tasks
          /\ w[3] \in 1 .. Statements(w[1]) /\ w[2] <= op[w[1]]
          /\ w[2] = op[w[1]] /\ stage[w[1]] \in {"execute", "begin", "write"} =>
               w[3] < stmt[w[1]]
      BY <1>5, <2>2, Types DEF DInv, OnlyWhatWasWritten
    <3>2. stmt[w[1]] \in 0 .. 2 /\ stmt'[w[1]] \in stmt[w[1]] .. stmt[w[1]] + 1
      BY <1>1, <3>1, Types
    <3>3. w[3] \in Int
      BY <3>1, Types
    <3>4. CASE w[1] = t
      BY <1>1, <3>1, <3>2, <3>3, <3>4
    <3>5. CASE w[1] # t
      BY <1>1, <3>1, <3>5, Types
    <3> QED BY <3>4, <3>5
  <2> QED BY <2>1, <2>2
<1>11. OpenIsUsed'
  BY <1>1 DEF DInv, OpenIsUsed
<1>12. PendingIsOwned'
  <2> SUFFICES ASSUME NEW w \in pending'
      PROVE  \/ w[1] \in Working' /\ w[2] = op[w[1]]
             \/ w[1] \in cut
             \/ << w[1], w[2] >> \in raised
    BY <1>1 DEF PendingIsOwned
  <2>1. t \in cut \/ Working' = Working
    BY <1>1, Types DEF Working
  <2>2. Working \subseteq Working' \union {t}
    BY <1>1, Types DEF Working
  <2>3. CASE w = me
    BY <1>4, <2>1, <2>3
  <2>4. CASE w # me
    BY <1>1, <2>1, <2>2, <2>4 DEF DInv, PendingIsOwned
  <2> QED BY <2>3, <2>4
<1>6. Overlap' /\ TurnedAway' /\ RaisesOnlyBeside'
  BY <1>1, Types DEF DInv, Overlap, Working, At, TurnedAway, RaisesOnlyBeside
<1>7. ReturnedIsCommitted'
  BY <1>1, Types DEF DInv, ReturnedIsCommitted, Writes, NoneIsLost, DoneBy, Working, At, OpenIsUsed
<1> QED BY <1>2, <1>3, <1>6, <1>7, <1>9, <1>10, <1>11, <1>12 DEF DInv

LEMMA OfNothingToCommit ==
  ASSUME DInv, NEW t \in Tasks, NothingToCommit(t)
  PROVE  DInv'
<1>1. /\ stage[t] = "commit" /\ stage' = [stage EXCEPT ![t] = "none"]
      /\ ~in_txn /\ returned' = IF t \in cut THEN returned ELSE returned \union {At(t)}
      /\ UNCHANGED << in_txn, pending, durable, op, stmt, cut, raised, met >>
  BY DEF NothingToCommit, NothingOpen, Returns, Goes, txn
<1>2. TypeOK'
  BY TypeOfTask DEF DInv, Thread
<1>3. WellCounted' /\ NoneIsLost'
  BY <1>1, Types DEF DInv, WellCounted, Working, NoneIsLost, DoneBy
<1>4. OnlyWhatWasWritten' /\ Once'
  BY <1>1, Types DEF DInv, OnlyWhatWasWritten, Once
<1>5. OpenIsUsed' /\ PendingIsOwned'
  BY <1>1, Types DEF DInv, OpenIsUsed, PendingIsOwned, Working
<1>6. Overlap' /\ TurnedAway' /\ RaisesOnlyBeside'
  BY <1>1, Types DEF DInv, Overlap, Working, At, TurnedAway, RaisesOnlyBeside
<1>7. ReturnedIsCommitted'
  BY <1>1, Types DEF DInv, ReturnedIsCommitted, Writes, NoneIsLost, DoneBy, Working, At, OpenIsUsed
<1> QED BY <1>2, <1>3, <1>4, <1>5, <1>6, <1>7 DEF DInv

LEMMA OfLookCommit ==
  ASSUME DInv, NEW t \in Tasks, LookCommit(t)
  PROVE  DInv'
<1>1. /\ stage[t] = "commit" /\ stage' = [stage EXCEPT ![t] = "end"]
      /\ in_txn
      /\ UNCHANGED << in_txn, pending, durable, op, stmt, cut, returned, raised, met >>
  BY DEF LookCommit, Goes, txn, past
<1>2. TypeOK'
  BY TypeOfTask DEF DInv, Thread
<1>3. WellCounted' /\ NoneIsLost'
  BY <1>1, Types DEF DInv, WellCounted, Working, NoneIsLost, DoneBy
<1>4. OnlyWhatWasWritten' /\ Once'
  BY <1>1, Types DEF DInv, OnlyWhatWasWritten, Once
<1>5. OpenIsUsed' /\ PendingIsOwned'
  BY <1>1, Types DEF DInv, OpenIsUsed, PendingIsOwned, Working
<1>6. Overlap' /\ TurnedAway' /\ RaisesOnlyBeside'
  BY <1>1, Types DEF DInv, Overlap, Working, At, TurnedAway, RaisesOnlyBeside
<1>7. ReturnedIsCommitted'
  BY <1>1, Types DEF DInv, ReturnedIsCommitted, Writes, NoneIsLost, DoneBy, Working, At, OpenIsUsed
<1> QED BY <1>2, <1>3, <1>4, <1>5, <1>6, <1>7 DEF DInv

LEMMA OfCommit ==
  ASSUME DInv, NEW t \in Tasks, Commit(t)
  PROVE  DInv'
<1>1. /\ stage[t] = "end" /\ stage' = [stage EXCEPT ![t] = "none"]
      /\ in_txn' = FALSE /\ durable' = durable \union pending /\ pending' = {}
      /\ returned' = IF t \in cut THEN returned ELSE returned \union {At(t)}
      /\ UNCHANGED << op, stmt, cut, raised, met >>
  BY DEF Commit, Returns, Goes
<1>2. TypeOK'
  BY TypeOfTask DEF DInv, Thread
<1>3. WellCounted' /\ NoneIsLost'
  BY <1>1, Types DEF DInv, WellCounted, Working, NoneIsLost, DoneBy
<1>4. OnlyWhatWasWritten' /\ Once'
  BY <1>1, Types DEF DInv, OnlyWhatWasWritten, Once
<1>5. OpenIsUsed' /\ PendingIsOwned'
  BY <1>1, Types DEF DInv, OpenIsUsed, PendingIsOwned, Working
<1>6. Overlap' /\ TurnedAway' /\ RaisesOnlyBeside'
  BY <1>1, Types DEF DInv, Overlap, Working, At, TurnedAway, RaisesOnlyBeside
<1>7. ReturnedIsCommitted'
  BY <1>1, Types DEF DInv, ReturnedIsCommitted, Writes, NoneIsLost, DoneBy, Working, At, OpenIsUsed
<1> QED BY <1>2, <1>3, <1>4, <1>5, <1>6, <1>7 DEF DInv

LEMMA OfCommitFails ==
  ASSUME DInv, NEW t \in Tasks, CommitFails(t)
  PROVE  DInv'
<1>1. /\ stage[t] = "end" /\ stage' = [stage EXCEPT ![t] = "none"]
      /\ ~in_txn /\ raised' = IF t \in cut THEN raised ELSE raised \union {At(t)}
      /\ UNCHANGED << in_txn, pending, durable, op, stmt, cut, returned, met >>
  BY DEF CommitFails, Fails, Goes, txn
<1>2. TypeOK'
  BY TypeOfTask DEF DInv, Thread
<1>3. WellCounted' /\ NoneIsLost'
  BY <1>1, Types DEF DInv, WellCounted, Working, NoneIsLost, DoneBy
<1>4. OnlyWhatWasWritten' /\ Once'
  BY <1>1, Types DEF DInv, OnlyWhatWasWritten, Once
<1>5. OpenIsUsed' /\ PendingIsOwned'
  BY <1>1, Types DEF DInv, OpenIsUsed, PendingIsOwned, Working
<1>6. Overlap' /\ TurnedAway' /\ RaisesOnlyBeside'
  BY <1>1, Types DEF DInv, Overlap, Working, At, TurnedAway, RaisesOnlyBeside
<1>7. ReturnedIsCommitted'
  BY <1>1, Types DEF DInv, ReturnedIsCommitted, Writes, NoneIsLost, DoneBy, Working, At, OpenIsUsed
<1> QED BY <1>2, <1>3, <1>4, <1>5, <1>6, <1>7 DEF DInv

LEMMA OfCancel ==
  ASSUME DInv, NEW t \in Tasks, Cancel(t)
  PROVE  DInv'
<1>1. /\ \/ UNCHANGED stage
         \/ stage[t] \in {"execute", "commit"} /\ stage' = [stage EXCEPT ![t] = "none"]
      /\ cut' = cut \union {t}
      /\ UNCHANGED << in_txn, pending, durable, op, stmt, returned, raised, met >>
  BY DEF Cancel, Goes, txn, past
<1>2. TypeOK'
  BY TypeOfTask DEF DInv, Thread
<1>3. WellCounted' /\ NoneIsLost'
  BY <1>1, Types DEF DInv, WellCounted, Working, NoneIsLost, DoneBy
<1>4. OnlyWhatWasWritten' /\ Once'
  BY <1>1, Types DEF DInv, OnlyWhatWasWritten, Once
<1>5. OpenIsUsed' /\ PendingIsOwned'
  BY <1>1, Types DEF DInv, OpenIsUsed, PendingIsOwned, Working
<1>6. Overlap' /\ TurnedAway' /\ RaisesOnlyBeside'
  BY <1>1, Types DEF DInv, Overlap, Working, At, TurnedAway, RaisesOnlyBeside
<1>7. ReturnedIsCommitted'
  BY <1>1, Types DEF DInv, ReturnedIsCommitted, Writes, NoneIsLost, DoneBy, Working, At, OpenIsUsed
<1> QED BY <1>2, <1>3, <1>4, <1>5, <1>6, <1>7 DEF DInv

LEMMA OfEnd ==
  ASSUME DInv, Close \/ Kill
  PROVE  DInv'
<1>1. /\ in_txn' = FALSE /\ pending' = {} /\ stage' = [t \in Tasks |-> "none"]
      /\ UNCHANGED << durable, op, stmt, returned, raised, met >>
  BY DEF Close, Kill, Dropped, past
<1>2. TypeOK'
  BY TypeOfEnd DEF DInv
<1>3. Working' = {}
  BY <1>1 DEF Working
<1>4. WellCounted' /\ NoneIsLost' /\ Overlap' /\ PendingIsOwned' /\ Once'
  BY <1>1, <1>3 DEF WellCounted, NoneIsLost, Overlap, PendingIsOwned, Once
<1>5. OnlyWhatWasWritten'
  BY <1>1, Types DEF DInv, OnlyWhatWasWritten
<1>6. OpenIsUsed' /\ TurnedAway'
  BY <1>1 DEF OpenIsUsed, TurnedAway
<1>7. ReturnedIsCommitted' /\ RaisesOnlyBeside'
  BY <1>1 DEF DInv, ReturnedIsCommitted, RaisesOnlyBeside, Writes
<1> QED BY <1>2, <1>4, <1>5, <1>6, <1>7 DEF DInv

LEMMA OfConnect ==
  ASSUME DInv, Migrates, Connecting \/ UNCHANGED vars, UNCHANGED << txn, work, past >>
  PROVE  DInv'
<1>1. TypeOK'
  BY SchemaStep DEF DInv, TypeOK, txn, work, past, Operations
<1>2. UNCHANGED << in_txn, pending, durable, op, stmt, stage, cut, returned, raised, met >>
  BY DEF txn, work, past
<1> QED BY <1>1, <1>2 DEF DInv, WellCounted, NoneIsLost, OnlyWhatWasWritten, Once, OpenIsUsed,
       PendingIsOwned, Overlap, TurnedAway, ReturnedIsCommitted, RaisesOnlyBeside,
       Working, DoneBy, At, Writes

-----------------------------------------------------------------------------
(* The invariant is inductive.                                             *)

LEMMA InvInit == Init => DInv /\ Migrates
<1> SUFFICES ASSUME Init PROVE DInv
  BY SchemaInit
<1>1. TypeOK
  <2>1. /\ op \in [Tasks -> Nat] /\ stmt \in [Tasks -> 0 .. 2]
        /\ stage \in [Tasks -> {"none", "execute", "begin", "write", "commit", "end"}]
    BY DEF Init
  <2>2. columns \in {"none", "v1", "v2"} /\ version \in 0 .. 2 /\ conn = "off" /\ runs = 0
    BY DEF Init
  <2>4. indexed \in BOOLEAN /\ in_txn \in BOOLEAN
    BY DEF Init
  <2>3. /\ pending = {} /\ durable = {} /\ cut = {}
        /\ returned = {} /\ raised = {} /\ met = {}
    BY DEF Init
  <2> QED BY <2>1, <2>2, <2>3, <2>4 DEF TypeOK, Operations
<1>2. Working = {} /\ pending = {} /\ durable = {} /\ ~in_txn /\ returned = {} /\ raised = {}
      /\ stage = [t \in Tasks |-> "none"]
  BY DEF Init, Working
<1> QED BY <1>1, <1>2 DEF DInv, WellCounted, NoneIsLost, OnlyWhatWasWritten, Once, OpenIsUsed,
       PendingIsOwned, Overlap, TurnedAway, ReturnedIsCommitted, RaisesOnlyBeside

LEMMA InvStep == DInv /\ Migrates /\ [Next]_vars => DInv' /\ Migrates'
<1> SUFFICES ASSUME DInv, Migrates, [Next]_vars PROVE DInv' /\ Migrates'
  OBVIOUS
<1>1. CASE UNCHANGED << txn, work, past >> /\ (Connecting \/ UNCHANGED vars)
  BY <1>1, OfConnect, SchemaStep DEF DInv
<1>2. ASSUME NEW t \in Tasks, Begin(t) \/ Thread(t) \/ Cancel(t)
      PROVE  DInv' /\ Migrates'
  <2>1. Migrates'
    BY <1>2, TypeOfTask, SchemaOfOthers DEF DInv
  <2>2. DInv'
    BY <1>2, OfBegin, OfLook, OfOpenTxn, OfOpenTxnFails, OfWrite, OfNothingToCommit,
       OfLookCommit, OfCommit, OfCommitFails, OfCancel DEF Thread
  <2> QED BY <2>1, <2>2
<1>3. CASE Close \/ Kill
  BY <1>3, OfEnd, SchemaOfOthers
<1> QED BY <1>1, <1>2, <1>3, Kinds

(* The inductive invariant holds in every state, and a creation or a       *)
(* migration has completed what a connected process relies on              *)
(* (connection.py:32-133, repository.py:21-127).                           *)
THEOREM Invariance == Spec => [](DInv /\ Migrates)
BY InvInit, InvStep, PTL DEF Spec

(* Every variable always has its type.                                     *)
THEOREM TypeCorrect == Spec => []TypeOK
<1>1. DInv /\ Migrates => TypeOK
  BY DEF DInv
<1> QED BY <1>1, Invariance, PTL

(* No kill during a creation or a migration keeps a later connect() from   *)
(* succeeding, and a connected database has the column the inserts name    *)
(* (connection.py:104-133).                                                *)
THEOREM SchemaAlwaysFits == Spec => []SchemaFits
<1>1. DInv /\ Migrates => SchemaFits
  BY DEF Migrates, SchemaFits
<1> QED BY <1>1, Invariance, PTL

(* What has returned is committed, and has nothing in a transaction that   *)
(* was left open (repository.py:21-39, 82-127).                            *)
THEOREM ReturnedMeansCommitted == Spec => []ReturnedIsThrough
<1>1. ASSUME DInv PROVE ReturnedIsThrough
  <2>1. ReturnedIsCommitted
    BY <1>1 DEF DInv
  <2>2. ASSUME in_txn, Working = {} PROVE pending # {}
    BY <1>1, <2>2 DEF DInv, OpenIsUsed, Working
  <2>3. ASSUME NEW w \in pending, << w[1], w[2] >> \in returned PROVE FALSE
    <3>1. w \in Tasks \X Nat \X (1 .. 2) /\ w[3] \in 1 .. Statements(w[1])
      BY <1>1, Types DEF DInv, OnlyWhatWasWritten
    <3>2. w = << w[1], w[2], w[3] >> /\ w \in Writes(<< w[1], w[2] >>)
      BY <3>1 DEF Writes
    <3>3. w \in durable
      BY <2>1, <2>3, <3>2 DEF ReturnedIsCommitted
    <3> QED BY <1>1, <3>3 DEF DInv, Once
  <2>4. ASSUME Working = {}, NEW w \in pending
        PROVE  w[1] \in cut \/ << w[1], w[2] >> \in raised
    BY <1>1, <2>4 DEF DInv, PendingIsOwned
  <2> QED BY <2>1, <2>2, <2>3, <2>4 DEF ReturnedIsThrough, LeftOpenByCut
<1> QED BY <1>1, Invariance, PTL

(* No operation that had the connection for itself raises (connection.py:  *)
(* 32-56).                                                                 *)
THEOREM AloneIsSafe == Spec => []RaisesOnlyBeside
<1>1. DInv /\ Migrates => RaisesOnlyBeside
  BY DEF DInv
<1> QED BY <1>1, Invariance, PTL
-----------------------------------------------------------------------------
(* The batch analysis.  The analysis of a batch begins at the end of its   *)
(* window, at since + Interval.                                            *)

JobTypes ==
  /\ now \in Nat
  /\ events \in Seq([at : Nat, summary : Job!Summaries])
  /\ pc \in {"asleep", "reading", "asking", "updating"}
  /\ wake \in Int
  /\ since \in Int
  /\ batch \subseteq DOMAIN events
  /\ todo \subseteq [id : DOMAIN events, summary : {"none", "llm", "raw"}]
  /\ {fails, outage} \subseteq BOOLEAN
  /\ busy \subseteq Int
  /\ pc = "asleep" => wake - Interval <= now /\ now <= wake
  /\ pc # "asleep" => since + Interval <= now

Pending(id) == \E u \in todo : u.id = id

(* An event of the batch that is being written has a summary, or gets one, *)
(* or it is one that the LLM answered null for.                            *)
BatchGetsSettled ==
  ~fails =>
    CASE pc = "updating" -> \A id \in batch :
             events[id].summary = "none" => Pending(id) \/ id \in nulled
      [] pc = "asleep" -> \A id \in batch : events[id].summary # "none" \/ id \in nulled
      [] OTHER -> TRUE

(* The event came while a batch was analyzed, or while this one is.        *)
CameDuring(id) == events[id].at \in busy \/ events[id].at >= since + Interval - MaxLag

(* Between two analyses: the one that ended at the start of the next       *)
(* window, and whatever comes late for that window, are accounted for.     *)
BetweenBatches ==
  /\ \A t \in Nat : wake - Interval - MaxLag <= t /\ t < wake - Interval => t \in busy
  /\ \A id \in DOMAIN events :
       events[id].summary = "none" /\ events[id].at < wake - Interval
         => events[id].at \in busy \/ id \in nulled

(* In an analysis each event without a summary is in the window, is in the *)
(* batch, or is to be updated; or it came while a batch was analyzed, or   *)
(* the LLM answered null for it.                                           *)
DuringBatch ==
  \A id \in DOMAIN events : events[id].summary = "none" =>
    \/ CameDuring(id)
    \/ id \in nulled
    \/ pc = "reading" /\ events[id].at >= since
    \/ pc = "asking" /\ id \in batch
    \/ pc = "updating" /\ (fails \/ Pending(id))

JobInv ==
  /\ JobTypes
  /\ BatchGetsSettled
  /\ ~outage => IF pc = "asleep" THEN BetweenBatches ELSE DuringBatch

LEMMA Elements ==
  ASSUME NEW S, NEW s \in Seq(S)
  PROVE  DOMAIN s = 1 .. Len(s) /\ Len(s) \in Nat /\ \A i \in DOMAIN s : s[i] \in S
OBVIOUS

LEMMA Rows ==
  ASSUME JobTypes
  PROVE  /\ Len(events) \in Nat /\ DOMAIN events = 1 .. Len(events)
         /\ \A id \in DOMAIN events :
              /\ events[id] \in [at : Nat, summary : Job!Summaries]
              /\ events[id].at \in Nat /\ events[id].summary \in Job!Summaries
<1>1. events \in Seq([at : Nat, summary : Job!Summaries])
  BY DEF JobTypes
<1>2. Len(events) \in Nat /\ DOMAIN events = 1 .. Len(events)
  BY <1>1
<1>3. ASSUME NEW id \in DOMAIN events
      PROVE  events[id] \in [at : Nat, summary : Job!Summaries]
  BY <1>1, Elements
<1> QED BY <1>2, <1>3

LEMMA SameCardinality == \A S : Job!Cardinality(S) = Cardinality(S)
BY DEF Job!Cardinality, Cardinality

(* The moments that an analysis adds are numbers.                          *)
LEMMA OverTypes ==
  ASSUME JobTypes, Job!Over
  PROVE  busy' \subseteq Int
<1>1. since + Interval - MaxLag \in Int /\ now - 1 \in Int
  BY JobAssumption DEF JobTypes
<1>2. since + Interval - MaxLag .. now - 1 \subseteq Int
  BY <1>1
<1> QED BY <1>2 DEF JobTypes, Job!Over

LEMMA JobInit == Job!Init => JobInv
<1> SUFFICES ASSUME Job!Init PROVE JobInv
  OBVIOUS
<1>1. JobTypes
  <2>1. << >> \in Seq([at : Nat, summary : Job!Summaries])
    OBVIOUS
  <2>2. Interval \in Nat /\ Interval - Interval = 0
    BY JobAssumption
  <2>3. /\ now = 0 /\ pc = "asleep" /\ wake = Interval /\ since = 0 /\ events = << >>
        /\ todo = {} /\ busy = {} /\ batch = {} /\ {fails, outage} \subseteq BOOLEAN
    BY DEF Job!Init
  <2>4. wake - Interval <= now /\ now <= wake /\ wake \in Int
    BY <2>2, <2>3
  <2> QED BY <2>1, <2>3, <2>4 DEF JobTypes
<1>2. BatchGetsSettled
  BY DEF Job!Init, BatchGetsSettled
<1>3. BetweenBatches
  BY JobAssumption DEF Job!Init, BetweenBatches
<1> QED BY <1>1, <1>2, <1>3 DEF Job!Init, JobInv

(* The end of an analysis that leaves no event without a summary but those *)
(* that came while a batch was analyzed, or that were answered null.       *)
LEMMA EndsBatch ==
  ASSUME JobInv, pc # "asleep", Job!Sleep, Job!Over, UNCHANGED << now, events, nulled >>,
         \A id \in DOMAIN events :
           events[id].summary = "none" => CameDuring(id) \/ id \in nulled
  PROVE  BetweenBatches'
<1>1. /\ now \in Nat /\ since \in Int /\ busy \subseteq Int /\ Interval \in Nat
      /\ MaxLag \in Nat /\ since + Interval <= now
  BY JobAssumption DEF JobInv, JobTypes
<1>2. wake' - Interval = now
  BY <1>1 DEF Job!Sleep
<1>3. busy' = busy \union (since + Interval - MaxLag .. now - 1)
  BY DEF Job!Over
<1>4. ASSUME NEW t \in Nat, now - MaxLag <= t, t < now
      PROVE  t \in busy'
  <2>1. t \in since + Interval - MaxLag .. now - 1
    BY <1>1, <1>4
  <2> QED BY <1>3, <2>1
<1>5. ASSUME NEW id \in DOMAIN events, events[id].summary = "none", events[id].at < now,
             id \notin nulled
      PROVE  events[id].at \in busy'
  <2>1. events[id].at \in Nat
    BY Rows DEF JobInv
  <2>2. CASE events[id].at \in busy
    BY <1>3, <2>2
  <2>3. CASE events[id].at >= since + Interval - MaxLag
    <3>1. events[id].at \in since + Interval - MaxLag .. now - 1
      BY <1>1, <1>5, <2>1, <2>3
    <3> QED BY <1>3, <3>1
  <2> QED BY <1>5, <2>2, <2>3 DEF CameDuring
<1> QED BY <1>2, <1>4, <1>5 DEF BetweenBatches

(* What is appended comes at a new end.                                    *)
LEMMA AppendedAtEnd ==
  ASSUME NEW S, NEW s \in Seq(S), NEW x \in S
  PROVE  /\ Append(s, x) \in Seq(S)
         /\ DOMAIN Append(s, x) = DOMAIN s \union {Len(s) + 1}
         /\ Append(s, x)[Len(s) + 1] = x
         /\ \A i \in DOMAIN s : Append(s, x)[i] = s[i]
<1>1. Append(s, x) \in Seq(S) /\ Len(Append(s, x)) = Len(s) + 1
  OBVIOUS
<1>2. DOMAIN s = 1 .. Len(s) /\ DOMAIN Append(s, x) = 1 .. Len(s) + 1 /\ Len(s) \in Nat
  BY <1>1
<1>3. Append(s, x)[Len(s) + 1] = x
  OBVIOUS
<1>4. \A i \in 1 .. Len(s) : Append(s, x)[i] = s[i]
  OBVIOUS
<1> QED BY <1>1, <1>2, <1>3, <1>4

LEMMA JobOfInsert ==
  ASSUME JobInv, NEW summary \in {"none", "given"}, NEW lag \in 0 .. MaxLag,
         Job!Insert(summary, lag)
  PROVE  JobInv'
<1> DEFINE row == [at |-> now - lag, summary |-> summary]
           id0 == Len(events) + 1
<1>1. /\ lag <= now /\ events' = Append(events, row)
      /\ UNCHANGED << now, pc, wake, since, batch, todo, fails, busy, outage, nulled >>
  BY DEF Job!Insert
<1>2. /\ now \in Nat /\ now - lag \in Nat /\ MaxLag \in Nat /\ Interval \in Nat
      /\ now - lag >= now - MaxLag /\ now - lag <= now
      /\ row \in [at : Nat, summary : Job!Summaries]
      /\ events \in Seq([at : Nat, summary : Job!Summaries])
      /\ since \in Int /\ wake \in Int
  BY <1>1, JobAssumption DEF JobInv, JobTypes, Job!Summaries
<1>3. row.at = now - lag
  OBVIOUS
<1> HIDE DEF row
<1>4. /\ events' \in Seq([at : Nat, summary : Job!Summaries])
      /\ DOMAIN events' = DOMAIN events \union {id0} /\ events'[id0] = row
      /\ \A id \in DOMAIN events : events'[id] = events[id]
  <2> DEFINE EventRows == [at : Nat, summary : Job!Summaries]
  <2>1. events \in Seq(EventRows) /\ row \in EventRows
    BY <1>2
  <2> HIDE DEF EventRows
  <2>2. /\ Append(events, row) \in Seq(EventRows)
        /\ DOMAIN Append(events, row) = DOMAIN events \union {Len(events) + 1}
        /\ Append(events, row)[Len(events) + 1] = row
        /\ \A id \in DOMAIN events : Append(events, row)[id] = events[id]
    BY <2>1, AppendedAtEnd
  <2>3. events' = Append(events, row)
    BY <1>1
  <2> QED BY <2>2, <2>3 DEF EventRows
<1>5. JobTypes'
  <2>1. DOMAIN events \subseteq DOMAIN events'
    BY <1>4
  <2> QED BY <1>1, <1>4, <2>1 DEF JobInv, JobTypes
<1>6. BatchGetsSettled'
  BY <1>1, <1>4 DEF JobInv, JobTypes, BatchGetsSettled, Pending
<1>7. ASSUME ~outage, pc = "asleep" PROVE BetweenBatches'
  <2>1. wake - Interval <= now /\ BetweenBatches
    BY <1>7 DEF JobInv, JobTypes
  <2>2. events'[id0].at < wake - Interval => events'[id0].at \in busy
    BY <1>2, <1>3, <1>4, <2>1 DEF BetweenBatches
  <2> QED BY <1>1, <1>4, <2>1, <2>2 DEF BetweenBatches
<1>8. ASSUME ~outage, pc # "asleep" PROVE DuringBatch'
  <2>1. since + Interval <= now /\ DuringBatch
    BY <1>8 DEF JobInv, JobTypes
  <2>2. events'[id0].at >= since + Interval - MaxLag
    BY <1>2, <1>3, <1>4, <2>1
  <2> QED BY <1>1, <1>4, <2>1, <2>2 DEF DuringBatch, CameDuring, Pending
<1> QED BY <1>1, <1>5, <1>6, <1>7, <1>8 DEF JobInv

LEMMA JobOfHealthChanges ==
  ASSUME JobInv, Job!HealthChanges
  PROVE  JobInv'
BY DEF JobInv, JobTypes, BatchGetsSettled, BetweenBatches, DuringBatch, CameDuring, Pending,
       Job!HealthChanges

LEMMA JobOfTick ==
  ASSUME JobInv, Job!Tick
  PROVE  JobInv'
<1>1. /\ now' = now + 1 /\ ~(pc = "asleep" /\ wake <= now)
      /\ UNCHANGED << events, pc, wake, since, batch, todo, fails, busy, outage, nulled >>
  BY DEF Job!Tick, Job!Due
<1>2. JobTypes'
  BY <1>1, JobAssumption DEF JobInv, JobTypes
<1> QED BY <1>1, <1>2 DEF JobInv, BatchGetsSettled, BetweenBatches, DuringBatch, CameDuring,
           Pending

LEMMA JobOfSkip ==
  ASSUME JobInv, Job!Skip
  PROVE  JobInv'
<1>1. /\ pc = "asleep" /\ pc' = "asleep" /\ wake' = now + Interval /\ outage' = TRUE
      /\ UNCHANGED << now, events, since, batch, todo, fails, busy, nulled >>
  BY DEF Job!Skip, Job!Due, Job!Sleep
<1>2. JobTypes'
  BY <1>1, JobAssumption DEF JobInv, JobTypes
<1> QED BY <1>1, <1>2 DEF JobInv, BatchGetsSettled

(* The new window begins where the last one ended.                         *)
LEMMA JobOfBegin ==
  ASSUME JobInv, Job!Begin
  PROVE  JobInv'
<1>1. /\ pc = "asleep" /\ wake <= now /\ pc' = "reading" /\ since' = now - Interval
      /\ UNCHANGED << now, events, wake, batch, todo, fails, busy, outage, nulled >>
  BY DEF Job!Begin, Job!Due, Job!WindowStart
<1>2. now \in Nat /\ Interval \in Nat /\ wake \in Int /\ now <= wake
  BY <1>1, JobAssumption DEF JobInv, JobTypes
<1>3. since' = wake - Interval
  BY <1>1, <1>2
<1>4. JobTypes'
  BY <1>1, <1>2 DEF JobInv, JobTypes
<1>5. ~outage => DuringBatch'
  <2> SUFFICES ASSUME ~outage, NEW id \in DOMAIN events, events[id].summary = "none",
                      id \notin nulled
      PROVE  events[id].at \in busy \/ events[id].at >= since'
    BY <1>1 DEF DuringBatch, CameDuring
  <2>1. events[id].at \in Nat
    BY Rows DEF JobInv
  <2>2. events[id].at < wake - Interval => events[id].at \in busy
    BY <1>1 DEF JobInv, BetweenBatches
  <2> QED BY <1>2, <1>3, <2>1, <2>2
<1> QED BY <1>1, <1>4, <1>5 DEF JobInv, BatchGetsSettled

LEMMA JobOfReadNothing ==
  ASSUME JobInv, Job!ReadNothing
  PROVE  JobInv'
<1>1. /\ pc = "reading" /\ Job!Unanalyzed = {} /\ Job!Sleep /\ Job!Over
      /\ batch' = {} /\ UNCHANGED << now, events, since, todo, fails, outage, nulled >>
  BY DEF Job!ReadNothing
<1>2. JobTypes'
  BY <1>1, OverTypes, JobAssumption DEF JobInv, JobTypes, Job!Sleep
<1>3. BatchGetsSettled'
  BY <1>1 DEF BatchGetsSettled, Job!Sleep
<1>4. ~outage => BetweenBatches'
  <2>1. ~outage => \A id \in DOMAIN events :
                     events[id].summary = "none" => CameDuring(id) \/ id \in nulled
    BY <1>1 DEF JobInv, DuringBatch, Job!Unanalyzed
  <2> QED BY <1>1, <2>1, EndsBatch
<1> QED BY <1>1, <1>2, <1>3, <1>4 DEF JobInv, Job!Sleep

(* A batch within the limit leaves out no event of the window.             *)
LEMMA JobOfRead ==
  ASSUME JobInv, Job!Read
  PROVE  JobInv'
<1>1. /\ pc = "reading" /\ pc' = "asking"
      /\ batch' \subseteq Job!Unanalyzed /\ Job!AreOldest(batch')
      /\ outage' = (outage \/ Cardinality(Job!Unanalyzed) > Limit)
      /\ UNCHANGED << now, events, wake, since, todo, fails, busy, nulled >>
  BY SameCardinality DEF Job!Read
<1>2. JobTypes'
  BY <1>1 DEF JobInv, JobTypes, Job!Unanalyzed
<1>3. Job!Unanalyzed \subseteq 1 .. Len(events) /\ Len(events) \in Nat
  BY Rows DEF JobInv, Job!Unanalyzed
<1>4. Cardinality(Job!Unanalyzed) \in Nat
  <2>1. IsFiniteSet(1 .. Len(events))
    BY <1>3, FS_Interval
  <2> QED BY <1>3, <2>1, FS_Subset, FS_CardinalityType
<1>5. ~outage' => DuringBatch'
  <2> SUFFICES ASSUME ~outage' PROVE DuringBatch'
    OBVIOUS
  <2>1. ~outage /\ batch' = Job!Unanalyzed
    <3>1. ~outage /\ ~(Cardinality(Job!Unanalyzed) > Limit)
      BY <1>1 DEF JobInv, JobTypes
    <3>2. Cardinality(Job!Unanalyzed) <= Limit
      BY <1>4, <3>1, JobAssumption
    <3> QED BY <1>1, <3>1, <3>2, SameCardinality DEF Job!AreOldest
  <2> QED BY <1>1, <2>1 DEF JobInv, DuringBatch, CameDuring, Job!Unanalyzed
<1> QED BY <1>1, <1>2, <1>5 DEF JobInv, BatchGetsSettled

(* The LLM has answered for some events of the batch, or for none; what it *)
(* left out gets a summary of its raw data, unless the batch fails.        *)
LEMMA JobOfReply ==
  ASSUME JobInv, pc = "asking", pc' = "updating",
         UNCHANGED << now, events, wake, since, batch, busy, nulled >>,
         fails' \in BOOLEAN, outage' \in BOOLEAN, ~outage' => ~outage,
         todo' \subseteq [id : batch, summary : {"none", "llm", "raw"}],
         ~fails' => \A id \in batch : Pending(id)'
  PROVE  JobInv'
<1>1. JobTypes'
  BY DEF JobInv, JobTypes
<1>2. BatchGetsSettled'
  BY DEF BatchGetsSettled
<1>3. ~outage' => DuringBatch'
  BY DEF JobInv, DuringBatch, CameDuring
<1> QED BY <1>1, <1>2, <1>3 DEF JobInv

LEMMA JobOfNoAnswer ==
  ASSUME JobInv, Job!NoAnswer
  PROVE  JobInv'
<1>1. todo' \subseteq [id : batch, summary : {"none", "llm", "raw"}] /\ \A id \in batch : Pending(id)'
  <2>1. todo' = [id : batch, summary : {"raw"}]
    BY DEF Job!NoAnswer, Job!RawFor
  <2>2. ASSUME NEW id \in batch PROVE Pending(id)'
    <3>1. [id |-> id, summary |-> "raw"] \in todo'
      BY <2>1
    <3> QED BY <3>1 DEF Pending
  <2> QED BY <2>1, <2>2
<1> QED BY <1>1, JobOfReply DEF Job!NoAnswer, JobInv, JobTypes

LEMMA JobOfAnswer ==
  ASSUME JobInv, NEW answered \in SUBSET batch, NEW nulls \in SUBSET batch,
         Job!Answer(answered, nulls)
  PROVE  JobInv'
<1>1. todo' \subseteq [id : batch, summary : {"none", "llm", "raw"}] /\ \A id \in batch : Pending(id)'
  <2>1. todo' = ([id : answered, summary : {"llm"}] \union [id : nulls, summary : {"none"}])
                  \union [id : batch \ (answered \union nulls), summary : {"raw"}]
    BY DEF Job!Answer, Job!Given, Job!RestFor, Job!RawFor
  <2>2. ASSUME NEW id \in batch PROVE Pending(id)'
    <3>1. \/ [id |-> id, summary |-> "llm"] \in todo'
          \/ [id |-> id, summary |-> "none"] \in todo'
          \/ [id |-> id, summary |-> "raw"] \in todo'
      BY <2>1
    <3> QED BY <3>1 DEF Pending
  <2> QED BY <2>1, <2>2
<1> QED BY <1>1, JobOfReply DEF Job!Answer, JobInv, JobTypes

LEMMA JobOfStrangeAnswer ==
  ASSUME JobInv, NEW answered \in SUBSET batch, NEW nulls \in SUBSET batch,
         Job!StrangeAnswer(answered, nulls)
  PROVE  JobInv'
BY JobOfReply DEF Job!StrangeAnswer, Job!Given, JobInv, JobTypes

(* An update gives one event its summary, or null, and touches no other.   *)
LEMMA UpdatedRows ==
  ASSUME JobInv, NEW u \in Job!Following
  PROVE  /\ Job!Updated(u) \in Seq([at : Nat, summary : Job!Summaries])
         /\ DOMAIN Job!Updated(u) = DOMAIN events
         /\ u \in todo /\ u.id \in DOMAIN events
         /\ Job!Updated(u)[u.id].summary = u.summary
         /\ \A id \in DOMAIN events :
              /\ Job!Updated(u)[id].at = events[id].at
              /\ id # u.id => Job!Updated(u)[id] = events[id]
<1>1. /\ u \in todo /\ u \in [id : DOMAIN events, summary : {"none", "llm", "raw"}]
      /\ events \in Seq([at : Nat, summary : Job!Summaries])
  BY DEF JobInv, JobTypes, Job!Following
<1>2. u.id \in DOMAIN events /\ u.summary \in {"none", "llm", "raw"}
  BY <1>1
<1>3. [events[u.id] EXCEPT !.summary = u.summary] \in [at : Nat, summary : Job!Summaries]
  BY <1>2, Rows DEF JobInv, Job!Summaries
<1>4. Job!Updated(u) = [events EXCEPT ![u.id] = [events[u.id] EXCEPT !.summary = u.summary]]
  BY DEF Job!Updated
<1>5. Job!Updated(u) \in Seq([at : Nat, summary : Job!Summaries])
  BY <1>1, <1>2, <1>3, <1>4
<1>6. /\ Job!Updated(u)[u.id] = [events[u.id] EXCEPT !.summary = u.summary]
      /\ \A id \in DOMAIN events : id # u.id => Job!Updated(u)[id] = events[id]
      /\ DOMAIN Job!Updated(u) = DOMAIN events
  BY <1>2, <1>4
<1>7. /\ Job!Updated(u)[u.id].summary = u.summary
      /\ Job!Updated(u)[u.id].at = events[u.id].at
  BY <1>2, <1>6, Rows DEF JobInv
<1> QED BY <1>1, <1>2, <1>5, <1>6, <1>7

LEMMA JobOfUpdate ==
  ASSUME JobInv, NEW u \in Job!Following, Job!Update(u)
  PROVE  JobInv'
<1>1. /\ pc = "updating" /\ events' = Job!Updated(u) /\ todo' = todo \ {u}
      /\ nulled' = IF u.summary = "none" THEN nulled \union {u.id} ELSE nulled \ {u.id}
      /\ UNCHANGED << now, pc, wake, since, batch, fails, busy, outage >>
  BY DEF Job!Update, Job!Write
<1>2. /\ events' \in Seq([at : Nat, summary : Job!Summaries])
      /\ DOMAIN events' = DOMAIN events /\ u \in todo
      /\ events'[u.id].summary # "none" \/ u.id \in nulled'
      /\ \A id : id # u.id /\ id \in nulled => id \in nulled'
      /\ \A id \in DOMAIN events :
           events'[id].at = events[id].at /\ (id # u.id => events'[id] = events[id])
  BY <1>1, UpdatedRows
<1>3. JobTypes'
  BY <1>1, <1>2 DEF JobInv, JobTypes
<1>4. \A id : id # u.id /\ Pending(id) => Pending(id)'
  BY <1>1 DEF Pending
<1>5. BatchGetsSettled'
  BY <1>1, <1>2, <1>4 DEF JobInv, JobTypes, BatchGetsSettled
<1>6. ~outage => DuringBatch'
  BY <1>1, <1>2, <1>4 DEF JobInv, DuringBatch, CameDuring
<1> QED BY <1>1, <1>3, <1>5, <1>6 DEF JobInv

LEMMA JobOfUpdateFails ==
  ASSUME JobInv, NEW u \in Job!Following, Job!UpdateFails(u)
  PROVE  JobInv'
<1>1. /\ events' \in {events, Job!Updated(u)} /\ todo' = {} /\ fails' = TRUE
      /\ pc' = "asleep" /\ wake' = now + Interval /\ outage' = TRUE
      /\ busy' = busy \union (since + Interval - MaxLag .. now - 1)
      /\ UNCHANGED << now, since, batch >>
  BY DEF Job!UpdateFails, Job!Write, Job!Sleep, Job!Over
<1>2. /\ events' \in Seq([at : Nat, summary : Job!Summaries])
      /\ DOMAIN events' = DOMAIN events
  BY <1>1, UpdatedRows DEF JobInv, JobTypes
<1>3. JobTypes'
  <2>1. busy' \subseteq Int
    BY OverTypes DEF JobInv, Job!UpdateFails
  <2> QED BY <1>1, <1>2, <2>1, JobAssumption DEF JobInv, JobTypes
<1> QED BY <1>1, <1>3 DEF JobInv, BatchGetsSettled

LEMMA JobOfEnd ==
  ASSUME JobInv, Job!End
  PROVE  JobInv'
<1>1. /\ pc = "updating" /\ todo = {} /\ Job!Sleep /\ Job!Over
      /\ outage' = (outage \/ fails)
      /\ UNCHANGED << now, events, since, batch, todo, fails, nulled >>
  BY DEF Job!End
<1>2. JobTypes'
  BY <1>1, OverTypes, JobAssumption DEF JobInv, JobTypes, Job!Sleep
<1>3. \A id : ~Pending(id)
  BY <1>1 DEF Pending
<1>4. BatchGetsSettled'
  BY <1>1, <1>3 DEF JobInv, BatchGetsSettled, Job!Sleep
<1>5. ~outage' => BetweenBatches'
  <2>1. ~outage' => \A id \in DOMAIN events :
                      events[id].summary = "none" => CameDuring(id) \/ id \in nulled
    BY <1>1, <1>3 DEF JobInv, DuringBatch
  <2> QED BY <1>1, <2>1, EndsBatch
<1> QED BY <1>1, <1>2, <1>4, <1>5 DEF JobInv, Job!Sleep

LEMMA JobStep == JobInv /\ [Job!Next]_(Job!vars) => JobInv'
<1> SUFFICES ASSUME JobInv, [Job!Next]_(Job!vars) PROVE JobInv'
  OBVIOUS
<1>1. CASE UNCHANGED Job!vars
  BY <1>1 DEF Job!vars, JobInv, JobTypes, BatchGetsSettled, BetweenBatches, DuringBatch,
     CameDuring, Pending
<1>2. CASE Job!Next
  BY <1>2, JobOfInsert, JobOfHealthChanges, JobOfTick, JobOfSkip, JobOfBegin,
     JobOfReadNothing, JobOfRead, JobOfNoAnswer, JobOfAnswer, JobOfStrangeAnswer,
     JobOfUpdate, JobOfUpdateFails, JobOfEnd DEF Job!Next
<1> QED BY <1>1, <1>2

(* For any interval, limit and number of events, and however they are      *)
(* stored while a batch is read, asked about and written: an event of a    *)
(* batch that did not break off has a summary unless the LLM answered null *)
(* for it, and while none broke off,                                       *)
(* was skipped or cut, an event behind the window of the next batch that   *)
(* has none came while a batch was analyzed, or was answered null          *)
(* (batch.py:56-110).                                                      *)
THEOREM NoEventIsLeftOut == Job!Spec => []NoneIsLeftOut
<1>1. ASSUME JobInv PROVE NoneIsLeftOut
  <2>1. Job!BatchIsSettled
    BY <1>1 DEF JobInv, BatchGetsSettled, Job!BatchIsSettled
  <2>2. Job!LeftBehindOnlyDuring
    BY <1>1 DEF JobInv, BetweenBatches, Job!LeftBehindOnlyDuring
  <2> QED BY <2>1, <2>2 DEF NoneIsLeftOut, Job!NoneIsLeftOut
<1> QED BY <1>1, JobInit, JobStep, PTL DEF Job!Spec
=============================================================================
