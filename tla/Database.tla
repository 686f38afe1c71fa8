------------------------------- MODULE Database -------------------------------
(***************************************************************************)
(* The database (db/connection.py, db/repository.py): one SQLite           *)
(* connection that all coroutines share.  Each statement and each commit   *)
(* runs in a worker thread, so that those of different coroutines meet.    *)
(*                                                                         *)
(* The statements of a task belong to its operation: an insert or an       *)
(* update has one, the nightly cleanup two, and a commit follows.  A row   *)
(* is not looked at: a write is the triple of its task, the number of the  *)
(* operation and that of the statement.  The connection opens a            *)
(* transaction before a statement when it is in none, and commits only     *)
(* when it is in one; it looks first and acts then (Python's sqlite3       *)
(* releases the interpreter lock between).  Nothing is rolled back, but    *)
(* what is open when the connection is closed or the process dies.         *)
(***************************************************************************)
EXTENDS Integers, FiniteSets, Functions

CONSTANTS
  Writers,   (* The tasks of one statement: inserts of events, summaries.  *)
  Cleaners,  (* The tasks of two: the cleanup job.                         *)
  MaxOps,    (* Bound: operations.                                         *)
  MaxRuns    (* Bound: runs of the process.                                *)

ASSUME DatabaseAssumption == Writers \intersect Cleaners = {}

Tasks == Writers \union Cleaners

Statements(t) == IF t \in Cleaners THEN 2 ELSE 1

VARIABLES
  columns,    (* The table events: "none", "v1" or "v2" (summary_hash).    *)
  indexed,    (* Is there an index on summary_hash?                        *)
  version,    (* The row of schema_version; 0 when there is none.          *)
  conn,       (* Where connect() is; "ready"; "closed".                    *)
  in_txn,     (* Is the connection in a transaction?                       *)
  pending,    (* The writes of that transaction.                           *)
  durable,    (* The writes that are committed.                            *)
  op,         (* The number of the operation that each task is at.         *)
  stmt,       (* The number of its statement.                              *)
  stage,      (* What the worker thread of the task does next; "none".     *)
  cut,        (* The tasks whose coroutine was cancelled.                  *)
  returned,   (* History: the operations that returned.                    *)
  raised,     (* History: the operations that an error of SQLite ended.    *)
  met,        (* History: the operations that overlapped with another.     *)
  runs        (* History: the runs of the process.                         *)

schema == << columns, indexed, version >>
txn == << in_txn, pending, durable >>
work == << op, stmt, stage, cut >>
past == << returned, raised, met >>
vars == << schema, conn, txn, work, past, runs >>

(* A new installation, or a database of the first version.                 *)
Init ==
  /\ \/ columns = "none" /\ version = 0
     \/ columns = "v1" /\ version = 1
  /\ indexed = FALSE
  /\ conn = "off"
  /\ in_txn = FALSE /\ pending = {} /\ durable = {}
  /\ op = [t \in Tasks |-> 0]
  /\ stmt = [t \in Tasks |-> 0]
  /\ stage = [t \in Tasks |-> "none"]
  /\ cut = {}
  /\ returned = {} /\ raised = {} /\ met = {}
  /\ runs = 0

-----------------------------------------------------------------------------
(* connect().  Nobody else has the connection yet, so that a statement and *)
(* its commit are one step; the process may be killed between two steps.   *)

Connects(from, to) ==
  /\ conn = from
  /\ conn' = to
  /\ UNCHANGED << txn, work, past, runs >>

Connect ==
  /\ runs < MaxRuns
  /\ conn = "off"
  /\ conn' = "script"
  /\ runs' = runs + 1
  /\ UNCHANGED << schema, txn, work, past >>

(* schema.sql creates what is not there.                                   *)
RunScript ==
  /\ Connects("script", "version")
  /\ columns' = IF columns = "none" THEN "v2" ELSE columns
  /\ UNCHANGED << indexed, version >>

SeedVersion ==
  /\ Connects("version", "ready")
  /\ version = 0
  /\ version' = 2
  /\ UNCHANGED << columns, indexed >>

VersionIsCurrent ==
  /\ Connects("version", "ready")
  /\ version = 2
  /\ UNCHANGED schema

(* Seeded fault: the column is not looked for.                             *)
NeverHasColumn == FALSE

HasColumn == columns = "v2"

(* _migrate_v2(); a column that is there already cannot be added.          *)
AddColumn ==
  /\ version = 1
  /\ ~HasColumn
  /\ Connects("version", IF columns = "v1" THEN "index" ELSE "failed")
  /\ columns' = "v2"
  /\ UNCHANGED << indexed, version >>

AddIndex ==
  /\ Connects("index", "update")
  /\ indexed' = TRUE
  /\ UNCHANGED << columns, version >>

HadColumn ==
  /\ Connects("version", "update")
  /\ version = 1
  /\ HasColumn
  /\ UNCHANGED schema

UpdateVersion ==
  /\ Connects("update", "ready")
  /\ version' = 2
  /\ UNCHANGED << columns, indexed >>

Connecting ==
  \/ Connect
  \/ RunScript
  \/ SeedVersion
  \/ VersionIsCurrent
  \/ AddColumn
  \/ AddIndex
  \/ HadColumn
  \/ UpdateVersion

-----------------------------------------------------------------------------
(* The operations.                                                         *)

At(t) == << t, op[t] >>

Writes(o) == {<< o[1], o[2], i >> : i \in 1 .. Statements(o[1])}

Working == {t \in Tasks : stage[t] # "none"}

Goes(t, to) == stage' = [stage EXCEPT ![t] = to]

(* Bound.                                                                  *)
MayBegin == FoldFunction(+, 0, op) < MaxOps

(* The first execute() of an operation is given to a thread.               *)
Begin(t) ==
  /\ conn = "ready"
  /\ t \notin cut
  /\ stage[t] = "none"
  /\ MayBegin
  /\ op' = [op EXCEPT ![t] = @ + 1]
  /\ stmt' = [stmt EXCEPT ![t] = 1]
  /\ Goes(t, "execute")
  /\ met' = IF Working = {} THEN met
            ELSE met \union {<< t, op'[t] >>} \union {At(u) : u \in Working}
  /\ UNCHANGED << schema, conn, txn, cut, returned, raised, runs >>

(* Seeded fault: a transaction is opened for each statement.               *)
AlwaysBegins == TRUE

BeginsFirst == ~in_txn

Look(t) ==
  /\ stage[t] = "execute"
  /\ conn = "ready"
  /\ Goes(t, IF BeginsFirst THEN "begin" ELSE "write")
  /\ UNCHANGED << schema, conn, txn, op, stmt, cut, past, runs >>

(* Whoever waits for the call gets the error; a cancelled one does not.    *)
Fails(t) ==
  /\ Goes(t, "none")
  /\ raised' = IF t \in cut THEN raised ELSE raised \union {At(t)}
  /\ UNCHANGED << op, stmt, cut, returned, met >>

OpenTxn(t) ==
  /\ stage[t] = "begin"
  /\ conn = "ready"
  /\ ~in_txn
  /\ in_txn' = TRUE
  /\ Goes(t, "write")
  /\ UNCHANGED << schema, conn, pending, durable, op, stmt, cut, past, runs >>

(* "cannot start a transaction within a transaction"                       *)
OpenTxnFails(t) ==
  /\ stage[t] = "begin"
  /\ conn = "ready"
  /\ in_txn
  /\ Fails(t)
  /\ UNCHANGED << schema, conn, txn, runs >>

(* What the coroutine asks for when a statement is done.                   *)
NextStage(t) == IF stmt[t] < Statements(t) THEN "execute" ELSE "commit"

(* Outside a transaction, when another has committed since the look, a     *)
(* statement is committed by itself.                                       *)
Write(t) ==
  /\ stage[t] = "write"
  /\ conn = "ready"
  /\ LET w == << t, op[t], stmt[t] >>
     IN IF in_txn
        THEN pending' = pending \union {w} /\ UNCHANGED durable
        ELSE durable' = durable \union {w} /\ UNCHANGED pending
  /\ Goes(t, IF t \in cut THEN "none" ELSE NextStage(t))
  /\ stmt' = [stmt EXCEPT ![t] = IF t \notin cut /\ @ < Statements(t) THEN @ + 1 ELSE @]
  /\ UNCHANGED << schema, conn, in_txn, op, cut, past, runs >>

Returns(t) ==
  /\ Goes(t, "none")
  /\ returned' = IF t \in cut THEN returned ELSE returned \union {At(t)}
  /\ UNCHANGED << op, stmt, cut, raised, met >>

(* Seeded fault: the operation does not commit.                            *)
NotCommitted == TRUE

NothingOpen == ~in_txn

(* commit() outside a transaction does nothing.                            *)
NothingToCommit(t) ==
  /\ stage[t] = "commit"
  /\ conn = "ready"
  /\ NothingOpen
  /\ Returns(t)
  /\ UNCHANGED << schema, conn, txn, runs >>

LookCommit(t) ==
  /\ stage[t] = "commit"
  /\ conn = "ready"
  /\ in_txn
  /\ Goes(t, "end")
  /\ UNCHANGED << schema, conn, txn, op, stmt, cut, past, runs >>

Commit(t) ==
  /\ stage[t] = "end"
  /\ conn = "ready"
  /\ in_txn
  /\ in_txn' = FALSE
  /\ durable' = durable \union pending
  /\ pending' = {}
  /\ Returns(t)
  /\ UNCHANGED << schema, conn, runs >>

(* "cannot commit - no transaction is active"                              *)
CommitFails(t) ==
  /\ stage[t] = "end"
  /\ conn = "ready"
  /\ ~in_txn
  /\ Fails(t)
  /\ UNCHANGED << schema, conn, txn, runs >>

Thread(t) ==
  \/ Look(t)
  \/ OpenTxn(t)
  \/ OpenTxnFails(t)
  \/ Write(t)
  \/ NothingToCommit(t)
  \/ LookCommit(t)
  \/ Commit(t)
  \/ CommitFails(t)

(* A coroutine is cancelled: a job by the stop of the scheduler, an insert *)
(* by that of a bus with a full queue.  A call that waits for a thread is  *)
(* withdrawn; one that a thread has begun goes on without the coroutine.   *)
Cancel(t) ==
  /\ t \notin cut
  /\ conn = "ready"
  /\ cut' = cut \union {t}
  /\ \/ UNCHANGED stage
     \/ stage[t] \in {"execute", "commit"} /\ Goes(t, "none")
  /\ UNCHANGED << schema, conn, txn, op, stmt, past, runs >>

-----------------------------------------------------------------------------
(* The end of a connection.  What a thread still does on a closed one has  *)
(* no effect.                                                              *)

Dropped ==
  /\ in_txn' = FALSE
  /\ pending' = {}
  /\ stage' = [t \in Tasks |-> "none"]
  /\ UNCHANGED << schema, durable, op, stmt, past, runs >>

Close ==
  /\ conn = "ready"
  /\ conn' = "closed"
  /\ cut' = Tasks
  /\ Dropped

(* The process dies, or ends with a closed connection.                     *)
Kill ==
  /\ conn # "off"
  /\ conn' = "off"
  /\ cut' = {}
  /\ Dropped

Next ==
  \/ Connecting
  \/ \E t \in Tasks : Begin(t) \/ Thread(t) \/ Cancel(t)
  \/ Close
  \/ Kill

Spec == Init /\ [][Next]_vars

-----------------------------------------------------------------------------
Operations == Tasks \X Nat

(* Each variable has its type.                                             *)
TypeOK ==
  /\ columns \in {"none", "v1", "v2"}
  /\ indexed \in BOOLEAN
  /\ version \in 0 .. 2
  /\ conn \in {"off", "script", "version", "index", "update", "ready",
               "closed", "failed"}
  /\ in_txn \in BOOLEAN
  /\ {pending, durable} \subseteq SUBSET (Tasks \X Nat \X (1 .. 2))
  /\ op \in [Tasks -> Nat]
  /\ stmt \in [Tasks -> 0 .. 2]
  /\ stage \in [Tasks -> {"none", "execute", "begin", "write", "commit", "end"}]
  /\ cut \subseteq Tasks
  /\ {returned, raised, met} \subseteq SUBSET Operations
  /\ runs \in Nat

(* Wherever the process was killed while it created or migrated the        *)
(* database, the next connect() succeeds, and a connected database has the *)
(* columns that its version tells and the inserts name                     *)
(* (connection.py:104-133).                                                *)
SchemaFits ==
  /\ conn # "failed"
  /\ conn \in {"ready", "closed"} => columns = "v2" /\ version = 2
  /\ version = 2 => columns = "v2"

(* What has returned is committed, all of it, although the transaction is  *)
(* shared: whoever commits first commits the others' statements too, and   *)
(* later cancellations, closing and crashes take nothing back              *)
(* (repository.py:21-39, 82-127).                                          *)
ReturnedIsCommitted ==
  \A o \in returned : Writes(o) \subseteq durable

(* An operation that had the connection for itself does not raise, also    *)
(* when one before it was cut off and left a transaction open.             *)
RaisesOnlyBeside == raised \subseteq met

(* A transaction that nobody works in was left by operations that were     *)
(* cancelled or failed: none that returned has a statement in it, be it    *)
(* the first of a cleanup whose second never came (repository.py:105-127). *)
LeftOpenByCut ==
  in_txn /\ Working = {} =>
    /\ pending # {}
    /\ \A w \in pending :
         /\ << w[1], w[2] >> \notin returned
         /\ w[1] \in cut \/ << w[1], w[2] >> \in raised

(* An operation that has returned is through: none of its statements is    *)
(* lost, nor waits for a commit (repository.py:21-39, 82-127).             *)
ReturnedIsThrough == ReturnedIsCommitted /\ LeftOpenByCut

(* "Structured event - stored in SQLite" (docs/architecture.md:51): an     *)
(* insert that was not cut off, and has ended, is in the database.         *)
HandledIsStored ==
  \A o \in raised : o[1] \in Writers => Writes(o) \subseteq durable
=============================================================================
