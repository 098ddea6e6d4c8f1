------------------------------ MODULE SqlConn ------------------------------
(***************************************************************************)
(* The database layer of the server: db_user (user_info.cpp) and           *)
(* question_bank (question_bank.cpp) over database.hpp, as several         *)
(* connections to one SQLite file in WAL mode.  Server::init opens one     *)
(* connection per OpenMP worker, so a connection is used by one worker.    *)
(*                                                                         *)
(* A call of the layer is                                                  *)
(*     BEGIN IMMEDIATE  (its result is never looked at)                    *)
(*     the statement    (SELECT, INSERT, UPDATE)                           *)
(*     END TRANSACTION  (only after an INSERT or UPDATE that succeeded)    *)
(* or, for delet, the text "DELETE ...; COMMIT;" without a BEGIN.  Hence   *)
(* a SELECT leaves the write lock with its connection, a failed INSERT     *)
(* leaves both the lock and a prepared statement that was never reset, and *)
(* a delet outside a transaction deletes but reports an error.             *)
(***************************************************************************)
EXTENDS Naturals

CONSTANTS
    Conn,         \* the connections, one per worker
    NoConn,       \* nobody holds the write lock
    Key,          \* primary keys
    Val,          \* what a row holds beside its key
    NoVal,        \* the key has no row
    Refused,      \* values that a CHECK of the table refuses
    StartTables   \* what the database file may hold when the server starts

Table == [Key -> Val \cup {NoVal}]

ASSUME ConnAssumption == NoConn \notin Conn
ASSUME ValAssumption == NoVal \notin Val
ASSUME RefusedAssumption == Refused \subseteq Val
ASSUME StartAssumption == StartTables \subseteq Table

VARIABLES
    db,       \* the committed table, the one that survives the process
    holder,   \* the connection with the write lock, or NoConn
    work,     \* the table as the holder sees it, db when there is none
    begun,    \* has the connection's current call executed its BEGIN?
    stmt,     \* state of the connection's prepared statement stmt_insert
    bound,    \* the row bound to stmt_insert while it is not reset
    rc        \* what the last call on the connection returned

sqlVars == <<db, holder, work, begun, stmt, bound, rc>>

NoRow == <<>>

SqlTypeOK ==
    /\ db \in Table
    /\ work \in Table
    /\ holder \in Conn \cup {NoConn}
    /\ begun \in [Conn -> BOOLEAN]
    /\ stmt \in [Conn -> {"reset", "failed", "busy"}]
    /\ bound \in [Conn -> (Key \X Val) \cup {NoRow}]
    /\ rc \in [Conn -> {"ok", "error"}]

SqlInit ==
    /\ db \in StartTables
    /\ work = db
    /\ holder = NoConn
    /\ begun = [c \in Conn |-> FALSE]
    /\ stmt = [c \in Conn |-> "reset"]
    /\ bound = [c \in Conn |-> NoRow]
    /\ rc = [c \in Conn |-> "ok"]

-----------------------------------------------------------------------------
\* Mutant: a statement is prepared before BEGIN and sees the last commit.
ViewCommitted(c) == db

\* What a statement of c sees: its own transaction, or the last commit.
View(c) == IF holder = c THEN work ELSE db

\* SQLite lets one connection write; no busy timeout is set, so the others
\* get SQLITE_BUSY at once.
CanWrite(c) == holder \in {NoConn, c}

\* Mutant: SQLite's own code is passed on where the callers know only -1.
ReturnRaw(c, result) == rc' = [rc EXCEPT ![c] = IF CanWrite(c) THEN result ELSE "busy"]

Return(c, result) == rc' = [rc EXCEPT ![c] = result]

\* The table becomes t for everybody and the write lock is free again.
CommitTo(t) ==
    /\ db' = t
    /\ work' = t
    /\ holder' = NoConn

\* A write whose commit SQLite refuses: while stmt_insert is suspended
\* ("SQL statements in progress") the change stays in c's transaction.
KeepOpen(c, t) ==
    /\ work' = t
    /\ holder' = c
    /\ UNCHANGED db

\* Mutant: UPDATE and DELETE do not end their transaction.
WriteToNoEnd(c, t) == KeepOpen(c, t)

\* UPDATE and DELETE end in a commit that a suspended stmt_insert prevents.
WriteTo(c, t) ==
    IF stmt[c] = "busy" THEN KeepOpen(c, t) ELSE CommitTo(t)

-----------------------------------------------------------------------------
\* Mutant: BEGIN takes the lock from whoever holds it.
BeginTakesLock(c) ==
    /\ ~begun[c]
    /\ begun' = [begun EXCEPT ![c] = TRUE]
    /\ holder' = c
    /\ UNCHANGED <<db, work, stmt, bound, rc>>

\* Mutant: BEGIN waits for the lock, as it would with a busy handler.
BeginWaits(c) ==
    /\ ~begun[c]
    /\ CanWrite(c)
    /\ begun' = [begun EXCEPT ![c] = TRUE]
    /\ holder' = c
    /\ UNCHANGED <<db, work, stmt, bound, rc>>

\* sqlite3_exec(db, "BEGIN IMMEDIATE TRANSACTION", ...): takes the lock if it
\* is free; the error it returns otherwise is ignored by every caller.
BeginImmediate(c) ==
    /\ ~begun[c]
    /\ begun' = [begun EXCEPT ![c] = TRUE]
    /\ IF holder = NoConn THEN holder' = c ELSE UNCHANGED holder
    /\ UNCHANGED <<db, work, stmt, bound, rc>>

\* The step loop of a SELECT and its finalize.  There is no END.
FinishSelect(c) ==
    /\ begun[c]
    /\ begun' = [begun EXCEPT ![c] = FALSE]
    /\ UNCHANGED <<db, work, holder, stmt, bound, rc>>

\* Mutant: the statement is reset before it is bound.
BoundRowFresh(c, k, v) == <<k, v>>

\* The row stmt_insert executes with.  sqlite3_bind_text on a statement that
\* was stepped and not reset fails with SQLITE_MISUSE, which insert ignores,
\* so the row of the earlier, failed call is still bound.
BoundRow(c, k, v) == IF stmt[c] = "reset" THEN <<k, v>> ELSE bound[c]

\* PRIMARY KEY and CHECK: the key has no row yet, the value is a legal one.
Accepts(c, row) == View(c)[row[1]] = NoVal /\ row[2] \notin Refused

\* Mutant: insert leaves its transaction open when it succeeds.
InsertNoEnd(c, k, v) ==
    LET row == BoundRow(c, k, v) IN
    /\ CanWrite(c)
    /\ Accepts(c, row)
    /\ KeepOpen(c, [View(c) EXCEPT ![row[1]] = row[2]])
    /\ stmt' = [stmt EXCEPT ![c] = "reset"]
    /\ bound' = [bound EXCEPT ![c] = NoRow]
    /\ Return(c, "ok")

\* insert succeeded: END TRANSACTION, sqlite3_reset, return SQLITE_DONE.
InsertDone(c, k, v) ==
    LET row == BoundRow(c, k, v) IN
    /\ CanWrite(c)
    /\ Accepts(c, row)
    /\ CommitTo([View(c) EXCEPT ![row[1]] = row[2]])
    /\ stmt' = [stmt EXCEPT ![c] = "reset"]
    /\ bound' = [bound EXCEPT ![c] = NoRow]
    /\ Return(c, "ok")

\* insert failed: it returns -1 before END TRANSACTION and sqlite3_reset.
InsertFailed(c, k, v) ==
    LET row == BoundRow(c, k, v) IN
    /\ \/ /\ CanWrite(c)
          /\ ~Accepts(c, row)
          /\ stmt' = [stmt EXCEPT ![c] = "failed"]
       \/ /\ ~CanWrite(c)              \* SQLITE_BUSY suspends the statement
          /\ stmt' = [stmt EXCEPT ![c] = "busy"]
    /\ bound' = [bound EXCEPT ![c] = row]
    /\ Return(c, "error")
    /\ UNCHANGED <<db, work, holder>>

Insert(c, k, v) ==
    /\ begun[c]
    /\ begun' = [begun EXCEPT ![c] = FALSE]
    /\ InsertDone(c, k, v) \/ InsertFailed(c, k, v)

\* update: the UPDATE is executed and END TRANSACTION attempted, its result
\* ignored; a failed UPDATE returns -1 and leaves the transaction as it is.
Update(c, k, v) ==
    /\ begun[c]
    /\ begun' = [begun EXCEPT ![c] = FALSE]
    /\ \/ /\ CanWrite(c)
          /\ View(c)[k] = NoVal \/ v \notin Refused
          /\ LET t == View(c) IN
             WriteTo(c, IF t[k] = NoVal THEN t ELSE [t EXCEPT ![k] = v])
          /\ Return(c, "ok")
       \/ /\ ~CanWrite(c) \/ (View(c)[k] # NoVal /\ v \in Refused)
          /\ Return(c, "error")
          /\ UNCHANGED <<db, work, holder>>
    /\ UNCHANGED <<stmt, bound>>

\* delet of the rows in K: "DELETE ...; COMMIT;" with no BEGIN.  Its COMMIT
\* succeeds only inside a transaction that an earlier call left open; outside
\* one the DELETE has taken effect by itself when COMMIT is refused.
Delete(c, K) ==
    /\ ~begun[c]
    /\ \/ /\ CanWrite(c)
          /\ WriteTo(c, [k \in Key |-> IF k \in K THEN NoVal ELSE View(c)[k]])
          /\ Return(c, IF holder = c /\ stmt[c] # "busy" THEN "ok" ELSE "error")
       \/ /\ ~CanWrite(c)
          /\ Return(c, "error")
          /\ UNCHANGED <<db, work, holder>>
    /\ UNCHANGED <<begun, stmt, bound>>

\* delet of a text that SQLite cannot parse: nothing is executed.
RejectDelete(c) ==
    /\ ~begun[c]
    /\ Return(c, "error")
    /\ UNCHANGED <<db, work, holder, begun, stmt, bound>>

\* The process ends, whatever it was doing, and is started again: open
\* transactions are rolled back, create() prepares new statements.
Reopen ==
    /\ work' = db
    /\ holder' = NoConn
    /\ begun' = [c \in Conn |-> FALSE]
    /\ stmt' = [c \in Conn |-> "reset"]
    /\ bound' = [c \in Conn |-> NoRow]
    /\ rc' = [c \in Conn |-> "ok"]
    /\ UNCHANGED db

SqlCall(c) ==
    \/ BeginImmediate(c)
    \/ FinishSelect(c)
    \/ \E k \in Key, v \in Val : Insert(c, k, v) \/ Update(c, k, v)
    \/ \E K \in SUBSET Key : Delete(c, K)
    \/ RejectDelete(c)

SqlNext == Reopen \/ \E c \in Conn : SqlCall(c)

SqlSpec == SqlInit /\ [][SqlNext]_sqlVars

-----------------------------------------------------------------------------
(* Properties *)

\* A change that is not committed sits in the transaction of a connection, and
\* of one whose insert has failed and was not repaired: user_info.cpp and
\* question_bank.cpp return from a failed insert without END or ROLLBACK.  A
\* connection whose inserts never failed has nothing to lose in a crash.
PendingOnlyAfterFailedInsert ==
    work # db => holder \in Conn /\ stmt[holder] # "reset"

\* A row that any connection can read is a committed row: an INSERT reaches
\* its END TRANSACTION whenever it succeeds, however many transactions other
\* calls left open before it, so no reader shows a row a crash takes back.
NoUncommittedRow == \A k \in Key : work[k] # NoVal => db[k] # NoVal

\* The lock left behind by a read or a failed insert still isolates: while one
\* connection keeps it nobody commits, and it never passes from a connection to
\* another directly, so a transaction never overwrites what others committed.
LockProtects ==
    [][/\ holder # NoConn /\ holder' = holder => db' = db
       /\ holder # holder' => NoConn \in {holder, holder'}]_sqlVars

\* A stmt_insert that is not reset keeps the row of the first insert that
\* failed: no later request of the connection replaces it, until an insert
\* reports success (for that old row) or the process restarts.
FailedRowSticks ==
    [][\A c \in Conn : stmt[c] # "reset" => bound'[c] \in {bound[c], NoRow}]_sqlVars

\* The layer implements Store: whatever a call leaves open or forgets to reset,
\* the file changes as it would under one writer at a time that adds one row,
\* rewrites one or removes some, and keeps all its pending changes until then.
StoreView == INSTANCE Store WITH table <- db, writer <- holder, draft <- work
ImplementsStore == StoreView!Spec
=============================================================================
