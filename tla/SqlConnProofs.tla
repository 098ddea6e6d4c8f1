--------------------------- MODULE SqlConnProofs ---------------------------
(* Theorems about the database layer, for any connections, keys, values and *)
(* starting tables.                                                         *)
EXTENDS SqlConn, TLAPS

\* The invariant that is inductive: the types, the two properties of SqlConn,
\* and what they rest on, that a free lock means nothing is pending and that a
\* statement which was not reset has a row to execute with.
SqlInv ==
    /\ SqlTypeOK
    /\ holder = NoConn => work = db
    /\ \A c \in Conn : stmt[c] # "reset" => bound[c] \in Key \X Val
    /\ PendingOnlyAfterFailedInsert
    /\ NoUncommittedRow

LEMMA SqlInitInv == SqlInit => SqlInv
  BY StartAssumption
  DEF SqlInit, SqlInv, SqlTypeOK, PendingOnlyAfterFailedInsert,
      NoUncommittedRow, Table

\* What a connection sees is a table, whose rows are all committed rows.
LEMMA ViewFacts ==
  ASSUME SqlInv, NEW c \in Conn
  PROVE  /\ View(c) \in Table
         /\ \A k \in Key : View(c)[k] # NoVal => db[k] # NoVal
  BY DEF SqlInv, SqlTypeOK, NoUncommittedRow, View

\* stmt_insert always executes with a row of the table's type.
LEMMA BoundRowType ==
  ASSUME SqlInv, NEW c \in Conn, NEW k \in Key, NEW v \in Val
  PROVE  BoundRow(c, k, v) \in Key \X Val
  BY DEF SqlInv, BoundRow

\* BEGIN IMMEDIATE and the end of a SELECT move the lock, never a row.
LEMMA BeginInv ==
  ASSUME SqlInv, NEW c \in Conn, BeginImmediate(c)
  PROVE  SqlInv'
  BY ConnAssumption
  DEF SqlInv, SqlTypeOK, BeginImmediate, PendingOnlyAfterFailedInsert,
      NoUncommittedRow

LEMMA SelectInv ==
  ASSUME SqlInv, NEW c \in Conn, FinishSelect(c)
  PROVE  SqlInv'
  BY DEF SqlInv, SqlTypeOK, FinishSelect, PendingOnlyAfterFailedInsert,
         NoUncommittedRow

\* An insert that succeeds commits whatever its connection left pending.
LEMMA InsertDoneInv ==
  ASSUME SqlInv, NEW c \in Conn, NEW k \in Key, NEW v \in Val,
         begun' = [begun EXCEPT ![c] = FALSE],
         InsertDone(c, k, v)
  PROVE  SqlInv'
  <1> DEFINE row == BoundRow(c, k, v)
             t == [View(c) EXCEPT ![row[1]] = row[2]]
  <1>1. row \in Key \X Val
    BY BoundRowType
  <1>2. t \in Table
    BY <1>1, ViewFacts DEF Table
  <1>3. db' = t /\ work' = t /\ holder' = NoConn
    BY DEF InsertDone, CommitTo
  <1>4. SqlTypeOK'
    <2>1. /\ stmt' = [stmt EXCEPT ![c] = "reset"]
          /\ bound' = [bound EXCEPT ![c] = NoRow]
          /\ rc' = [rc EXCEPT ![c] = "ok"]
      BY DEF InsertDone, Return
    <2> HIDE DEF t, row
    <2>2. QED
      BY <1>2, <1>3, <2>1 DEF SqlInv, SqlTypeOK
  <1>5. \A d \in Conn : stmt'[d] # "reset" => bound'[d] \in Key \X Val
    BY DEF SqlInv, SqlTypeOK, InsertDone
  <1>6. PendingOnlyAfterFailedInsert' /\ NoUncommittedRow'
    BY <1>3 DEF PendingOnlyAfterFailedInsert, NoUncommittedRow
  <1>7. QED
    BY <1>3, <1>4, <1>5, <1>6 DEF SqlInv

\* An insert that fails changes no row; its statement is no longer reset.
LEMMA InsertFailedInv ==
  ASSUME SqlInv, NEW c \in Conn, NEW k \in Key, NEW v \in Val,
         begun' = [begun EXCEPT ![c] = FALSE],
         InsertFailed(c, k, v)
  PROVE  SqlInv'
  <1> DEFINE row == BoundRow(c, k, v)
  <1>1. row \in Key \X Val
    BY BoundRowType
  <1>2. /\ UNCHANGED <<db, work, holder>>
        /\ bound' = [bound EXCEPT ![c] = row]
        /\ rc' = [rc EXCEPT ![c] = "error"]
        /\ \/ stmt' = [stmt EXCEPT ![c] = "failed"]
           \/ stmt' = [stmt EXCEPT ![c] = "busy"]
    BY DEF InsertFailed, Return
  <1> HIDE DEF row
  <1>3. SqlTypeOK'
    BY <1>1, <1>2 DEF SqlInv, SqlTypeOK
  <1>4. \A d \in Conn : stmt'[d] # "reset" => bound'[d] \in Key \X Val
    BY <1>1, <1>2 DEF SqlInv, SqlTypeOK
  <1>5. PendingOnlyAfterFailedInsert' /\ NoUncommittedRow'
    BY <1>2 DEF SqlInv, SqlTypeOK, PendingOnlyAfterFailedInsert,
                NoUncommittedRow
  <1>6. QED
    BY <1>2, <1>3, <1>4, <1>5 DEF SqlInv

\* UPDATE and DELETE leave a table whose rows were all rows of c's view, and
\* leave it pending only behind a suspended stmt_insert.
LEMMA WriteInv ==
  ASSUME SqlInv, NEW c \in Conn, CanWrite(c),
         NEW t \in Table, \A k \in Key : t[k] # NoVal => View(c)[k] # NoVal,
         WriteTo(c, t), UNCHANGED <<stmt, bound>>,
         begun' \in [Conn -> BOOLEAN], rc' \in [Conn -> {"ok", "error"}]
  PROVE  SqlInv'
  <1>1. CASE stmt[c] = "busy"
    <2>1. db' = db /\ work' = t /\ holder' = c
      BY <1>1 DEF WriteTo, KeepOpen
    <2>2. NoUncommittedRow'
      BY <2>1, ViewFacts DEF NoUncommittedRow
    <2>3. QED
      BY <1>1, <2>1, <2>2, ConnAssumption
      DEF SqlInv, SqlTypeOK, PendingOnlyAfterFailedInsert
  <1>2. CASE stmt[c] # "busy"
    <2>1. db' = t /\ work' = t /\ holder' = NoConn
      BY <1>2 DEF WriteTo, CommitTo
    <2>2. QED
      BY <2>1
      DEF SqlInv, SqlTypeOK, PendingOnlyAfterFailedInsert, NoUncommittedRow
  <1>3. QED
    BY <1>1, <1>2

\* An UPDATE or DELETE refused by another connection's lock changes nothing.
LEMMA RefusedInv ==
  ASSUME SqlInv, UNCHANGED <<db, work, holder, stmt, bound>>,
         begun' \in [Conn -> BOOLEAN], rc' \in [Conn -> {"ok", "error"}]
  PROVE  SqlInv'
  BY DEF SqlInv, SqlTypeOK, PendingOnlyAfterFailedInsert, NoUncommittedRow

LEMMA UpdateInv ==
  ASSUME SqlInv, NEW c \in Conn, NEW k \in Key, NEW v \in Val, Update(c, k, v)
  PROVE  SqlInv'
  <1>1. /\ begun' \in [Conn -> BOOLEAN]
        /\ rc' \in [Conn -> {"ok", "error"}]
        /\ UNCHANGED <<stmt, bound>>
    BY DEF SqlInv, SqlTypeOK, Update, Return
  <1> DEFINE u == View(c)
             t == IF u[k] = NoVal THEN u ELSE [u EXCEPT ![k] = v]
  <1>2. CASE CanWrite(c) /\ WriteTo(c, t)
    <2>1. t \in Table /\ \A j \in Key : t[j] # NoVal => u[j] # NoVal
      BY ViewFacts DEF Table
    <2> HIDE DEF t
    <2>2. QED
      BY <1>1, <1>2, <2>1, WriteInv
  <1>3. CASE UNCHANGED <<db, work, holder>>
    BY <1>1, <1>3, RefusedInv
  <1>4. QED
    BY <1>2, <1>3 DEF Update

LEMMA DeleteInv ==
  ASSUME SqlInv, NEW c \in Conn, NEW K \in SUBSET Key, Delete(c, K)
  PROVE  SqlInv'
  <1>1. /\ begun' \in [Conn -> BOOLEAN]
        /\ rc' \in [Conn -> {"ok", "error"}]
        /\ UNCHANGED <<stmt, bound>>
    BY DEF SqlInv, SqlTypeOK, Delete, Return
  <1>2. CASE CanWrite(c)
    <2> DEFINE u == View(c)
               t == [k \in Key |-> IF k \in K THEN NoVal ELSE u[k]]
    <2>1. WriteTo(c, t)
      BY <1>2 DEF Delete
    <2>2. t \in Table /\ \A j \in Key : t[j] # NoVal => u[j] # NoVal
      BY ViewFacts DEF Table
    <2> HIDE DEF t
    <2>3. QED
      BY <1>1, <1>2, <2>1, <2>2, WriteInv
  <1>3. CASE ~CanWrite(c)
    BY <1>1, <1>3, RefusedInv DEF Delete
  <1>4. QED
    BY <1>2, <1>3

LEMMA RejectInv ==
  ASSUME SqlInv, NEW c \in Conn, RejectDelete(c)
  PROVE  SqlInv'
  <1>1. begun' \in [Conn -> BOOLEAN] /\ rc' \in [Conn -> {"ok", "error"}]
    BY DEF SqlInv, SqlTypeOK, RejectDelete, Return
  <1>2. QED
    BY <1>1, RefusedInv DEF RejectDelete

LEMMA ReopenInv == SqlInv /\ Reopen => SqlInv'
  BY DEF SqlInv, SqlTypeOK, Reopen, PendingOnlyAfterFailedInsert,
         NoUncommittedRow, Table

LEMMA SqlStepInv == SqlInv /\ [SqlNext]_sqlVars => SqlInv'
  <1> SUFFICES ASSUME SqlInv, [SqlNext]_sqlVars PROVE SqlInv'
    OBVIOUS
  <1>1. CASE UNCHANGED sqlVars
    BY <1>1 DEF sqlVars, SqlInv, SqlTypeOK, PendingOnlyAfterFailedInsert,
                NoUncommittedRow
  <1>2. CASE Reopen
    BY <1>2, ReopenInv
  <1>3. ASSUME NEW c \in Conn, SqlCall(c) PROVE SqlInv'
    <2>1. CASE BeginImmediate(c)
      BY <2>1, BeginInv
    <2>2. CASE FinishSelect(c)
      BY <2>2, SelectInv
    <2>3. ASSUME NEW k \in Key, NEW v \in Val, Insert(c, k, v) PROVE SqlInv'
      BY <2>3, InsertDoneInv, InsertFailedInv DEF Insert
    <2>4. ASSUME NEW k \in Key, NEW v \in Val, Update(c, k, v) PROVE SqlInv'
      BY <2>4, UpdateInv
    <2>5. ASSUME NEW K \in SUBSET Key, Delete(c, K) PROVE SqlInv'
      BY <2>5, DeleteInv
    <2>6. CASE RejectDelete(c)
      BY <2>6, RejectInv
    <2>7. QED
      BY <1>3, <2>1, <2>2, <2>3, <2>4, <2>5, <2>6 DEF SqlCall
  <1>4. QED
    BY <1>1, <1>2, <1>3 DEF SqlNext

\* In every state the layer reaches, uncommitted changes belong to a
\* connection whose insert failed.
THEOREM SqlPending == SqlSpec => []PendingOnlyAfterFailedInsert
  <1>1. SqlInv => PendingOnlyAfterFailedInsert
    BY DEF SqlInv
  <1>2. QED
    BY SqlInitInv, SqlStepInv, <1>1, PTL DEF SqlSpec

\* None of them is a new row: what any connection reads is committed.
THEOREM SqlSafety == SqlSpec => []NoUncommittedRow
  <1>1. SqlInv => NoUncommittedRow
    BY DEF SqlInv
  <1>2. QED
    BY SqlInitInv, SqlStepInv, <1>1, PTL DEF SqlSpec

\* The table, the lock and the statements keep their types.
THEOREM SqlTypes == SqlSpec => []SqlTypeOK
  <1>1. SqlInv => SqlTypeOK
    BY DEF SqlInv
  <1>2. QED
    BY SqlInitInv, SqlStepInv, <1>1, PTL DEF SqlSpec

-----------------------------------------------------------------------------
(* Action properties *)

\* Who may change the table: the holder of the lock, or anyone when it is free,
\* and then the lock is free or with the writer.
LEMMA WriteLock ==
  ASSUME NEW c \in Conn, CanWrite(c), NEW t, CommitTo(t) \/ KeepOpen(c, t)
  PROVE  /\ holder # NoConn /\ holder' = holder => db' = db
         /\ holder # holder' => NoConn \in {holder, holder'}
  BY DEF CanWrite, CommitTo, KeepOpen

\* One call of a connection keeps what LockProtects asks of a step.
LEMMA CallLock ==
  ASSUME NEW c \in Conn, SqlCall(c)
  PROVE  /\ holder # NoConn /\ holder' = holder => db' = db
         /\ holder # holder' => NoConn \in {holder, holder'}
  <1>1. CASE BeginImmediate(c) \/ FinishSelect(c)
    BY <1>1 DEF BeginImmediate, FinishSelect
  <1>2. ASSUME NEW k \in Key, NEW v \in Val, Insert(c, k, v)
        PROVE  /\ holder # NoConn /\ holder' = holder => db' = db
               /\ holder # holder' => NoConn \in {holder, holder'}
    <2>1. CASE InsertDone(c, k, v)
      BY <2>1 DEF InsertDone, CommitTo
    <2>2. CASE InsertFailed(c, k, v)
      BY <2>2 DEF InsertFailed
    <2>3. QED
      BY <1>2, <2>1, <2>2 DEF Insert
  <1>3. ASSUME NEW k \in Key, NEW v \in Val, Update(c, k, v)
        PROVE  /\ holder # NoConn /\ holder' = holder => db' = db
               /\ holder # holder' => NoConn \in {holder, holder'}
    BY <1>3, WriteLock DEF Update, WriteTo
  <1>4. ASSUME NEW K \in SUBSET Key, Delete(c, K)
        PROVE  /\ holder # NoConn /\ holder' = holder => db' = db
               /\ holder # holder' => NoConn \in {holder, holder'}
    BY <1>4, WriteLock DEF Delete, WriteTo
  <1>5. CASE RejectDelete(c)
    BY <1>5 DEF RejectDelete
  <1>6. QED
    BY <1>1, <1>2, <1>3, <1>4, <1>5 DEF SqlCall

\* The write lock isolates whatever transactions the calls leave open.
THEOREM SqlLock == SqlSpec => LockProtects
  <1>1. ASSUME [SqlNext]_sqlVars
        PROVE  [/\ holder # NoConn /\ holder' = holder => db' = db
                /\ holder # holder' => NoConn \in {holder, holder'}]_sqlVars
    BY <1>1, CallLock DEF SqlNext, Reopen
  <1>2. QED
    BY <1>1, PTL DEF SqlSpec, LockProtects

\* A row whose insert failed stays bound until an insert reports success for it.
THEOREM SqlFailedRow == SqlSpec => FailedRowSticks
  <1> DEFINE Sticks ==
        \A c \in Conn : stmt[c] # "reset" => bound'[c] \in {bound[c], NoRow}
  <1>1. ASSUME SqlInv, [SqlNext]_sqlVars
        PROVE  [Sticks]_sqlVars
    <2>1. CASE Reopen
      BY <2>1 DEF Reopen
    <2>2. ASSUME NEW c \in Conn, SqlCall(c) PROVE Sticks
      <3>1. CASE UNCHANGED bound
        BY <3>1
      <3>2. ASSUME NEW k \in Key, NEW v \in Val, Insert(c, k, v) PROVE Sticks
        BY <1>1, <3>2
        DEF SqlInv, SqlTypeOK, Insert, InsertDone, InsertFailed, BoundRow
      <3>3. QED
        BY <2>2, <3>1, <3>2
        DEF SqlCall, BeginImmediate, FinishSelect, Update, Delete, RejectDelete
    <2>3. QED
      BY <1>1, <2>1, <2>2 DEF SqlNext
  <1>2. QED
    BY SqlInitInv, SqlStepInv, <1>1, PTL DEF SqlSpec, FailedRowSticks

-----------------------------------------------------------------------------
(* The layer implements Store *)

\* What the abstract specification sees of the layer.
storeView == <<db, holder, work>>

\* While the lock is with c or free, what c's statements see is the table the
\* abstract writer has before it.
LEMMA ViewIsWork ==
  ASSUME SqlInv, NEW c \in Conn, CanWrite(c)
  PROVE  View(c) = work
  BY DEF SqlInv, CanWrite, View

\* UPDATE and DELETE are a change of Store, committed or kept pending.
LEMMA WriteIsChange ==
  ASSUME SqlInv, NEW c \in Conn, CanWrite(c), NEW t, WriteTo(c, t),
         StoreView!RewriteRow(work, t) \/ StoreView!RemoveRows(work, t)
  PROVE  StoreView!Change(c)
  BY DEF CanWrite, WriteTo, CommitTo, KeepOpen, StoreView!Change

\* An insert that succeeds adds the bound row and commits.
LEMMA InsertIsChange ==
  ASSUME SqlInv, NEW c \in Conn, NEW k \in Key, NEW v \in Val,
         InsertDone(c, k, v)
  PROVE  StoreView!Change(c)
  <1> DEFINE row == BoundRow(c, k, v)
  <1>1. row \in Key \X Val
    BY BoundRowType
  <1>2. /\ CanWrite(c)
        /\ work[row[1]] = NoVal
        /\ row[2] \notin Refused
        /\ db' = [work EXCEPT ![row[1]] = row[2]]
        /\ work' = db'
        /\ holder' = NoConn
    BY ViewIsWork DEF InsertDone, Accepts, CommitTo
  <1> HIDE DEF row
  <1>3. StoreView!AddRow(work, db')
    BY <1>1, <1>2 DEF StoreView!AddRow
  <1>4. QED
    BY <1>2, <1>3 DEF CanWrite, StoreView!Change

\* An UPDATE of an absent row changes nothing: it removes the rows of {}.
LEMMA RemoveNothing ==
  ASSUME NEW t \in Table
  PROVE  StoreView!RemoveRows(t, t)
  <1>1. t = [k \in Key |-> IF k \in {} THEN NoVal ELSE t[k]]
    BY Zenon DEF Table
  <1>2. {} \in SUBSET Key
    OBVIOUS
  <1>3. QED
    BY <1>1, <1>2, Zenon DEF StoreView!RemoveRows

LEMMA UpdateIsChange ==
  ASSUME SqlInv, NEW c \in Conn, NEW k \in Key, NEW v \in Val, Update(c, k, v)
  PROVE  StoreView!Change(c) \/ UNCHANGED storeView
  <1>1. CASE UNCHANGED storeView
    BY <1>1
  <1>2. CASE CanWrite(c) /\ work[k] = NoVal /\ WriteTo(c, work)
    <2>1. work \in Table
      BY DEF SqlInv, SqlTypeOK
    <2>2. StoreView!RemoveRows(work, work)
      BY <2>1, RemoveNothing
    <2>3. QED
      BY <1>2, <2>2, WriteIsChange
  <1>3. CASE /\ CanWrite(c) /\ work[k] # NoVal /\ v \notin Refused
             /\ WriteTo(c, [work EXCEPT ![k] = v])
    BY <1>3, WriteIsChange DEF StoreView!RewriteRow
  <1>4. QED
    BY <1>1, <1>2, <1>3, ViewIsWork DEF Update, storeView

LEMMA DeleteIsChange ==
  ASSUME SqlInv, NEW c \in Conn, NEW K \in SUBSET Key, Delete(c, K)
  PROVE  StoreView!Change(c) \/ UNCHANGED storeView
  <1>1. CASE CanWrite(c)
    <2> DEFINE t == [k \in Key |-> IF k \in K THEN NoVal ELSE work[k]]
    <2>1. WriteTo(c, t)
      BY <1>1, ViewIsWork DEF Delete
    <2>2. StoreView!RemoveRows(work, t)
      BY DEF StoreView!RemoveRows
    <2>3. QED
      BY <1>1, <2>1, <2>2, WriteIsChange
  <1>2. CASE ~CanWrite(c)
    BY <1>2 DEF Delete, storeView
  <1>3. QED
    BY <1>1, <1>2

\* Every step of the layer is a step of Store or does not touch what it sees.
LEMMA StoreStep ==
  SqlInv /\ [SqlNext]_sqlVars => [StoreView!Next]_storeView
  <1> SUFFICES ASSUME SqlInv, [SqlNext]_sqlVars PROVE [StoreView!Next]_storeView
    OBVIOUS
  <1>1. CASE UNCHANGED sqlVars
    BY <1>1 DEF sqlVars, storeView
  <1>2. CASE Reopen
    BY <1>2 DEF Reopen, StoreView!Next, StoreView!Rollback
  <1>3. ASSUME NEW c \in Conn, SqlCall(c) PROVE [StoreView!Next]_storeView
    <2>1. CASE BeginImmediate(c)
      BY <2>1 DEF BeginImmediate, storeView, StoreView!Next, StoreView!Acquire
    <2>2. CASE FinishSelect(c)
      BY <2>2 DEF FinishSelect, storeView
    <2>3. ASSUME NEW k \in Key, NEW v \in Val, Insert(c, k, v)
          PROVE  [StoreView!Next]_storeView
      BY <2>3, InsertIsChange DEF Insert, InsertFailed, storeView, StoreView!Next
    <2>4. ASSUME NEW k \in Key, NEW v \in Val, Update(c, k, v)
          PROVE  [StoreView!Next]_storeView
      BY <2>4, UpdateIsChange DEF StoreView!Next
    <2>5. ASSUME NEW K \in SUBSET Key, Delete(c, K)
          PROVE  [StoreView!Next]_storeView
      BY <2>5, DeleteIsChange DEF StoreView!Next
    <2>6. CASE RejectDelete(c)
      BY <2>6 DEF RejectDelete, storeView
    <2>7. QED
      BY <1>3, <2>1, <2>2, <2>3, <2>4, <2>5, <2>6 DEF SqlCall
  <1>4. QED
    BY <1>1, <1>2, <1>3 DEF SqlNext

\* The refinement: for the handlers the layer is one table with one writer at a
\* time, whatever transactions and statements its calls leave behind.
THEOREM SqlImplementsStore == SqlSpec => ImplementsStore
  <1>1. SqlInit => StoreView!Init
    BY DEF SqlInit, StoreView!Init
  <1>2. QED
    BY <1>1, SqlInitInv, SqlStepInv, StoreStep, PTL
    DEF SqlSpec, ImplementsStore, StoreView!Spec, StoreView!storeVars, storeView
=============================================================================
