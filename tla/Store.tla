------------------------------- MODULE Store -------------------------------
(***************************************************************************)
(* What the handlers rely on when they call the database layer, and all    *)
(* they can rely on: one table, one writer at a time.  A writer adds one   *)
(* row, rewrites one or removes some, on top of what it left pending       *)
(* before; its change is committed at once or stays pending with it, and   *)
(* only the process's end takes a pending change back.  Statements, their  *)
(* bindings, return codes and the text of BEGIN and COMMIT are SqlConn's.  *)
(***************************************************************************)
CONSTANTS Conn, NoConn, Key, Val, NoVal, Refused, StartTables

VARIABLES
    table,    \* the committed table
    writer,   \* who has changes pending or is about to write, or NoConn
    draft     \* the table with the writer's pending changes

storeVars == <<table, writer, draft>>

Init ==
    /\ table \in StartTables
    /\ draft = table
    /\ writer = NoConn

\* The changes of one statement.  No statement stores a refused value: what
\* a CHECK of the table forbids is in no row but those of the starting file.
AddRow(t, u) ==
    \E k \in Key, v \in Val \ Refused : t[k] = NoVal /\ u = [t EXCEPT ![k] = v]

RewriteRow(t, u) ==
    \E k \in Key, v \in Val \ Refused : t[k] # NoVal /\ u = [t EXCEPT ![k] = v]

RemoveRows(t, u) ==
    \E K \in SUBSET Key : u = [k \in Key |-> IF k \in K THEN NoVal ELSE t[k]]

\* One statement of c: the others keep out while c has a change pending, and
\* a row is added only by a step that commits.
Change(c) ==
    /\ writer \in {NoConn, c}
    /\ \/ /\ AddRow(draft, table') \/ RewriteRow(draft, table') \/ RemoveRows(draft, table')
          /\ draft' = table'
          /\ writer' = NoConn
       \/ /\ RewriteRow(draft, draft') \/ RemoveRows(draft, draft')
          /\ writer' = c
          /\ UNCHANGED table

Acquire(c) ==
    /\ writer = NoConn
    /\ writer' = c
    /\ UNCHANGED <<table, draft>>

\* The process ends: the pending changes are gone, nothing else is.
Rollback ==
    /\ draft' = table
    /\ writer' = NoConn
    /\ UNCHANGED table

Next == Rollback \/ \E c \in Conn : Acquire(c) \/ Change(c)

Spec == Init /\ [][Next]_storeVars
=============================================================================
