------------------------------- MODULE Sqlite -------------------------------
(***************************************************************************)
(* One SQLite database in WAL mode, as the code uses it through rusqlite.  *)
(* A statement outside a transaction reads the last committed state.  All  *)
(* transactions of the code begin with a write, so a transaction takes the *)
(* write lock at once and works on a draft that nobody else sees before    *)
(* the commit.  A process that finds the lock taken for longer than the    *)
(* busy timeout gets an error and changes nothing.                         *)
(***************************************************************************)
VARIABLES disk,   \* the committed tables
          draft,  \* the tables as the open transaction sees them
          owner   \* who holds the write lock, or "none"

(* A statement of the open transaction.                                    *)
(* mutant: no transaction, every statement commits by itself               *)
ExecuteAutocommit(tables) == draft' = tables /\ disk' = tables
Execute(tables) == draft' = tables /\ UNCHANGED disk

(* conn.transaction() and its first statement.                             *)
Begin(p, tables) == owner = "none" /\ owner' = p /\ Execute(tables)

Commit == disk' = draft /\ owner' = "none" /\ UNCHANGED draft

(* The transaction is dropped, or its process dies.                        *)
Rollback == owner' = "none" /\ UNCHANGED <<disk, draft>>
=============================================================================
