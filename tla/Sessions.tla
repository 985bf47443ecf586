------------------------------ MODULE Sessions ------------------------------
(***************************************************************************)
(* The database as concurrent sessions of the program see it.  Every       *)
(* webhook and every tick of the worker runs in one session_scope          *)
(* (app/db/session.py): a transaction that commits at the end, and rolls   *)
(* back on an exception.  The engine is PostgreSQL at its default, READ    *)
(* COMMITTED: a statement sees its own session's writes and otherwise what *)
(* is committed; a written row is locked until its session ends; a writer  *)
(* of a locked row waits.  A flush writes the columns the session changed, *)
(* to the row as it is then, whatever the session read before.             *)
(***************************************************************************)
CONSTANTS Session, Key

VARIABLES committed,   \* key -> row
          pending      \* session -> the rows it has flushed and not committed

database == <<committed, pending>>

NoWrites == [k \in {} |-> "row"]

Sees(s, k) == IF k \in DOMAIN pending[s] THEN pending[s][k] ELSE committed[k]

\* Some rows, with one more, or one changed.
Written(rows, k, row) ==
  [x \in DOMAIN rows \cup {k} |-> IF x = k THEN row ELSE rows[x]]

Blocked(s, k) == \E t \in Session \ {s} : k \in DOMAIN pending[t]

Flush(s, k, row) ==
  /\ ~Blocked(s, k)
  /\ pending' = [pending EXCEPT ![s] = Written(@, k, row)]
  /\ UNCHANGED committed

Commit(s) ==
  /\ committed' = [k \in DOMAIN committed |-> Sees(s, k)]
  /\ pending' = [pending EXCEPT ![s] = NoWrites]

Rollback(s) ==
  /\ pending' = [pending EXCEPT ![s] = NoWrites]
  /\ UNCHANGED committed
=============================================================================
