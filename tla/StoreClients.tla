----------------------------- MODULE StoreClients -----------------------------
(***************************************************************************)
(* How the processes that share one SQLite database use it                 *)
(* (src/erasmus/store.py and the services built on it).                    *)
(*                                                                         *)
(* An operation first reads and checks, statement by statement and outside *)
(* any transaction, and then writes in one transaction.  The two halves are *)
(* two actions with a request in between: another client may write there,  *)
(* and a client that dies there, or whose transaction breaks a constraint, *)
(* leaves nothing behind.                                                  *)
(***************************************************************************)
EXTENDS Naturals, FiniteSets

CONSTANT Clients  \* processes that use the store

VARIABLES
  req,   \* what each client has read and checked and is about to write
  raced  \* history: some write rested on a row that had changed since it was read

Idle == [op |-> "none"]

StoreInit ==
  /\ req = [c \in Clients |-> Idle]
  /\ raced = FALSE

\* The checks of an operation have passed.
Begin(c, request) ==
  /\ req[c] = Idle
  /\ req' = [req EXCEPT ![c] = request]
  /\ UNCHANGED raced

\* Its transaction commits; stale says whether what it read has changed.
Commit(c, stale) ==
  /\ req' = [req EXCEPT ![c] = Idle]
  /\ raced' = (raced \/ stale)

\* The client dies, or its transaction fails and is rolled back.
Drop(c) ==
  /\ req[c] # Idle
  /\ req' = [req EXCEPT ![c] = Idle]
  /\ UNCHANGED raced

\* An operation that is one statement, or that checks inside its transaction.
Atomically(c) ==
  /\ req[c] = Idle
  /\ UNCHANGED <<req, raced>>

Processing(c, op) == req[c].op = op
=============================================================================
