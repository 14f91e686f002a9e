------------------------------ MODULE LocalSession ------------------------------
(***************************************************************************)
(* The journal of local model sessions (run_session in                     *)
(* src/erasmus/runtime.py): who answered, with what, and when the model     *)
(* behind the sessions changed.                                            *)
(*                                                                         *)
(* The identity of the session before is read outside the transaction that *)
(* inserts the session.  The stream itself is outside all transactions: it *)
(* ends, times out, breaks the protocol or is cancelled.                   *)
(***************************************************************************)
EXTENDS StoreClients, Sequences

CONSTANTS
  Identities,  \* endpoint, kind, model and adapter
  MaxSessions  \* bound on the rows of local_runtime_sessions

VARIABLES
  sessions,  \* local_runtime_sessions: [identity, status]
  changes,   \* runtime_identity_changes: <<session, prior identity>>
  outputs    \* the sessions with an erasmus_output event

sessionVars == <<sessions, changes, outputs>>

NoIdentity == "no identity"

ASSUME SessionAssumption == NoIdentity \notin Identities /\ MaxSessions \in Nat

SessionInit ==
  /\ sessions = <<>>
  /\ changes = {}
  /\ outputs = {}

Identity(n) == IF n = 0 THEN NoIdentity ELSE sessions[n].identity
Changed_later(prior, identity) == prior # NoIdentity /\ prior # identity
Changed(prior, identity) == prior # identity

ReadPrevious(c) ==
  /\ \E identity \in Identities :
       Begin(c, [op |-> "session", identity |-> identity, prior |-> Identity(Len(sessions))])
  /\ UNCHANGED sessionVars

StartSession(c) ==
  /\ Processing(c, "session") /\ Len(sessions) < MaxSessions
  /\ LET id == Len(sessions) + 1
         r == req[c] IN
       /\ sessions' = Append(sessions, [identity |-> r.identity, status |-> "running"])
       /\ changes' = changes \cup (IF Changed(r.prior, r.identity) THEN {<<id, r.prior>>} ELSE {})
       /\ req' = [req EXCEPT ![c] = [op |-> "stream", id |-> id]]
       /\ raced' = (raced \/ r.prior # Identity(Len(sessions)))
  /\ UNCHANGED outputs

\* The response event and the status are one transaction.
Succeed(c) ==
  /\ Processing(c, "stream")
  /\ outputs' = outputs \cup {req[c].id}
  /\ sessions' = [sessions EXCEPT ![req[c].id].status = "success"]
  /\ Commit(c, FALSE)
  /\ UNCHANGED changes

Fail(c) ==
  /\ Processing(c, "stream")
  /\ \E status \in {"failure", "cancelled"} :
       sessions' = [sessions EXCEPT ![req[c].id].status = status]
  /\ Commit(c, FALSE)
  /\ UNCHANGED <<changes, outputs>>

SessionNext ==
  \E c \in Clients :
    \/ ReadPrevious(c) \/ StartSession(c) \/ Succeed(c) \/ Fail(c)
    \/ Drop(c) /\ UNCHANGED sessionVars

SessionTypeOK ==
  /\ sessions \in Seq([identity : Identities,
                       status : {"running", "success", "failure", "cancelled"}])
  /\ Len(sessions) =< MaxSessions
  /\ changes \subseteq (1..MaxSessions) \X (Identities \cup {NoIdentity})
  /\ outputs \subseteq 1..MaxSessions

\* Wherever a process dies, exactly the successful sessions have a response
\* event; and as long as no two sessions raced, the identity changes are exactly
\* the sessions whose identity is not the one of the session before.
SessionsAreJournaled ==
  /\ outputs = {n \in DOMAIN sessions : sessions[n].status = "success"}
  /\ raced \/ changes = {<<n, Identity(n - 1)>> :
                          n \in {m \in DOMAIN sessions : Identity(m) # Identity(m - 1)}}
=============================================================================
