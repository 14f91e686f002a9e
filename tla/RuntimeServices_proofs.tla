------------------------ MODULE RuntimeServices_proofs ------------------------
(***************************************************************************)
(* Proofs about the services of the store that run something: the journal  *)
(* of local sessions, the lifecycle of a capability, the publication of    *)
(* bundles, the immune cascade and the divergence engine.  Each one is     *)
(* proved by itself, for any number of clients that interleave and die and *)
(* for every value of its constants.                                       *)
(***************************************************************************)
EXTENDS LocalSession, BundlePublication, DivergenceEngine, WellFoundedInduction,
        FiniteSetTheorems, TLAPS

\* A client that is idle is in the middle of nothing.
LEMMA IdleClient ==
  ASSUME NEW c \in Clients, req[c] = Idle
  PROVE  req[c].op = "none"
BY DEF Idle

-----------------------------------------------------------------------------
(* Local sessions.                                                         *)

SessionSpec == StoreInit /\ SessionInit /\ [][SessionNext]_<<sessionVars, req, raced>>

SessionRow ==
  [identity : Identities, status : {"running", "success", "failure", "cancelled"}]
SessionRequests ==
  {Idle} \cup [op : {"session"}, identity : Identities, prior : Identities \cup {NoIdentity}]
         \cup [op : {"stream"}, id : Nat]

\* The sessions whose identity differs from the one before.
Switches ==
  {<<n, Identity(n - 1)>> : n \in {m \in DOMAIN sessions : Identity(m) # Identity(m - 1)}}

\* A stream belongs to a running session, and to one client.
StreamInv ==
  /\ \A c \in Clients : Processing(c, "stream") =>
       req[c].id \in DOMAIN sessions /\ sessions[req[c].id].status = "running"
  /\ \A c, d \in Clients :
       Processing(c, "stream") /\ Processing(d, "stream") /\ req[c].id = req[d].id => c = d

SessionInv ==
  /\ SessionTypeOK /\ req \in [Clients -> SessionRequests] /\ raced \in BOOLEAN
  /\ StreamInv
  /\ SessionsAreJournaled

\* What a new row leaves of the others.
LEMMA SessionAppended ==
  ASSUME sessions \in Seq(SessionRow), NEW row \in SessionRow, sessions' = Append(sessions, row)
  PROVE  /\ sessions' \in Seq(SessionRow) /\ Len(sessions) \in Nat
         /\ DOMAIN sessions = 1 .. Len(sessions)
         /\ DOMAIN sessions' = DOMAIN sessions \cup {Len(sessions) + 1}
         /\ Len(sessions') = Len(sessions) + 1
         /\ Len(sessions) + 1 \notin DOMAIN sessions
         /\ sessions'[Len(sessions) + 1] = row
         /\ \A n \in DOMAIN sessions : sessions'[n] = sessions[n]
<1> HIDE DEF SessionRow
<1> QED OBVIOUS

\* What the end of a session leaves of it.
LEMMA SessionEnded ==
  ASSUME sessions \in Seq(SessionRow), NEW id \in DOMAIN sessions,
         NEW v \in {"success", "failure", "cancelled"},
         sessions' = [sessions EXCEPT ![id].status = v]
  PROVE  /\ sessions' \in Seq(SessionRow) /\ Len(sessions') = Len(sessions)
         /\ DOMAIN sessions' = DOMAIN sessions
         /\ sessions'[id].status = v /\ sessions'[id].identity = sessions[id].identity
         /\ \A n \in DOMAIN sessions \ {id} : sessions'[n] = sessions[n]
<1> DEFINE r == [sessions[id] EXCEPT !.status = v]
<1>1. sessions[id] \in SessionRow
  OBVIOUS
<1>2. r \in SessionRow /\ r.status = v /\ r.identity = sessions[id].identity
  BY <1>1 DEF SessionRow
<1>3. sessions' = [sessions EXCEPT ![id] = r]
  OBVIOUS
<1> HIDE DEF r, SessionRow
<1>4. sessions' \in Seq(SessionRow) /\ Len(sessions') = Len(sessions)
  BY <1>2, <1>3
<1>5. DOMAIN sessions' = DOMAIN sessions
  BY <1>3
<1>6. sessions'[id] = r /\ \A n \in DOMAIN sessions \ {id} : sessions'[n] = sessions[n]
  BY <1>3
<1> QED BY <1>2, <1>4, <1>5, <1>6

LEMMA SessionFacts ==
  ASSUME SessionInv
  PROVE  /\ sessions \in Seq(SessionRow) /\ Len(sessions) \in Nat
         /\ DOMAIN sessions = 1 .. Len(sessions) /\ Len(sessions) =< MaxSessions
         /\ \A n \in DOMAIN sessions : n # 0 /\ n \in 1 .. MaxSessions
         /\ Identity(Len(sessions)) \in Identities \cup {NoIdentity}
<1>1. /\ sessions \in Seq(SessionRow) /\ Len(sessions) \in Nat
      /\ DOMAIN sessions = 1 .. Len(sessions) /\ Len(sessions) =< MaxSessions
  <2>1. sessions \in Seq(SessionRow) /\ Len(sessions) =< MaxSessions
    BY DEF SessionInv, SessionTypeOK, SessionRow
  <2> HIDE DEF SessionRow
  <2> QED BY <2>1
<1>2. \A n \in DOMAIN sessions : n # 0 /\ n \in 1 .. MaxSessions
  BY <1>1, SessionAssumption
<1>3. Identity(Len(sessions)) \in Identities \cup {NoIdentity}
  <2>1. CASE Len(sessions) = 0
    BY <2>1 DEF Identity
  <2>2. CASE Len(sessions) # 0
    <3>1. Len(sessions) \in DOMAIN sessions
      BY <1>1, <2>2
    <3>2. sessions[Len(sessions)] \in SessionRow
      BY <1>1, <3>1
    <3> QED BY <2>2, <3>2 DEF Identity, SessionRow
  <2> QED BY <2>1, <2>2
<1> QED BY <1>1, <1>2, <1>3

\* A client that begins, or ends, without touching the journal.
LEMMA QuietSession ==
  ASSUME SessionInv, NEW c \in Clients, NEW r \in SessionRequests, r.op # "stream",
         req' = [req EXCEPT ![c] = r], UNCHANGED <<sessionVars, raced>>
  PROVE  SessionInv'
<1>1. req' \in [Clients -> SessionRequests] /\ req'[c] = r
      /\ \A d \in Clients \ {c} : req'[d] = req[d]
  BY DEF SessionInv
<1>2. StreamInv'
  BY <1>1 DEF SessionInv, StreamInv, Processing, sessionVars
<1> QED BY <1>1, <1>2 DEF SessionInv, SessionTypeOK, SessionsAreJournaled, Identity, sessionVars

LEMMA StartSessionInv ==
  ASSUME SessionInv, NEW c \in Clients, StartSession(c)
  PROVE  SessionInv'
<1> DEFINE id == Len(sessions) + 1
           r == req[c]
           row == [identity |-> r.identity, status |-> "running"]
<1>1. r.identity \in Identities /\ r.prior \in Identities \cup {NoIdentity}
  BY DEF SessionInv, SessionRequests, StartSession, Processing, Idle
<1>2. /\ sessions' = Append(sessions, row) /\ row \in SessionRow
      /\ row.status = "running" /\ row.identity = r.identity
      /\ Len(sessions) < MaxSessions /\ outputs' = outputs
      /\ req' = [req EXCEPT ![c] = [op |-> "stream", id |-> id]]
      /\ raced' = (raced \/ r.prior # Identity(Len(sessions)))
      /\ changes' = changes \cup (IF Changed(r.prior, r.identity) THEN {<<id, r.prior>>} ELSE {})
  BY <1>1 DEF StartSession, SessionRow
<1> HIDE DEF row
<1>3. /\ sessions' \in Seq(SessionRow) /\ DOMAIN sessions = 1 .. Len(sessions)
      /\ DOMAIN sessions' = DOMAIN sessions \cup {id} /\ Len(sessions') = id
      /\ id \notin DOMAIN sessions /\ sessions'[id] = row /\ id \in Nat \ {0}
      /\ \A n \in DOMAIN sessions : sessions'[n] = sessions[n]
  BY <1>2, SessionFacts, SessionAppended
<1>4. id \in 1 .. MaxSessions /\ Len(sessions') =< MaxSessions
  BY <1>2, <1>3, SessionFacts, SessionAssumption
<1>5. /\ req' \in [Clients -> SessionRequests]
      /\ req'[c].op = "stream" /\ req'[c].id = id
      /\ \A d \in Clients \ {c} : req'[d] = req[d]
  BY <1>2, <1>3 DEF SessionInv, SessionRequests
<1>6. SessionTypeOK'
  BY <1>1, <1>2, <1>3, <1>4 DEF SessionInv, SessionTypeOK, SessionRow
<1>7. StreamInv'
  BY <1>2, <1>3, <1>5 DEF SessionInv, StreamInv, Processing
<1>8. outputs' = {n \in DOMAIN sessions' : sessions'[n].status = "success"}
  BY <1>2, <1>3 DEF SessionInv, SessionsAreJournaled
<1>9. ASSUME ~raced', NEW old \in Nat, old = Len(sessions), NEW new \in Nat, new = id
      PROVE  changes' = Switches'
  <2>1. ~raced /\ r.prior = Identity(old) /\ changes = Switches
    BY <1>2, <1>9 DEF SessionInv, SessionsAreJournaled, Switches
  <2>2. \A n \in 0 .. old : Identity(n)' = Identity(n)
    BY <1>3, <1>9, SessionFacts DEF Identity
  <2>3. new - 1 = old /\ old \in 0 .. old
    BY <1>9
  <2>4. Identity(new)' = r.identity
    BY <1>2, <1>3, <1>9 DEF Identity
  <2>5. Identity(new - 1)' = r.prior
    BY <2>1, <2>2, <2>3
  <2>6. \A n \in DOMAIN sessions :
          Identity(n)' = Identity(n) /\ Identity(n - 1)' = Identity(n - 1)
    BY <1>3, <1>9, <2>2
  <2>7. DOMAIN sessions' = DOMAIN sessions \cup {new}
    BY <1>3, <1>9
  <2>8. Switches' = Switches \cup (IF r.identity # r.prior THEN {<<new, r.prior>>} ELSE {})
    BY <2>4, <2>5, <2>6, <2>7 DEF Switches
  <2> QED BY <1>2, <1>9, <2>1, <2>8 DEF Changed
<1>10. ~raced' => changes' = Switches'
  BY <1>3, <1>9, SessionFacts
<1> QED BY <1>2, <1>5, <1>6, <1>7, <1>8, <1>10
        DEF SessionInv, SessionsAreJournaled, Switches

LEMMA EndSessionInv ==
  ASSUME SessionInv, NEW c \in Clients, Processing(c, "stream"),
         NEW v \in {"success", "failure", "cancelled"},
         sessions' = [sessions EXCEPT ![req[c].id].status = v],
         outputs' = outputs \cup (IF v = "success" THEN {req[c].id} ELSE {}),
         Commit(c, FALSE), UNCHANGED changes
  PROVE  SessionInv'
<1> DEFINE id == req[c].id
<1>1. id \in DOMAIN sessions /\ sessions[id].status = "running"
  BY DEF SessionInv, StreamInv
<1>2. sessions \in Seq(SessionRow)
  BY SessionFacts
<1>3. /\ sessions' \in Seq(SessionRow) /\ Len(sessions') = Len(sessions)
      /\ DOMAIN sessions' = DOMAIN sessions
      /\ sessions'[id].status = v /\ sessions'[id].identity = sessions[id].identity
      /\ \A n \in DOMAIN sessions \ {id} : sessions'[n] = sessions[n]
  BY <1>1, <1>2, SessionEnded
<1>4. /\ req' \in [Clients -> SessionRequests] /\ raced' = raced /\ req'[c] = Idle
      /\ \A d \in Clients \ {c} : req'[d] = req[d]
  BY DEF SessionInv, SessionRequests, Commit
<1>5. SessionTypeOK'
  BY <1>1, <1>3, SessionFacts DEF SessionInv, SessionTypeOK, SessionRow
<1>6. StreamInv'
  BY <1>1, <1>3, <1>4 DEF SessionInv, StreamInv, Processing, Idle
<1>7. outputs' = {n \in DOMAIN sessions' : sessions'[n].status = "success"}
  BY <1>1, <1>3 DEF SessionInv, SessionsAreJournaled
<1>8. \A n : n = 0 \/ n \in DOMAIN sessions => Identity(n)' = Identity(n)
  BY <1>3 DEF Identity
<1>9. \A n \in DOMAIN sessions : n - 1 = 0 \/ n - 1 \in DOMAIN sessions
  BY SessionFacts
<1>10. Switches' = Switches
  BY <1>3, <1>8, <1>9 DEF Switches
<1> QED BY <1>4, <1>5, <1>6, <1>7, <1>10 DEF SessionInv, SessionsAreJournaled, Switches

LEMMA SessionInvariant == SessionSpec => []SessionInv
<1>1. StoreInit /\ SessionInit => SessionInv
  <2> SUFFICES ASSUME StoreInit, SessionInit PROVE SessionInv
    OBVIOUS
  <2>1. SessionTypeOK
    BY SessionAssumption DEF SessionInit, SessionTypeOK
  <2>2. StreamInv
    BY DEF StoreInit, StreamInv, Processing, Idle
  <2>3. SessionsAreJournaled
    BY DEF SessionInit, SessionsAreJournaled
  <2> QED BY <2>1, <2>2, <2>3 DEF StoreInit, SessionInv, SessionRequests
<1>2. SessionInv /\ [SessionNext]_<<sessionVars, req, raced>> => SessionInv'
  <2> SUFFICES ASSUME SessionInv, [SessionNext]_<<sessionVars, req, raced>> PROVE SessionInv'
    OBVIOUS
  <2>1. CASE UNCHANGED <<sessionVars, req, raced>>
    BY <2>1 DEF SessionInv, SessionTypeOK, StreamInv, Processing, SessionsAreJournaled, Identity,
       sessionVars
  <2>2. ASSUME NEW c \in Clients, ReadPrevious(c) PROVE SessionInv'
    <3>1. PICK identity \in Identities :
            Begin(c, [op |-> "session", identity |-> identity, prior |-> Identity(Len(sessions))])
      BY <2>2 DEF ReadPrevious
    <3> QED BY <2>2, <3>1, SessionFacts, QuietSession DEF ReadPrevious, Begin, SessionRequests
  <2>3. ASSUME NEW c \in Clients, StartSession(c) PROVE SessionInv'
    BY <2>3, StartSessionInv
  <2>4. ASSUME NEW c \in Clients, Succeed(c) PROVE SessionInv'
    BY <2>4, EndSessionInv DEF Succeed
  <2>5. ASSUME NEW c \in Clients, Fail(c) PROVE SessionInv'
    BY <2>5, EndSessionInv DEF Fail
  <2>6. ASSUME NEW c \in Clients, Drop(c), UNCHANGED sessionVars PROVE SessionInv'
    BY <2>6, QuietSession DEF Drop, SessionRequests, Idle
  <2> QED BY <2>1, <2>2, <2>3, <2>4, <2>5, <2>6 DEF SessionNext
<1> QED BY <1>1, <1>2, PTL DEF SessionSpec

\* Wherever a client dies, exactly the successful sessions have a response, and
\* without a race exactly the switches of identity are recorded.
THEOREM SessionsStayJournaled == SessionSpec => []SessionsAreJournaled
<1>1. SessionSpec => []SessionInv
  BY SessionInvariant
<1>2. SessionInv => SessionsAreJournaled
  BY DEF SessionInv
<1> QED BY <1>1, <1>2, PTL

-----------------------------------------------------------------------------
(* The capability.                                                         *)

CapabilitySpec ==
  StoreInit /\ CapabilityInit /\ [][CapabilityNext]_<<capabilityVars, req, raced>>

\* What one client has asked for leaves the others alone.
LEMMA RequestOfOne ==
  ASSUME DOMAIN req = Clients, NEW c \in Clients, NEW r, req' = [req EXCEPT ![c] = r]
  PROVE  /\ DOMAIN req' = Clients /\ req'[c] = r
         /\ \A d \in Clients \ {c} : req'[d] = req[d]
OBVIOUS

\* Each stage of a lifecycle comes after the one before it.
Staged ==
  /\ "active" \in visited => "approved" \in visited
  /\ "approved" \in visited => "adversarial_review" \in visited
  /\ "adversarial_review" \in visited => "isolated_test" \in visited
  /\ {"suspended", "retired"} \cap visited # {} => "active" \in visited

\* What the row holds, and what was asked of it when it was in some stage.
RowInv ==
  /\ lifecycle # "unconfigured" => lifecycle \in visited /\ binding # Unbound
  /\ \A c \in Clients :
       /\ Processing(c, "configure") => req[c].implementation \in Implementations
       /\ Processing(c, "lifecycle") =>
            /\ req[c].from \in visited /\ req[c].from \in Lifecycles
            /\ req[c].to \in Transitions[req[c].from] /\ binding # Unbound
       /\ Processing(c, "invoke") =>
            req[c].implementation \in Implementations /\ "active" \in visited

\* What runs, as long as nothing raced.
BoundInv ==
  raced \/ \A c \in Clients :
    /\ handlers[c] \in {Unbound, binding}
    /\ Processing(c, "invoke") => req[c].implementation = binding

CapabilityInv ==
  /\ CapabilityTypeOK /\ DOMAIN req = Clients /\ raced \in BOOLEAN
  /\ Staged /\ RowInv /\ BoundInv
  /\ invocations # <<>> => "active" \in visited
  /\ raced \/ \A n \in DOMAIN invocations : invocations[n].implementation = binding

\* What is recorded of an invocation.
Invocation == [implementation : Implementations, ok : BOOLEAN]

LEMMA InvocationFacts ==
  ASSUME CapabilityTypeOK
  PROVE  /\ invocations \in Seq(Invocation) /\ Len(invocations) \in Nat
         /\ \A n \in DOMAIN invocations :
              /\ invocations[n] \in Invocation
              /\ invocations[n].implementation \in Implementations
<1>1. invocations \in Seq(Invocation)
  BY DEF CapabilityTypeOK, Invocation
<1>2. Len(invocations) \in Nat /\ \A n \in DOMAIN invocations : invocations[n] \in Invocation
  <2> HIDE DEF Invocation
  <2> QED BY <1>1
<1> QED BY <1>1, <1>2 DEF Invocation

\* What a new record leaves of the others.
LEMMA InvocationAppended ==
  ASSUME CapabilityTypeOK, NEW row \in Invocation, invocations' = Append(invocations, row)
  PROVE  /\ invocations' \in Seq(Invocation)
         /\ DOMAIN invocations' = DOMAIN invocations \cup {Len(invocations) + 1}
         /\ Len(invocations') = Len(invocations) + 1
         /\ Len(invocations) + 1 \notin DOMAIN invocations
         /\ invocations'[Len(invocations) + 1] = row
         /\ \A n \in DOMAIN invocations : invocations'[n] = invocations[n]
<1>1. invocations \in Seq(Invocation)
  BY InvocationFacts
<1> HIDE DEF Invocation
<1> QED BY <1>1

\* A client that begins, or ends, without touching the row.
LEMMA QuietCapability ==
  ASSUME CapabilityInv, NEW c \in Clients, NEW r, req' = [req EXCEPT ![c] = r],
         r.op = "configure" => r.implementation \in Implementations,
         r.op = "lifecycle" => /\ r.from \in visited /\ r.from \in Lifecycles
                               /\ r.to \in Transitions[r.from] /\ binding # Unbound,
         r.op = "invoke" => /\ r.implementation \in Implementations /\ "active" \in visited
                            /\ raced \/ r.implementation = binding,
         UNCHANGED <<capabilityVars, raced>>
  PROVE  CapabilityInv'
<1>1. /\ DOMAIN req' = Clients /\ req'[c] = r
      /\ \A d \in Clients \ {c} : req'[d] = req[d]
  BY RequestOfOne DEF CapabilityInv
<1>2. RowInv'
  BY <1>1 DEF CapabilityInv, RowInv, Processing, capabilityVars
<1>3. BoundInv'
  BY <1>1 DEF CapabilityInv, BoundInv, Processing, capabilityVars
<1> QED BY <1>1, <1>2, <1>3 DEF CapabilityInv, CapabilityTypeOK, Staged, capabilityVars

LEMMA ConfigureInv ==
  ASSUME CapabilityInv, NEW c \in Clients, Configure(c)
  PROVE  CapabilityInv'
<1> DEFINE i == req[c].implementation
<1>1. i \in Implementations /\ i # Unbound
  BY CapabilityAssumption DEF CapabilityInv, RowInv, Configure
<1>2. /\ DOMAIN req' = Clients /\ req'[c].op = "none"
      /\ \A d \in Clients \ {c} : req'[d] = req[d]
  BY RequestOfOne DEF CapabilityInv, Configure, Commit, Idle
<1>3. /\ invocations' = invocations /\ raced' \in BOOLEAN
      /\ handlers' \in [Clients -> Implementations \cup {Unbound}] /\ handlers'[c] = i
      /\ \A d \in Clients \ {c} : handlers'[d] = handlers[d]
  BY <1>1 DEF CapabilityInv, CapabilityTypeOK, Configure, Commit
<1>4. CASE binding = Unbound
  <2>1. /\ lifecycle' = "proposed" /\ binding' = i /\ visited' = visited \cup {"proposed"}
        /\ raced' = raced /\ lifecycle = "unconfigured"
    BY <1>4 DEF Configure, Commit, Compatible, CapabilityInv, RowInv
  <2>2. CapabilityTypeOK' /\ Staged'
    BY <1>1, <1>3, <2>1 DEF CapabilityInv, CapabilityTypeOK, Staged, Lifecycles
  <2>3. RowInv'
    BY <1>1, <1>2, <1>4, <2>1 DEF CapabilityInv, RowInv, Processing
  <2>4. ~raced => /\ \A d \in Clients : ~Processing(d, "invoke") /\ handlers[d] = Unbound
                  /\ \A n \in DOMAIN invocations : FALSE
    <3>1. \A d \in Clients : Processing(d, "invoke") => req[d].implementation \in Implementations
      BY DEF CapabilityInv, RowInv
    <3>2. \A n \in DOMAIN invocations : invocations[n].implementation \in Implementations
      BY InvocationFacts DEF CapabilityInv
    <3> QED BY <1>4, <3>1, <3>2, CapabilityAssumption DEF CapabilityInv, BoundInv
  <2>5. BoundInv'
    BY <1>2, <1>3, <2>1, <2>4 DEF BoundInv, Processing
  <2> QED BY <1>2, <1>3, <2>1, <2>2, <2>3, <2>4, <2>5 DEF CapabilityInv
<1>5. CASE binding # Unbound
  <2>1. /\ UNCHANGED <<lifecycle, binding, visited>>
        /\ raced' \/ (~raced /\ binding = i)
    BY <1>5 DEF Configure, Commit, Compatible, CapabilityInv
  <2>2. CapabilityTypeOK' /\ Staged'
    BY <1>3, <2>1 DEF CapabilityInv, CapabilityTypeOK, Staged
  <2>3. RowInv'
    BY <1>2, <2>1 DEF CapabilityInv, RowInv, Processing
  <2>4. BoundInv'
    BY <1>2, <1>3, <2>1 DEF CapabilityInv, BoundInv, Processing
  <2> QED BY <1>2, <1>3, <2>1, <2>2, <2>3, <2>4 DEF CapabilityInv
<1> QED BY <1>4, <1>5

LEMMA SetCapabilityInv ==
  ASSUME CapabilityInv, NEW c \in Clients, SetCapability(c)
  PROVE  /\ CapabilityInv'
         /\ raced' \/ lifecycle # "retired"
<1> DEFINE to == req[c].to
           from == req[c].from
<1>1. from \in visited /\ from \in Lifecycles /\ to \in Transitions[from] /\ binding # Unbound
  BY DEF CapabilityInv, RowInv, SetCapability
<1>2. /\ lifecycle' = to /\ visited' = visited \cup {to}
      /\ UNCHANGED <<binding, handlers, invocations>>
      /\ raced' = (raced \/ lifecycle # from)
  BY DEF SetCapability, Commit
<1>3. /\ DOMAIN req' = Clients /\ req'[c].op = "none"
      /\ \A d \in Clients \ {c} : req'[d] = req[d]
  BY RequestOfOne DEF CapabilityInv, SetCapability, Commit, Idle
<1>4. to \in Lifecycles \ {"proposed"} /\ from # "retired"
      /\ (to = "active" => from \in {"approved", "suspended"})
      /\ (to = "approved" => from = "adversarial_review")
      /\ (to = "adversarial_review" => from = "isolated_test")
      /\ (to \in {"suspended", "retired"} => from \in {"active", "suspended"})
  BY <1>1 DEF Lifecycles, Transitions
<1> HIDE DEF to, from
<1>5. CapabilityTypeOK' /\ raced' \in BOOLEAN
  BY <1>2, <1>4 DEF CapabilityInv, CapabilityTypeOK
<1>6. Staged'
  BY <1>1, <1>2, <1>4 DEF CapabilityInv, Staged
<1>7. RowInv'
  BY <1>1, <1>2, <1>3 DEF CapabilityInv, RowInv, Processing
<1>8. BoundInv'
  BY <1>2, <1>3 DEF CapabilityInv, BoundInv, Processing
<1> QED BY <1>2, <1>3, <1>4, <1>5, <1>6, <1>7, <1>8 DEF CapabilityInv

\* Recording what a client runs, which it asked for when the row was active.
LEMMA RecordInv ==
  ASSUME CapabilityInv, NEW c \in Clients, NEW ok \in BOOLEAN, RecordInvocation(c, ok),
         req[c].implementation \in Implementations, "active" \in visited,
         raced \/ req[c].implementation = binding,
         NEW r, r.op \notin {"configure", "lifecycle", "invoke"},
         req' = [req EXCEPT ![c] = r], raced' \in BOOLEAN, raced => raced'
  PROVE  CapabilityInv'
<1> DEFINE row == [implementation |-> req[c].implementation, ok |-> ok]
<1>1. /\ row \in Invocation /\ row.implementation = req[c].implementation
      /\ Len(invocations) < MaxInvocations
      /\ invocations' = Append(invocations, row)
      /\ UNCHANGED <<lifecycle, binding, handlers, visited>>
  BY DEF RecordInvocation, Invocation
<1> HIDE DEF row
<1>2. /\ invocations' \in Seq(Invocation) /\ Len(invocations') =< MaxInvocations
      /\ \A n \in DOMAIN invocations' : \/ n \in DOMAIN invocations /\ invocations'[n] = invocations[n]
                                        \/ invocations'[n] = row
  <2>1. CapabilityTypeOK /\ Len(invocations) \in Nat
    BY InvocationFacts DEF CapabilityInv
  <2>2. Len(invocations) + 1 =< MaxInvocations
    BY <1>1, <2>1, CapabilityAssumption
  <2> QED BY <1>1, <2>1, <2>2, InvocationAppended
<1>3. CapabilityTypeOK'
  BY <1>1, <1>2 DEF CapabilityInv, CapabilityTypeOK, Invocation
<1>4. /\ DOMAIN req' = Clients /\ req'[c] = r
      /\ \A d \in Clients \ {c} : req'[d] = req[d]
  BY RequestOfOne DEF CapabilityInv
<1>5. RowInv'
  BY <1>1, <1>4 DEF CapabilityInv, RowInv, Processing
<1>6. BoundInv'
  BY <1>1, <1>4 DEF CapabilityInv, BoundInv, Processing
<1> QED BY <1>1, <1>2, <1>3, <1>4, <1>5, <1>6 DEF CapabilityInv, Staged

\* Each step keeps the invariant and lets what is retired rest.
LEMMA CapabilityStep ==
  ASSUME CapabilityInv, CapabilityNext
  PROVE  /\ CapabilityInv'
         /\ raced' \/ (lifecycle = "retired" =>
              lifecycle' = "retired" /\ invocations' = invocations)
<1>1. ASSUME NEW c \in Clients, CheckConfigure(c) PROVE CapabilityInv' /\ UNCHANGED capabilityVars
  BY <1>1, QuietCapability DEF CheckConfigure, Begin
<1>2. ASSUME NEW c \in Clients, Configure(c)
      PROVE  /\ CapabilityInv'
             /\ lifecycle = "retired" => lifecycle' = "retired" /\ invocations' = invocations
  BY <1>2, ConfigureInv DEF Configure, CapabilityInv, RowInv
<1>3. ASSUME NEW c \in Clients, CheckLifecycle(c) PROVE CapabilityInv' /\ UNCHANGED capabilityVars
  <2>1. lifecycle \in Lifecycles /\ lifecycle \in visited /\ binding # Unbound
    BY <1>3 DEF CheckLifecycle, CapabilityInv, CapabilityTypeOK, RowInv
  <2>2. PICK to \in Transitions[lifecycle] :
          req' = [req EXCEPT ![c] = [op |-> "lifecycle", from |-> lifecycle, to |-> to]]
    BY <1>3 DEF CheckLifecycle, Allowed, Begin
  <2> QED BY <1>3, <2>1, <2>2, QuietCapability DEF CheckLifecycle, Begin
<1>4. ASSUME NEW c \in Clients, SetCapability(c)
      PROVE  CapabilityInv' /\ (raced' \/ lifecycle # "retired")
  BY <1>4, SetCapabilityInv
<1>5. ASSUME NEW c \in Clients, StartInvocation(c) PROVE CapabilityInv' /\ UNCHANGED capabilityVars
  <2>1. /\ handlers[c] \in Implementations /\ "active" \in visited
        /\ raced \/ handlers[c] = binding
    BY <1>5 DEF StartInvocation, Invocable, CapabilityInv, CapabilityTypeOK, RowInv, BoundInv
  <2>2. req' = [req EXCEPT ![c] = [op |-> "invoke", implementation |-> handlers[c]]]
    BY <1>5 DEF StartInvocation, Begin
  <2> QED BY <1>5, <2>1, <2>2, QuietCapability DEF StartInvocation, Begin
<1>6. ASSUME NEW c \in Clients, EndInvocation(c)
      PROVE  CapabilityInv' /\ (raced' \/ lifecycle # "retired")
  <2>1. PICK ok \in BOOLEAN : RecordInvocation(c, ok)
    BY <1>6 DEF EndInvocation
  <2>2. /\ req[c].implementation \in Implementations /\ "active" \in visited
        /\ raced \/ req[c].implementation = binding
    BY <1>6 DEF EndInvocation, CapabilityInv, RowInv, BoundInv
  <2>3. /\ req' = [req EXCEPT ![c] = Idle] /\ raced' \in BOOLEAN /\ (raced => raced')
        /\ raced' \/ lifecycle = "active"
    BY <1>6 DEF EndInvocation, Commit, CapabilityInv
  <2>4. Idle.op \notin {"configure", "lifecycle", "invoke"}
    BY DEF Idle
  <2> HIDE DEF Idle
  <2> QED BY <2>1, <2>2, <2>3, <2>4, RecordInv
<1>7. ASSUME NEW c \in Clients, Restart(c)
      PROVE  CapabilityInv' /\ UNCHANGED <<lifecycle, invocations>>
  <2>1. /\ handlers' = [handlers EXCEPT ![c] = Unbound] /\ UNCHANGED <<req, raced>>
        /\ UNCHANGED <<lifecycle, binding, invocations, visited>>
    BY <1>7 DEF Restart, Atomically
  <2> QED BY <2>1 DEF CapabilityInv, CapabilityTypeOK, Staged, RowInv, BoundInv, Processing
<1>8. ASSUME NEW c \in Clients, Drop(c), UNCHANGED capabilityVars
      PROVE  CapabilityInv' /\ UNCHANGED capabilityVars
  BY <1>8, QuietCapability DEF Drop, Idle
<1> QED BY <1>1, <1>2, <1>3, <1>4, <1>5, <1>6, <1>7, <1>8 DEF CapabilityNext, capabilityVars

LEMMA CapabilityStarts ==
  ASSUME StoreInit, CapabilityInit
  PROVE  CapabilityInv
<1>1. invocations = <<>> /\ handlers = [c \in Clients |-> Unbound] /\ raced = FALSE
      /\ DOMAIN req = Clients /\ \A c \in Clients : req[c].op = "none"
  BY DEF StoreInit, CapabilityInit, Idle
<1>2. CapabilityTypeOK /\ Staged
  BY <1>1, CapabilityAssumption DEF CapabilityInit, CapabilityTypeOK, Staged, Lifecycles
<1>3. RowInv
  BY <1>1, CapabilityAssumption DEF CapabilityInit, RowInv, Processing, Lifecycles
<1>4. BoundInv
  BY <1>1 DEF BoundInv, Processing
<1>5. DOMAIN invocations = {}
  BY <1>1
<1> QED BY <1>1, <1>2, <1>3, <1>4, <1>5 DEF CapabilityInv

LEMMA CapabilityInvariant == CapabilitySpec => []CapabilityInv
<1>1. StoreInit /\ CapabilityInit => CapabilityInv
  BY CapabilityStarts
<1>2. CapabilityInv /\ [CapabilityNext]_<<capabilityVars, req, raced>> => CapabilityInv'
  <2> SUFFICES ASSUME CapabilityInv, UNCHANGED <<capabilityVars, req, raced>> PROVE CapabilityInv'
    BY CapabilityStep
  <2> QED BY DEF CapabilityInv, CapabilityTypeOK, Staged, RowInv, BoundInv, Processing, capabilityVars
<1> QED BY <1>1, <1>2, PTL DEF CapabilitySpec

\* Whatever clients configure, move and invoke the capability at once, it has
\* only run once it was reviewed; and without a race it ran as what its row is
\* bound to, and once retired it rests.
THEOREM CapabilityStaysGoverned == CapabilitySpec => CapabilityIsGoverned
<1>1. CapabilitySpec => []CapabilityInv
  BY CapabilityInvariant
<1>2. CapabilityInv => InvokedAsReviewed
  BY DEF CapabilityInv, Staged, InvokedAsReviewed
<1>3. CapabilityInv /\ [CapabilityNext]_<<capabilityVars, req, raced>> =>
        [raced' \/ (lifecycle = "retired" =>
           lifecycle' = "retired" /\ invocations' = invocations)]_<<capabilityVars, req, raced>>
  BY CapabilityStep
<1> QED BY <1>1, <1>2, <1>3, PTL
        DEF CapabilitySpec, CapabilityIsGoverned, RetiredCapabilityRests

-----------------------------------------------------------------------------
(* The immune cascade.                                                     *)

\* Every set of natural numbers that is not empty has a least element.
LEMMA LeastOf ==
  ASSUME NEW T \in SUBSET Nat, T # {}
  PROVE  \E x \in T : \A y \in T : x =< y
<1>1. PICK R : R = OpToRel(<, Nat)
  OBVIOUS
<1>2. IsWellFoundedOn(R, Nat)
  BY <1>1, NatLessThanWellFounded
<1>3. \A x, y \in Nat : <<y, x>> \in R <=> y < x
  BY <1>1 DEF OpToRel
<1>4. PICK x \in T : \A y \in T : ~(<<y, x>> \in R)
  BY <1>2, WFMin
<1>5. \A y \in T : x \in Nat /\ y \in Nat /\ ~(y < x)
  BY <1>3, <1>4
<1>6. \A y \in T : x =< y
  BY <1>5
<1> QED BY <1>4, <1>6

\* How severe an anomaly may be.
LEMMA ScoreType ==
  ASSUME NEW n \in Int
  PROVE  Score(n) \in Int /\ Score(n) =< 100
BY DEF Score

LEMMA AnomalyTypes ==
  ASSUME NEW e \in EventType
  PROVE  /\ DOMAIN Anomalies(e) = 1..9
         /\ \A i \in 1..9 : Severity(e, i) \in Int /\ Severity(e, i) =< 100
<1> DEFINE half == e.consequence \div 2
<1>1. /\ half \in Int /\ e.rise \in Int /\ e.undeclared \in Int /\ e.agreement \in Int
  BY DEF EventType
<1>2. /\ Score(e.rise + half) \in Int /\ Score(e.rise + half) =< 100
      /\ Score(50 + 10 * e.undeclared + half) \in Int /\ Score(50 + 10 * e.undeclared + half) =< 100
      /\ Score(50 + 10 * e.agreement) \in Int /\ Score(50 + 10 * e.agreement) =< 100
      /\ Score(50 + half) \in Int /\ Score(50 + half) =< 100
  <2> HIDE DEF half
  <2> QED BY <1>1, ScoreType
<1> HIDE DEF half
<1>3. /\ DOMAIN Screened(e) = 1..8 /\ Len(Screened(e)) = 8
      /\ \A i \in 1..8 : Screened(e)[i].severity \in Int /\ Screened(e)[i].severity =< 100
  BY <1>2 DEF Screened, half
<1>4. Behavioral(e).severity \in Int /\ Behavioral(e).severity =< 100
  BY <1>2 DEF Behavioral, half
<1>5. /\ DOMAIN Anomalies(e) = 1..9
      /\ \A i \in 1..8 : Anomalies(e)[i] = Screened(e)[i]
      /\ Anomalies(e)[9] = Behavioral(e)
  BY DEF Anomalies
<1> QED BY <1>3, <1>4, <1>5 DEF Severity

Worse(e, i, j) ==
  Severity(e, i) > Severity(e, j) \/ (Severity(e, i) = Severity(e, j) /\ i =< j)

\* Among any anomalies that were detected there is a worst one.
LEMMA SomeWorst ==
  ASSUME NEW e \in EventType, NEW I \in SUBSET (1..9), I # {}
  PROVE  \E i \in I : \A j \in I : Worse(e, i, j)
<1> DEFINE Mild == {100 - Severity(e, i) : i \in I}
<1>1. \A i \in I : Severity(e, i) \in Int /\ 100 - Severity(e, i) \in Nat
  BY AnomalyTypes
<1>2. Mild \in SUBSET Nat /\ Mild # {}
  BY <1>1
<1>3. PICK m \in Mild : \A n \in Mild : m =< n
  <2> HIDE DEF Mild
  <2> QED BY <1>2, LeastOf
<1> DEFINE First == {i \in I : 100 - Severity(e, i) = m}
<1>4. First \in SUBSET Nat /\ First # {}
  <2>1. I \in SUBSET Nat
    OBVIOUS
  <2>2. PICK k \in I : 100 - Severity(e, k) = m
    BY <1>3
  <2> QED BY <2>1, <2>2
<1>5. PICK i \in First : \A j \in First : i =< j
  <2> HIDE DEF First
  <2> QED BY <1>4, LeastOf
<1>6. ASSUME NEW j \in I PROVE Worse(e, i, j)
  <2>1. 100 - Severity(e, i) =< 100 - Severity(e, j)
    BY <1>3, <1>5
  <2>2. Severity(e, i) = Severity(e, j) => i =< j
    BY <1>5
  <2>3. Severity(e, i) \in Int /\ Severity(e, j) \in Int
    BY <1>1, <1>5
  <2>4. Severity(e, i) > Severity(e, j) \/ Severity(e, i) = Severity(e, j)
    BY <2>1, <2>3
  <2> QED BY <2>2, <2>4 DEF Worse
<1> QED BY <1>5, <1>6

\* What an investigator is assigned is one of the anomalies that wake it, and no
\* other of these is more severe.
LEMMA WorstAssigned ==
  ASSUME NEW e \in EventType, NEW a \in Investigators, Wakes(a, e) # {}
  PROVE  /\ Worst(a, e) \in Wakes(a, e)
         /\ \A j \in Wakes(a, e) : Severity(e, Worst(a, e)) >= Severity(e, j)
<1>1. Wakes(a, e) \in SUBSET (1..9)
  BY AnomalyTypes DEF Wakes, Detected
<1>2. \E i \in Wakes(a, e) : \A j \in Wakes(a, e) : Worse(e, i, j)
  BY <1>1, SomeWorst
<1>3. /\ Worst(a, e) \in Wakes(a, e)
      /\ \A j \in Wakes(a, e) : Worse(e, Worst(a, e), j)
  BY <1>2 DEF Worst, Worse
<1> QED BY <1>1, <1>3, AnomalyTypes DEF Worse

LEMMA InvestigatorSet ==
  /\ DOMAIN WakeDetectors = Investigators /\ Tier0 \notin Investigators
  /\ \A a \in Investigators : \A d : d \in WakeDetectors[a] => <<d, a>> \in Findable
<1>1. DOMAIN WakeDetectors = Investigators
  BY DEF WakeDetectors
<1>2. Tier0 \notin Investigators
  BY DEF Investigators, Tier0, Reinforcement, Equivalence, Provenance
<1>3. \A a \in Investigators : \A d : d \in WakeDetectors[a] => <<d, a>> \in Findable
  BY DEF Findable
<1> QED BY <1>1, <1>2, <1>3

\* What AnomaliesAnswered says of one incident.
Answers(findings, tolerated, e) ==
  /\ \A anomaly \in Detect(e) : \E f \in findings :
       /\ f.severity >= anomaly.severity
       /\ \/ f.detector = anomaly.detector
          \/ f.agent # Tier0 /\ anomaly.detector \in WakeDetectors[f.agent]
  /\ \A f \in findings : Detect(e) # {} =>
       IF f.outcome = "pass"
       THEN /\ f.agent # Tier0
            /\ \/ <<f.detector, f.agent>> \in tolerated
               \/ e.type = "leap" /\ ~e.pathological
       ELSE Consequential(e) => f.outcome = "escalate"

Tolerated == {p \in DOMAIN reports : reports[p] >= 2}

\* A finding without an agent, and the finding of an investigator.
LEMMA UnassignedFinding ==
  ASSUME NEW e \in EventType, NEW anomaly \in Unassigned(e), Detect(e) # {}
  PROVE  \E f \in Findings(e) :
           /\ f.severity = anomaly.severity /\ f.detector = anomaly.detector
<1> DEFINE f == Finding(anomaly.detector, Tier0,
                        IF Consequential(e) THEN "escalate" ELSE "flag", anomaly.severity)
<1>1. f \in Findings(e)
  BY DEF Findings
<1>2. f.severity = anomaly.severity /\ f.detector = anomaly.detector
  BY DEF Finding
<1> QED BY <1>1, <1>2

LEMMA InvestigatorFinding ==
  ASSUME NEW e \in EventType, NEW a \in Investigators, Wakes(a, e) # {},
         reports \in [Findable -> 0..2]
  PROVE  LET f == Investigate(a, e) IN
         /\ f.agent = a
         /\ \A i \in Wakes(a, e) : f.severity >= Severity(e, i)
         /\ IF f.outcome = "pass"
            THEN <<f.detector, a>> \in Tolerated \/ (e.type = "leap" /\ ~e.pathological)
            ELSE Consequential(e) => f.outcome = "escalate"
<1> DEFINE anomaly == Assigned(a, e)
           suppressed == Suppressed(anomaly.detector, a, e)
           outcome == IF suppressed THEN "pass" ELSE Specialist(a, e)
           f == Investigate(a, e)
<1>1. /\ anomaly.detector \in WakeDetectors[a]
      /\ \A i \in Wakes(a, e) : anomaly.severity >= Severity(e, i)
  BY WorstAssigned DEF Assigned, Severity, Wakes
<1>2. suppressed => <<anomaly.detector, a>> \in Tolerated \/ (e.type = "leap" /\ ~e.pathological)
  BY <1>1, InvestigatorSet DEF Suppressed, Tolerated
<1>3. Specialist(a, e) # "pass" /\ (Consequential(e) => Specialist(a, e) = "escalate")
  BY DEF Specialist, Investigators
<1>4. /\ f.agent = a /\ f.severity = anomaly.severity /\ f.detector = anomaly.detector
      /\ f.outcome = outcome
  BY DEF Investigate, Finding
<1> HIDE DEF anomaly, suppressed, f
<1> QED BY <1>1, <1>2, <1>3, <1>4 DEF f

LEMMA FindingsAnswer ==
  ASSUME NEW e \in EventType, reports \in [Findable -> 0..2]
  PROVE  /\ Answers(Findings(e), Tolerated, e)
         /\ \A f \in Findings(e) : f.agent \in Investigators => Awake(f.agent)
<1>1. CASE Detect(e) = {}
  <2>1. Findings(e) = {Finding("tier0", Tier0, "pass", 0)}
    BY <1>1 DEF Findings
  <2> QED BY <1>1, <2>1, InvestigatorSet DEF Answers, Finding
<1>2. CASE Detect(e) # {}
  <2>1. ASSUME NEW anomaly \in Detect(e)
        PROVE  \E f \in Findings(e) :
                 /\ f.severity >= anomaly.severity
                 /\ \/ f.detector = anomaly.detector
                    \/ f.agent # Tier0 /\ anomaly.detector \in WakeDetectors[f.agent]
    <3>1. PICK i \in Detected(e) : anomaly = Anomalies(e)[i]
      BY DEF Detect
    <3>2. anomaly.severity \in Int /\ anomaly.severity = Severity(e, i)
      BY <3>1, AnomalyTypes DEF Detected, Severity
    <3>3. CASE anomaly \in Unassigned(e)
      BY <1>2, <3>2, <3>3, UnassignedFinding
    <3>4. CASE anomaly \notin Unassigned(e)
      <4>1. PICK a \in Investigators : Awake(a) /\ anomaly.detector \in WakeDetectors[a]
        BY <3>4 DEF Unassigned
      <4>2. i \in Wakes(a, e)
        BY <3>1, <4>1 DEF Wakes
      <4>3. Investigate(a, e) \in Findings(e)
        BY <1>2, <4>1, <4>2 DEF Findings
      <4>4. /\ Investigate(a, e).severity >= anomaly.severity
            /\ Investigate(a, e).agent = a
        BY <3>2, <4>2, InvestigatorFinding
      <4>5. a # Tier0
        BY InvestigatorSet
      <4> QED BY ONLY <4>1, <4>3, <4>4, <4>5
    <3> QED BY <3>3, <3>4
  <2>2. ASSUME NEW f \in Findings(e)
        PROVE  /\ f.agent \in Investigators => Awake(f.agent)
               /\ IF f.outcome = "pass"
                  THEN /\ f.agent # Tier0
                       /\ \/ <<f.detector, f.agent>> \in Tolerated
                          \/ e.type = "leap" /\ ~e.pathological
                  ELSE Consequential(e) => f.outcome = "escalate"
    <3>1. CASE \E a \in Investigators : Awake(a) /\ Wakes(a, e) # {} /\ f = Investigate(a, e)
      <4>1. PICK a \in Investigators : Awake(a) /\ Wakes(a, e) # {} /\ f = Investigate(a, e)
        BY <3>1
      <4>2. /\ f.agent = a
            /\ IF f.outcome = "pass"
               THEN <<f.detector, a>> \in Tolerated \/ (e.type = "leap" /\ ~e.pathological)
               ELSE Consequential(e) => f.outcome = "escalate"
        BY <4>1, InvestigatorFinding
      <4> QED BY <4>1, <4>2, InvestigatorSet
    <3>2. CASE \E anomaly \in Unassigned(e) :
                 f = Finding(anomaly.detector, Tier0,
                             IF Consequential(e) THEN "escalate" ELSE "flag", anomaly.severity)
      BY <3>2, InvestigatorSet DEF Finding
    <3> QED BY <1>2, <3>1, <3>2 DEF Findings
  <2> QED BY <1>2, <2>1, <2>2 DEF Answers
<1> QED BY <1>1, <1>2

-----------------------------------------------------------------------------
ImmuneSpec == StoreInit /\ ImmuneInit /\ [][ImmuneNext]_<<immuneVars, req, raced>>

\* An incident that has been answered.
Answered(incident) == Answers(incident.findings, incident.tolerated, incident.event)

\* Whom an incident found retired is retired still, if nothing raced.
Rested(incident) ==
  \A a \in Investigators : a \in incident.retired => ~Awake(a)

ImmuneInv ==
  /\ agents \in [Investigators -> {"absent", "sleeping", "retired"}]
  /\ reports \in [Findable -> 0..2]
  /\ DOMAIN req = Clients /\ raced \in BOOLEAN
  /\ \E S : incidents \in Seq(S)
  /\ \A c \in Clients : Processing(c, "retire agent") => req[c].a \in Investigators
  /\ \A i \in DOMAIN incidents :
       /\ incidents[i].event \in EventType /\ Answered(incidents[i])
       /\ incidents[i].retired \subseteq Investigators
  /\ raced \/ \A i \in DOMAIN incidents : Rested(incidents[i])
  /\ RetiredAgentsRest

\* What a new incident leaves of the others.
LEMMA IncidentAppended ==
  ASSUME ImmuneInv, NEW row, incidents' = Append(incidents, row)
  PROVE  /\ \E S : incidents' \in Seq(S)
         /\ Len(incidents) \in Nat /\ DOMAIN incidents = 1..Len(incidents)
         /\ DOMAIN incidents' = 1..(Len(incidents) + 1) /\ Len(incidents') = Len(incidents) + 1
         /\ incidents'[Len(incidents) + 1] = row
         /\ \A i \in DOMAIN incidents : incidents'[i] = incidents[i]
<1>1. PICK S : incidents \in Seq(S)
  BY DEF ImmuneInv
<1>2. incidents \in Seq(S \cup {row}) /\ row \in S \cup {row}
  BY <1>1
<1> DEFINE T == S \cup {row}
<1> HIDE DEF T
<1>3. /\ incidents' \in Seq(T)
      /\ Len(incidents) \in Nat /\ DOMAIN incidents = 1..Len(incidents)
      /\ DOMAIN incidents' = 1..(Len(incidents) + 1) /\ Len(incidents') = Len(incidents) + 1
      /\ incidents'[Len(incidents) + 1] = row
      /\ \A i \in DOMAIN incidents : incidents'[i] = incidents[i]
  BY <1>2 DEF T
<1> QED BY <1>3


\* Requests to retire an agent name an agent.
RetireRequests == \A c \in Clients : Processing(c, "retire agent") => req[c].a \in Investigators

LEMMA NewIncident ==
  ASSUME ImmuneInv, NEW e \in EventType, incidents' = Append(incidents, Incident(e)),
         reports' = reports, agents' \in [Investigators -> {"absent", "sleeping", "retired"}],
         \A a \in Investigators : Awake(a)' <=> Awake(a),
         DOMAIN req' = Clients, RetireRequests', raced' = raced
  PROVE  ImmuneInv'
<1> DEFINE row == Incident(e)
<1>1. /\ row.event = e /\ row.findings = Findings(e) /\ row.tolerated = Tolerated
      /\ row.retired = {a \in Investigators : ~Awake(a)}
  BY DEF Incident, Tolerated
<1> HIDE DEF row
<1>2. PICK new \in Nat : new = Len(incidents) + 1
  BY IncidentAppended
<1>3. /\ \E S : incidents' \in Seq(S)
      /\ DOMAIN incidents' = DOMAIN incidents \cup {new} /\ incidents'[new] = row
      /\ \A i \in DOMAIN incidents : i < new /\ incidents'[i] = incidents[i]
  BY <1>2, IncidentAppended DEF row
<1>4. /\ Answers(Findings(e), Tolerated, e)
      /\ \A f \in Findings(e) : f.agent \in Investigators => Awake(f.agent)
  BY FindingsAnswer DEF ImmuneInv
<1>5. /\ row.event \in EventType /\ Answered(row) /\ row.retired \subseteq Investigators
      /\ \A f \in row.findings : f.agent \in Investigators => Awake(f.agent)
      /\ \A a \in row.retired : ~Awake(a)
  BY <1>1, <1>4 DEF Answered
<1>6. \A i \in DOMAIN incidents' :
        /\ incidents'[i].event \in EventType /\ Answered(incidents'[i])
        /\ incidents'[i].retired \subseteq Investigators
  BY <1>3, <1>5 DEF ImmuneInv
<1>7. raced \/ \A i \in DOMAIN incidents' : \A a \in Investigators :
        a \in incidents'[i].retired => ~Awake(a)
  BY <1>3, <1>5 DEF ImmuneInv, Rested
<1>8. ASSUME ~raced, NEW i \in DOMAIN incidents', NEW j \in DOMAIN incidents', i =< j,
             NEW f \in incidents'[j].findings
      PROVE  f.agent \notin incidents'[i].retired
  <2>1. CASE j \in DOMAIN incidents
    <3>1. i \in DOMAIN incidents
      BY <1>3, <1>8, <2>1, IncidentAppended, <1>2
    <3> QED BY <1>3, <1>8, <2>1, <3>1 DEF ImmuneInv, RetiredAgentsRest
  <2>2. CASE j = new
    BY <1>3, <1>5, <1>6, <1>7, <1>8, <2>2
  <2> QED BY <1>3, <2>1, <2>2
<1>9. raced' \/ \A i \in DOMAIN incidents' : \A a \in Investigators :
         a \in incidents'[i].retired => ~(Awake(a)')
  BY <1>7
<1> QED BY <1>3, <1>6, <1>8, <1>9 DEF ImmuneInv, RetiredAgentsRest, Rested, RetireRequests, Answered, Answers

\* Everything else leaves the incidents alone, and wakes nobody who was retired
\* unless it raced.
LEMMA NoIncident ==
  ASSUME ImmuneInv, incidents' = incidents, reports' \in [Findable -> 0..2],
         agents' \in [Investigators -> {"absent", "sleeping", "retired"}],
         raced' \/ \A a \in Investigators : ~Awake(a) => ~(Awake(a)'),
         DOMAIN req' = Clients, RetireRequests', raced' \in BOOLEAN, raced => raced'
  PROVE  ImmuneInv'
<1>1. raced' \/ \A i \in DOMAIN incidents : \A a \in Investigators :
        a \in incidents[i].retired => ~(Awake(a)')
  BY DEF ImmuneInv, Rested
<1> QED BY <1>1 DEF ImmuneInv, RetiredAgentsRest, Rested, RetireRequests, Answered, Answers

\* A client that begins, or ends, without touching the cascade.
LEMMA QuietImmune ==
  ASSUME ImmuneInv, NEW c \in Clients, NEW r, req' = [req EXCEPT ![c] = r],
         r.op = "retire agent" => r.a \in Investigators,
         UNCHANGED immuneVars, raced' = raced
  PROVE  ImmuneInv'
<1>1. DOMAIN req' = Clients /\ RetireRequests'
  BY RequestOfOne DEF ImmuneInv, RetireRequests, Processing
<1>2. UNCHANGED <<agents, incidents, reports>>
  BY DEF immuneVars
<1>3. /\ agents' \in [Investigators -> {"absent", "sleeping", "retired"}]
      /\ reports' \in [Findable -> 0..2] /\ raced' \in BOOLEAN
  BY <1>2 DEF ImmuneInv
<1>4. /\ \E S : incidents' \in Seq(S)
      /\ \A i \in DOMAIN incidents' :
           /\ incidents'[i].event \in EventType /\ Answered(incidents'[i])
           /\ incidents'[i].retired \subseteq Investigators
  BY <1>2 DEF ImmuneInv
<1>5. (raced \/ \A i \in DOMAIN incidents : Rested(incidents[i]))'
  <2>1. raced \/ \A i \in DOMAIN incidents : Rested(incidents[i])
    BY DEF ImmuneInv
  <2> QED BY <1>2, <2>1 DEF Rested, Awake
<1>6. RetiredAgentsRest'
  <2>1. RetiredAgentsRest
    BY DEF ImmuneInv
  <2> QED BY <1>2, <2>1 DEF RetiredAgentsRest
<1> QED BY <1>1, <1>3, <1>4, <1>5, <1>6 DEF ImmuneInv, RetireRequests, Answered, Answers

LEMMA ImmuneStepInv ==
  ASSUME ImmuneInv, NEW c \in Clients, ImmuneStep(c)
  PROVE  ImmuneInv'
<1>1. CASE CheckAgents(c)
  BY <1>1, QuietImmune DEF CheckAgents, Begin
<1>2. CASE EnsureAgents(c)
  <2>1. DOMAIN req' = Clients /\ RetireRequests'
    BY <1>2, RequestOfOne DEF ImmuneInv, RetireRequests, Processing, EnsureAgents, Commit, Idle
  <2>2. agents' \in [Investigators -> {"absent", "sleeping", "retired"}]
    BY <1>2 DEF EnsureAgents, ImmuneInv
  <2>3. raced' \/ \A a \in Investigators : ~Awake(a) => ~(Awake(a)')
    BY <1>2 DEF EnsureAgents, Commit, Awake
  <2> QED BY <1>2, <2>1, <2>2, <2>3, NoIncident DEF EnsureAgents, Commit, ImmuneInv
<1>3. CASE Process(c)
  <2>1. PICK e \in Events : incidents' = Append(incidents, Incident(e))
    BY <1>3 DEF Process
  <2>2. e \in EventType
    BY ImmuneAssumption
  <2>3. /\ UNCHANGED <<agents, reports, req, raced>> /\ \A a : Awake(a)' = Awake(a)
        /\ RetireRequests'
    BY <1>3 DEF Process, Atomically, Awake, ImmuneInv, RetireRequests, Processing
  <2> QED BY <2>1, <2>2, <2>3, NewIncident DEF ImmuneInv
<1>4. CASE RecordFalsePositive(c)
  <2>1. PICK p : reports[p] < 2 /\ reports' = [reports EXCEPT ![p] = @ + 1]
    BY <1>4 DEF RecordFalsePositive
  <2>2. \A n \in 0..2 : n < 2 => n + 1 \in 0..2
    OBVIOUS
  <2>3. reports' \in [Findable -> 0..2]
    BY <2>1, <2>2 DEF ImmuneInv
  <2>4. /\ UNCHANGED <<agents, incidents, req, raced>> /\ \A a : Awake(a)' = Awake(a)
        /\ RetireRequests'
    BY <1>4 DEF RecordFalsePositive, Atomically, Awake, ImmuneInv, RetireRequests, Processing
  <2> QED BY <2>3, <2>4, NoIncident DEF ImmuneInv
<1>5. CASE CheckRetire(c)
  <2>1. PICK a \in Investigators : Begin(c, [op |-> "retire agent", a |-> a])
    BY <1>5 DEF CheckRetire
  <2> QED BY <1>5, <2>1, QuietImmune DEF CheckRetire, Begin
<1>6. CASE RetireAgent(c)
  <2>1. DOMAIN req' = Clients /\ RetireRequests'
    BY <1>6, RequestOfOne DEF ImmuneInv, RetireRequests, Processing, RetireAgent, Commit, Idle
  <2>2. agents' \in [Investigators -> {"absent", "sleeping", "retired"}]
    BY <1>6 DEF RetireAgent, ImmuneInv
  <2>3. \A a \in Investigators : ~Awake(a) => ~(Awake(a)')
    BY <1>6 DEF RetireAgent, ImmuneInv, Awake
  <2> QED BY <1>6, <2>1, <2>2, <2>3, NoIncident DEF RetireAgent, Commit, ImmuneInv
<1> QED BY <1>1, <1>2, <1>3, <1>4, <1>5, <1>6 DEF ImmuneStep

LEMMA ImmuneStarts ==
  ASSUME StoreInit, ImmuneInit
  PROVE  ImmuneInv
<1>1. incidents \in Seq({}) /\ DOMAIN incidents = {}
  BY DEF ImmuneInit
<1>2. /\ agents \in [Investigators -> {"absent", "sleeping", "retired"}]
      /\ reports \in [Findable -> 0..2]
  BY DEF ImmuneInit
<1>3. DOMAIN req = Clients /\ raced = FALSE /\ \A c \in Clients : ~Processing(c, "retire agent")
  BY DEF StoreInit, Processing, Idle
<1> QED BY <1>1, <1>2, <1>3 DEF ImmuneInv, RetiredAgentsRest

LEMMA ImmuneInvariant == ImmuneSpec => []ImmuneInv
<1>1. StoreInit /\ ImmuneInit => ImmuneInv
  BY ImmuneStarts
<1>2. ImmuneInv /\ [ImmuneNext]_<<immuneVars, req, raced>> => ImmuneInv'
  <2> SUFFICES ASSUME ImmuneInv, [ImmuneNext]_<<immuneVars, req, raced>> PROVE ImmuneInv'
    OBVIOUS
  <2>1. CASE UNCHANGED <<immuneVars, req, raced>>
    <3>1. /\ UNCHANGED <<agents, incidents, reports, req, raced>> /\ \A a : Awake(a)' = Awake(a)
          /\ RetireRequests'
      BY <2>1 DEF immuneVars, Awake, ImmuneInv, RetireRequests, Processing
    <3> QED BY <3>1, NoIncident DEF ImmuneInv
  <2>2. ASSUME NEW c \in Clients, ImmuneStep(c) PROVE ImmuneInv'
    BY <2>2, ImmuneStepInv
  <2>3. ASSUME NEW c \in Clients, Drop(c), UNCHANGED immuneVars PROVE ImmuneInv'
    BY <2>3, QuietImmune DEF Drop, Idle
  <2> QED BY <2>1, <2>2, <2>3 DEF ImmuneNext
<1> QED BY <1>1, <1>2, PTL DEF ImmuneSpec

\* Whatever an event holds and whoever is retired, every anomaly has an answer,
\* and without a race none of a retired investigator.
THEOREM CascadeKeepsAnswering == ImmuneSpec => []CascadeAnswers
<1>1. ImmuneSpec => []ImmuneInv
  BY ImmuneInvariant
<1>2. ImmuneInv => CascadeAnswers
  BY DEF ImmuneInv, CascadeAnswers, AnomaliesAnswered, Answered, Answers
<1> QED BY <1>1, <1>2, PTL

-----------------------------------------------------------------------------
(* The publication of bundles.                                             *)

PublicationSpec == StoreInit /\ BundleInit /\ [][BundleNext]_<<bundleVars, req, raced>>

PublishRequests ==
  [op : {"publish"}, step : {"look", "aside", "rename", "clean"}, overwrite : BOOLEAN,
   bundle : Bundles, backup : Bundles \cup {Nothing}]

Publisher(c) == Processing(c, "publish")
Cleaning(c) == Publishing(c, "clean")

\* Each builder has a bundle of its own, which nobody sees before it is renamed,
\* and, once it has moved one aside, a backup of its own.
OwnBundles ==
  \A c \in Clients : Publisher(c) =>
    /\ req[c].bundle \in 1..built
    /\ ~Cleaning(c) => req[c].bundle # output /\ req[c].bundle \notin backups
    /\ req[c].step \in {"look", "aside"} => req[c].backup = Nothing
    /\ req[c].step = "aside" => req[c].overwrite
    /\ req[c].backup # Nothing => req[c].backup \in backups
    /\ \A d \in Clients \ {c} : Publisher(d) =>
         /\ req[c].bundle # req[d].bundle
         /\ req[c].backup # Nothing => req[c].backup # req[d].backup

\* What those who are done publishing will remove is not all there is.
SomeRemains ==
  \A c \in Clients : Cleaning(c) =>
    output # Nothing \/ \E b \in backups : \A d \in Clients : Cleaning(d) => req[d].backup # b

\* Without a death or such a failure, somebody who can put a bundle back is at work.
SomeReturns ==
  \/ died \/ output # Nothing \/ backups = {}
  \/ \E c \in Clients : Publishing(c, "rename") /\ req[c].backup # Nothing

BundleInv ==
  /\ BundleTypeOK /\ req \in [Clients -> {Idle} \cup PublishRequests]
  /\ output \in 0..built \cup {Nothing} /\ backups \subseteq 0..built /\ output \notin backups
  /\ OwnBundles /\ SomeRemains /\ SomeReturns

\* The property of one step: see BundlesSurvive.
BundleKept ==
  /\ output # Nothing \/ backups # {} => output' # Nothing \/ backups' # {}
  /\ output # Nothing /\ output' # output =>
       /\ output' = Nothing /\ output \in backups'
       /\ \E c \in Clients : Publishing(c, "aside") /\ req[c].overwrite

LEMMA BundleNumbers ==
  ASSUME BundleInv
  PROVE  /\ built \in Nat /\ MaxBundles \in Nat /\ built =< MaxBundles
         /\ \A b \in 0..built : b # Nothing /\ b \in Bundles
         /\ built + 1 \notin 0..built
         /\ 0..built \subseteq 0..(built + 1) /\ 1..built \subseteq 1..(built + 1)
         /\ built + 1 \in 1..(built + 1) /\ Nothing \notin backups
BY BundleAssumption DEF BundleInv, BundleTypeOK, Nothing, Bundles

\* A builder that ends; deaths and failures to put a backup back are counted, and a
\* backup may stay behind only if there is an output or one of those happened.
LEMMA BuilderEnds ==
  ASSUME BundleInv, NEW c \in Clients, req' = [req EXCEPT ![c] = Idle],
         UNCHANGED <<built, output, backups>>, died' \in BOOLEAN,
         died' \/ (~died /\ (output # Nothing \/ req[c].backup = Nothing \/ ~Publishing(c, "rename")))
  PROVE  BundleInv'
<1>1. /\ req' \in [Clients -> {Idle} \cup PublishRequests] /\ req'[c].op = "none"
      /\ \A d \in Clients \ {c} : req'[d] = req[d]
  BY DEF BundleInv, Idle
<1>2. OwnBundles'
  BY <1>1 DEF BundleInv, OwnBundles, Publisher, Cleaning, Publishing, Processing
<1>3. SomeRemains'
  BY <1>1 DEF BundleInv, SomeRemains, Cleaning, Publishing, Processing, Nothing
<1>4. SomeReturns'
  BY <1>1 DEF BundleInv, SomeReturns, Publishing, Processing, Nothing
<1> QED BY <1>1, <1>2, <1>3, <1>4 DEF BundleInv, BundleTypeOK, Nothing, Bundles

\* A builder that goes on to another step without touching a directory.
LEMMA BuilderGoesOn ==
  ASSUME BundleInv, NEW c \in Clients, Publishing(c, "look"), NEW step \in {"aside", "rename"},
         GoOn(c, step), UNCHANGED bundleVars, step = "aside" => req[c].overwrite
  PROVE  BundleInv'
<1>1. /\ req[c] \in PublishRequests
      /\ req' = [req EXCEPT ![c] = [req[c] EXCEPT !.step = step]]
  BY DEF BundleInv, Publishing, Processing, Idle, GoOn
<1>2. /\ req' \in [Clients -> {Idle} \cup PublishRequests]
      /\ req'[c].op = "publish" /\ req'[c].step = step
      /\ req'[c].bundle = req[c].bundle /\ req'[c].backup = req[c].backup
      /\ req'[c].overwrite = req[c].overwrite
      /\ \A d \in Clients \ {c} : req'[d] = req[d]
  BY <1>1 DEF BundleInv, PublishRequests
<1>3. OwnBundles'
  BY <1>2 DEF BundleInv, OwnBundles, Publisher, Cleaning, Publishing, Processing, bundleVars, Nothing
<1>4. SomeRemains'
  BY <1>2 DEF BundleInv, SomeRemains, Cleaning, Publishing, Processing, bundleVars, Nothing
<1>5. SomeReturns'
  BY <1>2 DEF BundleInv, SomeReturns, Publishing, Processing, bundleVars, Nothing
<1> QED BY <1>2, <1>3, <1>4, <1>5 DEF BundleInv, BundleTypeOK, Nothing, Bundles, bundleVars

LEMMA BuildInv ==
  ASSUME BundleInv, NEW c \in Clients, Build(c)
  PROVE  BundleInv' /\ UNCHANGED <<output, backups>>
<1>1. PICK overwrite \in BOOLEAN :
        Begin(c, [op |-> "publish", step |-> "look", overwrite |-> overwrite,
                  bundle |-> built + 1, backup |-> Nothing])
  BY DEF Build
<1> DEFINE r == [op |-> "publish", step |-> "look", overwrite |-> overwrite,
                 bundle |-> built + 1, backup |-> Nothing]
<1>2. /\ built' = built + 1 /\ built' \in 0..MaxBundles /\ UNCHANGED <<output, backups, died>>
      /\ req[c] = Idle /\ req' = [req EXCEPT ![c] = r]
  <2>1. built' = built + 1 /\ built < MaxBundles /\ UNCHANGED <<output, backups, died>>
    BY DEF Build
  <2>2. built' \in 0..MaxBundles
    BY <2>1, BundleNumbers
  <2>3. req[c] = Idle /\ req' = [req EXCEPT ![c] = r]
    BY <1>1 DEF Begin
  <2> QED BY <2>1, <2>2, <2>3
<1>3. /\ r \in PublishRequests /\ r.op = "publish" /\ r.step = "look" /\ r.bundle = built + 1
      /\ r.backup = Nothing
  BY <1>2, BundleNumbers DEF PublishRequests, Bundles
<1> HIDE DEF r
<1>4. /\ req' \in [Clients -> {Idle} \cup PublishRequests] /\ req'[c] = r
      /\ \A d \in Clients \ {c} : req'[d] = req[d]
  BY <1>2, <1>3 DEF BundleInv
<1>5. OwnBundles'
  BY <1>2, <1>3, <1>4, BundleNumbers
     DEF BundleInv, OwnBundles, Publisher, Cleaning, Publishing, Processing, Nothing
<1>6. SomeRemains'
  BY <1>2, <1>3, <1>4 DEF BundleInv, SomeRemains, Cleaning, Publishing, Processing, Nothing
<1>7. SomeReturns'
  BY <1>2, <1>3, <1>4 DEF BundleInv, SomeReturns, Publishing, Processing, Nothing, Idle
<1> QED BY <1>2, <1>4, <1>5, <1>6, <1>7, BundleNumbers DEF BundleInv, BundleTypeOK, Nothing, Bundles

LEMMA MoveAsideInv ==
  ASSUME BundleInv, NEW c \in Clients, Publishing(c, "aside"), output # Nothing,
         output' = Nothing, backups' = backups \cup {output},
         req' = [req EXCEPT ![c].step = "rename", ![c].backup = output],
         UNCHANGED <<built, died>>
  PROVE  BundleInv'
<1>1. req[c] \in PublishRequests /\ output \in 0..built
  BY DEF BundleInv, Publishing, Processing, Idle
<1>2. /\ req' \in [Clients -> {Idle} \cup PublishRequests]
      /\ req'[c].op = "publish" /\ req'[c].step = "rename"
      /\ req'[c].bundle = req[c].bundle /\ req'[c].backup = output
      /\ req'[c].overwrite = req[c].overwrite
      /\ \A d \in Clients \ {c} : req'[d] = req[d]
  <2> DEFINE renaming == [req[c] EXCEPT !.step = "rename"]
             r == [renaming EXCEPT !.backup = output]
  <2>1. output \in Bundles
    BY <1>1, BundleNumbers
  <2>2. /\ renaming \in PublishRequests /\ renaming.op = "publish"
        /\ renaming.step = "rename" /\ renaming.bundle = req[c].bundle
        /\ renaming.overwrite = req[c].overwrite
    BY <1>1 DEF PublishRequests, Publishing, Processing
  <2>3. /\ r \in PublishRequests /\ r.op = "publish" /\ r.step = "rename"
        /\ r.bundle = req[c].bundle /\ r.backup = output /\ r.overwrite = req[c].overwrite
    <3> HIDE DEF renaming
    <3> QED BY <2>1, <2>2 DEF PublishRequests
  <2>4. req' = [[req EXCEPT ![c] = renaming] EXCEPT ![c] = r]
    BY DEF BundleInv
  <2> HIDE DEF renaming, r
  <2> QED BY <2>2, <2>3, <2>4 DEF BundleInv
<1>3. OwnBundles'
  BY <1>1, <1>2, BundleNumbers
     DEF BundleInv, OwnBundles, Publisher, Cleaning, Publishing, Processing, Nothing
<1>4. SomeRemains'
  BY <1>1, <1>2, BundleNumbers
     DEF BundleInv, OwnBundles, Publisher, SomeRemains, Cleaning, Publishing, Processing, Nothing
<1>5. SomeReturns'
  BY <1>2 DEF SomeReturns, Publishing, Processing, Nothing
<1> QED BY <1>1, <1>2, <1>3, <1>4, <1>5, BundleNumbers
        DEF BundleInv, BundleTypeOK, Nothing, Bundles

LEMMA RenameInv ==
  ASSUME BundleInv, NEW c \in Clients, Rename(c)
  PROVE  BundleInv' /\ output' # Nothing /\ output = Nothing
<1>1. /\ Publishing(c, "rename") /\ req[c] \in PublishRequests /\ output = Nothing
      /\ output' = req[c].bundle /\ req[c].bundle \in 1..built /\ req[c].bundle \notin backups
      /\ UNCHANGED <<built, backups, died>>
      /\ req' = [req EXCEPT ![c] = [req[c] EXCEPT !.step = "clean"]]
  BY DEF BundleInv, OwnBundles, Publisher, Cleaning, Publishing, Processing, Idle, Rename, GoOn
<1>2. /\ req' \in [Clients -> {Idle} \cup PublishRequests]
      /\ req'[c].op = "publish" /\ req'[c].step = "clean"
      /\ req'[c].bundle = req[c].bundle /\ req'[c].backup = req[c].backup
      /\ req'[c].overwrite = req[c].overwrite
      /\ \A d \in Clients \ {c} : req'[d] = req[d]
  BY <1>1 DEF BundleInv, PublishRequests
<1>3. 1..built \subseteq 0..built
  BY BundleNumbers
<1>4. output' # Nothing /\ output' \in Bundles /\ output' \in 0..built
  BY <1>1, <1>3, BundleNumbers
<1>5. OwnBundles'
  BY <1>1, <1>2 DEF BundleInv, OwnBundles, Publisher, Cleaning, Publishing, Processing, Nothing
<1>6. SomeRemains' /\ SomeReturns'
  BY <1>4 DEF SomeRemains, SomeReturns, Nothing
<1> QED BY <1>1, <1>2, <1>4, <1>5, <1>6 DEF BundleInv, BundleTypeOK, Nothing, Bundles

LEMMA RestoreInv ==
  ASSUME BundleInv, NEW c \in Clients, Publishing(c, "rename"), output = Nothing,
         req[c].backup # Nothing, output' = req[c].backup, backups' = backups \ {req[c].backup},
         req' = [req EXCEPT ![c] = Idle], UNCHANGED <<built, died>>
  PROVE  BundleInv' /\ output' # Nothing
<1>1. /\ req' \in [Clients -> {Idle} \cup PublishRequests] /\ req'[c].op = "none"
      /\ \A d \in Clients \ {c} : req'[d] = req[d]
  BY DEF BundleInv, Idle
<1>2. req[c].backup \in backups
  BY DEF BundleInv, OwnBundles, Publisher, Publishing
<1>3. output' # Nothing /\ output' \in Bundles /\ output' \in 0..built
  BY <1>2, BundleNumbers DEF BundleInv
<1>4. OwnBundles'
  BY <1>1, <1>2 DEF BundleInv, OwnBundles, Publisher, Cleaning, Publishing, Processing, Nothing
<1>5. SomeRemains' /\ SomeReturns'
  BY <1>3 DEF SomeRemains, SomeReturns, Nothing
<1> QED BY <1>1, <1>3, <1>4, <1>5 DEF BundleInv, BundleTypeOK, Nothing, Bundles

LEMMA RemoveBackupInv ==
  ASSUME BundleInv, NEW c \in Clients, RemoveBackup(c)
  PROVE  BundleInv' /\ output' = output /\ (output # Nothing \/ backups' # {})
<1>1. /\ Publishing(c, "clean") /\ backups' = backups \ {req[c].backup}
      /\ req' = [req EXCEPT ![c] = Idle] /\ UNCHANGED <<built, output, died>>
  BY DEF RemoveBackup, Commit
<1>2. /\ req' \in [Clients -> {Idle} \cup PublishRequests] /\ req'[c].op = "none"
      /\ \A d \in Clients \ {c} : req'[d] = req[d]
  BY <1>1 DEF BundleInv, Idle
<1>3. OwnBundles'
  BY <1>1, <1>2 DEF BundleInv, OwnBundles, Publisher, Cleaning, Publishing, Processing, Nothing
<1>4. output # Nothing \/ \E b \in backups : \A d \in Clients : Cleaning(d) => req[d].backup # b
  BY <1>1 DEF BundleInv, SomeRemains, Cleaning
<1>5. SomeRemains' /\ (output # Nothing \/ backups' # {})
  BY <1>1, <1>2, <1>4 DEF SomeRemains, Cleaning, Publishing, Processing, Nothing
<1>6. SomeReturns'
  BY <1>1, <1>2 DEF BundleInv, SomeReturns, Publishing, Processing, Nothing
<1> QED BY <1>1, <1>2, <1>3, <1>5, <1>6 DEF BundleInv, BundleTypeOK, Nothing, Bundles

\* Each step keeps the invariant and some bundle.
LEMMA BundleStep ==
  ASSUME BundleInv, BundleNext
  PROVE  BundleInv' /\ BundleKept
<1>1. ASSUME NEW c \in Clients, Build(c) PROVE BundleInv' /\ UNCHANGED <<output, backups>>
  BY <1>1, BuildInv
<1>2. ASSUME NEW c \in Clients, LookAtOutput(c) PROVE BundleInv' /\ UNCHANGED <<output, backups>>
  <2>1. CASE output = Nothing /\ GoOn(c, "rename")
    BY <1>2, <2>1, BuilderGoesOn DEF LookAtOutput, bundleVars
  <2>2. CASE output # Nothing /\ req[c].overwrite /\ GoOn(c, "aside")
    BY <1>2, <2>2, BuilderGoesOn DEF LookAtOutput, bundleVars
  <2>3. CASE output # Nothing /\ Commit(c, FALSE)
    BY <1>2, <2>3, BuilderEnds DEF LookAtOutput, bundleVars, Commit, BundleInv, BundleTypeOK
  <2> QED BY <1>2, <2>1, <2>2, <2>3 DEF LookAtOutput
<1>3. ASSUME NEW c \in Clients, MoveAside(c) PROVE BundleInv' /\ BundleKept
  <2>1. CASE output = Nothing
    <3>1. BundleInv' /\ UNCHANGED <<output, backups>>
      BY <1>3, <2>1, BuilderEnds DEF MoveAside, Publishing, Commit, BundleInv, BundleTypeOK
    <3> QED BY <3>1 DEF BundleKept, Nothing
  <2>2. CASE output # Nothing
    <3>1. BundleInv'
      BY <1>3, <2>2, MoveAsideInv DEF MoveAside
    <3>2. Publishing(c, "aside") /\ req[c].overwrite
      BY <1>3 DEF MoveAside, BundleInv, OwnBundles, Publisher, Publishing
    <3> QED BY <1>3, <2>2, <3>1, <3>2 DEF MoveAside, BundleKept, Nothing
  <2> QED BY <2>1, <2>2
<1>4. ASSUME NEW c \in Clients, Rename(c) PROVE BundleInv' /\ BundleKept
  BY <1>4, RenameInv DEF BundleKept, Nothing
<1>5. ASSUME NEW c \in Clients, Restore(c) PROVE BundleInv' /\ BundleKept
  <2>1. CASE /\ output = Nothing /\ req[c].backup # Nothing
             /\ output' = req[c].backup /\ backups' = backups \ {req[c].backup} /\ UNCHANGED died
    BY <1>5, <2>1, RestoreInv DEF Restore, Commit, BundleKept, Nothing
  <2>2. CASE /\ output # Nothing \/ req[c].backup = Nothing
             /\ UNCHANGED <<output, backups, died>>
    <3>1. BundleInv'
      BY <1>5, <2>2, BuilderEnds DEF Restore, Commit, BundleInv, BundleTypeOK
    <3> QED BY <2>2, <3>1 DEF BundleKept, Nothing
  <2>3. CASE died' = TRUE /\ UNCHANGED <<output, backups>>
    <3>1. BundleInv'
      BY <1>5, <2>3, BuilderEnds DEF Restore, Commit
    <3> QED BY <2>3, <3>1 DEF BundleKept, Nothing
  <2> QED BY <1>5, <2>1, <2>2, <2>3 DEF Restore
<1>6. ASSUME NEW c \in Clients, RemoveBackup(c) PROVE BundleInv' /\ BundleKept
  BY <1>6, RemoveBackupInv DEF BundleKept, Nothing
<1>7. ASSUME NEW c \in Clients, DieBuilding(c) PROVE BundleInv' /\ UNCHANGED <<output, backups>>
  BY <1>7, BuilderEnds DEF DieBuilding, Drop
<1>8. ASSUME BundleInv', UNCHANGED <<output, backups>> PROVE BundleInv' /\ BundleKept
  BY <1>8 DEF BundleKept, Nothing
<1> QED BY <1>1, <1>2, <1>3, <1>4, <1>5, <1>6, <1>7, <1>8 DEF BundleNext

LEMMA BundleInvariant == PublicationSpec => []BundleInv
<1>1. StoreInit /\ BundleInit => BundleInv
  <2> SUFFICES ASSUME StoreInit, BundleInit PROVE BundleInv
    OBVIOUS
  <2>1. /\ req \in [Clients -> {Idle} \cup PublishRequests] /\ backups = {}
        /\ \A c \in Clients : ~Publisher(c) /\ ~Cleaning(c)
    BY DEF StoreInit, BundleInit, Publisher, Cleaning, Publishing, Processing, Idle
  <2>2. BundleTypeOK /\ output \in 0..built \cup {Nothing}
    <3>1. 0 \in 0..MaxBundles /\ 0 \in 0..0
      BY BundleAssumption
    <3> QED BY <3>1 DEF BundleInit, BundleTypeOK, Bundles, Nothing
  <2> QED BY <2>1, <2>2 DEF BundleInv, OwnBundles, SomeRemains, SomeReturns
<1>2. BundleInv /\ [BundleNext]_<<bundleVars, req, raced>> => BundleInv'
  <2> SUFFICES ASSUME BundleInv, UNCHANGED <<bundleVars, req, raced>> PROVE BundleInv'
    BY BundleStep
  <2>1. UNCHANGED <<built, output, backups, died, req>>
    BY DEF bundleVars
  <2>2. OwnBundles' /\ SomeRemains' /\ SomeReturns'
    BY <2>1 DEF BundleInv, OwnBundles, SomeRemains, SomeReturns, Publisher, Cleaning, Publishing,
       Processing, Nothing
  <2> QED BY <2>1, <2>2 DEF BundleInv, BundleTypeOK, Bundles, Nothing
<1> QED BY <1>1, <1>2, PTL DEF PublicationSpec

\* Wherever builders die, once there is a bundle there is one for good, and only
\* a builder that may overwrite takes it out of the output directory; and if none
\* dies, the output is there again whenever nobody is at work.
THEOREM PublicationStaysSafe == PublicationSpec => PublicationIsSafe
<1>1. PublicationSpec => []BundleInv
  BY BundleInvariant
<1>2. BundleInv => OutputReturns
  <2> SUFFICES ASSUME BundleInv, NEW c \in Clients, Publishing(c, "rename") PROVE req[c] # Idle
    BY DEF BundleInv, SomeReturns, OutputReturns
  <2> QED BY DEF Publishing, Processing, Idle
<1>3. BundleInv /\ [BundleNext]_<<bundleVars, req, raced>> =>
        [BundleKept]_<<bundleVars, req, raced>>
  BY BundleStep
<1> QED BY <1>1, <1>2, <1>3, PTL
        DEF PublicationSpec, PublicationIsSafe, BundlesSurvive, BundleKept

-----------------------------------------------------------------------------
(* Divergence detection.                                                   *)

DetectionSpec == StoreInit /\ DetectionInit /\ [][DetectionNext]_<<detectionVars, req, raced>>

EvaluationRequests ==
  [op : {"evaluate"}, pattern : Patterns, k : Nat, integrate : BOOLEAN,
   step : {"invoke", "record", "window", "recommend", "wake"}, window : Nat,
   implementation : {Knn}]
Recommendations == [calibration : Nat, outcome : {"pass", "wake", "escalate"}]
Windows == [label : {"normal", "divergent"}, recommendations : SUBSET Recommendations]
Invocations == [implementation : {Knn}, ok : BOOLEAN]
Calibrations ==
  [kind : {"statistical", "classical"}, halvings : Nat, source : Nat, window : Nat]

ClassicalWindows == {w \in DOMAIN windows : \E k \in Recommended(w) : Classical(k)}
Successes == {n \in DOMAIN invocations : invocations[n].ok}

\* The clients whose detector has run, for a window that does not say so yet.
Pending ==
  {c \in Clients : /\ Processing(c, "evaluate") /\ req[c].step \in {"window", "recommend"}
                   /\ Classical(req[c].k)}

\* Each window of the classical detector, and each client that is about to write
\* one, has a successful invocation of its own.
Matched(f, g, W, P, S) ==
  /\ f \in [W -> S] /\ g \in [P -> S]
  /\ \A v, w \in W : f[v] = f[w] => v = w
  /\ \A c, d \in P : g[c] = g[d] => c = d
  /\ \A w \in W, c \in P : f[w] # g[c]

Backed == \E f, g : Matched(f, g, ClassicalWindows, Pending, Successes)

\* A window is filled once, by the client that inserted it.
WindowsInv ==
  /\ \A w \in DOMAIN windows : Recommended(w) \subseteq 0..Len(calibrations)
  /\ \A w \in alarms : w \in DOMAIN windows /\ Alarming(windows[w].recommendations)
  /\ \A c \in Clients :
       /\ Processing(c, "evaluate") => req[c].k \in 0..Len(calibrations)
       /\ Evaluating(c, "recommend") =>
            /\ req[c].window \in DOMAIN windows
            /\ windows[req[c].window].recommendations = {}
            /\ \A d \in Clients : Evaluating(d, "recommend") /\ req[d].window = req[c].window => c = d
       /\ Evaluating(c, "wake") =>
            /\ req[c].window \in DOMAIN windows
            /\ Alarming(windows[req[c].window].recommendations)

\* A calibration that was downweighted names a false positive of its own.
DownweightsInv ==
  /\ \A n \in DOMAIN calibrations : calibrations[n].source # 0 =>
       /\ calibrations[n].window \in DOMAIN windows
       /\ FalsePositive(calibrations[n].window, calibrations[n].source)
  /\ \A m, n \in DOMAIN calibrations :
       calibrations[m].source # 0 /\ calibrations[m].source = calibrations[n].source
         /\ calibrations[m].window = calibrations[n].window => m = n

DetectionInv ==
  /\ \A c \in Clients : Processing(c, "evaluate") => req[c] \in EvaluationRequests
  /\ DOMAIN req = Clients
  /\ windows \in Seq(Windows) /\ calibrations \in Seq(Calibrations)
  /\ invocations \in Seq(Invocations)
  /\ WindowsInv /\ DownweightsInv /\ Backed

LEMMA Appended ==
  ASSUME NEW S, NEW s \in Seq(S), NEW x \in S
  PROVE  /\ Append(s, x) \in Seq(S) /\ Len(s) \in Nat /\ DOMAIN s = 1..Len(s)
         /\ Len(Append(s, x)) = Len(s) + 1
         /\ DOMAIN Append(s, x) = DOMAIN s \cup {Len(s) + 1}
         /\ Len(s) + 1 \notin DOMAIN s
         /\ Append(s, x)[Len(s) + 1] = x
         /\ \A i \in DOMAIN s : Append(s, x)[i] = s[i]
OBVIOUS

\* The counts that the invariant is for.
LEMMA MatchedCount ==
  ASSUME NEW W, NEW P, NEW S, IsFiniteSet(S), NEW f, NEW g, Matched(f, g, W, P, S)
  PROVE  Cardinality(W) =< Cardinality(S)
<1>1. f \in Injection(W, S)
  BY DEF Matched, Injection, IsInjective
<1> QED BY <1>1, FS_Injection

LEMMA DetectionCounts ==
  ASSUME DetectionInv
  PROVE  DetectionsAreBacked
<1>1. IsFiniteSet(DOMAIN windows) /\ IsFiniteSet(DOMAIN invocations)
  <2>2. PICK n \in Nat : DOMAIN invocations = 1..n
    <3>1. invocations \in Seq(Invocations)
      BY DEF DetectionInv
    <3> HIDE DEF Invocations
    <3> QED BY <3>1
  <2>3. PICK m \in Nat : DOMAIN windows = 1..m
    <3>1. windows \in Seq(Windows)
      BY DEF DetectionInv
    <3> HIDE DEF Windows
    <3> QED BY <3>1
  <2> QED BY <2>2, <2>3, FS_Interval
<1>2. Cardinality(ClassicalWindows) =< Cardinality(Successes)
  <2>1. IsFiniteSet(Successes)
    BY <1>1, FS_Subset DEF Successes
  <2> QED BY <2>1, MatchedCount DEF DetectionInv, Backed
<1>3. ASSUME NEW k \in DOMAIN calibrations
      PROVE  Cardinality({n \in DOMAIN calibrations : calibrations[n].source = k})
               =< Cardinality({w \in DOMAIN windows : FalsePositive(w, k)})
  <2> DEFINE N == {n \in DOMAIN calibrations : calibrations[n].source = k}
             T == {w \in DOMAIN windows : FalsePositive(w, k)}
             h == [n \in N |-> calibrations[n].window]
  <2>1. k # 0
    <3>1. calibrations \in Seq(Calibrations)
      BY DEF DetectionInv
    <3> HIDE DEF Calibrations
    <3> QED BY <3>1
  <2>2. h \in [N -> T] /\ \A m, n \in N : h[m] = h[n] => m = n
    BY <2>1 DEF DetectionInv, DownweightsInv
  <2> HIDE DEF N, h
  <2>3. h \in Injection(N, T)
    BY <2>2 DEF Injection, IsInjective
  <2>4. IsFiniteSet(T)
    BY <1>1, FS_Subset
  <2>5. Cardinality(N) =< Cardinality(T)
    <3> HIDE DEF T
    <3> QED BY <2>3, <2>4, FS_Injection
  <2> QED BY <2>5 DEF N
<1>4. \A w \in alarms : Alarming(windows[w].recommendations)
  BY DEF DetectionInv, WindowsInv
<1> QED BY <1>2, <1>3, <1>4 DEF DetectionsAreBacked, ClassicalWindows, Successes

\* What the steps make of the invocations that are matched.
LEMMA MatchedShrinks ==
  ASSUME NEW W, NEW P, NEW S, NEW f, NEW g, Matched(f, g, W, P, S),
         NEW V \in SUBSET W, NEW Q \in SUBSET P, NEW T, S \subseteq T
  PROVE  \E ff, gg : Matched(ff, gg, V, Q, T)
<1>1. Matched([v \in V |-> f[v]], [c \in Q |-> g[c]], V, Q, T)
  BY DEF Matched
<1> QED BY <1>1

LEMMA MatchedStarts ==
  ASSUME NEW W, NEW P, NEW S, NEW f, NEW g, Matched(f, g, W, P, S),
         NEW c, NEW n, n \notin S
  PROVE  \E ff, gg : Matched(ff, gg, W, P \cup {c}, S \cup {n})
<1> DEFINE gg == [d \in P \cup {c} |-> IF d = c THEN n ELSE g[d]]
<1>1. \A w \in W : f[w] \in S
  BY DEF Matched
<1>2. \A d \in P : g[d] \in S
  BY DEF Matched
<1>3. f \in [W -> S \cup {n}]
  BY DEF Matched
<1>4. gg \in [P \cup {c} -> S \cup {n}]
  BY <1>2
<1>5. \A d, e \in P \cup {c} : gg[d] = gg[e] => d = e
  BY <1>2 DEF Matched
<1>6. \A w \in W, d \in P \cup {c} : f[w] # gg[d]
  BY <1>1 DEF Matched
<1>7. \A v, w \in W : f[v] = f[w] => v = w
  BY DEF Matched
<1> HIDE DEF gg
<1>8. Matched(f, gg, W, P \cup {c}, S \cup {n})
  BY <1>3, <1>4, <1>5, <1>6, <1>7 DEF Matched
<1> QED BY <1>8

LEMMA MatchedEnds ==
  ASSUME NEW W, NEW P, NEW S, NEW f, NEW g, Matched(f, g, W, P, S),
         NEW c \in P, NEW w, w \notin W
  PROVE  \E ff, gg : Matched(ff, gg, W \cup {w}, P \ {c}, S)
<1> DEFINE ff == [v \in W \cup {w} |-> IF v = w THEN g[c] ELSE f[v]]
           gg == [d \in P \ {c} |-> g[d]]
<1>1. ff \in [W \cup {w} -> S] /\ gg \in [P \ {c} -> S]
  BY DEF Matched
<1>2. \A v, u \in W \cup {w} : ff[v] = ff[u] => v = u
  BY DEF Matched
<1>3. \A d, e \in P \ {c} : gg[d] = gg[e] => d = e
  BY DEF Matched
<1>4. \A v \in W \cup {w}, d \in P \ {c} : ff[v] # gg[d]
  BY DEF Matched
<1> HIDE DEF ff, gg
<1>5. Matched(ff, gg, W \cup {w}, P \ {c}, S)
  BY <1>1, <1>2, <1>3, <1>4 DEF Matched
<1> QED BY <1>5

\* A client that goes on with no window in hand.
LEMMA QuietDetection ==
  ASSUME DetectionInv, NEW c \in Clients, NEW r, req' = [req EXCEPT ![c] = r],
         \/ r.op # "evaluate"
         \/ /\ r \in EvaluationRequests /\ r.k \in 0..Len(calibrations)
            /\ r.step = "window" => ~Classical(r.k)
            /\ r.step \notin {"recommend", "wake"},
         UNCHANGED <<windows, calibrations, invocations, alarms>>
  PROVE  DetectionInv'
<1>1. /\ DOMAIN req' = Clients /\ req'[c] = r
      /\ \A d \in Clients \ {c} : req'[d] = req[d]
  BY DEF DetectionInv
<1>2. /\ windows' = windows /\ calibrations' = calibrations
      /\ invocations' = invocations /\ alarms' = alarms
  OBVIOUS
<1>3. \A d \in Clients : Processing(d, "evaluate")' => req'[d] \in EvaluationRequests
  BY <1>1 DEF DetectionInv, Processing
<1>4. WindowsInv'
  BY <1>1, <1>2 DEF DetectionInv, WindowsInv, Evaluating, Processing, Recommended
<1>5. DownweightsInv'
  BY <1>2 DEF DetectionInv, DownweightsInv, FalsePositive
<1>6. Backed'
  <2>1. PICK f, g : Matched(f, g, ClassicalWindows, Pending, Successes)
    BY DEF DetectionInv, Backed
  <2>2. ClassicalWindows' = ClassicalWindows /\ Successes' = Successes
    BY <1>2 DEF ClassicalWindows, Successes, Recommended, Classical
  <2>3. Pending' \in SUBSET Pending
    BY <1>1, <1>2 DEF Pending, Processing, Classical
  <2>4. \E ff, gg : Matched(ff, gg, ClassicalWindows, Pending', Successes)
    BY <2>1, <2>3, MatchedShrinks
  <2> QED BY <2>2, <2>4 DEF Backed
<1> QED BY <1>1, <1>2, <1>3, <1>4, <1>5, <1>6 DEF DetectionInv

LEMMA CheckEvaluationInv ==
  ASSUME DetectionInv, NEW c \in Clients, CheckEvaluation(c)
  PROVE  DetectionInv'
<1>1. PICK p \in Patterns, k \in 0..Len(calibrations), integrate \in BOOLEAN :
        Begin(c, [op |-> "evaluate", pattern |-> p, k |-> k, integrate |-> integrate,
                  step |-> IF Classical(k) THEN "invoke" ELSE "window",
                  window |-> 0, implementation |-> Knn])
  BY DEF CheckEvaluation
<1> DEFINE r == [op |-> "evaluate", pattern |-> p, k |-> k, integrate |-> integrate,
                 step |-> IF Classical(k) THEN "invoke" ELSE "window",
                 window |-> 0, implementation |-> Knn]
<1>2. /\ r \in EvaluationRequests /\ r.k \in 0..Len(calibrations)
      /\ r.step = "window" => ~Classical(r.k)
      /\ r.step \notin {"recommend", "wake"}
  BY DEF EvaluationRequests
<1>3. req' = [req EXCEPT ![c] = r]
  BY <1>1 DEF Begin
<1>4. UNCHANGED <<windows, calibrations, invocations, alarms>>
  BY DEF CheckEvaluation, detectionVars, divergenceVars, capabilityVars
<1> HIDE DEF r
<1> QED BY <1>2, <1>3, <1>4, QuietDetection

LEMMA StartKnnInv ==
  ASSUME DetectionInv, NEW c \in Clients, StartKnn(c)
  PROVE  DetectionInv'
<1> DEFINE r == [req[c] EXCEPT !.step = "record"]
<1>1. req[c] \in EvaluationRequests /\ req[c].k \in 0..Len(calibrations)
  BY DEF DetectionInv, WindowsInv, StartKnn, Evaluating
<1>2. r \in EvaluationRequests /\ r.k \in 0..Len(calibrations) /\ r.step = "record"
  BY <1>1 DEF EvaluationRequests
<1>3. req' = [req EXCEPT ![c] = r]
  BY DEF StartKnn, NextStep
<1>4. UNCHANGED <<windows, calibrations, invocations, alarms>>
  BY DEF StartKnn, detectionVars, divergenceVars, capabilityVars
<1> HIDE DEF r
<1> QED BY <1>2, <1>3, <1>4, QuietDetection

\* A client whose request becomes one that evaluates nothing.
LEMMA UnrelatedInv ==
  ASSUME DetectionInv, NEW c \in Clients, UNCHANGED divergenceVars,
         \/ CheckLifecycle(c)
         \/ SetCapability(c)
         \/ Drop(c) /\ UNCHANGED capabilityVars
  PROVE  DetectionInv'
<1>1. UNCHANGED <<windows, calibrations, invocations, alarms>>
  BY DEF divergenceVars, capabilityVars, CheckLifecycle, SetCapability
<1>2. \E r : r.op # "evaluate" /\ req' = [req EXCEPT ![c] = r]
  <2>1. CASE CheckLifecycle(c)
    <3>1. PICK target \in Lifecycles :
            Begin(c, [op |-> "lifecycle", from |-> lifecycle, to |-> target])
      BY <2>1 DEF CheckLifecycle
    <3> DEFINE r == [op |-> "lifecycle", from |-> lifecycle, to |-> target]
    <3>2. r.op # "evaluate" /\ req' = [req EXCEPT ![c] = r]
      BY <3>1 DEF Begin
    <3> QED BY <3>2
  <2>2. CASE SetCapability(c) \/ Drop(c)
    <3>1. Idle.op # "evaluate" /\ req' = [req EXCEPT ![c] = Idle]
      BY <2>2 DEF SetCapability, Drop, Commit, Idle
    <3> QED BY <3>1
  <2> QED BY <2>1, <2>2
<1> QED BY <1>1, <1>2, QuietDetection

\* A new calibration: from nothing, or from an unused false positive.
LEMMA CalibrationsAppended ==
  ASSUME DetectionInv, NEW x \in Calibrations, calibrations' = Append(calibrations, x),
         x.source # 0 =>
           /\ x.source \in DOMAIN calibrations /\ x.window \in DOMAIN windows
           /\ FalsePositive(x.window, x.source) /\ Unused(x.window, x.source),
         UNCHANGED <<windows, invocations, alarms, req>>
  PROVE  DetectionInv'
<1> DEFINE n == Len(calibrations) + 1
<1>1. /\ calibrations' \in Seq(Calibrations) /\ Len(calibrations) \in Nat
      /\ DOMAIN calibrations = 1..Len(calibrations)
      /\ Len(calibrations') = n /\ DOMAIN calibrations' = DOMAIN calibrations \cup {n}
      /\ n \notin DOMAIN calibrations /\ calibrations'[n] = x
      /\ \A i \in DOMAIN calibrations : calibrations'[i] = calibrations[i]
  <2>1. calibrations \in Seq(Calibrations)
    BY DEF DetectionInv
  <2> HIDE DEF Calibrations
  <2> QED BY <2>1, Appended
<1>2. 0..Len(calibrations) \subseteq 0..Len(calibrations')
  BY <1>1
<1> HIDE DEF n
<1>3. \A k \in 0..Len(calibrations) : Classical(k)' <=> Classical(k)
  BY <1>1 DEF Classical
<1>4. WindowsInv'
  BY <1>2 DEF DetectionInv, WindowsInv, Evaluating, Processing, Recommended
<1>5. DownweightsInv'
  <2>1. \A i \in DOMAIN calibrations' : calibrations'[i].source # 0 =>
          /\ calibrations'[i].window \in DOMAIN windows
          /\ FalsePositive(calibrations'[i].window, calibrations'[i].source)
    BY <1>1 DEF DetectionInv, DownweightsInv
  <2>2. \A i \in DOMAIN calibrations :
          ~(x.source # 0 /\ calibrations[i].source = x.source /\ calibrations[i].window = x.window)
    BY DEF Unused
  <2>3. \A i, j \in DOMAIN calibrations' :
          calibrations'[i].source # 0 /\ calibrations'[i].source = calibrations'[j].source
            /\ calibrations'[i].window = calibrations'[j].window => i = j
    BY <1>1, <2>2 DEF DetectionInv, DownweightsInv
  <2>4. \A w, k : FalsePositive(w, k)' <=> FalsePositive(w, k)
    BY DEF FalsePositive
  <2> QED BY <2>1, <2>3, <2>4 DEF DownweightsInv
<1>6. Backed'
  <2>1. ClassicalWindows' = ClassicalWindows
    BY <1>3 DEF ClassicalWindows, Recommended, DetectionInv, WindowsInv
  <2>2. Pending' = Pending
    BY <1>3 DEF Pending, Processing, DetectionInv, WindowsInv
  <2>3. Successes' = Successes
    BY DEF Successes
  <2> QED BY <2>1, <2>2, <2>3 DEF DetectionInv, Backed
<1> QED BY <1>1, <1>4, <1>5, <1>6 DEF DetectionInv, Processing

LEMMA CalibrateInv ==
  ASSUME DetectionInv, NEW c \in Clients, Calibrate(c)
  PROVE  DetectionInv'
<1>1. PICK kind \in {"statistical", "classical"} :
        calibrations' = Append(calibrations,
                               [kind |-> kind, halvings |-> 0, source |-> 0, window |-> 0])
  BY DEF Calibrate
<1> DEFINE x == [kind |-> kind, halvings |-> 0, source |-> 0, window |-> 0]
<1>2. x \in Calibrations /\ x.source = 0
  BY DEF Calibrations
<1>3. UNCHANGED <<windows, invocations, alarms, req>>
  BY DEF Calibrate, Atomically, capabilityVars
<1> HIDE DEF x
<1> QED BY <1>1, <1>2, <1>3, CalibrationsAppended DEF x

LEMMA DownweightInv ==
  ASSUME DetectionInv, NEW c \in Clients, Downweight(c)
  PROVE  DetectionInv'
<1>1. PICK w \in DOMAIN windows, k \in DOMAIN calibrations :
        /\ FalsePositive(w, k) /\ Unused(w, k)
        /\ calibrations' = Append(calibrations,
             [kind |-> calibrations[k].kind, source |-> k, window |-> w,
              halvings |-> IF calibrations[k].halvings < MaxHalvings
                           THEN calibrations[k].halvings + 1 ELSE calibrations[k].halvings])
  BY DEF Downweight
<1> DEFINE x == [kind |-> calibrations[k].kind, source |-> k, window |-> w,
                 halvings |-> IF calibrations[k].halvings < MaxHalvings
                              THEN calibrations[k].halvings + 1 ELSE calibrations[k].halvings]
<1>2. calibrations[k] \in Calibrations /\ k \in Nat /\ w \in Nat
  <2>1. calibrations \in Seq(Calibrations) /\ windows \in Seq(Windows)
    BY DEF DetectionInv
  <2> HIDE DEF Calibrations, Windows
  <2> QED BY <2>1
<1>3. x \in Calibrations /\ x.source = k /\ x.window = w
  BY <1>2 DEF Calibrations
<1>4. UNCHANGED <<windows, invocations, alarms, req>>
  BY DEF Downweight, Atomically, capabilityVars
<1>5. calibrations' = Append(calibrations, x)
  BY <1>1
<1> HIDE DEF x
<1> QED BY <1>1, <1>3, <1>4, <1>5, CalibrationsAppended

LEMMA EndKnnInv ==
  ASSUME DetectionInv, NEW c \in Clients, EndKnn(c)
  PROVE  DetectionInv'
<1>1. PICK ok \in BOOLEAN :
        /\ RecordInvocation(c, ok)
        /\ req' = [req EXCEPT ![c] = IF ok THEN [req[c] EXCEPT !.step = "window"] ELSE Idle]
  BY DEF EndKnn, Continues
<1> DEFINE n == Len(invocations) + 1
           x == [implementation |-> req[c].implementation, ok |-> ok]
           r == IF ok THEN [req[c] EXCEPT !.step = "window"] ELSE Idle
<1>2. req[c] \in EvaluationRequests /\ req[c].k \in 0..Len(calibrations)
  BY DEF DetectionInv, WindowsInv, EndKnn, Evaluating
<1>3. x \in Invocations /\ x.ok = ok
  BY <1>2 DEF EvaluationRequests, Invocations
<1>4. /\ invocations' \in Seq(Invocations)
      /\ DOMAIN invocations' = DOMAIN invocations \cup {n}
      /\ n \notin DOMAIN invocations /\ invocations'[n] = x
      /\ \A i \in DOMAIN invocations : invocations'[i] = invocations[i]
  <2>1. invocations \in Seq(Invocations) /\ invocations' = Append(invocations, x)
    BY <1>1 DEF DetectionInv, RecordInvocation
  <2> HIDE DEF Invocations, x
  <2> QED BY <1>3, <2>1, Appended
<1>5. r.op = "none" \/ (r \in EvaluationRequests /\ r.step = "window" /\ r.k = req[c].k)
  BY <1>2 DEF EvaluationRequests, Idle
<1>6. /\ windows' = windows /\ calibrations' = calibrations /\ alarms' = alarms
      /\ DOMAIN req' = Clients /\ req'[c] = r
      /\ \A d \in Clients \ {c} : req'[d] = req[d]
  BY <1>1 DEF EndKnn, divergenceVars, DetectionInv
<1> HIDE DEF n, x, r
<1>7. \A d \in Clients : Processing(d, "evaluate")' => req'[d] \in EvaluationRequests
  BY <1>5, <1>6 DEF DetectionInv, Processing
<1>8. WindowsInv'
  BY <1>2, <1>5, <1>6, SMTT(30) DEF DetectionInv, WindowsInv, Evaluating, Processing, Recommended
<1>9. DownweightsInv'
  BY <1>6 DEF DetectionInv, DownweightsInv, FalsePositive
<1>10. Backed'
  <2>1. PICK f, g : Matched(f, g, ClassicalWindows, Pending, Successes)
    BY DEF DetectionInv, Backed
  <2>2. ClassicalWindows' = ClassicalWindows
    BY <1>6 DEF ClassicalWindows, Recommended, Classical
  <2>3. \A d \in Pending' : d \in Pending \/ d = c
    BY <1>6 DEF Pending, Processing, Classical
  <2>4. CASE ok
    <3>1. Successes' = Successes \cup {n} /\ n \notin Successes
      BY <1>3, <1>4, <2>4 DEF Successes
    <3>2. PICK ff, gg : Matched(ff, gg, ClassicalWindows, Pending \cup {c}, Successes \cup {n})
      BY <2>1, <3>1, MatchedStarts
    <3>3. Pending' \in SUBSET (Pending \cup {c})
      BY <2>3
    <3>4. \E fff, ggg : Matched(fff, ggg, ClassicalWindows, Pending', Successes \cup {n})
      BY <3>2, <3>3, MatchedShrinks
    <3> QED BY <2>2, <3>1, <3>4 DEF Backed
  <2>5. CASE ~ok
    <3>1. Successes' = Successes
      BY <1>3, <1>4, <2>5 DEF Successes
    <3>2. Pending' \in SUBSET Pending
      BY <1>6, <2>3, <2>5 DEF Pending, Processing, r, Idle
    <3>3. \E ff, gg : Matched(ff, gg, ClassicalWindows, Pending', Successes)
      BY <2>1, <3>2, MatchedShrinks
    <3> QED BY <2>2, <3>1, <3>3 DEF Backed
  <2> QED BY <2>4, <2>5
<1> QED BY <1>4, <1>6, <1>7, <1>8, <1>9, <1>10 DEF DetectionInv

LEMMA InsertWindowInv ==
  ASSUME DetectionInv, DivergenceAssumption, NEW c \in Clients, InsertWindow(c)
  PROVE  DetectionInv'
<1> DEFINE n == Len(windows) + 1
           x == [label |-> req[c].pattern.label, recommendations |-> {}]
           r == [req[c] EXCEPT !.step = "recommend", !.window = n]
<1>1. req[c] \in EvaluationRequests /\ req[c].k \in 0..Len(calibrations)
      /\ Processing(c, "evaluate") /\ req[c].step = "window"
  BY DEF DetectionInv, WindowsInv, InsertWindow, Evaluating
<1>2. x \in Windows /\ x.recommendations = {}
  BY <1>1 DEF EvaluationRequests, Windows, DivergenceAssumption, PatternType
<1>3. /\ windows' \in Seq(Windows) /\ Len(windows) \in Nat /\ DOMAIN windows = 1..Len(windows)
      /\ DOMAIN windows' = DOMAIN windows \cup {n}
      /\ n \notin DOMAIN windows /\ windows'[n] = x
      /\ \A i \in DOMAIN windows : windows'[i] = windows[i]
  <2>1. windows \in Seq(Windows) /\ windows' = Append(windows, x)
    BY DEF DetectionInv, InsertWindow
  <2> HIDE DEF Windows, x
  <2> QED BY <1>2, <2>1, Appended
<1>4. r \in EvaluationRequests /\ r.step = "recommend" /\ r.window = n /\ r.k = req[c].k
      /\ r.op = "evaluate"
  <2> DEFINE q == [req[c] EXCEPT !.step = "recommend"]
  <2>1. q \in EvaluationRequests /\ q.step = "recommend" /\ q.k = req[c].k /\ n \in Nat
    BY <1>1, <1>3 DEF EvaluationRequests
  <2>2. r = [q EXCEPT !.window = n]
    OBVIOUS
  <2> HIDE DEF q, r, n
  <2> QED BY <2>1, <2>2 DEF EvaluationRequests
<1>5. /\ calibrations' = calibrations /\ alarms' = alarms /\ invocations' = invocations
      /\ DOMAIN req' = Clients /\ req'[c] = r
      /\ \A d \in Clients \ {c} : req'[d] = req[d]
  <2>1. req' = [req EXCEPT ![c] = r]
    BY DEF InsertWindow
  <2> QED BY <2>1 DEF InsertWindow, capabilityVars, DetectionInv
<1> HIDE DEF n, x, r
<1>6. \A d \in Clients : Processing(d, "evaluate")' => req'[d] \in EvaluationRequests
  BY <1>4, <1>5 DEF DetectionInv, Processing
<1>7. WindowsInv'
  <2>1. \A w \in DOMAIN windows' : Recommended(w)' \subseteq 0..Len(calibrations)
    BY <1>2, <1>3 DEF DetectionInv, WindowsInv, Recommended
  <2>2. \A w \in alarms : w \in DOMAIN windows' /\ Alarming(windows'[w].recommendations)
    BY <1>3 DEF DetectionInv, WindowsInv
  <2>3. \A d \in Clients : Processing(d, "evaluate")' => req'[d].k \in 0..Len(calibrations)
    BY <1>1, <1>4, <1>5 DEF DetectionInv, WindowsInv, Processing
  <2>4. ASSUME NEW d \in Clients, Evaluating(d, "recommend")'
        PROVE  /\ req'[d].window \in DOMAIN windows'
               /\ windows'[req'[d].window].recommendations = {}
               /\ \A e \in Clients :
                    Evaluating(e, "recommend")' /\ req'[e].window = req'[d].window => d = e
    BY <1>2, <1>3, <1>4, <1>5, <2>4, SMTT(30) DEF DetectionInv, WindowsInv, Evaluating, Processing
  <2>5. ASSUME NEW d \in Clients, Evaluating(d, "wake")'
        PROVE  req'[d].window \in DOMAIN windows' /\ Alarming(windows'[req'[d].window].recommendations)
    BY <1>3, <1>4, <1>5, <2>5 DEF DetectionInv, WindowsInv, Evaluating, Processing
  <2> QED BY <1>5, <2>1, <2>2, <2>3, <2>4, <2>5 DEF WindowsInv
<1>8. DownweightsInv'
  BY <1>3, <1>5 DEF DetectionInv, DownweightsInv, FalsePositive
<1>9. Backed'
  <2>1. ClassicalWindows' = ClassicalWindows
    BY <1>2, <1>3, <1>5 DEF ClassicalWindows, Recommended, Classical
  <2>2. Pending' = Pending
    BY <1>1, <1>4, <1>5 DEF Pending, Processing, Classical
  <2>3. Successes' = Successes
    BY <1>5 DEF Successes
  <2> QED BY <2>1, <2>2, <2>3 DEF DetectionInv, Backed
<1> QED BY <1>3, <1>5, <1>6, <1>7, <1>8, <1>9 DEF DetectionInv

LEMMA RecommendInv ==
  ASSUME DetectionInv, NEW c \in Clients, Recommend(c)
  PROVE  DetectionInv'
<1>0. PICK w, k : w = req[c].window /\ k = req[c].k
  OBVIOUS
<1> DEFINE D == Detections(req[c].pattern, k)
           x == [windows[w] EXCEPT !.recommendations = D]
           r == IF req[c].integrate /\ Alarming(D) THEN [req[c] EXCEPT !.step = "wake"] ELSE Idle
<1>1. /\ req[c] \in EvaluationRequests /\ k \in 0..Len(calibrations)
      /\ Processing(c, "evaluate") /\ req[c].step = "recommend" /\ Evaluating(c, "recommend")
      /\ w \in DOMAIN windows /\ windows[w].recommendations = {}
      /\ \A d \in Clients : Evaluating(d, "recommend") /\ req[d].window = w => c = d
  BY <1>0 DEF DetectionInv, WindowsInv, Recommend, Evaluating
<1>2. D \in SUBSET Recommendations /\ {q.calibration : q \in D} = {0, k}
  <2> DEFINE p == req[c].pattern
  <2>1. k \in Nat
    BY <1>0, <1>1 DEF EvaluationRequests
  <2>2. Rules(p) \in Recommendations /\ Rules(p).calibration = 0
    BY DEF Rules, Recommendation, Recommendations
  <2>3. Calibrated(p, k) \in Recommendations /\ Calibrated(p, k).calibration = k
    BY <2>1 DEF Calibrated, Recommendation, Recommendations
  <2>4. D = {Rules(p)} \cup (IF k = 0 THEN {} ELSE {Calibrated(p, k)})
    BY DEF Detections
  <2> HIDE DEF p, D, Recommendations
  <2> QED BY <2>2, <2>3, <2>4
<1>3. windows[w] \in Windows /\ windows \in Seq(Windows)
  <2>1. windows \in Seq(Windows)
    BY DEF DetectionInv
  <2> HIDE DEF Windows
  <2> QED BY <1>1, <2>1
<1>4. x \in Windows /\ x.recommendations = D /\ x.label = windows[w].label
  BY <1>2, <1>3 DEF Windows
<1>5. windows' = [windows EXCEPT ![w] = x] /\ req' = [req EXCEPT ![c] = r]
  BY <1>0 DEF Recommend, NextStep, Commit
<1>6. r = Idle \/ (r \in EvaluationRequests /\ r.step = "wake" /\ r.k = k /\ r.window = w
                     /\ Alarming(D))
  BY <1>0, <1>1 DEF EvaluationRequests
<1> HIDE DEF x, r, D, Windows
<1>7. /\ windows' \in Seq(Windows) /\ DOMAIN windows' = DOMAIN windows /\ windows'[w] = x
      /\ \A i \in DOMAIN windows \ {w} : windows'[i] = windows[i]
  BY <1>1, <1>3, <1>4, <1>5
<1>8. /\ calibrations' = calibrations /\ alarms' = alarms /\ invocations' = invocations
      /\ DOMAIN req' = Clients /\ req'[c] = r
      /\ \A d \in Clients \ {c} : req'[d] = req[d]
  BY <1>5 DEF Recommend, capabilityVars, DetectionInv
<1>9. \A d \in Clients : Processing(d, "evaluate")' => req'[d] \in EvaluationRequests
  BY <1>6, <1>8 DEF DetectionInv, Processing, Idle
<1>10. ~Alarming(windows[w].recommendations)
  BY <1>1 DEF Alarming
<1>11. WindowsInv'
  <2>1. \A v \in DOMAIN windows' : Recommended(v)' \subseteq 0..Len(calibrations)
    <3>1. {0, k} \subseteq 0..Len(calibrations)
      BY <1>1 
    <3>2. Recommended(w)' = {0, k}
      BY <1>2, <1>4, <1>7 DEF Recommended
    <3>3. \A v \in DOMAIN windows \ {w} : Recommended(v)' = Recommended(v)
      BY <1>7 DEF Recommended
    <3> QED BY <1>7, <3>1, <3>2, <3>3 DEF DetectionInv, WindowsInv
  <2>2. \A v \in alarms : v \in DOMAIN windows' /\ Alarming(windows'[v].recommendations)
    BY <1>7, <1>10 DEF DetectionInv, WindowsInv
  <2>3. \A d \in Clients : Processing(d, "evaluate")' => req'[d].k \in 0..Len(calibrations)
    BY <1>1, <1>6, <1>8 DEF DetectionInv, WindowsInv, Processing, Idle
  <2>4. ASSUME NEW d \in Clients, Evaluating(d, "recommend")'
        PROVE  /\ req'[d].window \in DOMAIN windows'
               /\ windows'[req'[d].window].recommendations = {}
               /\ \A e \in Clients :
                    Evaluating(e, "recommend")' /\ req'[e].window = req'[d].window => d = e
    <3>1. d # c
      BY <1>6, <1>8, <2>4 DEF Evaluating, Processing, Idle
    <3>2. Evaluating(d, "recommend") /\ req'[d] = req[d]
      BY <1>8, <2>4, <3>1 DEF Evaluating, Processing
    <3>3. \A e \in Clients : Evaluating(e, "recommend")' =>
            Evaluating(e, "recommend") /\ req'[e] = req[e]
      BY <1>6, <1>8 DEF Evaluating, Processing, Idle
    <3>4. req[d].window # w
      BY <1>1, <3>1, <3>2
    <3> QED BY <1>7, <3>2, <3>3, <3>4 DEF DetectionInv, WindowsInv
  <2>5. ASSUME NEW d \in Clients, Evaluating(d, "wake")'
        PROVE  req'[d].window \in DOMAIN windows' /\ Alarming(windows'[req'[d].window].recommendations)
    <3>1. CASE d = c
      BY <1>1, <1>4, <1>6, <1>7, <1>8, <2>5, <3>1 DEF Evaluating, Processing, Idle
    <3>2. CASE d # c
      <4>1. Evaluating(d, "wake") /\ req'[d] = req[d]
        BY <1>8, <2>5, <3>2 DEF Evaluating, Processing
      <4> QED BY <1>7, <1>10, <4>1 DEF DetectionInv, WindowsInv
    <3> QED BY <3>1, <3>2
  <2> QED BY <1>8, <2>1, <2>2, <2>3, <2>4, <2>5 DEF WindowsInv
<1>12. DownweightsInv'
  <2>1. \A i : \A v \in DOMAIN windows : FalsePositive(v, i) => v # w /\ FalsePositive(v, i)'
    BY <1>1, <1>7 DEF FalsePositive
  <2> QED BY <1>7, <1>8, <2>1 DEF DetectionInv, DownweightsInv
<1>13. Backed'
  <2>1. PICK f, g : Matched(f, g, ClassicalWindows, Pending, Successes)
    BY DEF DetectionInv, Backed
  <2>2. Successes' = Successes
    BY <1>8 DEF Successes
  <2>3. w \notin ClassicalWindows
    BY <1>1 DEF ClassicalWindows, Recommended
  <2>4. Recommended(w)' = {0, k}
    BY <1>2, <1>4, <1>7 DEF Recommended
  <2>5. \A v \in DOMAIN windows \ {w} : Recommended(v)' = Recommended(v)
    BY <1>7 DEF Recommended
  <2>6. c \notin Pending' /\ \A d \in Pending' : d \in Pending
    BY <1>6, <1>8 DEF Pending, Processing, Classical, Idle
  <2>7. CASE Classical(k)
    <3>1. c \in Pending
      BY <1>0, <1>1, <2>7 DEF Pending
    <3>2. PICK ff, gg : Matched(ff, gg, ClassicalWindows \cup {w}, Pending \ {c}, Successes)
      BY <2>1, <2>3, <3>1, MatchedEnds
    <3>3. ClassicalWindows' \in SUBSET (ClassicalWindows \cup {w})
      BY <1>7, <1>8, <2>5 DEF ClassicalWindows, Classical
    <3>4. Pending' \in SUBSET (Pending \ {c})
      BY <2>6
    <3>5. \E fff, ggg : Matched(fff, ggg, ClassicalWindows', Pending', Successes)
      BY <3>2, <3>3, <3>4, MatchedShrinks
    <3> QED BY <2>2, <3>5 DEF Backed
  <2>8. CASE ~Classical(k)
    <3>1. ClassicalWindows' \in SUBSET ClassicalWindows
      BY <1>7, <1>8, <2>4, <2>5, <2>8 DEF ClassicalWindows, Classical
    <3>2. Pending' \in SUBSET Pending
      BY <2>6
    <3>3. \E ff, gg : Matched(ff, gg, ClassicalWindows', Pending', Successes)
      BY <2>1, <3>1, <3>2, MatchedShrinks
    <3> QED BY <2>2, <3>3 DEF Backed
  <2> QED BY <2>7, <2>8
<1> QED BY <1>7, <1>8, <1>9, <1>11, <1>12, <1>13 DEF DetectionInv

LEMMA WakeImmuneInv ==
  ASSUME DetectionInv, NEW c \in Clients, WakeImmune(c)
  PROVE  DetectionInv'
<1>1. /\ windows' = windows /\ calibrations' = calibrations /\ invocations' = invocations
      /\ alarms' = alarms \cup {req[c].window}
      /\ DOMAIN req' = Clients /\ req'[c] = Idle
      /\ \A d \in Clients \ {c} : req'[d] = req[d]
  BY DEF WakeImmune, Commit, capabilityVars, DetectionInv
<1>2. /\ req[c].window \in DOMAIN windows
      /\ Alarming(windows[req[c].window].recommendations)
  BY DEF DetectionInv, WindowsInv, WakeImmune
<1>3. WindowsInv'
  BY <1>1, <1>2, SMTT(30) DEF DetectionInv, WindowsInv, Evaluating, Processing, Recommended, Idle
<1>4. DownweightsInv'
  BY <1>1 DEF DetectionInv, DownweightsInv, FalsePositive
<1>5. Backed'
  <2>1. PICK f, g : Matched(f, g, ClassicalWindows, Pending, Successes)
    BY DEF DetectionInv, Backed
  <2>2. ClassicalWindows' = ClassicalWindows /\ Successes' = Successes
    BY <1>1 DEF ClassicalWindows, Successes, Recommended, Classical
  <2>3. Pending' \in SUBSET Pending
    BY <1>1 DEF Pending, Processing, Classical, Idle
  <2>4. \E ff, gg : Matched(ff, gg, ClassicalWindows, Pending', Successes)
    BY <2>1, <2>3, MatchedShrinks
  <2> QED BY <2>2, <2>4 DEF Backed
<1>6. \A d \in Clients : Processing(d, "evaluate")' => req'[d] \in EvaluationRequests
  BY <1>1 DEF DetectionInv, Processing, Idle
<1> QED BY <1>1, <1>3, <1>4, <1>5, <1>6 DEF DetectionInv

LEMMA DetectionStarts ==
  ASSUME StoreInit, DetectionInit
  PROVE  DetectionInv
<1>1. /\ DOMAIN req = Clients /\ \A c \in Clients : req[c].op = "none"
      /\ calibrations = <<>> /\ windows = <<>> /\ invocations = <<>> /\ alarms = {}
  BY DEF StoreInit, DetectionInit, CapabilityInit, Idle
<1>2. DOMAIN windows = {} /\ DOMAIN calibrations = {} /\ DOMAIN invocations = {}
  BY <1>1
<1>3. windows \in Seq(Windows) /\ calibrations \in Seq(Calibrations)
      /\ invocations \in Seq(Invocations)
  BY <1>1
<1>4. WindowsInv /\ DownweightsInv
  BY <1>1, <1>2 DEF WindowsInv, DownweightsInv, Evaluating, Processing
<1>5. Backed
  <2>1. ClassicalWindows = {} /\ Pending = {} /\ Successes = {}
    BY <1>1, <1>2 DEF ClassicalWindows, Pending, Successes, Processing
  <2>2. Matched([w \in {} |-> w], [c \in {} |-> c], {}, {}, {})
    BY DEF Matched
  <2> QED BY <2>1, <2>2 DEF Backed
<1> QED BY <1>1, <1>3, <1>4, <1>5 DEF DetectionInv, Processing

LEMMA DetectionStep ==
  ASSUME DetectionInv, DetectionNext
  PROVE  DetectionInv'
<1>1. PICK c \in Clients :
        \/ Calibrate(c) \/ Downweight(c)
        \/ CheckEvaluation(c) \/ StartKnn(c) \/ EndKnn(c)
        \/ InsertWindow(c) \/ Recommend(c) \/ WakeImmune(c)
        \/ (CheckLifecycle(c) \/ SetCapability(c)) /\ UNCHANGED <<divergenceVars, immuneVars>>
        \/ Drop(c) /\ UNCHANGED detectionVars
  BY DEF DetectionNext
<1>2. CASE (CheckLifecycle(c) \/ SetCapability(c)) /\ UNCHANGED <<divergenceVars, immuneVars>>
  <2>1. UNCHANGED divergenceVars
    BY <1>2
  <2>2. CASE CheckLifecycle(c)
    BY <2>1, <2>2, UnrelatedInv
  <2>3. CASE SetCapability(c)
    BY <2>1, <2>3, UnrelatedInv
  <2> QED BY <1>2, <2>2, <2>3
<1>3. CASE Drop(c) /\ UNCHANGED detectionVars
  BY <1>3, UnrelatedInv DEF detectionVars
<1> QED BY <1>1, <1>2, <1>3, CalibrateInv, DownweightInv, CheckEvaluationInv, StartKnnInv,
           EndKnnInv, InsertWindowInv, RecommendInv, WakeImmuneInv, DivergenceAssumption

LEMMA DetectionInvariant == DetectionSpec => []DetectionInv
<1>1. StoreInit /\ DetectionInit => DetectionInv
  BY DetectionStarts
<1>2. DetectionInv /\ [DetectionNext]_<<detectionVars, req, raced>> => DetectionInv'
  <2> SUFFICES ASSUME DetectionInv, [DetectionNext]_<<detectionVars, req, raced>>
               PROVE  DetectionInv'
    OBVIOUS
  <2>1. CASE DetectionNext
    BY <2>1, DetectionStep
  <2>2. CASE UNCHANGED <<detectionVars, req, raced>>
    <3>1. /\ windows' = windows /\ calibrations' = calibrations /\ alarms' = alarms
          /\ invocations' = invocations /\ req' = req
      BY <2>2 DEF detectionVars, divergenceVars, capabilityVars
    <3>2. WindowsInv'
      BY <3>1 DEF DetectionInv, WindowsInv, Evaluating, Processing, Recommended
    <3>3. DownweightsInv'
      BY <3>1 DEF DetectionInv, DownweightsInv, FalsePositive
    <3>4. ClassicalWindows' = ClassicalWindows /\ Pending' = Pending /\ Successes' = Successes
      BY <3>1 DEF ClassicalWindows, Pending, Successes, Recommended, Classical, Processing
    <3>5. Backed'
      BY <3>4 DEF DetectionInv, Backed
    <3> QED BY <3>1, <3>2, <3>3, <3>5 DEF DetectionInv, Processing
  <2> QED BY <2>1, <2>2
<1> QED BY <1>1, <1>2, PTL DEF DetectionSpec

\* Whichever clients evaluate, downweight and die at once, an incident has the
\* alarm that woke it, a window of the classical detector has a successful run of
\* its own, and a calibration was halved once at most for each of its false
\* positives.
THEOREM DetectionsStayBacked == DetectionSpec => []DetectionsAreBacked
<1>1. DetectionSpec => []DetectionInv
  BY DetectionInvariant
<1>2. DetectionInv => DetectionsAreBacked
  BY DetectionCounts
<1> QED BY <1>1, <1>2, PTL
=============================================================================
