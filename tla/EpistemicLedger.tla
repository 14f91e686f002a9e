--------------------------- MODULE EpistemicLedger ---------------------------
(***************************************************************************)
(* The proposition and evidence ledger (src/erasmus/ledger.py).            *)
(*                                                                         *)
(* Its tables are append-only: what a proposition is now follows from its  *)
(* last transition, its last confidence row and its supersession row, and  *)
(* a row of propositions here holds these three together.                  *)
(***************************************************************************)
EXTENDS StoreClients, Sequences

CONSTANTS
  Statements,    \* statements that may be proposed, at most once each
  Recorded,      \* the evidence recorded before: a sequence of rows
  EvidenceRows,  \* the evidence that may be recorded
  Proposals,     \* initial statuses that are proposed
  Confidences,   \* confidences that may be recorded, besides the initial one
  MaxEvidence,   \* bound on the rows of epistemic_evidence
  MaxRows        \* bound on the rows of links and of confidence_history

VARIABLES
  evidence,      \* epistemic_evidence, by id
  propositions,  \* the current row of each statement
  links          \* proposition_evidence: <<statement, evidence id, relation>>,
                 \* without origin and supersession, which nothing reads again

ledgerVars == <<evidence, propositions, links>>

RECORD_TYPES == {"evidence", "contradiction", "falsification_test", "tangible_wrongness"}
INITIAL_STATUSES == {"speculative", "analogy", "leap", "unresolved"}
STATUSES == INITIAL_STATUSES \cup
  {"established", "supported", "plausible", "contradicted", "falsified"}

\* The next status that support gives.
SUPPORT_TRANSITIONS ==
  [speculative |-> "plausible", analogy |-> "plausible", leap |-> "plausible",
   unresolved |-> "plausible", plausible |-> "supported",
   contradicted |-> "supported", supported |-> "established"]

\* agreed: the provenance's basis is agreement or repetition.
RowType == [type : RECORD_TYPES, agreed : BOOLEAN, scope : STRING]
First(row) == [row |-> row, supersedes |-> 0]
Nobody == "none"
NoScope == "none"
Initially == "initial"

NoProposition ==
  [status |-> "none", scope |-> NoScope, confidence |-> Initially,
   falsifiedBy |-> 0, superseded_by |-> Nobody]

ASSUME LedgerAssumption ==
  /\ EvidenceRows \subseteq RowType
  /\ Recorded \in Seq(RowType) /\ Len(Recorded) =< MaxEvidence
  /\ Proposals \subseteq INITIAL_STATUSES
  /\ Nobody \notin Statements /\ {MaxEvidence, MaxRows} \subseteq Nat

LedgerInit ==
  /\ evidence = [e \in DOMAIN Recorded |-> First(Recorded[e])]
  /\ propositions = [s \in Statements |-> NoProposition]
  /\ links = {}

Proposed == {s \in Statements : propositions[s] # NoProposition}
Open(s) == propositions[s].superseded_by = Nobody

\* What the checks of a later operation on s look at.
Standing(s) ==
  <<propositions[s].status, propositions[s].superseded_by, propositions[s].falsifiedBy>>

Row(e) == evidence[e].row
SameScope(s, e) == Row(e).scope = propositions[s].scope

\* add_evidence of a row that supersedes none: one INSERT.
AddEvidence(c) ==
  /\ Len(evidence) < MaxEvidence
  /\ \E row \in EvidenceRows : evidence' = Append(evidence, First(row))
  /\ Atomically(c)
  /\ UNCHANGED <<propositions, links>>

Superseded(e) == \E f \in DOMAIN evidence : evidence[f].supersedes = e

\* add_evidence of a row that supersedes a prior one.
CheckSuccessor(c) ==
  /\ \E row \in EvidenceRows, e \in DOMAIN evidence :
       /\ Row(e).scope = row.scope /\ ~Superseded(e)
       /\ Begin(c, [op |-> "successor", new |-> [row |-> row, supersedes |-> e]])
  /\ UNCHANGED ledgerVars

AddSuccessor(c) ==
  /\ Processing(c, "successor") /\ Len(evidence) < MaxEvidence
  /\ evidence' = Append(evidence, req[c].new)
  /\ Commit(c, Superseded(req[c].new.supersedes))
  /\ UNCHANGED <<propositions, links>>

\* propose: the evidence it reads never changes and the statement is UNIQUE.
Propose(c) ==
  /\ \E s \in Statements \ Proposed, e \in DOMAIN evidence, status \in Proposals :
       propositions' = [propositions EXCEPT ![s] =
         [NoProposition EXCEPT !.status = status, !.scope = Row(e).scope]]
  /\ Atomically(c)
  /\ UNCHANGED <<evidence, links>>

\* What each operation of transition asks of the proposition and the evidence.
Support(s, e) ==
  /\ propositions[s].status \in DOMAIN SUPPORT_TRANSITIONS
  /\ Row(e).type = "evidence"

Contradict(s, e) ==
  /\ propositions[s].status # "falsified"
  /\ Row(e).type \in {"contradiction", "tangible_wrongness"}

Falsify(s, e, t) ==
  /\ Row(e).type = "tangible_wrongness"
  /\ SameScope(s, t) /\ Row(t).type = "falsification_test"

Reopen(s, e) ==
  /\ propositions[s].status = "falsified"
  /\ Row(e).type = "evidence"
  /\ e > propositions[s].falsifiedBy

\* Agreement and repetition are no evidence.
Counts_superseded(s, e) == SameScope(s, e) /\ ~Row(e).agreed
Counts(s, e) == Open(s) /\ SameScope(s, e) /\ ~Row(e).agreed

\* transition: its checks.
CheckTransition(c) ==
  /\ \E s \in Proposed, e \in DOMAIN evidence :
       LET Move(new, rows) ==
             Begin(c, [op |-> "transition", s |-> s, seen |-> Standing(s), new |-> new,
                       rows |-> {<<s>> \o row : row \in rows}, e |-> e])
           status == propositions[s].status IN
       /\ Counts(s, e)
       /\ \/ Support(s, e) /\ Move(SUPPORT_TRANSITIONS[status], {<<e, "support">>})
          \/ Contradict(s, e) /\ Move("contradicted", {<<e, "contradiction">>})
          \/ Reopen(s, e) /\ Move("unresolved", {<<e, "reopening">>})
          \/ \E t \in DOMAIN evidence :
               Falsify(s, e, t) /\ Move("falsified", {<<e, "falsification">>, <<t, "test">>})
  /\ UNCHANGED ledgerVars

Confident == {s \in Statements : propositions[s].confidence # Initially}
Room(rows) == Cardinality(links) + Cardinality(Confident) + rows =< MaxRows

\* One proposition_evidence row per proposition, evidence and relation.
Linkable(rows) == rows \cap links = {} /\ Room(Cardinality(rows))

Transition(c) ==
  /\ Processing(c, "transition")
  /\ LET r == req[c] IN
       /\ Linkable(r.rows)
       /\ links' = links \cup r.rows
       /\ propositions' = [propositions EXCEPT
            ![r.s].status = r.new,
            ![r.s].falsifiedBy = IF r.new = "falsified" THEN r.e ELSE @]
       /\ Commit(c, r.seen # Standing(r.s))
  /\ UNCHANGED evidence

CheckConfidence(c) ==
  /\ \E s \in Proposed, e \in DOMAIN evidence, confidence \in Confidences :
       /\ Open(s) /\ SameScope(s, e)
       /\ Begin(c, [op |-> "confidence", s |-> s, confidence |-> confidence])
  /\ UNCHANGED ledgerVars

RecordConfidence(c) ==
  /\ Processing(c, "confidence") /\ Room(1)
  /\ propositions' = [propositions EXCEPT ![req[c].s].confidence = req[c].confidence]
  /\ Commit(c, ~Open(req[c].s))
  /\ UNCHANGED <<evidence, links>>

CheckSupersede(c) ==
  /\ \E s, by \in Proposed, e \in DOMAIN evidence :
       /\ Open(s) /\ Open(by) /\ s # by
       /\ propositions[by].scope = propositions[s].scope /\ SameScope(s, e)
       /\ Begin(c, [op |-> "supersede", s |-> s, by |-> by, seen |-> Standing(s)])
  /\ UNCHANGED ledgerVars

\* Its one supersession row, and a transition row that repeats the status read.
Supersede(c) ==
  /\ Processing(c, "supersede") /\ Open(req[c].s)
  /\ LET r == req[c] IN
       /\ propositions' = [propositions EXCEPT
            ![r.s].superseded_by = r.by, ![r.s].status = r.seen[1]]
       /\ Commit(c, r.seen # Standing(r.s) \/ ~Open(r.by))
  /\ UNCHANGED <<evidence, links>>

LedgerNext ==
  \E c \in Clients :
    \/ AddEvidence(c) \/ CheckSuccessor(c) \/ AddSuccessor(c)
    \/ Propose(c)
    \/ CheckTransition(c) \/ Transition(c)
    \/ CheckConfidence(c) \/ RecordConfidence(c)
    \/ CheckSupersede(c) \/ Supersede(c)
    \/ Drop(c) /\ UNCHANGED ledgerVars

LedgerTypeOK ==
  /\ evidence \in Seq([row : RowType, supersedes : 0..MaxEvidence])
  /\ Len(evidence) =< MaxEvidence
  /\ propositions \in [Statements ->
       [status : STATUSES \cup {"none"}, scope : STRING \cup {NoScope},
        confidence : Confidences \cup {Initially}, falsifiedBy : 0..MaxEvidence,
        superseded_by : Statements \cup {Nobody}]]
  /\ links \subseteq (Proposed \X (DOMAIN evidence) \X
       {"support", "contradiction", "test", "falsification", "reopening"})

Linked(s, relation) == {e \in DOMAIN evidence : <<s, e, relation>> \in links}

\* Whatever the clients do at once, a proposition is never held for more than
\* its evidence says: established rests on two different pieces of support that
\* are not mere agreement, supported on one, and falsified on a tangible
\* wrongness with a test.
StatusIsEarned ==
  \A s \in Proposed :
    LET support == {e \in Linked(s, "support") :
                      Row(e).type = "evidence" /\ ~Row(e).agreed}
        status == propositions[s].status IN
    /\ status = "established" => Cardinality(support) >= 2
    /\ status = "supported" => support # {}
    /\ status = "falsified" =>
         /\ \E e \in Linked(s, "falsification") : Row(e).type = "tangible_wrongness"
         /\ \E t \in Linked(s, "test") : Row(t).type = "falsification_test"

\* As long as no two operations raced, following superseded_by from any
\* proposition ends at one that still stands: supersessions make no cycle.
SupersessionsEnd ==
  raced \/ \A circle \in (SUBSET Statements) \ {{}} :
             \E s \in circle : propositions[s].superseded_by \notin circle

\* As long as no two operations raced, a superseded proposition is closed for
\* good, and a falsified one is only left by reopening it with evidence that is
\* newer than the one that falsified it.
ClosedStaysClosed ==
  [][ raced' \/ \A s \in Proposed :
        /\ ~Open(s) => propositions'[s] = propositions[s]
        /\ propositions[s].status = "falsified" /\ propositions'[s].status # "falsified"
             => /\ propositions'[s].status = "unresolved"
                /\ \E e \in Linked(s, "reopening")' : e > propositions[s].falsifiedBy
    ]_<<ledgerVars, req, raced>>

\* The ledger: statuses are earned whoever writes, and without races what is
\* closed stays closed and supersessions end.
BeliefsAreEarned == []StatusIsEarned /\ []SupersessionsEnd /\ ClosedStaysClosed
=============================================================================
