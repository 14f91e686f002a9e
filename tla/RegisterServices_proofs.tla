----------------------- MODULE RegisterServices_proofs -----------------------
(***************************************************************************)
(* Proofs about the services of the store that keep a register: the ledger *)
(* of propositions, the promotion of a skill, the tool registry, the       *)
(* knowledge sources and policy, and the schema itself.  Each one is       *)
(* proved by itself, for any number of clients that interleave and die and *)
(* for every value of its constants.                                       *)
(***************************************************************************)
EXTENDS EpistemicLedger, SkillPromotion, ToolRegistry, KnowledgeSources, KnowledgePolicy,
        SchemaMigrations, WellFoundedInduction, FiniteSetTheorems, SequenceTheorems, TLAPS

\* Every set of natural numbers that is not empty has a least element.
LEMMA LeastNumber ==
  ASSUME NEW T \in SUBSET Nat, T # {}
  PROVE  \E x \in T : \A y \in T : x =< y
<1>1. PICK R : R = OpToRel(<, Nat)
  OBVIOUS
<1>2. IsWellFoundedOn(R, Nat)
  BY <1>1, NatLessThanWellFounded
<1>3. \A x, y \in Nat : <<y, x>> \in R <=> y < x
  BY <1>1 DEF OpToRel
<1>4. PICK x \in T : \A y \in T : ~(<<y, x>> \in R)
  BY <1>2, WFMin
<1>5. \A y \in T : x \in Nat /\ y \in Nat /\ ~(y < x)
  BY <1>3, <1>4
<1>6. \A y \in T : x =< y
  BY <1>5
<1> QED BY <1>4, <1>6

\* What the tables that are only appended to keep.
LEMMA RowAppended ==
  ASSUME NEW S, NEW s \in Seq(S), NEW x \in S
  PROVE  /\ Append(s, x) \in Seq(S) /\ Len(s) \in Nat /\ DOMAIN s = 1..Len(s)
         /\ Len(Append(s, x)) = Len(s) + 1
         /\ DOMAIN Append(s, x) = DOMAIN s \cup {Len(s) + 1}
         /\ Len(s) + 1 \notin DOMAIN s
         /\ Append(s, x)[Len(s) + 1] = x
         /\ \A i \in DOMAIN s : Append(s, x)[i] = s[i]
OBVIOUS

\* A request that is replaced leaves the others alone.
LEMMA RequestReplaced ==
  ASSUME DOMAIN req = Clients, NEW c \in Clients, NEW r, req' = [req EXCEPT ![c] = r]
  PROVE  /\ DOMAIN req' = Clients /\ req'[c] = r
         /\ \A d \in Clients \ {c} : req'[d] = req[d]
OBVIOUS

-----------------------------------------------------------------------------
(* The knowledge policy.                                                   *)

PolicySpec == StoreInit /\ PolicyInit /\ [][PolicyNext]_<<policyVars, req, raced>>

PolicyRow(row) == row.request \in Requests /\ row.decision = Decision(row.request)

\* The rows are what the policy decides, and without races they are in order.
PolicyInv ==
  /\ DOMAIN req = Clients /\ raced \in BOOLEAN
  /\ policy \in PolicySets
  /\ \A c \in Clients : Processing(c, "policy") => PolicyRow(req[c].row)
  /\ \E S : policyEvaluations \in Seq(S)
  /\ \A n \in DOMAIN policyEvaluations : PolicyRow(policyEvaluations[n])
  /\ raced \/ \A n \in DOMAIN policyEvaluations : policyEvaluations[n].seq \in Nat
  /\ EvaluationsAreNumbered

\* The answer follows from the rules that were considered.
LEMMA DecideMeans ==
  ASSUME NEW candidates, NEW request
  PROVE  /\ Decide(candidates, request) = "permit" =>
              /\ Prepared(candidates, request)
              /\ \E r \in candidates : r.mode = "permit"
              /\ \A r \in candidates : r.mode \notin {"deny", "observation_only"}
         /\ Decide(candidates, request) = "observation_only" =>
              /\ Prepared(candidates, request)
              /\ \E r \in candidates : r.mode = "observation_only"
              /\ \A r \in candidates : r.mode \notin {"deny", "permit"}
         /\ Decide(candidates, request) = "deny" => \E r \in candidates : r.mode = "deny"
BY DEF Decide

\* A rule that denies is considered, or one of its id is, if some rule has the
\* highest priority.
LEMMA DenialConsidered ==
  ASSUME NEW rules \in SUBSET RuleType, NEW t \in Top(rules), NEW r \in rules, r.mode = "deny",
         r.id \notin Ids(Top(rules))
  PROVE  Denials(rules) # {}
<1> DEFINE T == {t.priority - q.priority : q \in {p \in Denying(rules) : p.id = r.id}}
<1>1. \A q \in rules : q.priority \in Int /\ q.priority =< t.priority
  BY DEF Top, RuleType
<1>2. t \in rules /\ r \in Denying(rules) /\ Denying(rules) \subseteq rules
  BY DEF Top, Denying
<1>3. T \in SUBSET Nat /\ T # {}
  BY <1>1, <1>2
<1>4. PICK x \in T : \A y \in T : x =< y
  BY <1>3, LeastNumber
<1>5. PICK q \in Denying(rules) : q.id = r.id /\ x = t.priority - q.priority
  BY <1>4
<1>6. \A p \in Denying(rules) : p.id = q.id => p.priority =< q.priority
  <2> SUFFICES ASSUME NEW p \in Denying(rules), p.id = q.id
               PROVE  p.priority =< q.priority
    OBVIOUS
  <2>1. t.priority - p.priority \in T
    BY <1>5
  <2>2. x =< t.priority - p.priority
    BY <1>4, <2>1
  <2> HIDE DEF T
  <2> QED BY <1>1, <1>2, <1>5, <2>2
<1>7. q \in Denials(rules)
  BY <1>5, <1>6 DEF Denials
<1> QED BY <1>7

\* What the decision says of the rules that match.
LEMMA DecisionGranted ==
  ASSUME PolicyAssumption, policy \in PolicySets, NEW request,
         NEW decision, decision = Decision(request),
         NEW rules, rules = Matching(policy, request)
  PROVE  /\ decision \in {"permit", "observation_only"} =>
              /\ \E r \in Top(rules) : Grants(r, request, decision)
              /\ \A r \in Top(rules) :
                   \E mode \in {decision, "propose_only"} : Grants(r, request, mode)
              /\ \A r \in rules : r.mode = "deny" => r.id \in Ids(Top(rules))
         /\ decision = "deny" => Denying(rules) # {}
<1> DEFINE C == Candidates(rules)
<1>1. rules \in SUBSET RuleType /\ Top(rules) \subseteq C /\ C \subseteq rules
  BY DEF Matching, PolicyAssumption, Top, Denials, Denying, Candidates
<1>2. \A r \in C : r \in Top(rules) \/ r.mode = "deny"
  BY DEF Candidates, Denials, Denying
<1>3. decision = Decide(C, request)
  BY DEF Decision
<1>4. ASSUME decision \in {"permit", "observation_only"}
      PROVE  /\ Prepared(C, request)
             /\ \E r \in C : r.mode = decision
             /\ \A r \in C : r.mode \notin {"deny", "permit", "observation_only"} \ {decision}
  BY <1>3, <1>4, DecideMeans
<1>5. ASSUME decision \in {"permit", "observation_only"}
      PROVE  \E r \in Top(rules) : Grants(r, request, decision)
  BY <1>2, <1>4, <1>5 DEF Grants, Prepared
<1>6. ASSUME decision \in {"permit", "observation_only"}, NEW r \in Top(rules)
      PROVE  \E mode \in {decision, "propose_only"} : Grants(r, request, mode)
  <2>1. r \in C /\ r.mode \in Modes
    BY <1>1 DEF RuleType
  <2>2. r.mode \in {decision, "propose_only"}
    BY <1>4, <1>6, <2>1 DEF Modes
  <2>3. Grants(r, request, r.mode)
    BY <1>4, <1>6, <2>1 DEF Grants, Prepared
  <2> QED BY <2>2, <2>3
<1>7. ASSUME decision \in {"permit", "observation_only"}, NEW r \in rules, r.mode = "deny",
             r.id \notin Ids(Top(rules))
      PROVE  FALSE
  <2>1. PICK t \in Top(rules) : TRUE
    BY <1>5, <1>7
  <2>2. PICK d \in Denials(rules) : TRUE
    BY <1>1, <1>7, <2>1, DenialConsidered
  <2>3. d \in C /\ d.mode = "deny"
    BY DEF Candidates, Denials, Denying
  <2> QED BY <1>4, <1>7, <2>3
<1>8. ASSUME decision = "deny"
      PROVE  Denying(rules) # {}
  <2>1. \E r \in C : r.mode = "deny"
    BY <1>3, <1>8, DecideMeans
  <2> QED BY <1>1, <2>1 DEF Denying
<1> QED BY <1>5, <1>6, <1>7, <1>8

\* Without races the last number is the one of the last row.
LEMMA LastNumber ==
  ASSUME PolicyInv, ~raced
  PROVE  /\ LastSeq \in Nat
         /\ \A n \in DOMAIN policyEvaluations : policyEvaluations[n].seq =< LastSeq
<1> DEFINE T == {0} \cup {policyEvaluations[n].seq : n \in DOMAIN policyEvaluations}
           last == Len(policyEvaluations)
<1>1. PICK S : policyEvaluations \in Seq(S)
  BY DEF PolicyInv
<1>2. last \in Nat /\ DOMAIN policyEvaluations = 1..last
  BY <1>1
<1>3. \A n \in DOMAIN policyEvaluations : policyEvaluations[n].seq \in Nat
  BY DEF PolicyInv
<1>4. T \in SUBSET Nat
  BY <1>3
<1>5. \E x \in T : \A y \in T : x >= y
  <2>1. CASE last = 0
    BY <1>2, <2>1
  <2>2. CASE last # 0
    <3>1. last \in DOMAIN policyEvaluations
      BY <1>2, <2>2
    <3>2. \A n \in DOMAIN policyEvaluations : policyEvaluations[n].seq =< policyEvaluations[last].seq
      BY <1>2, <1>3, <3>1 DEF PolicyInv, EvaluationsAreNumbered
    <3> QED BY <1>3, <3>1, <3>2, SMTT(30)
  <2> QED BY <2>1, <2>2
<1>6. LastSeq = CHOOSE x \in T : \A y \in T : x >= y
  BY DEF LastSeq, Max
<1> HIDE DEF T
<1>7. LastSeq \in T /\ \A y \in T : LastSeq >= y
  BY <1>5, <1>6
<1> QED BY <1>4, <1>7 DEF T

LEMMA PolicyStarts ==
  ASSUME StoreInit, PolicyInit
  PROVE  PolicyInv
<1>1. DOMAIN req = Clients /\ (\A c \in Clients : req[c].op = "none") /\ raced = FALSE
      /\ policy \in PolicySets /\ policyEvaluations = <<>>
  BY DEF StoreInit, PolicyInit, Idle
<1>2. DOMAIN policyEvaluations = {} /\ policyEvaluations \in Seq({})
  BY <1>1
<1> QED BY <1>1, <1>2 DEF PolicyInv, Processing, EvaluationsAreNumbered

LEMMA RecordEvaluationInv ==
  ASSUME PolicyInv, NEW c \in Clients, RecordEvaluation(c)
  PROVE  PolicyInv'
<1> DEFINE n == Len(policyEvaluations) + 1
           row == req[c].row
<1>1. /\ PolicyRow(row) /\ Recordable(row) /\ policy' = policy
      /\ policyEvaluations' = Append(policyEvaluations, row)
      /\ req' = [req EXCEPT ![c] = Idle]
      /\ raced' = (raced \/ LastSeq + 1 # row.seq)
  BY DEF PolicyInv, RecordEvaluation, Commit
<1> HIDE DEF row
<1>2. PICK S : policyEvaluations \in Seq(S)
  BY DEF PolicyInv
<1>3. policyEvaluations \in Seq(S \cup {row})
  BY <1>2
<1>4. /\ policyEvaluations' \in Seq(S \cup {row}) /\ Len(policyEvaluations) \in Nat
      /\ DOMAIN policyEvaluations = 1..Len(policyEvaluations)
      /\ DOMAIN policyEvaluations' = DOMAIN policyEvaluations \cup {n}
      /\ policyEvaluations'[n] = row /\ n \notin DOMAIN policyEvaluations
      /\ \A i \in DOMAIN policyEvaluations : policyEvaluations'[i] = policyEvaluations[i]
  BY <1>1, <1>3, RowAppended
<1>5. \A i \in DOMAIN policyEvaluations : i \in Nat /\ i < n
  BY <1>4
<1>6. n \in Nat
  BY <1>4
<1> HIDE DEF n
<1>7. /\ DOMAIN req' = Clients /\ req'[c].op = "none"
      /\ \A d \in Clients \ {c} : req'[d] = req[d]
  BY <1>1, RequestReplaced DEF PolicyInv, Idle
<1>8. \A r : PolicyRow(r)' <=> PolicyRow(r)
  BY <1>1 DEF PolicyRow, Decision
<1>9. \A d \in Clients : Processing(d, "policy")' => PolicyRow(req[d].row) /\ req'[d] = req[d]
  BY <1>7 DEF PolicyInv, Processing
<1>10. \A i \in DOMAIN policyEvaluations' : PolicyRow(policyEvaluations'[i])
  BY <1>1, <1>4 DEF PolicyInv
<1>11. ASSUME ~raced'
       PROVE  /\ ~raced /\ row.seq \in Nat
              /\ \A i \in DOMAIN policyEvaluations :
                   policyEvaluations[i].seq \in Nat /\ policyEvaluations[i].seq < row.seq
  <2>1. ~raced /\ row.seq = LastSeq + 1
    BY <1>1, <1>11
  <2> QED BY <2>1, LastNumber DEF PolicyInv
<1>12. raced' \/ \A i \in DOMAIN policyEvaluations' : policyEvaluations'[i].seq \in Nat
  BY <1>4, <1>11
<1>13. EvaluationsAreNumbered'
  <2> SUFFICES ASSUME NEW i \in DOMAIN policyEvaluations', NEW j \in DOMAIN policyEvaluations', i < j
               PROVE  /\ policyEvaluations'[i].seq = policyEvaluations'[j].seq =>
                           policyEvaluations'[i].request # policyEvaluations'[j].request
                      /\ raced' \/ policyEvaluations'[i].seq < policyEvaluations'[j].seq
    BY DEF EvaluationsAreNumbered
  <2>1. i \in DOMAIN policyEvaluations
    BY <1>4, <1>5, <1>6
  <2>2. CASE j \in DOMAIN policyEvaluations
    BY <1>4, <1>11, <2>1, <2>2 DEF PolicyInv, EvaluationsAreNumbered
  <2>3. CASE j = n
    BY <1>1, <1>4, <1>11, <2>1, <2>3 DEF Recordable
  <2> QED BY <1>4, <2>2, <2>3
<1>14. raced' \in BOOLEAN
  BY <1>1 DEF PolicyInv
<1> QED BY <1>1, <1>4, <1>7, <1>8, <1>9, <1>10, <1>12, <1>13, <1>14 DEF PolicyInv

\* The steps that record nothing.
LEMMA QuietPolicy ==
  ASSUME PolicyInv, NEW c \in Clients, NEW r, req' = [req EXCEPT ![c] = r],
         r.op = "policy" => PolicyRow(r.row), raced' = raced, UNCHANGED policyVars
  PROVE  PolicyInv'
<1>1. policy' = policy /\ policyEvaluations' = policyEvaluations
  BY DEF policyVars
<1>2. /\ DOMAIN req' = Clients /\ req'[c] = r
      /\ \A d \in Clients \ {c} : req'[d] = req[d]
  BY RequestReplaced DEF PolicyInv
<1>3. \A x : PolicyRow(x)' <=> PolicyRow(x)
  BY <1>1 DEF PolicyRow, Decision
<1>4. \A d \in Clients : Processing(d, "policy")' => PolicyRow(req'[d].row)
  BY <1>2 DEF PolicyInv, Processing
<1>5. EvaluationsAreNumbered'
  BY <1>1 DEF PolicyInv, EvaluationsAreNumbered
<1> QED BY <1>1, <1>2, <1>3, <1>4, <1>5 DEF PolicyInv

LEMMA PolicyStep ==
  ASSUME PolicyInv, PolicyNext
  PROVE  PolicyInv'
<1>1. PICK c \in Clients :
        CheckRequest(c) \/ RecordEvaluation(c) \/ (Drop(c) /\ UNCHANGED policyVars)
  BY DEF PolicyNext
<1>2. CASE CheckRequest(c)
  <2>1. PICK request \in Requests :
          Begin(c, [op |-> "policy",
                    row |-> [request |-> request, decision |-> Decision(request),
                             seq |-> LastSeq + 1]])
    BY <1>2 DEF CheckRequest
  <2> DEFINE r == [op |-> "policy",
                   row |-> [request |-> request, decision |-> Decision(request),
                            seq |-> LastSeq + 1]]
  <2>2. PolicyRow(r.row)
    BY DEF PolicyRow
  <2>3. req' = [req EXCEPT ![c] = r] /\ raced' = raced
    BY <2>1 DEF Begin
  <2>4. UNCHANGED policyVars
    BY <1>2 DEF CheckRequest
  <2> HIDE DEF r
  <2> QED BY <2>2, <2>3, <2>4, QuietPolicy
<1>3. CASE Drop(c) /\ UNCHANGED policyVars
  <2>1. req' = [req EXCEPT ![c] = Idle] /\ raced' = raced /\ Idle.op # "policy"
    BY <1>3 DEF Drop, Idle
  <2>2. UNCHANGED policyVars
    BY <1>3
  <2> QED BY <2>1, <2>2, QuietPolicy
<1> QED BY <1>1, <1>2, <1>3, RecordEvaluationInv

\* Whoever evaluates at once, a request is only let through if a rule of the
\* highest priority grants it and none that matches denies it, and the recorded
\* evaluations are numbered.
THEOREM PolicyStaysKept == PolicySpec => []PolicyIsKept
<1>1. StoreInit /\ PolicyInit => PolicyInv
  BY PolicyStarts
<1>2. PolicyInv /\ [PolicyNext]_<<policyVars, req, raced>> => PolicyInv'
  <2> SUFFICES ASSUME PolicyInv, [PolicyNext]_<<policyVars, req, raced>>
               PROVE  PolicyInv'
    OBVIOUS
  <2>1. CASE PolicyNext
    BY <2>1, PolicyStep
  <2>2. CASE UNCHANGED <<policyVars, req, raced>>
    BY <2>2 DEF PolicyInv, PolicyRow, Decision, EvaluationsAreNumbered, Processing, policyVars
  <2> QED BY <2>1, <2>2
<1>3. PolicyInv => PolicyIsKept
  <2> SUFFICES ASSUME PolicyInv
               PROVE  PolicyIsKept
    OBVIOUS
  <2>1. ASSUME NEW n \in DOMAIN policyEvaluations
        PROVE  LET request == policyEvaluations[n].request
                   rules == Matching(policy, request) IN
               /\ policyEvaluations[n].decision \in {"permit", "observation_only"} =>
                    /\ \E r \in Top(rules) : Grants(r, request, policyEvaluations[n].decision)
                    /\ \A r \in Top(rules) :
                         \E mode \in {policyEvaluations[n].decision, "propose_only"} :
                           Grants(r, request, mode)
                    /\ \A r \in rules : r.mode = "deny" => r.id \in Ids(Top(rules))
               /\ policyEvaluations[n].decision = "deny" => Denying(rules) # {}
    <3>1. PICK request, rules : request = policyEvaluations[n].request
                                /\ rules = Matching(policy, request)
      OBVIOUS
    <3>2. policyEvaluations[n].decision = Decision(request) /\ policy \in PolicySets
      BY <3>1 DEF PolicyInv, PolicyRow
    <3> QED BY <3>1, <3>2, PolicyAssumption, DecisionGranted
  <2> QED BY <2>1 DEF PolicyIsKept, PermitsAreGranted, PolicyInv
<1> QED BY <1>1, <1>2, <1>3, PTL DEF PolicySpec

-----------------------------------------------------------------------------
(* The schema migrations.                                                  *)

SchemaSpec == StoreInit /\ SchemaInit /\ [][SchemaNext]_<<schemaVars, req, raced>>

ApplyRequests ==
  [op : {"apply"}, step : {"renumber", "read", "migrate"}, todo : SUBSET MIGRATIONS]

\* A database of the branch that no process has renumbered, opened by processes
\* that have all found it so.
Untouched ==
  /\ Policies \in versions /\ versions \ {Policies} = schema /\ Policies \notin schema
  /\ (\A v \in versions : v =< Policies) /\ objects = Objects /\ ~RollingBack
  /\ \A c \in Clients : Processing(c, "apply") => req[c].step = "renumber"

\* Any other one: only the tables of the guarded missions may lag behind.
Numbered ==
  /\ versions \ {Guarded} = schema
  /\ RollingBack \/ objects = IF Guarded \in versions THEN Objects ELSE {}

\* A process that migrates is still going to apply all that is missing.
MigratorsInv ==
  \A c \in Clients : Applying(c, "migrate") => MIGRATIONS \ versions \subseteq req[c].todo

SchemaInv ==
  /\ DOMAIN req = Clients
  /\ \A c \in Clients : Processing(c, "apply") => req[c] \in ApplyRequests
  /\ versions \subseteq MIGRATIONS /\ rollbacks \in Nat
  /\ rollbacks = 0 => ~RollingBack
  /\ ~raced => Untouched \/ Numbered
  /\ ~raced /\ rollbacks = 0 => MigratorsInv

LEMMA Versions ==
  ASSUME MigrationAssumption
  PROVE  Policies \in MIGRATIONS /\ Guarded \in MIGRATIONS /\ Policies # Guarded
         /\ Policies < Guarded
BY DEF MigrationAssumption, Policies, MIGRATIONS

\* A numbered database is not taken for one of the branch.
LEMMA NumberedIsNotLegacy ==
  ASSUME MigrationAssumption, versions \ {Guarded} = schema
  PROVE  ~Legacy
<1>1. Policies # Guarded
  BY Versions
<1> QED BY <1>1 DEF Legacy

LEMMA SchemaStarts ==
  ASSUME MigrationAssumption, StoreInit, SchemaInit
  PROVE  SchemaInv
<1>1. DOMAIN req = Clients /\ (\A c \in Clients : req[c].op = "none")
      /\ rollbacks = 0 /\ abandoned = FALSE
  BY DEF StoreInit, SchemaInit, Idle
<1>2. ~RollingBack /\ MigratorsInv
  BY <1>1 DEF RollingBack, MigratorsInv, Applying, Processing
<1>3. versions \subseteq MIGRATIONS /\ (Untouched \/ Numbered)
  <2>1. ASSUME NEW last \in 0..Guarded, versions = 1..last, schema = (1..last) \ {Guarded},
               objects = IF last = Guarded THEN Objects ELSE {}
        PROVE  versions \subseteq MIGRATIONS /\ Numbered
    BY <2>1 DEF Numbered, MIGRATIONS, MigrationAssumption
  <2>2. ASSUME versions = 1..Policies, schema = 1..(Policies - 1), objects = Objects
        PROVE  versions \subseteq MIGRATIONS /\ Untouched
    <3>1. Policies \in MIGRATIONS
      BY Versions
    <3>2. versions \subseteq MIGRATIONS /\ \A v \in versions : v =< Policies
      BY <2>2, <3>1 DEF MIGRATIONS, MigrationAssumption
    <3>3. Policies \in versions /\ versions \ {Policies} = schema /\ Policies \notin schema
      BY <2>2, <3>1 DEF MIGRATIONS, MigrationAssumption
    <3> QED BY <1>1, <1>2, <2>2, <3>2, <3>3 DEF Untouched, Processing
  <2> QED BY <2>1, <2>2 DEF SchemaInit
<1> QED BY <1>1, <1>2, <1>3 DEF SchemaInv, Processing

LEMMA CheckLegacyInv ==
  ASSUME MigrationAssumption, SchemaInv, NEW c \in Clients, CheckLegacy(c)
  PROVE  SchemaInv'
<1> DEFINE r == [op |-> "apply", step |-> IF Legacy THEN "renumber" ELSE "read", todo |-> {}]
<1>1. r \in ApplyRequests /\ r.op = "apply" /\ r.step # "migrate"
      /\ (Legacy => r.step = "renumber")
  BY DEF ApplyRequests
<1>2. /\ req' = [req EXCEPT ![c] = r] /\ raced' = raced /\ req[c].op = "none"
      /\ versions' = versions /\ schema' = schema /\ objects' = objects
      /\ rollbacks' = rollbacks /\ abandoned' = abandoned
  BY DEF CheckLegacy, Begin, schemaVars, Idle
<1> HIDE DEF r
<1>3. /\ DOMAIN req' = Clients /\ req'[c] = r
      /\ \A d \in Clients \ {c} : req'[d] = req[d]
  BY <1>2, RequestReplaced DEF SchemaInv
<1>4. RollingBack' <=> RollingBack
  BY <1>1, <1>2, <1>3 DEF RollingBack, Processing
<1>5. Numbered => Numbered'
  BY <1>2, <1>4 DEF Numbered
<1>6. Untouched => Untouched'
  <2> SUFFICES ASSUME Untouched
               PROVE  Untouched'
    OBVIOUS
  <2>1. Legacy
    <3>1. \A v \in versions : v =< Policies
      BY DEF Untouched
    <3> QED BY <3>1 DEF Legacy, Untouched
  <2> QED BY <1>1, <1>2, <1>3, <1>4, <2>1 DEF Untouched, Processing
<1>7. MigratorsInv => MigratorsInv'
  BY <1>1, <1>2, <1>3 DEF MigratorsInv, Applying, Processing
<1> QED BY <1>1, <1>2, <1>3, <1>4, <1>5, <1>6, <1>7 DEF SchemaInv, Processing, MIGRATIONS

LEMMA RenumberInv ==
  ASSUME MigrationAssumption, SchemaInv, NEW c \in Clients, Renumber(c)
  PROVE  SchemaInv'
<1> DEFINE r == [req[c] EXCEPT !.step = "read"]
<1>1. req[c] \in ApplyRequests /\ Processing(c, "apply")
  BY DEF SchemaInv, Renumber, Applying
<1>2. r \in ApplyRequests /\ r.op = "apply" /\ r.step = "read"
  BY <1>1 DEF ApplyRequests
<1>3. /\ req' = [req EXCEPT ![c] = r]
      /\ versions' = {IF v = Policies THEN Guarded ELSE v : v \in versions}
      /\ schema' = schema /\ objects' = objects
      /\ rollbacks' = rollbacks /\ abandoned' = abandoned
      /\ ~raced' => ~raced /\ Legacy
  BY DEF Renumber, Renumbered
<1> HIDE DEF r
<1>4. /\ DOMAIN req' = Clients /\ req'[c] = r
      /\ \A d \in Clients \ {c} : req'[d] = req[d]
  BY <1>3, RequestReplaced DEF SchemaInv
<1>5. RollingBack' <=> RollingBack
  BY <1>1, <1>2, <1>3, <1>4 DEF RollingBack, Processing
<1>6. versions' \subseteq MIGRATIONS
  BY <1>3, Versions DEF SchemaInv
<1>7. ASSUME ~raced'
      PROVE  Numbered' /\ MigratorsInv'
  <2>1. Untouched
    BY <1>3, <1>7, NumberedIsNotLegacy DEF SchemaInv, Numbered
  <2>2. versions' \ {Guarded} = schema' /\ Guarded \in versions' /\ objects' = Objects
    <3>1. Guarded \notin versions
      BY <2>1, Versions DEF Untouched, MIGRATIONS
    <3> QED BY <1>3, <2>1, <3>1, Versions DEF Untouched
  <2>3. \A d \in Clients : ~Applying(d, "migrate")'
    BY <1>2, <1>4, <2>1 DEF Untouched, Applying, Processing
  <2>4. MigratorsInv'
    BY <2>3 DEF MigratorsInv
  <2> QED BY <2>2, <2>4 DEF Numbered
<1> QED BY <1>2, <1>3, <1>4, <1>5, <1>6, <1>7 DEF SchemaInv, Processing, MIGRATIONS

LEMMA ReadVersionsInv ==
  ASSUME MigrationAssumption, SchemaInv, NEW c \in Clients, ReadVersions(c)
  PROVE  SchemaInv'
<1> DEFINE r == [[req[c] EXCEPT !.step = "migrate"] EXCEPT !.todo = Missing(versions)]
<1>1. req[c] \in ApplyRequests /\ Applying(c, "read") /\ Processing(c, "apply")
  BY DEF SchemaInv, ReadVersions, Applying
<1>2. r \in ApplyRequests /\ r.op = "apply" /\ r.step = "migrate" /\ r.todo = MIGRATIONS \ versions
  BY <1>1 DEF ApplyRequests, Missing
<1>3. /\ req' = [req EXCEPT ![c] = r] /\ raced' = raced
      /\ versions' = versions /\ schema' = schema /\ objects' = objects
      /\ rollbacks' = rollbacks /\ abandoned' = abandoned
  BY DEF ReadVersions, schemaVars
<1> HIDE DEF r
<1>4. /\ DOMAIN req' = Clients /\ req'[c] = r
      /\ \A d \in Clients \ {c} : req'[d] = req[d]
  BY <1>3, RequestReplaced DEF SchemaInv
<1>5. RollingBack' <=> RollingBack
  BY <1>1, <1>2, <1>3, <1>4 DEF RollingBack, Processing
<1>6. ~Untouched
  BY <1>1 DEF Untouched, Applying
<1>7. Numbered => Numbered'
  BY <1>3, <1>5 DEF Numbered
<1>8. MigratorsInv => MigratorsInv'
  BY <1>2, <1>3, <1>4 DEF MigratorsInv, Applying, Processing, MIGRATIONS
<1> QED BY <1>2, <1>3, <1>4, <1>5, <1>6, <1>7, <1>8 DEF SchemaInv, Processing, MIGRATIONS

LEMMA MigrateInv ==
  ASSUME MigrationAssumption, SchemaInv, NEW c \in Clients, Migrate(c)
  PROVE  SchemaInv'
<1>1. PICK todo : todo = req[c].todo
  OBVIOUS
<1>2. req[c] \in ApplyRequests /\ Applying(c, "migrate") /\ Processing(c, "apply")
      /\ todo \subseteq MIGRATIONS /\ todo # {}
  BY <1>1 DEF SchemaInv, Migrate, Applying, ApplyRequests
<1>3. \E u \in todo : \A w \in todo : u =< w
  BY <1>2, LeastNumber DEF MIGRATIONS
<1>4. PICK v : v = CHOOSE u \in todo : \A w \in todo : u =< w
  OBVIOUS
<1>5. v \in todo /\ v \in MIGRATIONS
  BY <1>2, <1>3, <1>4
<1> DEFINE r == [req[c] EXCEPT !.todo = todo \ {v}]
<1>6. r \in ApplyRequests /\ r.op = "apply" /\ r.step = "migrate" /\ r.todo = todo \ {v}
  BY <1>2 DEF ApplyRequests, Applying
<1>7. /\ Applicable(v)
      /\ versions' = versions \cup {v}
      /\ schema' = schema \cup ({v} \ {Guarded})
      /\ objects' = IF v = Guarded THEN Objects ELSE objects
      /\ req' = [req EXCEPT ![c] = r]
      /\ rollbacks' = rollbacks /\ abandoned' = abandoned /\ raced' = raced
  BY <1>1, <1>4 DEF Migrate
<1> HIDE DEF r
<1>8. /\ DOMAIN req' = Clients /\ req'[c] = r
      /\ \A d \in Clients \ {c} : req'[d] = req[d]
  BY <1>7, RequestReplaced DEF SchemaInv
<1>9. RollingBack' <=> RollingBack
  BY <1>2, <1>6, <1>7, <1>8 DEF RollingBack, Processing
<1>10. ~Untouched
  BY <1>2 DEF Untouched, Applying
<1>11. versions' \subseteq MIGRATIONS
  BY <1>5, <1>7 DEF SchemaInv
<1>12. Numbered => Numbered'
  <2> SUFFICES ASSUME Numbered
               PROVE  Numbered'
    OBVIOUS
  <2>1. versions' \ {Guarded} = schema'
    BY <1>7 DEF Numbered
  <2>2. RollingBack \/ objects' = IF Guarded \in versions' THEN Objects ELSE {}
    BY <1>7 DEF Numbered
  <2> QED BY <1>9, <2>1, <2>2 DEF Numbered
<1>13. MigratorsInv => MigratorsInv'
  BY <1>1, <1>2, <1>6, <1>7, <1>8 DEF MigratorsInv, Applying, Processing, MIGRATIONS
<1> QED BY <1>6, <1>7, <1>8, <1>9, <1>10, <1>11, <1>12, <1>13
        DEF SchemaInv, Processing, MIGRATIONS

\* A request that ends and leaves the database as it is, or a rollback that begins.
LEMMA MigratedInv ==
  ASSUME MigrationAssumption, SchemaInv, NEW c \in Clients, Migrated(c)
  PROVE  SchemaInv'
<1>1. /\ req' = [req EXCEPT ![c] = Idle] /\ (raced' <=> raced) /\ Idle.op = "none"
      /\ versions' = versions /\ schema' = schema /\ objects' = objects
      /\ rollbacks' = rollbacks /\ abandoned' = abandoned /\ req[c].op = "apply"
  BY DEF Migrated, Commit, Idle, schemaVars, Applying, Processing
<1>2. /\ DOMAIN req' = Clients /\ req'[c].op = "none"
      /\ \A d \in Clients \ {c} : req'[d] = req[d]
  BY <1>1, RequestReplaced DEF SchemaInv
<1>3. RollingBack' <=> RollingBack
  BY <1>1, <1>2 DEF RollingBack, Processing
<1>4. /\ Untouched => Untouched'
      /\ Numbered => Numbered'
      /\ MigratorsInv => MigratorsInv'
  BY <1>1, <1>2, <1>3 DEF Untouched, Numbered, MigratorsInv, Applying, Processing, MIGRATIONS
<1> QED BY <1>1, <1>2, <1>3, <1>4 DEF SchemaInv, Processing, MIGRATIONS

LEMMA StartRollbackInv ==
  ASSUME MigrationAssumption, SchemaInv, NEW c \in Clients, StartRollback(c)
  PROVE  SchemaInv'
<1> DEFINE r == [op |-> "rollback", step |-> 1]
<1>1. /\ req' = [req EXCEPT ![c] = r] /\ raced' = raced /\ Guarded \in versions
      /\ versions' = versions /\ schema' = schema /\ objects' = objects
      /\ rollbacks' = rollbacks + 1
  BY DEF StartRollback, Begin
<1>2. /\ DOMAIN req' = Clients /\ req'[c] = r
      /\ \A d \in Clients \ {c} : req'[d] = req[d]
  BY <1>1, RequestReplaced DEF SchemaInv
<1>3. RollingBack'
  BY <1>2 DEF RollingBack, Processing
<1>4. ~Untouched
  BY <1>1, Versions DEF Untouched, MIGRATIONS
<1>5. Numbered => Numbered'
  BY <1>1, <1>3 DEF Numbered
<1>6. rollbacks' \in Nat /\ rollbacks' # 0
  BY <1>1 DEF SchemaInv
<1> QED BY <1>1, <1>2, <1>4, <1>5, <1>6 DEF SchemaInv, Processing, MIGRATIONS

LEMMA DropObjectInv ==
  ASSUME MigrationAssumption, SchemaInv, NEW c \in Clients, DropObject(c)
  PROVE  SchemaInv'
<1> DEFINE r == [req[c] EXCEPT !.step = req[c].step + 1]
<1>1. /\ req' = [req EXCEPT ![c] = r] /\ raced' = raced /\ req[c].op = "rollback"
      /\ versions' = versions /\ schema' = schema
      /\ rollbacks' = rollbacks /\ abandoned' = abandoned
  BY DEF DropObject, Processing
<1>2. r.op = "rollback"
  BY <1>1
<1> HIDE DEF r
<1>3. /\ DOMAIN req' = Clients /\ req'[c].op = "rollback"
      /\ \A d \in Clients \ {c} : req'[d] = req[d]
  BY <1>1, <1>2, RequestReplaced DEF SchemaInv
<1>4. RollingBack /\ RollingBack'
  BY <1>1, <1>3 DEF RollingBack, Processing
<1>5. Numbered => Numbered'
  BY <1>1, <1>4 DEF Numbered
<1>6. ~Untouched /\ rollbacks # 0
  BY <1>4 DEF Untouched, SchemaInv
<1> QED BY <1>1, <1>3, <1>5, <1>6 DEF SchemaInv, Processing, MIGRATIONS

LEMMA EndRollbackInv ==
  ASSUME MigrationAssumption, SchemaInv, NEW c \in Clients, EndRollback(c)
  PROVE  SchemaInv'
<1>1. /\ req' = [req EXCEPT ![c] = Idle] /\ Idle.op = "none" /\ req[c].op = "rollback"
      /\ versions' = versions \ {Guarded} /\ schema' = schema /\ objects' = objects
      /\ rollbacks' = rollbacks
      /\ ~raced' => ~raced /\ objects = {}
  BY DEF EndRollback, Commit, Idle, Processing
<1>2. /\ DOMAIN req' = Clients /\ req'[c].op = "none"
      /\ \A d \in Clients \ {c} : req'[d] = req[d]
  BY <1>1, RequestReplaced DEF SchemaInv
<1>3. RollingBack
  BY <1>1 DEF RollingBack, Processing
<1>4. ~Untouched /\ rollbacks # 0
  BY <1>3 DEF Untouched, SchemaInv
<1>5. ~raced' /\ Numbered => Numbered'
  BY <1>1 DEF Numbered
<1> QED BY <1>1, <1>2, <1>4, <1>5 DEF SchemaInv, Processing, MIGRATIONS

LEMMA DieInv ==
  ASSUME MigrationAssumption, SchemaInv, NEW c \in Clients, Die(c)
  PROVE  SchemaInv'
<1>1. /\ req' = [req EXCEPT ![c] = Idle] /\ Idle.op = "none" /\ raced' = raced
      /\ versions' = versions /\ schema' = schema /\ objects' = objects
      /\ rollbacks' = rollbacks
      /\ abandoned' = (abandoned \/ req[c].op = "rollback")
  BY DEF Die, Drop, Idle, Processing
<1>2. /\ DOMAIN req' = Clients /\ req'[c].op = "none"
      /\ \A d \in Clients \ {c} : req'[d] = req[d]
  BY <1>1, RequestReplaced DEF SchemaInv
<1>3. RollingBack' <=> RollingBack
  BY <1>1, <1>2 DEF RollingBack, Processing
<1>4. /\ Untouched => Untouched'
      /\ Numbered => Numbered'
      /\ MigratorsInv => MigratorsInv'
  BY <1>1, <1>2, <1>3 DEF Untouched, Numbered, MigratorsInv, Applying, Processing, MIGRATIONS
<1> QED BY <1>1, <1>2, <1>3, <1>4 DEF SchemaInv, Processing, MIGRATIONS

LEMMA SchemaStep ==
  ASSUME SchemaInv, [SchemaNext]_<<schemaVars, req, raced>>
  PROVE  SchemaInv'
<1>1. CASE SchemaNext
  BY <1>1, MigrationAssumption, CheckLegacyInv, RenumberInv, ReadVersionsInv, MigrateInv,
     MigratedInv, StartRollbackInv, DropObjectInv, EndRollbackInv, DieInv DEF SchemaNext
<1>2. CASE UNCHANGED <<schemaVars, req, raced>>
  BY <1>2 DEF SchemaInv, Untouched, Numbered, MigratorsInv, RollingBack, Applying, Processing,
              schemaVars, MIGRATIONS
<1> QED BY <1>1, <1>2

\* Whatever processes open the store, roll back and die at once, the recorded
\* versions are the ones whose tables exist, except before the renumbering and
\* after a rollback that has not ended; and a process whose migrations end has a
\* complete schema.
THEOREM MigrationsStayAgreed == SchemaSpec => MigrationsAgree
<1>1. StoreInit /\ SchemaInit => SchemaInv
  BY MigrationAssumption, SchemaStarts
<1>2. SchemaInv /\ [SchemaNext]_<<schemaVars, req, raced>> => SchemaInv'
  BY SchemaStep
<1>3. SchemaInv => VersionsMatchSchema
  <2> SUFFICES ASSUME SchemaInv, ~raced
               PROVE  VersionsMatchSchema
    BY DEF VersionsMatchSchema
  <2>1. CASE Untouched
    BY <2>1 DEF Untouched, VersionsMatchSchema, Legacy
  <2>2. CASE Numbered
    BY <2>2 DEF Numbered, VersionsMatchSchema
  <2> QED BY <2>1, <2>2 DEF SchemaInv
<1>4. SchemaInv /\ [SchemaNext]_<<schemaVars, req, raced>> =>
        [ \A c \in Clients : Migrated(c) /\ rollbacks = 0 /\ ~raced =>
            schema = MIGRATIONS \ {Guarded} /\ objects = Objects /\ versions = MIGRATIONS
        ]_<<schemaVars, req, raced>>
  <2> SUFFICES ASSUME SchemaInv, NEW c \in Clients, Migrated(c), rollbacks = 0, ~raced
               PROVE  schema = MIGRATIONS \ {Guarded} /\ objects = Objects /\ versions = MIGRATIONS
    OBVIOUS
  <2>1. Applying(c, "migrate") /\ req[c].todo = {} /\ Processing(c, "apply")
    BY DEF Migrated, Applying
  <2>2. versions = MIGRATIONS
    BY <2>1 DEF SchemaInv, MigratorsInv, MIGRATIONS
  <2>3. Numbered /\ ~RollingBack
    BY <2>1 DEF SchemaInv, Untouched, Applying
  <2> QED BY <2>2, <2>3, MigrationAssumption, Versions DEF Numbered
<1> QED BY <1>1, <1>2, <1>3, <1>4, PTL DEF SchemaSpec, MigrationsAgree, OpensMigrated

-----------------------------------------------------------------------------
(* The tool registry.                                                      *)

ToolSpec == StoreInit /\ ToolInit /\ [][ToolNext]_<<toolVars, req, raced>>

ToolRows == [lifecycle : LIFECYCLES, manifest : Manifests, cached : BOOLEAN]
Asks == {"verify", "install", "activate", "deactivate", "uninstall"}

\* What a check has made sure of, at the time.
Asked(r) ==
  r.op \in Asks =>
    /\ r.t \in Registered /\ \E S : r \in [op : Asks, t : Tools, step : Nat, seen : S]
    /\ r.op = "verify" => r.seen[1] \notin Withdrawn
    /\ r.op = "install" => r.seen[1] = "verified"
    /\ r.op = "activate" => r.seen = <<"verified", TRUE, "intact">>
    /\ r.op = "uninstall" => r.seen[1] # "active"

Served(t) ==
  \/ \E u \in Registered \ {t} : Digest(u) = Digest(t)
  \/ tools[t].cached /\ cache[Digest(t)] = "intact"

ToolInv ==
  /\ DOMAIN req = Clients
  /\ \A c \in Clients : Asked(req[c])
  /\ DOMAIN tools = Tools
  /\ \A t \in Tools : tools[t] = Unregistered \/ tools[t] \in ToolRows
  /\ \A t, u \in ActiveTools : t # u => Capabilities(t) \cap Capabilities(u) = {}
  /\ raced \/ \A t \in ActiveTools : Served(t)

\* What is withdrawn stays so in this step, unless it raced.
RestsNow ==
  raced' \/ \A t \in Registered : Lifecycle(t) \in Withdrawn => tools'[t].lifecycle \in Withdrawn

LEMMA RowsRegistered ==
  ASSUME NEW row \in ToolRows
  PROVE  row # Unregistered
<1>1. row.lifecycle # "none"
  BY DEF ToolRows, LIFECYCLES, Withdrawn
<1>2. Unregistered.lifecycle = "none"
  BY DEF Unregistered
<1> QED BY <1>1, <1>2

LEMMA RegisteredRows ==
  ASSUME ToolInv, NEW t \in Registered
  PROVE  t \in Tools /\ tools[t] \in ToolRows
BY DEF ToolInv, Registered

\* What the change of a row leaves of the table.
LEMMA RowReplaced ==
  ASSUME ToolInv, NEW t \in Registered, NEW row \in ToolRows, row.manifest = tools[t].manifest,
         tools' = [tools EXCEPT ![t] = row]
  PROVE  /\ DOMAIN tools' = Tools
         /\ \A u \in Tools : tools'[u] = Unregistered \/ tools'[u] \in ToolRows
         /\ Registered' = Registered /\ tools'[t] = row
         /\ \A u \in Registered \ {t} : tools'[u] = tools[u]
         /\ \A u \in Registered :
              Digest(u)' = Digest(u) /\ Capabilities(u)' = Capabilities(u)
<1>1. t \in Tools
  BY DEF Registered
<1>2. /\ DOMAIN tools' = Tools /\ tools'[t] = row
      /\ \A u \in Tools \ {t} : tools'[u] = tools[u]
  BY <1>1 DEF ToolInv
<1>3. \A u \in Tools : tools'[u] = Unregistered \/ tools'[u] \in ToolRows
  BY <1>2 DEF ToolInv
<1>4. Registered' = Registered
  BY <1>1, <1>2, RowsRegistered DEF Registered
<1>5. \A u \in Registered : tools'[u].manifest = tools[u].manifest
  BY <1>2 DEF Registered
<1> QED BY <1>2, <1>3, <1>4, <1>5 DEF Registered, Digest, Capabilities

\* The steps after which at most what was active is active, and served as it was.
LEMMA ToolsKept ==
  ASSUME ToolInv, DOMAIN req' = Clients, \A c \in Clients : Asked(req'[c]),
         DOMAIN tools' = Tools,
         \A u \in Tools : tools'[u] = Unregistered \/ tools'[u] \in ToolRows,
         Registered \subseteq Registered',
         \A u \in Registered : Digest(u)' = Digest(u) /\ Capabilities(u)' = Capabilities(u),
         ActiveTools' \subseteq ActiveTools,
         \/ raced'
         \/ /\ ~raced
            /\ \A u \in ActiveTools' : tools[u].cached = tools'[u].cached
            /\ \A u \in ActiveTools' : \/ cache'[Digest(u)] = cache[Digest(u)]
                                       \/ \E v \in Registered \ {u} : Digest(v) = Digest(u)
  PROVE  ToolInv'
<1>1. \A t, u \in ActiveTools' : t # u => Capabilities(t)' \cap Capabilities(u)' = {}
  BY DEF ToolInv, ActiveTools
<1>2. raced' \/ \A t \in ActiveTools' : Served(t)'
  <2> SUFFICES ASSUME ~raced', NEW t \in ActiveTools'
               PROVE  Served(t)'
    OBVIOUS
  <2>1. t \in ActiveTools /\ t \in Registered
    BY DEF ActiveTools
  <2>2. CASE \E v \in Registered \ {t} : Digest(v) = Digest(t)
    BY <2>1, <2>2 DEF Served
  <2>3. CASE ~\E v \in Registered \ {t} : Digest(v) = Digest(t)
    <3>1. tools[t].cached /\ cache[Digest(t)] = "intact"
      BY <2>1, <2>3 DEF ToolInv, Served
    <3>2. tools'[t].cached /\ cache'[Digest(t)'] = "intact"
      BY <2>1, <2>3, <3>1
    <3> QED BY <3>2 DEF Served
  <2> QED BY <2>2, <2>3
<1>3. \A c \in Clients : Asked(req[c])'
  BY DEF Asked
<1> QED BY <1>1, <1>2, <1>3 DEF ToolInv

\* The requests of the others stay what they were.
LEMMA AskedKept ==
  ASSUME ToolInv, \/ req' = req
                  \/ \E r : \E c \in Clients : Asked(r) /\ req' = [req EXCEPT ![c] = r]
  PROVE  DOMAIN req' = Clients /\ \A d \in Clients : Asked(req'[d])
<1>1. CASE req' = req
  BY <1>1 DEF ToolInv
<1>2. CASE \E r : \E c \in Clients : Asked(r) /\ req' = [req EXCEPT ![c] = r]
  <2>1. PICK r : \E c \in Clients : Asked(r) /\ req' = [req EXCEPT ![c] = r]
    BY <1>2
  <2>2. PICK c \in Clients : Asked(r) /\ req' = [req EXCEPT ![c] = r]
    BY <2>1
  <2>3. /\ DOMAIN req' = Clients /\ req'[c] = r
        /\ \A d \in Clients \ {c} : req'[d] = req[d]
    BY <2>2, RequestReplaced DEF ToolInv
  <2> QED BY <2>2, <2>3 DEF ToolInv
<1> QED BY <1>1, <1>2

LEMMA IdleAsks == Asked(Idle)
BY DEF Asked, Idle, Asks

\* A request that begins or ends, with the tables and the files as they are.
LEMMA QuietTools ==
  ASSUME ToolInv, raced' = raced, tools' = tools, cache' = cache,
         \/ req' = req
         \/ \E r : \E c \in Clients : Asked(r) /\ req' = [req EXCEPT ![c] = r]
  PROVE  ToolInv' /\ RestsNow
<1>1. Registered' = Registered /\ ActiveTools' = ActiveTools
  BY DEF Registered, ActiveTools, Lifecycle
<1>2. DOMAIN req' = Clients /\ \A d \in Clients : Asked(req[d])'
  BY <1>1, AskedKept DEF Asked
<1>3. \A u : Digest(u)' = Digest(u) /\ Capabilities(u)' = Capabilities(u) /\ (Served(u)' <=> Served(u))
  BY <1>1 DEF Digest, Capabilities, Served
<1>4. RestsNow
  BY DEF RestsNow, Lifecycle
<1> QED BY <1>1, <1>2, <1>3, <1>4 DEF ToolInv

\* The checks, each with what it has seen.
LEMMA AskInv ==
  ASSUME ToolInv, NEW c \in Clients, NEW t \in Registered, NEW op, Ask(c, op, t), UNCHANGED toolVars,
         op = "verify" => Lifecycle(t) \notin Withdrawn,
         op = "install" => Lifecycle(t) = "verified",
         op = "activate" => State(t) = <<"verified", TRUE, "intact">>,
         op = "uninstall" => Lifecycle(t) # "active"
  PROVE  ToolInv' /\ RestsNow
<1> DEFINE r == [op |-> op, t |-> t, step |-> 1, seen |-> State(t)]
<1>1. Asked(r)
  <2>1. r.op \in Asks => r \in [op : Asks, t : Tools, step : Nat, seen : {State(t)}]
    BY DEF Registered
  <2>2. State(t)[1] = Lifecycle(t)
    BY DEF State
  <2> QED BY <2>1, <2>2 DEF Asked
<1>2. req' = [req EXCEPT ![c] = r] /\ raced' = raced /\ tools' = tools /\ cache' = cache
  BY DEF Ask, Begin, toolVars
<1> HIDE DEF r
<1> QED BY <1>1, <1>2, QuietTools

LEMMA ChecksInv ==
  ASSUME ToolInv, NEW c \in Clients,
         \/ CheckVerify(c)
         \/ CheckInstall(c)
         \/ CheckActivate(c)
         \/ CheckDeactivate(c)
         \/ CheckUninstall(c)
         \/ Drop(c) /\ UNCHANGED toolVars
         \/ TrustPublisher(c)
  PROVE  ToolInv' /\ RestsNow
<1>1. CASE CheckVerify(c)
  BY <1>1, AskInv DEF CheckVerify, Verifiable
<1>2. CASE CheckInstall(c)
  BY <1>2, AskInv DEF CheckInstall
<1>3. CASE CheckActivate(c)
  BY <1>3, AskInv DEF CheckActivate
<1>4. CASE CheckDeactivate(c)
  BY <1>4, AskInv DEF CheckDeactivate
<1>5. CASE CheckUninstall(c)
  BY <1>5, AskInv DEF CheckUninstall, Removable
<1>6. CASE Drop(c) /\ UNCHANGED toolVars
  BY <1>6, IdleAsks, QuietTools DEF Drop, toolVars
<1>7. CASE TrustPublisher(c)
  BY <1>7, QuietTools DEF TrustPublisher, Atomically
<1> QED BY <1>1, <1>2, <1>3, <1>4, <1>5, <1>6, <1>7

LEMMA RegisterInv ==
  ASSUME ToolInv, NEW c \in Clients, Register(c)
  PROVE  ToolInv' /\ RestsNow
<1>1. PICK t \in Tools \ Registered, m \in Manifests,
           lifecycle_ \in {"candidate"} \cup (Withdrawals \cap {"deprecated", "revoked"}) :
        tools' = [tools EXCEPT ![t] = ToolRow(m, lifecycle_)]
  BY DEF Register
<1> DEFINE row == ToolRow(m, lifecycle_)
<1>2. row \in ToolRows /\ row.lifecycle # "active"
  BY DEF ToolRow, ToolRows, LIFECYCLES, Withdrawn
<1>3. req' = req /\ raced' = raced /\ cache' = cache
  BY DEF Register, Atomically
<1> HIDE DEF row
<1>4. /\ DOMAIN tools' = Tools /\ tools'[t] = row
      /\ \A u \in Tools \ {t} : tools'[u] = tools[u]
  BY <1>1 DEF ToolInv, row
<1>5. \A u \in Tools : tools'[u] = Unregistered \/ tools'[u] \in ToolRows
  BY <1>2, <1>4 DEF ToolInv
<1>6. Registered \subseteq Registered' /\ \A u \in Registered : u # t /\ tools'[u] = tools[u]
  BY <1>4 DEF Registered
<1>7. \A u \in Registered : Digest(u)' = Digest(u) /\ Capabilities(u)' = Capabilities(u)
  BY <1>6 DEF Digest, Capabilities
<1>8. ActiveTools' \subseteq ActiveTools
  BY <1>2, <1>4 DEF ActiveTools, Registered, Lifecycle
<1>9. \A u \in ActiveTools' : tools'[u] = tools[u] /\ cache'[Digest(u)] = cache[Digest(u)]
  BY <1>3, <1>6, <1>8 DEF ActiveTools
<1>10. DOMAIN req' = Clients /\ \A d \in Clients : Asked(req'[d])
  BY <1>3, AskedKept
<1>11. ToolInv'
  BY <1>3, <1>4, <1>5, <1>6, <1>7, <1>8, <1>9, <1>10, ToolsKept
<1>12. RestsNow
  BY <1>6 DEF RestsNow, Lifecycle
<1> QED BY <1>11, <1>12

\* The steps that change a row, but make no tool active.
LEMMA RowMoved ==
  ASSUME ToolInv, NEW t \in Registered, NEW row \in ToolRows, row.manifest = tools[t].manifest,
         row.lifecycle = "active" => Lifecycle(t) = "active",
         tools' = [tools EXCEPT ![t] = row], cache' = cache,
         raced => raced',
         \/ raced'
         \/ row.cached = tools[t].cached
         \/ row.cached
         \/ row.lifecycle # "active",
         \/ raced'
         \/ Lifecycle(t) \notin Withdrawn
         \/ row.lifecycle \in Withdrawn,
         \/ req' = req
         \/ \E r : \E c \in Clients : Asked(r) /\ req' = [req EXCEPT ![c] = r]
  PROVE  ToolInv' /\ RestsNow
<1>1. /\ DOMAIN tools' = Tools
      /\ \A u \in Tools : tools'[u] = Unregistered \/ tools'[u] \in ToolRows
      /\ Registered' = Registered /\ tools'[t] = row
      /\ \A u \in Registered \ {t} : tools'[u] = tools[u]
      /\ \A u \in Registered : Digest(u)' = Digest(u) /\ Capabilities(u)' = Capabilities(u)
  BY RowReplaced
<1>2. DOMAIN req' = Clients /\ \A d \in Clients : Asked(req[d])'
  BY <1>1, AskedKept DEF Asked
<1>3. \A u \in ActiveTools' : u \in ActiveTools
  BY <1>1 DEF ActiveTools, Lifecycle
<1>4. \A u, v \in ActiveTools' : u # v => Capabilities(u)' \cap Capabilities(v)' = {}
  BY <1>1, <1>3 DEF ToolInv, ActiveTools
<1>5. raced' \/ \A u \in ActiveTools' : Served(u)'
  <2> SUFFICES ASSUME ~raced', NEW u \in ActiveTools'
               PROVE  Served(u)'
    OBVIOUS
  <2>1. u \in ActiveTools /\ u \in Registered /\ Served(u)
    BY <1>3 DEF ToolInv, ActiveTools
  <2>2. tools[u].cached => tools'[u].cached
    BY <1>1, <2>1 DEF ActiveTools, Lifecycle
  <2>3. Digest(u)' = Digest(u) /\ cache'[Digest(u)] = cache[Digest(u)]
    BY <1>1, <2>1
  <2> QED BY <1>1, <2>1, <2>2, <2>3 DEF Served
<1>6. RestsNow
  BY <1>1 DEF RestsNow, Lifecycle
<1> QED BY <1>1, <1>2, <1>4, <1>5, <1>6 DEF ToolInv

\* The steps that change a file, of a tool that is not active unless they raced.
LEMMA FileChanged ==
  ASSUME ToolInv, NEW t \in Registered, NEW content, SetFile(t, content), tools' = tools,
         raced => raced',
         raced' \/ Lifecycle(t) # "active",
         \/ req' = req
         \/ \E r : \E c \in Clients : Asked(r) /\ req' = [req EXCEPT ![c] = r]
  PROVE  ToolInv' /\ RestsNow
<1>1. Registered' = Registered /\ ActiveTools' = ActiveTools
  BY DEF Registered, ActiveTools, Lifecycle
<1>2. \A u : Digest(u)' = Digest(u) /\ Capabilities(u)' = Capabilities(u)
  BY DEF Digest, Capabilities
<1>3. \A u \in Registered : cache'[Digest(u)] = cache[Digest(u)] \/ Digest(u) = Digest(t)
  BY DEF SetFile
<1>4. raced' \/ \A u \in ActiveTools' : u \in Registered /\ u # t
  BY <1>1 DEF ActiveTools
<1>5. raced' \/ \A u \in ActiveTools' : \/ cache'[Digest(u)] = cache[Digest(u)]
                                        \/ \E v \in Registered \ {u} : Digest(v) = Digest(u)
  BY <1>3, <1>4
<1>6. DOMAIN req' = Clients /\ \A d \in Clients : Asked(req'[d])
  BY AskedKept
<1>7. ToolInv'
  BY <1>1, <1>2, <1>5, <1>6, ToolsKept DEF ToolInv
<1>8. RestsNow
  BY DEF RestsNow, Lifecycle
<1> QED BY <1>7, <1>8

LEMMA VerifyInv ==
  ASSUME ToolInv, NEW c \in Clients, Verify(c)
  PROVE  ToolInv' /\ RestsNow
<1>1. PICK t : t = req[c].t
  OBVIOUS
<1> DEFINE row == [tools[t] EXCEPT !.lifecycle = "verified"]
<1>2. t \in Registered /\ req[c].seen[1] \notin Withdrawn
  BY <1>1 DEF ToolInv, Verify, Processing, Asked, Asks
<1>3. row \in ToolRows /\ row.manifest = tools[t].manifest /\ row.lifecycle = "verified"
  BY <1>2, RegisteredRows DEF ToolRows, LIFECYCLES
<1>4. /\ tools' = [tools EXCEPT ![t] = row] /\ cache' = cache
      /\ raced' = (raced \/ Lifecycle(t) # req[c].seen[1])
      /\ req' = [req EXCEPT ![c] = Idle]
  BY <1>1 DEF Verify, SetLifecycleOf, Commit
<1>5. raced' \/ Lifecycle(t) \notin Withdrawn
  BY <1>2, <1>4
<1> HIDE DEF row
<1> QED BY <1>2, <1>3, <1>4, <1>5, RowMoved, IdleAsks

LEMMA DeactivateInv ==
  ASSUME ToolInv, NEW c \in Clients, Deactivate(c)
  PROVE  ToolInv' /\ RestsNow
<1>1. PICK t : t = req[c].t
  OBVIOUS
<1> DEFINE row == [tools[t] EXCEPT !.lifecycle = "verified"]
<1>2. t \in Registered
  BY <1>1 DEF ToolInv, Deactivate, Processing, Asked, Asks
<1>3. row \in ToolRows /\ row.manifest = tools[t].manifest /\ row.lifecycle = "verified"
  BY <1>2, RegisteredRows DEF ToolRows, LIFECYCLES
<1>4. /\ tools' = [tools EXCEPT ![t] = row] /\ cache' = cache
      /\ raced' = (raced \/ Lifecycle(t) # "active")
      /\ req' = [req EXCEPT ![c] = Idle]
  BY <1>1 DEF Deactivate, SetLifecycleOf, Commit
<1>5. raced' \/ Lifecycle(t) \notin Withdrawn
  BY <1>4 DEF Withdrawn
<1> HIDE DEF row
<1> QED BY <1>2, <1>3, <1>4, <1>5, RowMoved, IdleAsks

LEMMA SetLifecycleInv ==
  ASSUME ToolAssumption, ToolInv, NEW c \in Clients, SetLifecycle(c)
  PROVE  ToolInv' /\ RestsNow
<1>1. PICK t \in Registered, l \in Withdrawals : SetLifecycleOf(t, l)
  BY DEF SetLifecycle
<1> DEFINE row == [tools[t] EXCEPT !.lifecycle = l]
<1>2. l \in Withdrawn /\ l # "active"
  BY DEF ToolAssumption, Withdrawn
<1>3. row \in ToolRows /\ row.manifest = tools[t].manifest /\ row.lifecycle = l
  BY <1>2, RegisteredRows DEF ToolRows, LIFECYCLES
<1>4. tools' = [tools EXCEPT ![t] = row] /\ cache' = cache /\ raced' = raced /\ req' = req
  BY <1>1 DEF SetLifecycle, SetLifecycleOf, Atomically
<1> HIDE DEF row
<1> QED BY <1>2, <1>3, <1>4, RowMoved

LEMMA InstallInv ==
  ASSUME ToolInv, NEW c \in Clients, Install(c)
  PROVE  ToolInv' /\ RestsNow
<1>1. PICK t : t = req[c].t
  OBVIOUS
<1> DEFINE row == [tools[t] EXCEPT !.cached = TRUE]
<1>2. t \in Registered
  BY <1>1 DEF ToolInv, Install, Step, Processing, Asked, Asks
<1>3. row \in ToolRows /\ row.manifest = tools[t].manifest /\ row.lifecycle = Lifecycle(t)
      /\ row.cached = TRUE
  BY <1>2, RegisteredRows DEF ToolRows, LIFECYCLES, Lifecycle
<1>4. /\ tools' = [tools EXCEPT ![t] = row] /\ cache' = cache
      /\ raced => raced'
      /\ req' = [req EXCEPT ![c] = Idle]
  BY <1>1 DEF Install, Commit
<1> HIDE DEF row
<1> QED BY <1>2, <1>3, <1>4, RowMoved, IdleAsks

LEMMA UninstallInv ==
  ASSUME ToolInv, NEW c \in Clients, Uninstall(c)
  PROVE  ToolInv' /\ RestsNow
<1>1. PICK t : t = req[c].t
  OBVIOUS
<1> DEFINE row == [tools[t] EXCEPT !.cached = FALSE]
<1>2. t \in Registered
  BY <1>1 DEF ToolInv, Uninstall, Step, Processing, Asked, Asks
<1>3. row \in ToolRows /\ row.manifest = tools[t].manifest /\ row.lifecycle = Lifecycle(t)
  BY <1>2, RegisteredRows DEF ToolRows, LIFECYCLES, Lifecycle
<1>4. /\ tools' = [tools EXCEPT ![t] = row] /\ cache' = cache
      /\ raced => raced'
      /\ raced' \/ Lifecycle(t) # "active"
      /\ req' = [req EXCEPT ![c] = Idle]
  BY <1>1 DEF Uninstall, Commit
<1> HIDE DEF row
<1> QED BY <1>2, <1>3, <1>4, RowMoved, IdleAsks

LEMMA StartCopyInv ==
  ASSUME ToolInv, NEW c \in Clients, StartCopy(c)
  PROVE  ToolInv' /\ RestsNow
<1>1. PICK t : t = req[c].t
  OBVIOUS
<1> DEFINE r == [req[c] EXCEPT !.step = req[c].step + 1]
<1>2. t \in Registered /\ req[c].seen[1] = "verified" /\ Asked(req[c]) /\ req[c].op = "install"
  BY <1>1 DEF ToolInv, StartCopy, Step, Processing, Asked, Asks
<1>3. Asked(r)
  <2>1. PICK S : req[c] \in [op : Asks, t : Tools, step : Nat, seen : S]
    BY <1>2 DEF Asked, Asks
  <2>2. r.t = req[c].t /\ r.op = req[c].op /\ r.seen = req[c].seen
        /\ r \in [op : Asks, t : Tools, step : Nat, seen : S]
    BY <2>1
  <2> QED BY <1>2, <2>2 DEF Asked
<1>4. SetFile(t, "partial") /\ tools' = tools /\ req' = [req EXCEPT ![c] = r]
      /\ raced' = (raced \/ req[c].seen # State(t))
  BY <1>1 DEF StartCopy, Continue, Stale
<1>5. raced' \/ Lifecycle(t) # "active"
  <2>1. State(t)[1] = Lifecycle(t)
    BY DEF State
  <2> QED BY <1>2, <1>4, <2>1
<1> HIDE DEF r
<1> QED BY <1>2, <1>3, <1>4, <1>5, FileChanged

LEMMA EndCopyInv ==
  ASSUME ToolInv, NEW c \in Clients, EndCopy(c)
  PROVE  ToolInv' /\ RestsNow
<1>1. PICK t : t = req[c].t
  OBVIOUS
<1> DEFINE r == [req[c] EXCEPT !.step = 3]
<1>2. t \in Registered /\ Asked(req[c]) /\ req[c].op = "install"
  BY <1>1 DEF ToolInv, EndCopy, Step, Processing, Asked, Asks
<1>3. Asked(r)
  <2>1. PICK S : req[c] \in [op : Asks, t : Tools, step : Nat, seen : S]
    BY <1>2 DEF Asked, Asks
  <2>2. r.t = req[c].t /\ r.op = req[c].op /\ r.seen = req[c].seen
        /\ r \in [op : Asks, t : Tools, step : Nat, seen : S]
    BY <2>1
  <2> QED BY <1>2, <2>2 DEF Asked
<1>4. tools' = tools /\ raced' = (raced \/ Lifecycle(t) # "verified")
  BY <1>1 DEF EndCopy
<1>5. raced' \/ Lifecycle(t) # "active"
  BY <1>4
<1>6. \/ SetFile(t, "intact") /\ req' = [req EXCEPT ![c] = r]
      \/ SetFile(t, "absent") /\ req' = [req EXCEPT ![c] = Idle]
  BY <1>1 DEF EndCopy
<1> HIDE DEF r
<1> QED BY <1>2, <1>3, <1>4, <1>5, <1>6, FileChanged, IdleAsks

LEMMA UnlinkInv ==
  ASSUME ToolInv, NEW c \in Clients, Unlink(c)
  PROVE  ToolInv' /\ RestsNow
<1>1. PICK t : t = req[c].t
  OBVIOUS
<1> DEFINE r == [req[c] EXCEPT !.step = req[c].step + 1]
<1>2. t \in Registered /\ req[c].seen[1] # "active" /\ Asked(req[c]) /\ req[c].op = "uninstall"
  BY <1>1 DEF ToolInv, Unlink, Step, Processing, Asked, Asks
<1>3. Asked(r)
  <2>1. PICK S : req[c] \in [op : Asks, t : Tools, step : Nat, seen : S]
    BY <1>2 DEF Asked, Asks
  <2>2. r.t = req[c].t /\ r.op = req[c].op /\ r.seen = req[c].seen
        /\ r \in [op : Asks, t : Tools, step : Nat, seen : S]
    BY <2>1
  <2> QED BY <1>2, <2>2 DEF Asked
<1>4. tools' = tools /\ req' = [req EXCEPT ![c] = r]
      /\ raced' = (raced \/ req[c].seen # State(t))
  BY <1>1 DEF Unlink, Continue, Stale
<1>5. raced' \/ Lifecycle(t) # "active"
  <2>1. State(t)[1] = Lifecycle(t)
    BY DEF State
  <2> QED BY <1>2, <1>4, <2>1
<1>6. SetFile(t, "absent") \/ cache' = cache
  BY <1>1 DEF Unlink
<1>7. CASE SetFile(t, "absent")
  <2> HIDE DEF r
  <2> QED BY <1>2, <1>3, <1>4, <1>5, <1>7, FileChanged
<1>8. CASE cache' = cache
  <2>1. Registered' = Registered /\ ActiveTools' = ActiveTools
    BY <1>4 DEF Registered, ActiveTools, Lifecycle
  <2>2. DOMAIN req' = Clients /\ \A d \in Clients : Asked(req'[d])
    BY <1>3, <1>4, AskedKept
  <2>3. \A u : Digest(u)' = Digest(u) /\ Capabilities(u)' = Capabilities(u)
               /\ (Served(u)' <=> Served(u))
    BY <1>4, <1>8, <2>1 DEF Digest, Capabilities, Served
  <2>4. RestsNow
    BY <1>4 DEF RestsNow, Lifecycle
  <2>5. \A d \in Clients : Asked(req[d])'
    BY <2>1, <2>2 DEF Asked
  <2>6. ToolInv'
    BY <1>4, <2>1, <2>2, <2>3, <2>5 DEF ToolInv
  <2> QED BY <2>4, <2>6
<1> QED BY <1>6, <1>7, <1>8

LEMMA ActivateInv ==
  ASSUME ToolInv, NEW c \in Clients, Activate(c)
  PROVE  ToolInv' /\ RestsNow
<1>1. PICK t, rivals : t = req[c].t /\ rivals = Rivals(t)
  OBVIOUS
<1>2. t \in Registered /\ req[c].seen = <<"verified", TRUE, "intact">>
  BY <1>1 DEF ToolInv, Activate, Processing, Asked, Asks
<1>3. /\ tools' = [u \in Tools |->
           IF u = t THEN [tools[u] EXCEPT !.lifecycle = "active"]
           ELSE IF u \in rivals THEN [tools[u] EXCEPT !.lifecycle = "verified"]
           ELSE tools[u]]
      /\ cache' = cache /\ req' = [req EXCEPT ![c] = Idle]
      /\ raced' = (raced \/ req[c].seen # State(t))
  BY <1>1 DEF Activate, Commit, Stale
<1>4. rivals \subseteq Registered \ {t} /\ \A u \in rivals : Lifecycle(u) = "active"
  BY <1>1 DEF Rivals
<1>5. ASSUME NEW u \in Registered
      PROVE  /\ tools'[u] \in ToolRows
             /\ tools'[u].manifest = tools[u].manifest /\ tools'[u].cached = tools[u].cached
             /\ tools'[u].lifecycle = IF u = t THEN "active"
                                      ELSE IF u \in rivals THEN "verified" ELSE Lifecycle(u)
  <2>1. u \in Tools /\ tools[u] \in ToolRows
    BY RegisteredRows
  <2> QED BY <1>3, <2>1 DEF ToolRows, LIFECYCLES, Lifecycle
<1>6. \A u \in Tools \ Registered : tools'[u] = Unregistered
  BY <1>2, <1>3, <1>4 DEF Registered
<1>7. Registered' = Registered
  BY <1>5, <1>6, RowsRegistered DEF Registered
<1>8. \A u \in Registered : Digest(u)' = Digest(u) /\ Capabilities(u)' = Capabilities(u)
  BY <1>5 DEF Digest, Capabilities
<1>9. \A u \in ActiveTools' : u = t \/ (u \in ActiveTools /\ u \notin rivals)
  BY <1>5, <1>7 DEF ActiveTools, Lifecycle
<1>10. \A u \in ActiveTools \ rivals : u # t => Capabilities(u) \cap Capabilities(t) = {}
  BY <1>1 DEF Rivals, ActiveTools
<1>11. \A u, v \in ActiveTools' : u # v => Capabilities(u)' \cap Capabilities(v)' = {}
  <2> SUFFICES ASSUME NEW u \in ActiveTools', NEW v \in ActiveTools', u # v
               PROVE  Capabilities(u)' \cap Capabilities(v)' = {}
    OBVIOUS
  <2>1. u \in Registered /\ v \in Registered
    BY <1>7 DEF ActiveTools
  <2>2. Capabilities(u) \cap Capabilities(v) = {}
    BY <1>9, <1>10 DEF ToolInv
  <2>3. Capabilities(u)' = Capabilities(u) /\ Capabilities(v)' = Capabilities(v)
    BY <1>8, <2>1
  <2> QED BY <2>2, <2>3
<1>12. raced' \/ \A u \in ActiveTools' : Served(u)'
  <2> SUFFICES ASSUME ~raced', NEW u \in ActiveTools'
               PROVE  Served(u)'
    OBVIOUS
  <2>1. ~raced /\ State(t) = <<"verified", TRUE, "intact">> /\ u \in Registered
    BY <1>2, <1>3, <1>7 DEF ActiveTools
  <2>2. tools[t].cached /\ cache[Digest(t)] = "intact"
    BY <2>1 DEF State
  <2>3. Served(u)
    BY <1>9, <2>1, <2>2 DEF ToolInv, Served
  <2>4. tools'[u].cached = tools[u].cached /\ cache'[Digest(u)'] = cache[Digest(u)]
    BY <1>3, <1>5, <1>8, <2>1
  <2>5. \A v \in Registered : Digest(v)' = Digest(v)
    BY <1>8
  <2> QED BY <1>7, <2>1, <2>3, <2>4, <2>5 DEF Served
<1>13. RestsNow
  <2>1. raced' \/ Lifecycle(t) = "verified"
    <3>1. State(t)[1] = Lifecycle(t)
      BY DEF State
    <3>2. req[c].seen[1] = "verified"
      BY <1>2
    <3> QED BY <1>3, <3>1, <3>2
  <2>2. \A u \in rivals : Lifecycle(u) \notin Withdrawn
    BY <1>4 DEF Withdrawn
  <2>3. "verified" \notin Withdrawn
    BY DEF Withdrawn
  <2> QED BY <1>5, <2>1, <2>2, <2>3 DEF RestsNow
<1>14. DOMAIN req' = Clients /\ \A d \in Clients : Asked(req[d])'
  BY <1>3, <1>7, AskedKept, IdleAsks DEF Asked
<1>15. DOMAIN tools' = Tools /\ \A u \in Tools : tools'[u] = Unregistered \/ tools'[u] \in ToolRows
  BY <1>3, <1>5, <1>6
<1> QED BY <1>11, <1>12, <1>13, <1>14, <1>15 DEF ToolInv

LEMMA ToolStarts ==
  ASSUME StoreInit, ToolInit
  PROVE  ToolInv
<1>1. DOMAIN req = Clients /\ (\A c \in Clients : req[c] = Idle)
      /\ DOMAIN tools = Tools /\ \A t \in Tools : tools[t] = Unregistered
  BY DEF StoreInit, ToolInit
<1>2. Registered = {} /\ ActiveTools = {}
  BY <1>1 DEF Registered, ActiveTools
<1> QED BY <1>1, <1>2, IdleAsks DEF ToolInv

LEMMA ToolStep ==
  ASSUME ToolInv, [ToolNext]_<<toolVars, req, raced>>
  PROVE  ToolInv' /\ RestsNow
<1>1. CASE ToolNext
  BY <1>1, ToolAssumption, ChecksInv, RegisterInv, SetLifecycleInv, VerifyInv, StartCopyInv,
     EndCopyInv, InstallInv, ActivateInv, DeactivateInv, UnlinkInv, UninstallInv DEF ToolNext
<1>2. CASE UNCHANGED <<toolVars, req, raced>>
  BY <1>2, QuietTools DEF toolVars
<1> QED BY <1>1, <1>2

\* Whichever clients install, activate and remove tools at once, at most one
\* active tool serves a capability; and without races its artifact is there,
\* whole, and nothing that was withdrawn comes back.
THEOREM RegistryKeepsServing == ToolSpec => RegistryServes
<1>1. StoreInit /\ ToolInit => ToolInv
  BY ToolStarts
<1>2. ToolInv /\ [ToolNext]_<<toolVars, req, raced>> => ToolInv'
  BY ToolStep
<1>3. ToolInv => ActiveToolsServe
  BY DEF ToolInv, ActiveToolsServe, Served
<1>4. ToolInv /\ [ToolNext]_<<toolVars, req, raced>> =>
        [ raced' \/ \A t \in Registered :
            Lifecycle(t) \in Withdrawn => tools'[t].lifecycle \in Withdrawn
        ]_<<toolVars, req, raced>>
  BY ToolStep DEF RestsNow
<1> QED BY <1>1, <1>2, <1>3, <1>4, PTL DEF ToolSpec, RegistryServes, WithdrawnStaysWithdrawn

-----------------------------------------------------------------------------
(* The promotion of a skill.                                               *)

SkillSpec == StoreInit /\ SkillInit /\ [][SkillNext]_<<skillVars, req, raced>>

\* RepeatedEvidence, of the observations that a promotion has seen.
Repeated(seen) ==
  LET outcomes(outcome) == {o \in seen : o.outcome = outcome} IN
  /\ \A o \in seen : o.contamination = "clean"
  /\ Cardinality(outcomes("success")) >= 2
  /\ Cardinality(outcomes("success")) > Cardinality(outcomes("failure"))

PromoteRequest(r) ==
  /\ \E S : r \in [op : {"promote"}, from : DOMAIN Promotions, to : SkillStates,
                   artifact : Nat, sure : BOOLEAN, seen : S]
  /\ r.to \in Promotions[r.from]
  /\ r.to = "approved" => Passed(r.artifact)
  /\ r.to = "repeated_evidence" => Repeated(r.seen)

EvaluateRequest(r) ==
  r \in [op : {"evaluate"}, from : {"drafted_skill"}, artifact : Nat, passed : BOOLEAN,
         sure : BOOLEAN]

Evident(cited) == cited \subseteq CleanSuccesses /\ Cardinality(cited) >= 2

\* What a client has made sure of stays true: the tables are append-only.
Sure(r) ==
  /\ r.op = "promote" => PromoteRequest(r)
  /\ r.op = "evaluate" => EvaluateRequest(r)
  /\ r.op = "draft" => Evident(r.evidence)
  /\ r.op = "export" => r.artifact \in DOMAIN artifacts /\ Passed(r.artifact)

SkillInv ==
  /\ DOMAIN req = Clients
  /\ \A c \in Clients : Sure(req[c])
  /\ \E S : artifacts \in Seq(S)
  /\ \A a \in DOMAIN artifacts : Evident(artifacts[a])
  /\ \A a \in exports : a \in DOMAIN artifacts /\ Passed(a)
  /\ lastMove.to = "approved" => Passed(lastMove.artifact)
  /\ skill # "candidate" => raced \/ RepeatedEvidence

\* A step on the way that PromotionIsOneWay describes.
OneWay ==
  raced' \/ skill' = skill \/ <<skill, skill'>> \in
    { <<"candidate", "repeated_evidence">>, <<"repeated_evidence", "drafted_skill">>,
      <<"drafted_skill", "held_out_evaluation">>, <<"drafted_skill", "rejected">>,
      <<"held_out_evaluation", "approved">>, <<"held_out_evaluation", "rejected">>,
      <<"approved", "retired">> }

LEMMA RepeatedIs == RepeatedEvidence <=> Repeated(observations)
BY DEF RepeatedEvidence, Repeated, Clean, Outcomes

\* What grows keeps what was sure.
LEMMA SureKept ==
  ASSUME observations \subseteq observations', evaluations \subseteq evaluations',
         DOMAIN artifacts \subseteq DOMAIN artifacts'
  PROVE  /\ \A a : Passed(a) => Passed(a)'
         /\ \A e : Evident(e) => Evident(e)'
         /\ \A r : Sure(r) => Sure(r)'
<1>1. \A a : Passed(a) => Passed(a)'
  BY DEF Passed
<1>2. CleanSuccesses \subseteq CleanSuccesses'
  BY DEF CleanSuccesses, Outcomes
<1>3. \A e : Evident(e) => Evident(e)'
  BY <1>2 DEF Evident
<1>4. \A r : PromoteRequest(r) => PromoteRequest(r)'
  BY <1>1 DEF PromoteRequest
<1> QED BY <1>1, <1>3, <1>4 DEF Sure, EvaluateRequest

LEMMA SureRequests ==
  ASSUME SkillInv, \/ req' = req
                   \/ \E r : \E c \in Clients : Sure(r) /\ req' = [req EXCEPT ![c] = r]
  PROVE  DOMAIN req' = Clients /\ \A d \in Clients : Sure(req'[d])
<1>1. CASE req' = req
  BY <1>1 DEF SkillInv
<1>2. CASE \E r : \E c \in Clients : Sure(r) /\ req' = [req EXCEPT ![c] = r]
  <2>1. PICK r : \E c \in Clients : Sure(r) /\ req' = [req EXCEPT ![c] = r]
    BY <1>2
  <2>2. PICK c \in Clients : Sure(r) /\ req' = [req EXCEPT ![c] = r]
    BY <2>1
  <2>3. /\ DOMAIN req' = Clients /\ req'[c] = r
        /\ \A d \in Clients \ {c} : req'[d] = req[d]
    BY <2>2, RequestReplaced DEF SkillInv
  <2> QED BY <2>2, <2>3 DEF SkillInv
<1> QED BY <1>1, <1>2

\* The steps that leave the artifacts alone.
LEMMA SkillKept ==
  ASSUME SkillInv, artifacts' = artifacts,
         observations \subseteq observations', evaluations \subseteq evaluations',
         \/ req' = req
         \/ \E r : \E c \in Clients : Sure(r) /\ req' = [req EXCEPT ![c] = r],
         \A a \in exports' : a \in exports \/ (a \in DOMAIN artifacts /\ Passed(a)),
         (lastMove.to = "approved" => Passed(lastMove.artifact))',
         skill' # "candidate" => raced' \/ RepeatedEvidence'
  PROVE  SkillInv'
<1>1. /\ \A a : Passed(a) => Passed(a)'
      /\ \A e : Evident(e) => Evident(e)'
      /\ \A r : Sure(r) => Sure(r)'
  BY SureKept
<1>2. DOMAIN req' = Clients /\ \A d \in Clients : Sure(req'[d])
  BY SureRequests
<1>3. \A d \in Clients : Sure(req[d])'
  <2>1. \A r : Sure(r) => Sure(r)'
    BY <1>1
  <2> QED BY <1>2, <2>1 DEF Sure, PromoteRequest, EvaluateRequest, Evident
<1>4. \A a \in exports' : a \in DOMAIN artifacts' /\ Passed(a)'
  BY <1>1 DEF SkillInv
<1>5. (\A a \in DOMAIN artifacts : Evident(artifacts[a]))'
  <2>1. \A e : Evident(e) => Evident(e)'
    BY <1>1
  <2> QED BY <2>1 DEF SkillInv, Evident
<1> QED BY <1>2, <1>3, <1>4, <1>5 DEF SkillInv

\* The steps that only change a request.
LEMMA QuietSkill ==
  ASSUME SkillInv, UNCHANGED skillVars, raced' = raced,
         \/ req' = req
         \/ \E r : \E c \in Clients : Sure(r) /\ req' = [req EXCEPT ![c] = r]
  PROVE  SkillInv' /\ OneWay
<1>1. /\ artifacts' = artifacts /\ observations' = observations /\ evaluations' = evaluations
      /\ exports' = exports /\ lastMove' = lastMove /\ skill' = skill
  BY DEF skillVars
<1>2. (lastMove.to = "approved" => Passed(lastMove.artifact))'
  BY <1>1 DEF SkillInv, Passed
<1>3. skill' # "candidate" => raced' \/ RepeatedEvidence'
  BY <1>1 DEF SkillInv, RepeatedEvidence, Clean, Outcomes
<1>4. SkillInv'
  BY <1>1, <1>2, <1>3, SkillKept
<1> QED BY <1>1, <1>4 DEF OneWay

LEMMA SkillChecksInv ==
  ASSUME SkillInv, NEW c \in Clients,
         \/ CheckObserve(c)
         \/ CheckPromote(c)
         \/ CheckEvaluate(c)
         \/ CheckDraft(c)
         \/ CheckExport(c)
         \/ Drop(c) /\ UNCHANGED skillVars
  PROVE  SkillInv' /\ OneWay
<1>1. PICK A : A \in Nat /\ A = Artifact
  <2>1. PICK S : artifacts \in Seq(S)
    BY DEF SkillInv
  <2> QED BY <2>1 DEF Artifact
<1>2. CASE CheckObserve(c)
  <2>1. PICK o : Begin(c, [op |-> "observe", row |-> o])
    BY <1>2 DEF CheckObserve
  <2>2. Sure([op |-> "observe", row |-> o])
    BY DEF Sure
  <2>3. req' = [req EXCEPT ![c] = [op |-> "observe", row |-> o]] /\ raced' = raced
    BY <2>1 DEF Begin
  <2>4. UNCHANGED skillVars
    BY <1>2 DEF CheckObserve
  <2> QED BY <2>2, <2>3, <2>4, QuietSkill
<1>3. CASE CheckPromote(c)
  <2>1. PICK target \in Promotions[skill] :
          /\ skill \in DOMAIN Promotions
          /\ Promotable(target)
          /\ Begin(c, [op |-> "promote", from |-> skill, to |-> target, artifact |-> Artifact,
                       sure |-> FALSE, seen |-> observations])
    BY <1>3 DEF CheckPromote
  <2> DEFINE r == [op |-> "promote", from |-> skill, to |-> target, artifact |-> Artifact,
                   sure |-> FALSE, seen |-> observations]
  <2>2. target \in SkillStates
    BY <2>1 DEF Promotions, SkillStates
  <2>3. r \in [op : {"promote"}, from : DOMAIN Promotions, to : SkillStates,
               artifact : Nat, sure : BOOLEAN, seen : {observations}]
    BY <1>1, <2>1, <2>2
  <2>4. /\ r.to = "approved" => Passed(r.artifact)
        /\ r.to = "repeated_evidence" => Repeated(r.seen)
    BY <2>1, RepeatedIs DEF Promotable
  <2>5. PromoteRequest(r)
    BY <2>1, <2>3, <2>4 DEF PromoteRequest
  <2>6. Sure(r)
    BY <2>5 DEF Sure
  <2>7. req' = [req EXCEPT ![c] = r] /\ raced' = raced
    BY <2>1 DEF Begin
  <2>8. UNCHANGED skillVars
    BY <1>3 DEF CheckPromote
  <2> HIDE DEF r
  <2> QED BY <2>6, <2>7, <2>8, QuietSkill
<1>4. CASE CheckEvaluate(c)
  <2>1. PICK passed \in BOOLEAN :
          /\ skill = "drafted_skill"
          /\ Begin(c, [op |-> "evaluate", from |-> skill, artifact |-> Artifact,
                       passed |-> passed, sure |-> FALSE])
    BY <1>4 DEF CheckEvaluate
  <2> DEFINE r == [op |-> "evaluate", from |-> skill, artifact |-> Artifact,
                   passed |-> passed, sure |-> FALSE]
  <2>2. Sure(r)
    BY <1>1, <2>1 DEF Sure, EvaluateRequest
  <2>3. req' = [req EXCEPT ![c] = r] /\ raced' = raced
    BY <2>1 DEF Begin
  <2>4. UNCHANGED skillVars
    BY <1>4 DEF CheckEvaluate
  <2> HIDE DEF r
  <2> QED BY <2>2, <2>3, <2>4, QuietSkill
<1>5. CASE CheckDraft(c)
  <2>1. PICK cited \in SUBSET CleanSuccesses :
          Cardinality(cited) >= 2 /\ Begin(c, [op |-> "draft", evidence |-> cited])
    BY <1>5 DEF CheckDraft
  <2>2. Sure([op |-> "draft", evidence |-> cited])
    BY <2>1 DEF Sure, Evident
  <2>3. req' = [req EXCEPT ![c] = [op |-> "draft", evidence |-> cited]] /\ raced' = raced
    BY <2>1 DEF Begin
  <2>4. UNCHANGED skillVars
    BY <1>5 DEF CheckDraft
  <2> QED BY <2>2, <2>3, <2>4, QuietSkill
<1>6. CASE CheckExport(c)
  <2>1. Active /\ Begin(c, [op |-> "export", artifact |-> Artifact])
    BY <1>6 DEF CheckExport
  <2>2. Artifact \in DOMAIN artifacts
    <3>1. PICK S : artifacts \in Seq(S)
      BY DEF SkillInv
    <3> QED BY <2>1, <3>1 DEF Active, Artifact
  <2>3. lastMove.to = "approved" /\ lastMove.artifact = Artifact
    BY <2>1 DEF Active
  <2>4. Sure([op |-> "export", artifact |-> Artifact])
    BY <2>2, <2>3 DEF Sure, SkillInv
  <2>5. req' = [req EXCEPT ![c] = [op |-> "export", artifact |-> Artifact]] /\ raced' = raced
    BY <2>1 DEF Begin
  <2>6. UNCHANGED skillVars
    BY <1>6 DEF CheckExport
  <2> QED BY <2>4, <2>5, <2>6, QuietSkill
<1>7. CASE Drop(c) /\ UNCHANGED skillVars
  <2>1. Sure(Idle)
    BY DEF Sure, Idle
  <2> QED BY <1>7, <2>1, QuietSkill DEF Drop
<1> QED BY <1>2, <1>3, <1>4, <1>5, <1>6, <1>7

LEMMA RecheckInv ==
  ASSUME SkillInv, NEW c \in Clients, Recheck(c)
  PROVE  SkillInv' /\ OneWay
<1> DEFINE r == [req[c] EXCEPT !.sure = TRUE]
<1>1. Sure(req[c]) /\ (req[c].op = "promote" \/ req[c].op = "evaluate")
  BY DEF SkillInv, Recheck
<1>2. Sure(r)
  <2>1. CASE req[c].op = "promote"
    <3>1. PICK S : req[c] \in [op : {"promote"}, from : DOMAIN Promotions, to : SkillStates,
                               artifact : Nat, sure : BOOLEAN, seen : S]
      BY <1>1, <2>1 DEF Sure, PromoteRequest
    <3>2. /\ r \in [op : {"promote"}, from : DOMAIN Promotions, to : SkillStates,
                    artifact : Nat, sure : BOOLEAN, seen : S]
          /\ r.op = "promote" /\ r.from = req[c].from /\ r.to = req[c].to
          /\ r.artifact = req[c].artifact /\ r.seen = req[c].seen
      BY <3>1
    <3> HIDE DEF r
    <3>3. PromoteRequest(r)
      BY <1>1, <2>1, <3>2 DEF Sure, PromoteRequest
    <3> QED BY <3>2, <3>3 DEF Sure
  <2>2. CASE req[c].op = "evaluate"
    <3>1. req[c] \in [op : {"evaluate"}, from : {"drafted_skill"}, artifact : Nat,
                      passed : BOOLEAN, sure : BOOLEAN]
      BY <1>1, <2>2 DEF Sure, EvaluateRequest
    <3>2. r \in [op : {"evaluate"}, from : {"drafted_skill"}, artifact : Nat,
                 passed : BOOLEAN, sure : BOOLEAN]
          /\ r.op = "evaluate"
      BY <3>1
    <3> HIDE DEF r
    <3> QED BY <3>2 DEF Sure, EvaluateRequest
  <2> QED BY <1>1, <2>1, <2>2
<1>3. req' = [req EXCEPT ![c] = r] /\ raced' = raced
  BY DEF Recheck
<1>4. UNCHANGED skillVars
  BY DEF Recheck
<1> HIDE DEF r
<1> QED BY <1>2, <1>3, <1>4, QuietSkill

LEMMA ObserveInv ==
  ASSUME SkillInv, NEW c \in Clients, SleepPromotes(c) \/ Observe(c)
  PROVE  SkillInv' /\ OneWay
<1>1. Sure(Idle)
  BY DEF Sure, Idle
<1>2. /\ artifacts' = artifacts /\ evaluations' = evaluations /\ observations \subseteq observations'
      /\ exports' = exports /\ lastMove' = lastMove /\ skill' = skill
      /\ req' = req \/ req' = [req EXCEPT ![c] = Idle]
      /\ \/ observations' = observations /\ raced' = raced
         \/ raced' = (raced \/ skill # "candidate")
  BY DEF SleepPromotes, Atomically, Observe, Commit
<1>3. (lastMove.to = "approved" => Passed(lastMove.artifact))'
  BY <1>2 DEF SkillInv, Passed
<1>4. skill' # "candidate" => raced' \/ RepeatedEvidence'
  <2>1. CASE observations' = observations /\ raced' = raced
    <3>1. RepeatedEvidence' <=> RepeatedEvidence
      BY <2>1 DEF RepeatedEvidence, Clean, Outcomes
    <3> QED BY <1>2, <2>1, <3>1 DEF SkillInv
  <2>2. CASE raced' = (raced \/ skill # "candidate")
    BY <1>2, <2>2
  <2> QED BY <1>2, <2>1, <2>2
<1>5. SkillInv'
  BY <1>1, <1>2, <1>3, <1>4, SkillKept
<1> QED BY <1>2, <1>5 DEF OneWay

LEMMA PromoteInv ==
  ASSUME SkillInv, NEW c \in Clients, Promote(c)
  PROVE  SkillInv' /\ OneWay
<1>1. PromoteRequest(req[c])
  BY DEF SkillInv, Sure, Promote, Processing
<1>2. Sure(Idle)
  BY DEF Sure, Idle
<1>3. /\ artifacts' = artifacts /\ evaluations' = evaluations /\ observations' = observations
      /\ exports' = exports /\ req' = [req EXCEPT ![c] = Idle]
      /\ skill' = req[c].to /\ lastMove' = [to |-> req[c].to, artifact |-> req[c].artifact]
      /\ raced' = (raced \/ skill # req[c].from \/ observations # req[c].seen)
  BY DEF Promote, Move, Commit
<1>4. (lastMove.to = "approved" => Passed(lastMove.artifact))'
  BY <1>1, <1>3 DEF PromoteRequest, Passed
<1>5. ASSUME ~raced'
      PROVE  /\ ~raced /\ skill \in DOMAIN Promotions /\ skill' \in Promotions[skill]
             /\ skill' = "repeated_evidence" => Repeated(observations)
  BY <1>1, <1>3, <1>5 DEF PromoteRequest
<1>6. RepeatedEvidence' <=> RepeatedEvidence
  BY <1>3 DEF RepeatedEvidence, Clean, Outcomes
<1>7. skill' # "candidate" => raced' \/ RepeatedEvidence'
  <2> SUFFICES ASSUME ~raced'
               PROVE  RepeatedEvidence
    BY <1>6
  <2>1. CASE skill = "candidate"
    <3>1. skill' = "repeated_evidence"
      BY <1>5, <2>1 DEF Promotions
    <3> QED BY <1>5, <3>1, RepeatedIs
  <2>2. CASE skill # "candidate"
    BY <1>5, <2>2 DEF SkillInv
  <2> QED BY <2>1, <2>2
<1>8. SkillInv'
  BY <1>2, <1>3, <1>4, <1>7, SkillKept
<1>9. OneWay
  BY <1>5 DEF OneWay, Promotions
<1> QED BY <1>8, <1>9

LEMMA EvaluateInv ==
  ASSUME SkillInv, NEW c \in Clients, Evaluate(c)
  PROVE  SkillInv' /\ OneWay
<1>1. EvaluateRequest(req[c])
  BY DEF SkillInv, Sure, Evaluate, Processing
<1>2. Sure(Idle)
  BY DEF Sure, Idle
<1>3. PICK to \in {"held_out_evaluation", "rejected"} :
        skill' = to /\ lastMove' = [to |-> to, artifact |-> req[c].artifact]
  BY DEF Evaluate, Move
<1>4. /\ artifacts' = artifacts /\ evaluations \subseteq evaluations' /\ observations' = observations
      /\ exports' = exports /\ req' = [req EXCEPT ![c] = Idle]
      /\ raced' = (raced \/ skill # req[c].from)
  BY DEF Evaluate, Commit
<1>5. (lastMove.to = "approved" => Passed(lastMove.artifact))'
  BY <1>3
<1>6. ~raced' => ~raced /\ skill = "drafted_skill"
  BY <1>1, <1>4 DEF EvaluateRequest
<1>7. skill' # "candidate" => raced' \/ RepeatedEvidence'
  BY <1>4, <1>6 DEF SkillInv, RepeatedEvidence, Clean, Outcomes
<1>8. SkillInv'
  BY <1>2, <1>4, <1>5, <1>7, SkillKept
<1>9. OneWay
  BY <1>3, <1>6 DEF OneWay
<1> QED BY <1>8, <1>9

LEMMA ExportInv ==
  ASSUME SkillInv, NEW c \in Clients, Export(c)
  PROVE  SkillInv' /\ OneWay
<1>1. Sure(req[c]) /\ req[c].op = "export"
  BY DEF SkillInv, Export, Processing
<1>2. Sure(Idle)
  BY DEF Sure, Idle
<1>3. /\ artifacts' = artifacts /\ evaluations' = evaluations /\ observations' = observations
      /\ exports' = exports \cup {req[c].artifact} /\ req' = [req EXCEPT ![c] = Idle]
      /\ skill' = skill /\ lastMove' = lastMove /\ raced' = (raced \/ FALSE)
  BY DEF Export, Commit
<1>4. \A a \in exports' : a \in exports \/ (a \in DOMAIN artifacts /\ Passed(a))
  BY <1>1, <1>3 DEF Sure
<1>5. (lastMove.to = "approved" => Passed(lastMove.artifact))'
  BY <1>3 DEF SkillInv, Passed
<1>6. skill' # "candidate" => raced' \/ RepeatedEvidence'
  BY <1>3 DEF SkillInv, RepeatedEvidence, Clean, Outcomes
<1>7. SkillInv'
  BY <1>2, <1>3, <1>4, <1>5, <1>6, SkillKept
<1> QED BY <1>3, <1>7 DEF OneWay

LEMMA DraftInv ==
  ASSUME SkillInv, NEW c \in Clients, Draft(c)
  PROVE  SkillInv' /\ OneWay
<1>1. PICK n, cited : n = Len(artifacts) + 1 /\ cited = req[c].evidence
  OBVIOUS
<1>2. Evident(cited)
  BY <1>1 DEF SkillInv, Sure, Draft, Processing
<1>3. Sure(Idle)
  BY DEF Sure, Idle
<1>4. /\ skill = "repeated_evidence" /\ skill' = "drafted_skill" /\ lastMove'.to = "drafted_skill"
      /\ evaluations' = evaluations /\ observations' = observations
      /\ exports' = exports /\ req' = [req EXCEPT ![c] = Idle] /\ raced' = (raced \/ FALSE)
      /\ artifacts' = Append(artifacts, cited)
  BY <1>1 DEF Draft, SameState, Move, Commit
<1>5. PICK S : artifacts \in Seq(S)
  BY DEF SkillInv
<1>6. artifacts \in Seq(S \cup {cited})
  BY <1>5
<1>7. /\ artifacts' \in Seq(S \cup {cited})
      /\ DOMAIN artifacts' = DOMAIN artifacts \cup {n} /\ artifacts'[n] = cited
      /\ \A i \in DOMAIN artifacts : artifacts'[i] = artifacts[i]
  BY <1>1, <1>4, <1>6, RowAppended
<1>8. /\ \A a : Passed(a) => Passed(a)'
      /\ \A e : Evident(e) => Evident(e)'
      /\ \A r : Sure(r) => Sure(r)'
  BY <1>4, <1>7, SureKept
<1>9. DOMAIN req' = Clients /\ \A d \in Clients : Sure(req'[d])
  BY <1>3, <1>4, SureRequests
<1>10. \A d \in Clients : Sure(req[d])'
  BY <1>8, <1>9 DEF Sure, PromoteRequest, EvaluateRequest, Evident
<1>11. (\A a \in DOMAIN artifacts : Evident(artifacts[a]))'
  <2>1. \A a \in DOMAIN artifacts' : Evident(artifacts'[a])
    BY <1>2, <1>7 DEF SkillInv
  <2> QED BY <1>8, <2>1 DEF Evident
<1>12. (\A a \in exports : a \in DOMAIN artifacts /\ Passed(a))'
  BY <1>4, <1>7, <1>8 DEF SkillInv
<1>13. raced' \/ RepeatedEvidence'
  BY <1>4 DEF SkillInv, RepeatedEvidence, Clean, Outcomes
<1>14. SkillInv'
  BY <1>4, <1>7, <1>9, <1>10, <1>11, <1>12, <1>13 DEF SkillInv
<1> QED BY <1>4, <1>14 DEF OneWay

LEMMA SkillStarts ==
  ASSUME StoreInit, SkillInit
  PROVE  SkillInv
<1>1. /\ DOMAIN req = Clients /\ \A c \in Clients : req[c].op = "none"
      /\ skill = "candidate" /\ artifacts = <<>> /\ exports = {} /\ lastMove.to = "candidate"
  BY DEF StoreInit, SkillInit, Idle
<1>2. DOMAIN artifacts = {} /\ artifacts \in Seq({})
  BY <1>1
<1>3. \A c \in Clients : Sure(req[c])
  BY <1>1 DEF Sure
<1> QED BY <1>1, <1>2, <1>3 DEF SkillInv

LEMMA SkillStep ==
  ASSUME SkillInv, [SkillNext]_<<skillVars, req, raced>>
  PROVE  SkillInv' /\ OneWay
<1>1. CASE SkillNext
  BY <1>1, ObserveInv, SkillChecksInv, RecheckInv, PromoteInv, EvaluateInv, DraftInv, ExportInv
     DEF SkillNext
<1>2. CASE UNCHANGED <<skillVars, req, raced>>
  BY <1>2, QuietSkill
<1> QED BY <1>1, <1>2

LEMMA SkillProven ==
  ASSUME SkillInv
  PROVE  SkillsAreProven
<1>1. ASSUME NEW a \in exports \cup {b \in {Artifact} : Active}
      PROVE  Passed(a) /\ a \in DOMAIN artifacts
  <2>1. CASE a \in exports
    BY <2>1 DEF SkillInv
  <2>2. CASE a = Artifact /\ Active
    <3>1. PICK S : artifacts \in Seq(S)
      BY DEF SkillInv
    <3>2. a \in DOMAIN artifacts
      BY <2>2, <3>1 DEF Active, Artifact
    <3>3. lastMove.to = "approved" /\ lastMove.artifact = a
      BY <2>2 DEF Active
    <3> QED BY <3>2, <3>3 DEF SkillInv
  <2> QED BY <1>1, <2>1, <2>2
<1>2. ASSUME NEW a \in DOMAIN artifacts
      PROVE  Cardinality(artifacts[a] \cap CleanSuccesses) >= 2
  <2>1. Evident(artifacts[a])
    BY DEF SkillInv
  <2>2. artifacts[a] \cap CleanSuccesses = artifacts[a]
    BY <2>1 DEF Evident
  <2> QED BY <2>1, <2>2 DEF Evident
<1> QED BY <1>1, <1>2 DEF SkillsAreProven, SkillInv

\* Whichever promoters and observers interleave and die, what is active or
\* exported has passed its evaluation on two clean successes; and without races
\* no candidate skips a stage or comes back.
THEOREM PromotionStaysEarned == SkillSpec => PromotionIsEarned
<1>1. StoreInit /\ SkillInit => SkillInv
  BY SkillStarts
<1>2. SkillInv /\ [SkillNext]_<<skillVars, req, raced>> => SkillInv'
  BY SkillStep
<1>3. SkillInv => SkillsAreProven
  BY SkillProven
<1>4. SkillInv /\ [SkillNext]_<<skillVars, req, raced>> =>
        [ raced' \/ skill' = skill \/ <<skill, skill'>> \in
            { <<"candidate", "repeated_evidence">>, <<"repeated_evidence", "drafted_skill">>,
              <<"drafted_skill", "held_out_evaluation">>, <<"drafted_skill", "rejected">>,
              <<"held_out_evaluation", "approved">>, <<"held_out_evaluation", "rejected">>,
              <<"approved", "retired">> } ]_<<skillVars, req, raced>>
  BY SkillStep DEF OneWay
<1> QED BY <1>1, <1>2, <1>3, <1>4, PTL DEF SkillSpec, PromotionIsEarned, PromotionIsOneWay

-----------------------------------------------------------------------------
(* The epistemic ledger.                                                   *)

LedgerSpec == StoreInit /\ LedgerInit /\ [][LedgerNext]_<<ledgerVars, req, raced>>

EvidenceType == [row : RowType, supersedes : Nat]
PropositionType ==
  [status : STATUSES \cup {"none"}, scope : STRING \cup {NoScope},
   confidence : Confidences \cup {Initially},
   falsifiedBy : Nat, superseded_by : Statements \cup {Nobody}]

Supports(s) == {e \in Linked(s, "support") : Row(e).type = "evidence" /\ ~Row(e).agreed}
Wrong(s) == \E e \in Linked(s, "falsification") : Row(e).type = "tangible_wrongness"
Tested(s) == \E t \in Linked(s, "test") : Row(t).type = "falsification_test"

\* The evidence that each status takes, as StatusIsEarned has it.
Earned(s, status) ==
  /\ status = "established" => \E d, e \in Supports(s) : d # e
  /\ status = "supported" => Supports(s) # {}
  /\ status = "falsified" => Wrong(s) /\ Tested(s)

\* A move that its checks have allowed will be earned by the rows it brings; a
\* falsified proposition is only left by reopening.
TransitionRequest(r) ==
  /\ r.s \in Statements /\ r.e \in DOMAIN evidence /\ r.new \in STATUSES
  /\ r.new \in {"established", "supported"} =>
       /\ <<r.s, r.e, "support">> \in r.rows
       /\ Row(r.e).type = "evidence" /\ ~Row(r.e).agreed
  /\ r.new = "established" => Supports(r.s) # {}
  /\ r.new = "falsified" =>
       /\ <<r.s, r.e, "falsification">> \in r.rows /\ Row(r.e).type = "tangible_wrongness"
       /\ \E t \in DOMAIN evidence :
            <<r.s, t, "test">> \in r.rows /\ Row(t).type = "falsification_test"
  /\ r.seen[2] = Nobody
  /\ r.seen[1] = "falsified" /\ r.new # "falsified" =>
       r.new = "unresolved" /\ <<r.s, r.e, "reopening">> \in r.rows /\ r.e > r.seen[3]

SupersedeRequest(r) ==
  /\ r.s \in Statements /\ r.by \in Statements /\ r.s # r.by
  /\ r.seen[1] \in STATUSES \cup {"none"} /\ Earned(r.s, r.seen[1])

LedgerRequest(r) ==
  /\ r.op = "successor" => r.new \in EvidenceType
  /\ r.op = "transition" => TransitionRequest(r)
  /\ r.op = "confidence" => r.s \in Statements /\ r.confidence \in Confidences
  /\ r.op = "supersede" => SupersedeRequest(r)

LedgerInv ==
  /\ DOMAIN req = Clients
  /\ \A c \in Clients : \A r : r = req[c] => LedgerRequest(r)
  /\ evidence \in Seq(EvidenceType)
  /\ propositions \in [Statements -> PropositionType]
  /\ \A s \in Statements : Earned(s, propositions[s].status)
  /\ SupersessionsEnd

\* A step of ClosedStaysClosed.
ClosedNow ==
  raced' \/ \A s \in Proposed :
    /\ ~Open(s) => propositions'[s] = propositions[s]
    /\ propositions[s].status = "falsified" /\ propositions'[s].status # "falsified"
         => /\ propositions'[s].status = "unresolved"
            /\ \E e \in Linked(s, "reopening")' : e > propositions[s].falsifiedBy

LEMMA EvidenceRecords ==
  ASSUME LedgerInv
  PROVE  /\ Len(evidence) \in Nat /\ DOMAIN evidence = 1..Len(evidence)
         /\ DOMAIN evidence \subseteq Nat
         /\ \A e \in DOMAIN evidence : evidence[e] \in EvidenceType /\ Row(e) \in RowType
<1>1. evidence \in Seq(EvidenceType)
  BY DEF LedgerInv
<1>2. /\ Len(evidence) \in Nat /\ DOMAIN evidence = 1..Len(evidence)
      /\ \A e \in DOMAIN evidence : evidence[e] \in EvidenceType
  <2> HIDE DEF EvidenceType
  <2> QED BY <1>1
<1>3. \A e \in DOMAIN evidence : evidence[e].row \in RowType
  <2> HIDE DEF RowType
  <2> QED BY <1>2 DEF EvidenceType
<1> QED BY <1>2, <1>3 DEF Row

\* The rows that a transition links.
LEMMA LinkRows ==
  ASSUME NEW s, NEW e, NEW x
  PROVE  <<s>> \o <<e, x>> = <<s, e, x>>
<1> DEFINE T == {s, e, x}
           t == <<s>> \o <<e, x>>
<1>1. <<s>> \in Seq(T) /\ <<e, x>> \in Seq(T) /\ <<s, e, x>> \in Seq(T)
  OBVIOUS
<1>2. /\ t \in Seq(T) /\ Len(t) = 3
      /\ \A i \in 1..3 : t[i] = IF i <= 1 THEN <<s>>[i] ELSE <<e, x>>[i - 1]
  BY <1>1, ConcatProperties
<1> HIDE DEF t, T
<1>3. t[1] = s /\ t[2] = e /\ t[3] = x
  BY <1>2
<1>4. \A i \in 1..3 : t[i] = <<s, e, x>>[i]
  BY <1>3
<1>5. t = <<s, e, x>>
  BY <1>1, <1>2, <1>4, SeqEqual
<1> QED BY <1>5 DEF t

\* What grows keeps what was earned and checked.
LEMMA EarnedKept ==
  ASSUME links \subseteq links', DOMAIN evidence \subseteq DOMAIN evidence',
         \A e \in DOMAIN evidence : evidence'[e] = evidence[e]
  PROVE  /\ \A s, status : Earned(s, status) => Earned(s, status)'
         /\ \A r : LedgerRequest(r) => LedgerRequest(r)'
<1>1. \A e \in DOMAIN evidence : Row(e)' = Row(e)
  BY DEF Row
<1>2. \A s, relation : Linked(s, relation) \subseteq Linked(s, relation)'
  BY DEF Linked
<1>3. \A s, relation : \A e \in Linked(s, relation) : e \in DOMAIN evidence
  BY DEF Linked
<1>4. \A s : Supports(s) \subseteq Supports(s)'
  BY <1>1, <1>2, <1>3 DEF Supports
<1>5. \A s : Wrong(s) => Wrong(s)'
  BY <1>1, <1>2, <1>3 DEF Wrong
<1>6. \A s : Tested(s) => Tested(s)'
  BY <1>1, <1>2, <1>3 DEF Tested
<1>7. \A s, status : Earned(s, status) => Earned(s, status)'
  BY <1>4, <1>5, <1>6 DEF Earned
<1>8. \A r : TransitionRequest(r) => TransitionRequest(r)'
  BY <1>1, <1>4 DEF TransitionRequest
<1>9. \A r : SupersedeRequest(r) => SupersedeRequest(r)'
  BY <1>7 DEF SupersedeRequest
<1> QED BY <1>7, <1>8, <1>9 DEF LedgerRequest

LEMMA LedgerRequests ==
  ASSUME LedgerInv, \/ req' = req
                    \/ \E r : \E c \in Clients : LedgerRequest(r) /\ req' = [req EXCEPT ![c] = r]
  PROVE  DOMAIN req' = Clients /\ \A d \in Clients : LedgerRequest(req'[d])
<1>1. CASE req' = req
  BY <1>1 DEF LedgerInv
<1>2. CASE \E r : \E c \in Clients : LedgerRequest(r) /\ req' = [req EXCEPT ![c] = r]
  <2>1. PICK r : \E c \in Clients : LedgerRequest(r) /\ req' = [req EXCEPT ![c] = r]
    BY <1>2
  <2>2. PICK c \in Clients : LedgerRequest(r) /\ req' = [req EXCEPT ![c] = r]
    BY <2>1
  <2>3. /\ DOMAIN req' = Clients /\ req'[c] = r
        /\ \A d \in Clients \ {c} : req'[d] = req[d]
    BY <2>2, RequestReplaced DEF LedgerInv
  <2> QED BY <2>2, <2>3 DEF LedgerInv
<1> QED BY <1>1, <1>2

\* Whatever a step does to its propositions, the rest of the invariant.
LEMMA LedgerKept ==
  ASSUME LedgerInv,
         links \subseteq links', DOMAIN evidence \subseteq DOMAIN evidence',
         \A e \in DOMAIN evidence : evidence'[e] = evidence[e],
         evidence' \in Seq(EvidenceType),
         \/ req' = req
         \/ \E r : \E c \in Clients : LedgerRequest(r) /\ req' = [req EXCEPT ![c] = r],
         propositions' \in [Statements -> PropositionType],
         (\A s \in Statements : Earned(s, propositions[s].status))',
         SupersessionsEnd'
  PROVE  LedgerInv'
<1>1. \A r : LedgerRequest(r) => LedgerRequest(r)'
  BY EarnedKept
<1>2. DOMAIN req' = Clients /\ \A d \in Clients : LedgerRequest(req'[d])
  BY LedgerRequests
<1>3. (\A d \in Clients : \A r : r = req[d] => LedgerRequest(r))'
  BY <1>1, <1>2
<1> QED BY <1>2, <1>3 DEF LedgerInv, EvidenceType, PropositionType, RowType

\* The steps that leave the propositions and the links alone.
LEMMA QuietLedger ==
  ASSUME LedgerInv, propositions' = propositions, links' = links,
         raced => raced',
         DOMAIN evidence \subseteq DOMAIN evidence',
         \A e \in DOMAIN evidence : evidence'[e] = evidence[e],
         evidence' \in Seq(EvidenceType),
         \/ req' = req
         \/ \E r : \E c \in Clients : LedgerRequest(r) /\ req' = [req EXCEPT ![c] = r]
  PROVE  LedgerInv' /\ ClosedNow
<1>1. \A s, status : Earned(s, status) => Earned(s, status)'
  BY EarnedKept
<1>2. (\A s \in Statements : Earned(s, propositions[s].status))'
  <2>1. \A s \in Statements : Earned(s, propositions[s].status)
    BY DEF LedgerInv
  <2>2. \A s \in Statements : Earned(s, propositions[s].status)'
    BY <1>1, <2>1
  <2> QED BY <2>2
<1>3. SupersessionsEnd'
  BY DEF LedgerInv, SupersessionsEnd
<1>4. LedgerInv'
  BY <1>2, <1>3, LedgerKept DEF LedgerInv
<1>5. ClosedNow
  BY DEF ClosedNow
<1> QED BY <1>4, <1>5

LEMMA LedgerReads ==
  ASSUME LedgerInv, NEW c \in Clients, NEW r, r = req[c]
  PROVE  LedgerRequest(r)
BY DEF LedgerInv

LEMMA IdleLedgerRequest == LedgerRequest(Idle)
BY DEF LedgerRequest, Idle

\* A row appended to the evidence.
LEMMA EvidenceAppended ==
  ASSUME LedgerInv, NEW row \in EvidenceType, evidence' = Append(evidence, row)
  PROVE  /\ DOMAIN evidence \subseteq DOMAIN evidence'
         /\ \A e \in DOMAIN evidence : evidence'[e] = evidence[e]
         /\ evidence' \in Seq(EvidenceType)
<1> HIDE DEF EvidenceType
<1>1. evidence \in Seq(EvidenceType)
  BY DEF LedgerInv
<1> QED BY <1>1, AppendProperties

LEMMA RowsTyped ==
  /\ EvidenceRows \subseteq RowType /\ Recorded \in Seq(RowType)
  /\ Proposals \subseteq INITIAL_STATUSES /\ Nobody \notin Statements
BY LedgerAssumption

LEMMA AddEvidenceStep ==
  ASSUME LedgerInv, NEW c \in Clients, AddEvidence(c)
  PROVE  LedgerInv' /\ ClosedNow
<1>1. PICK row \in EvidenceRows : evidence' = Append(evidence, First(row))
  BY DEF AddEvidence
<1>2. First(row) \in EvidenceType
  BY <1>1, RowsTyped DEF First, EvidenceType
<1>3. /\ DOMAIN evidence \subseteq DOMAIN evidence'
      /\ \A e \in DOMAIN evidence : evidence'[e] = evidence[e]
      /\ evidence' \in Seq(EvidenceType)
  BY <1>1, <1>2, EvidenceAppended
<1>4. propositions' = propositions /\ links' = links /\ req' = req /\ raced' = raced
  BY DEF AddEvidence, Atomically
<1> QED BY <1>3, <1>4, QuietLedger

LEMMA CheckSuccessorStep ==
  ASSUME LedgerInv, NEW c \in Clients, CheckSuccessor(c)
  PROVE  LedgerInv' /\ ClosedNow
<1>1. PICK row \in EvidenceRows, e \in DOMAIN evidence :
        Begin(c, [op |-> "successor", new |-> [row |-> row, supersedes |-> e]])
  BY DEF CheckSuccessor
<1> DEFINE r == [op |-> "successor", new |-> [row |-> row, supersedes |-> e]]
<1>2. row \in RowType /\ e \in Nat
  BY RowsTyped, EvidenceRecords
<1>3. LedgerRequest(r)
  BY <1>2 DEF LedgerRequest, EvidenceType
<1>4. req' = [req EXCEPT ![c] = r] /\ raced' = raced
  BY <1>1 DEF Begin
<1>5. propositions' = propositions /\ links' = links /\ evidence' = evidence
  BY DEF CheckSuccessor, ledgerVars
<1> HIDE DEF r
<1>6. \E x : \E d \in Clients : LedgerRequest(x) /\ req' = [req EXCEPT ![d] = x]
  BY <1>3, <1>4
<1> QED BY <1>4, <1>5, <1>6, QuietLedger DEF LedgerInv

LEMMA AddSuccessorStep ==
  ASSUME LedgerInv, NEW c \in Clients, AddSuccessor(c)
  PROVE  LedgerInv' /\ ClosedNow
<1>1. PICK r : r = req[c]
  OBVIOUS
<1>2. r.op = "successor" /\ evidence' = Append(evidence, r.new)
  BY <1>1 DEF AddSuccessor, Processing
<1>3. r.new \in EvidenceType
  BY <1>1, <1>2, LedgerReads DEF LedgerRequest
<1>4. /\ DOMAIN evidence \subseteq DOMAIN evidence'
      /\ \A e \in DOMAIN evidence : evidence'[e] = evidence[e]
      /\ evidence' \in Seq(EvidenceType)
  BY <1>2, <1>3, EvidenceAppended
<1>5. /\ propositions' = propositions /\ links' = links
      /\ req' = [req EXCEPT ![c] = Idle] /\ (raced => raced')
  BY DEF AddSuccessor, Commit
<1>6. \E x : \E d \in Clients : LedgerRequest(x) /\ req' = [req EXCEPT ![d] = x]
  BY <1>5, IdleLedgerRequest
<1> QED BY <1>4, <1>5, <1>6, QuietLedger

LEMMA CheckConfidenceStep ==
  ASSUME LedgerInv, NEW c \in Clients, CheckConfidence(c)
  PROVE  LedgerInv' /\ ClosedNow
<1>1. PICK s \in Proposed, e \in DOMAIN evidence, confidence \in Confidences :
        Begin(c, [op |-> "confidence", s |-> s, confidence |-> confidence])
  BY DEF CheckConfidence
<1> DEFINE r == [op |-> "confidence", s |-> s, confidence |-> confidence]
<1>2. LedgerRequest(r)
  BY DEF LedgerRequest, Proposed
<1>3. req' = [req EXCEPT ![c] = r] /\ raced' = raced
  BY <1>1 DEF Begin
<1>4. propositions' = propositions /\ links' = links /\ evidence' = evidence
  BY DEF CheckConfidence, ledgerVars
<1> HIDE DEF r
<1>5. \E x : \E d \in Clients : LedgerRequest(x) /\ req' = [req EXCEPT ![d] = x]
  BY <1>2, <1>3
<1> QED BY <1>3, <1>4, <1>5, QuietLedger DEF LedgerInv

\* What a proposition is like.
LEMMA Propositions ==
  ASSUME LedgerInv, NEW s \in Statements
  PROVE  /\ propositions[s] \in PropositionType
         /\ propositions[s].status \in STATUSES \cup {"none"}
         /\ propositions[s].falsifiedBy \in Nat
         /\ Earned(s, propositions[s].status)
         /\ Standing(s)[1] = propositions[s].status
         /\ Standing(s)[2] = propositions[s].superseded_by
         /\ Standing(s)[3] = propositions[s].falsifiedBy
<1>1. propositions[s] \in PropositionType
  BY DEF LedgerInv
<1>2. Earned(s, propositions[s].status)
  BY DEF LedgerInv
<1>3. /\ Standing(s)[1] = propositions[s].status
      /\ Standing(s)[2] = propositions[s].superseded_by
      /\ Standing(s)[3] = propositions[s].falsifiedBy
  BY DEF Standing
<1> QED BY <1>1, <1>2, <1>3 DEF PropositionType

LEMMA CheckSupersedeStep ==
  ASSUME LedgerInv, NEW c \in Clients, CheckSupersede(c)
  PROVE  LedgerInv' /\ ClosedNow
<1>1. PICK s \in Proposed, by \in Proposed : 
        s # by /\ Begin(c, [op |-> "supersede", s |-> s, by |-> by, seen |-> Standing(s)])
  BY DEF CheckSupersede
<1> DEFINE r == [op |-> "supersede", s |-> s, by |-> by, seen |-> Standing(s)]
<1>2. s \in Statements /\ by \in Statements
  BY DEF Proposed
<1>3. SupersedeRequest(r)
  BY <1>1, <1>2, Propositions DEF SupersedeRequest
<1>4. LedgerRequest(r)
  BY <1>3 DEF LedgerRequest
<1>5. req' = [req EXCEPT ![c] = r] /\ raced' = raced
  BY <1>1 DEF Begin
<1>6. propositions' = propositions /\ links' = links /\ evidence' = evidence
  BY DEF CheckSupersede, ledgerVars
<1> HIDE DEF r
<1>7. \E x : \E d \in Clients : LedgerRequest(x) /\ req' = [req EXCEPT ![d] = x]
  BY <1>4, <1>5
<1> QED BY <1>5, <1>6, <1>7, QuietLedger DEF LedgerInv

LEMMA DropLedgerStep ==
  ASSUME LedgerInv, NEW c \in Clients, Drop(c), UNCHANGED ledgerVars
  PROVE  LedgerInv' /\ ClosedNow
<1>1. \E x : \E d \in Clients : LedgerRequest(x) /\ req' = [req EXCEPT ![d] = x]
  BY IdleLedgerRequest DEF Drop
<1> QED BY <1>1, QuietLedger DEF LedgerInv, Drop, ledgerVars

\* What the checks of transition hand on.
Requested(s, e, new, rows) ==
  [op |-> "transition", s |-> s, seen |-> Standing(s), new |-> new,
   rows |-> {<<s>> \o row : row \in rows}, e |-> e]

LEMMA MoveFields ==
  ASSUME NEW s, NEW e, NEW new, NEW rows
  PROVE  /\ Requested(s, e, new, rows).op = "transition"
         /\ Requested(s, e, new, rows).s = s /\ Requested(s, e, new, rows).e = e
         /\ Requested(s, e, new, rows).new = new /\ Requested(s, e, new, rows).seen = Standing(s)
         /\ \A d, x : <<d, x>> \in rows => <<s, d, x>> \in Requested(s, e, new, rows).rows
<1>1. \A d, x : <<d, x>> \in rows => <<s, d, x>> \in {<<s>> \o row : row \in rows}
  BY LinkRows
<1> QED BY <1>1 DEF Requested

LEMMA CheckedMoves ==
  ASSUME NEW c, CheckTransition(c)
  PROVE  \E s \in Proposed : \E e \in DOMAIN evidence :
           /\ Counts(s, e)
           /\ \/ /\ Support(s, e)
                 /\ Begin(c, Requested(s, e, SUPPORT_TRANSITIONS[propositions[s].status],
                                  {<<e, "support">>}))
              \/ Contradict(s, e) /\ Begin(c, Requested(s, e, "contradicted", {<<e, "contradiction">>}))
              \/ Reopen(s, e) /\ Begin(c, Requested(s, e, "unresolved", {<<e, "reopening">>}))
              \/ \E t \in DOMAIN evidence :
                   /\ Falsify(s, e, t)
                   /\ Begin(c, Requested(s, e, "falsified", {<<e, "falsification">>, <<t, "test">>}))
BY DEF CheckTransition, Requested

LEMMA SupportTransitions ==
  ASSUME NEW status \in DOMAIN SUPPORT_TRANSITIONS
  PROVE  /\ SUPPORT_TRANSITIONS[status] \in STATUSES
         /\ SUPPORT_TRANSITIONS[status] # "falsified" /\ status # "falsified"
         /\ SUPPORT_TRANSITIONS[status] = "established" => status = "supported"
BY DEF SUPPORT_TRANSITIONS, STATUSES, INITIAL_STATUSES

\* A move that was checked is a request as the invariant has it.
LEMMA MoveChecked ==
  ASSUME LedgerInv, NEW s \in Proposed, NEW e \in DOMAIN evidence, Counts(s, e),
         NEW new \in STATUSES, NEW rows,
         new \in {"established", "supported"} =>
           <<e, "support">> \in rows /\ Row(e).type = "evidence",
         new = "established" => propositions[s].status = "supported",
         new = "falsified" =>
           /\ <<e, "falsification">> \in rows /\ Row(e).type = "tangible_wrongness"
           /\ \E t \in DOMAIN evidence :
                <<t, "test">> \in rows /\ Row(t).type = "falsification_test",
         propositions[s].status = "falsified" /\ new # "falsified" =>
           /\ new = "unresolved" /\ <<e, "reopening">> \in rows
           /\ e > propositions[s].falsifiedBy
  PROVE  LedgerRequest(Requested(s, e, new, rows))
<1>1. s \in Statements
  BY DEF Proposed
<1>2. PICK r : r = Requested(s, e, new, rows)
  OBVIOUS
<1>3. /\ r.op = "transition" /\ r.s = s /\ r.e = e /\ r.new = new /\ r.seen = Standing(s)
      /\ \A d, x : <<d, x>> \in rows => <<s, d, x>> \in r.rows
  BY <1>2, MoveFields
<1>4. ~Row(e).agreed /\ propositions[s].superseded_by = Nobody
  BY DEF Counts, Open
<1>5. /\ r.seen[1] = propositions[s].status /\ r.seen[2] = propositions[s].superseded_by
      /\ r.seen[3] = propositions[s].falsifiedBy
  BY <1>1, <1>3, Propositions
<1>6. new = "established" => Supports(s) # {}
  BY <1>1, Propositions DEF Earned
<1>7. TransitionRequest(r)
  <2>1. new \in {"established", "supported"} =>
          <<r.s, r.e, "support">> \in r.rows /\ Row(r.e).type = "evidence" /\ ~Row(r.e).agreed
    BY <1>3, <1>4
  <2>2. new = "falsified" =>
          /\ <<r.s, r.e, "falsification">> \in r.rows /\ Row(r.e).type = "tangible_wrongness"
          /\ \E t \in DOMAIN evidence :
               <<r.s, t, "test">> \in r.rows /\ Row(t).type = "falsification_test"
    BY <1>3
  <2>3. r.seen[1] = "falsified" /\ new # "falsified" =>
          new = "unresolved" /\ <<r.s, r.e, "reopening">> \in r.rows /\ r.e > r.seen[3]
    BY <1>3, <1>5
  <2> QED BY <1>1, <1>3, <1>4, <1>5, <1>6, <2>1, <2>2, <2>3 DEF TransitionRequest
<1> QED BY <1>2, <1>3, <1>7 DEF LedgerRequest

LEMMA CheckTransitionStep ==
  ASSUME LedgerInv, NEW c \in Clients, CheckTransition(c)
  PROVE  LedgerInv' /\ ClosedNow
<1>1. PICK s \in Proposed : \E e \in DOMAIN evidence :
        /\ Counts(s, e)
        /\ \/ /\ Support(s, e)
              /\ Begin(c, Requested(s, e, SUPPORT_TRANSITIONS[propositions[s].status],
                               {<<e, "support">>}))
           \/ Contradict(s, e) /\ Begin(c, Requested(s, e, "contradicted", {<<e, "contradiction">>}))
           \/ Reopen(s, e) /\ Begin(c, Requested(s, e, "unresolved", {<<e, "reopening">>}))
           \/ \E t \in DOMAIN evidence :
                /\ Falsify(s, e, t)
                /\ Begin(c, Requested(s, e, "falsified", {<<e, "falsification">>, <<t, "test">>}))
  BY CheckedMoves
<1>2. PICK e \in DOMAIN evidence :
        /\ Counts(s, e)
        /\ \/ /\ Support(s, e)
              /\ Begin(c, Requested(s, e, SUPPORT_TRANSITIONS[propositions[s].status],
                               {<<e, "support">>}))
           \/ Contradict(s, e) /\ Begin(c, Requested(s, e, "contradicted", {<<e, "contradiction">>}))
           \/ Reopen(s, e) /\ Begin(c, Requested(s, e, "unresolved", {<<e, "reopening">>}))
           \/ \E t \in DOMAIN evidence :
                /\ Falsify(s, e, t)
                /\ Begin(c, Requested(s, e, "falsified", {<<e, "falsification">>, <<t, "test">>}))
  BY <1>1
<1>3. {"contradicted", "unresolved", "falsified"} \subseteq STATUSES
  BY DEF STATUSES, INITIAL_STATUSES
<1>4. \E r : LedgerRequest(r) /\ Begin(c, r)
  <2>1. CASE /\ Support(s, e)
             /\ Begin(c, Requested(s, e, SUPPORT_TRANSITIONS[propositions[s].status],
                              {<<e, "support">>}))
    <3>1. PICK new : new = SUPPORT_TRANSITIONS[propositions[s].status]
      OBVIOUS
    <3>2. /\ new \in STATUSES /\ new # "falsified" /\ propositions[s].status # "falsified"
          /\ new = "established" => propositions[s].status = "supported"
      BY <2>1, <3>1, SupportTransitions DEF Support
    <3>3. Row(e).type = "evidence"
      BY <2>1 DEF Support
    <3>4. LedgerRequest(Requested(s, e, new, {<<e, "support">>}))
      BY <1>2, <3>2, <3>3, MoveChecked
    <3> QED BY <2>1, <3>1, <3>4
  <2>2. CASE /\ Contradict(s, e)
             /\ Begin(c, Requested(s, e, "contradicted", {<<e, "contradiction">>}))
    <3>1. propositions[s].status # "falsified"
      BY <2>2 DEF Contradict
    <3>2. LedgerRequest(Requested(s, e, "contradicted", {<<e, "contradiction">>}))
      BY <1>2, <1>3, <3>1, MoveChecked
    <3> QED BY <2>2, <3>2
  <2>3. CASE Reopen(s, e) /\ Begin(c, Requested(s, e, "unresolved", {<<e, "reopening">>}))
    <3>1. e > propositions[s].falsifiedBy
      BY <2>3 DEF Reopen
    <3>2. LedgerRequest(Requested(s, e, "unresolved", {<<e, "reopening">>}))
      BY <1>2, <1>3, <3>1, MoveChecked
    <3> QED BY <2>3, <3>2
  <2>4. CASE \E t \in DOMAIN evidence :
               /\ Falsify(s, e, t)
               /\ Begin(c, Requested(s, e, "falsified", {<<e, "falsification">>, <<t, "test">>}))
    <3>1. PICK t \in DOMAIN evidence :
            /\ Falsify(s, e, t)
            /\ Begin(c, Requested(s, e, "falsified", {<<e, "falsification">>, <<t, "test">>}))
      BY <2>4
    <3>2. Row(e).type = "tangible_wrongness" /\ Row(t).type = "falsification_test"
      BY <3>1 DEF Falsify
    <3>3. LedgerRequest(Requested(s, e, "falsified", {<<e, "falsification">>, <<t, "test">>}))
      BY <1>2, <1>3, <3>2, MoveChecked
    <3> QED BY <3>1, <3>3
  <2> QED BY <1>2, <2>1, <2>2, <2>3, <2>4
<1>5. PICK r : LedgerRequest(r) /\ Begin(c, r)
  BY <1>4
<1>6. \E x : \E d \in Clients : LedgerRequest(x) /\ req' = [req EXCEPT ![d] = x]
  BY <1>5 DEF Begin
<1>7. propositions' = propositions /\ links' = links /\ evidence' = evidence /\ raced' = raced
  BY <1>5 DEF CheckTransition, ledgerVars, Begin
<1> QED BY <1>6, <1>7, QuietLedger DEF LedgerInv

\* The steps that change propositions keep what each status takes, where they
\* leave the status alone or bring what the new one takes.
LEMMA EarnedAfter ==
  ASSUME LedgerInv, links \subseteq links', evidence' = evidence,
         \A s \in Statements :
           propositions'[s].status = propositions[s].status
             \/ \E x : x = propositions'[s].status /\ Earned(s, x)'
  PROVE  (\A s \in Statements : Earned(s, propositions[s].status))'
<1>1. \A s, x : Earned(s, x) => Earned(s, x)'
  BY EarnedKept
<1>2. \A s \in Statements : \E x : x = propositions'[s].status /\ Earned(s, x)'
  BY <1>1, Propositions
<1> QED BY <1>2 DEF Earned

LEMMA CirclesStillEnd ==
  ASSUME LedgerInv, raced => raced',
         \A s \in Statements : propositions'[s].superseded_by = propositions[s].superseded_by
  PROVE  SupersessionsEnd'
BY DEF LedgerInv, SupersessionsEnd

LEMMA ProposeStep ==
  ASSUME LedgerInv, NEW c \in Clients, Propose(c)
  PROVE  LedgerInv' /\ ClosedNow
<1>1. PICK s \in Statements \ Proposed, e \in DOMAIN evidence, status \in Proposals :
        propositions' = [propositions EXCEPT ![s] =
          [NoProposition EXCEPT !.status = status, !.scope = Row(e).scope]]
  BY DEF Propose
<1> DEFINE p == [NoProposition EXCEPT !.status = status, !.scope = Row(e).scope]
<1>2. propositions[s] = NoProposition
  BY DEF Proposed
<1>3. Row(e).scope \in STRING \cup {NoScope}
  BY EvidenceRecords DEF RowType
<1>4. status \in INITIAL_STATUSES
  BY RowsTyped
<1>5. p \in PropositionType /\ p.status = status /\ p.superseded_by = Nobody
  BY <1>3, <1>4 DEF PropositionType, NoProposition, STATUSES
<1>6. NoProposition.superseded_by = Nobody
  BY DEF NoProposition
<1>7. propositions \in [Statements -> PropositionType]
  BY DEF LedgerInv
<1>8. propositions' = [propositions EXCEPT ![s] = p]
  BY <1>1
<1> HIDE DEF p
<1>9. /\ propositions' \in [Statements -> PropositionType]
      /\ propositions'[s] = p
      /\ \A q \in Statements \ {s} : propositions'[q] = propositions[q]
  <2> HIDE DEF PropositionType
  <2> QED BY <1>5, <1>7, <1>8
<1>10. evidence' = evidence /\ links' = links /\ req' = req /\ raced' = raced
  BY DEF Propose, Atomically
<1>11. Earned(s, status)'
  BY <1>4 DEF Earned, INITIAL_STATUSES
<1>12. (\A q \in Statements : Earned(q, propositions[q].status))'
  BY <1>5, <1>9, <1>10, <1>11, EarnedAfter
<1>13. SupersessionsEnd'
  BY <1>2, <1>5, <1>6, <1>9, <1>10, CirclesStillEnd
<1>14. LedgerInv'
  BY <1>9, <1>10, <1>12, <1>13, LedgerKept DEF LedgerInv
<1>15. ClosedNow
  BY <1>9 DEF ClosedNow, Proposed
<1> QED BY <1>14, <1>15

LEMMA RecordConfidenceStep ==
  ASSUME LedgerInv, NEW c \in Clients, RecordConfidence(c)
  PROVE  LedgerInv' /\ ClosedNow
<1>1. PICK r : r = req[c]
  OBVIOUS
<1>2. /\ r.op = "confidence"
      /\ propositions' = [propositions EXCEPT ![r.s].confidence = r.confidence]
      /\ evidence' = evidence /\ links' = links
      /\ req' = [req EXCEPT ![c] = Idle] /\ raced' = (raced \/ ~Open(r.s))
  BY <1>1 DEF RecordConfidence, Processing, Commit
<1>3. r.s \in Statements /\ r.confidence \in Confidences
  BY <1>1, <1>2, LedgerReads DEF LedgerRequest
<1>4. propositions \in [Statements -> PropositionType]
  BY DEF LedgerInv
<1>5. /\ propositions' \in [Statements -> PropositionType]
      /\ \A q \in Statements :
           /\ propositions'[q].status = propositions[q].status
           /\ propositions'[q].superseded_by = propositions[q].superseded_by
           /\ q # r.s => propositions'[q] = propositions[q]
  BY <1>2, <1>3, <1>4 DEF PropositionType
<1>6. (\A q \in Statements : Earned(q, propositions[q].status))'
  BY <1>2, <1>5, EarnedAfter
<1>7. SupersessionsEnd'
  BY <1>2, <1>5, CirclesStillEnd
<1>8. \E x : \E d \in Clients : LedgerRequest(x) /\ req' = [req EXCEPT ![d] = x]
  BY <1>2, IdleLedgerRequest
<1>9. LedgerInv'
  BY <1>2, <1>5, <1>6, <1>7, <1>8, LedgerKept DEF LedgerInv
<1>10. ClosedNow
  BY <1>2, <1>5 DEF ClosedNow, Proposed
<1> QED BY <1>9, <1>10

\* What a transition writes is earned: the support it links is another one than
\* the support that the proposition had, whatever was written in between.
LEMMA TransitionEarned ==
  ASSUME LedgerInv, NEW r, TransitionRequest(r), r.rows \cap links = {},
         links' = links \cup r.rows, evidence' = evidence
  PROVE  Earned(r.s, r.new)'
<1>1. \A e : Row(e)' = Row(e)
  BY DEF Row
<1>2. \A x, e : e \in DOMAIN evidence /\ <<r.s, e, x>> \in r.rows => e \in Linked(r.s, x)'
  BY DEF Linked
<1>3. ASSUME r.new \in {"established", "supported"}
      PROVE  /\ r.e \in Supports(r.s)' /\ r.e \notin Supports(r.s)
  <2>1. /\ <<r.s, r.e, "support">> \in r.rows /\ r.e \in DOMAIN evidence
        /\ Row(r.e).type = "evidence" /\ ~Row(r.e).agreed
    BY <1>3 DEF TransitionRequest
  <2>2. r.e \in Supports(r.s)'
    BY <1>1, <1>2, <2>1 DEF Supports
  <2>3. <<r.s, r.e, "support">> \notin links
    BY <2>1
  <2> QED BY <2>2, <2>3 DEF Supports, Linked
<1>4. ASSUME r.new = "established"
      PROVE  \E d, e \in Supports(r.s)' : d # e
  <2>1. PICK d \in Supports(r.s) : TRUE
    BY <1>4 DEF TransitionRequest
  <2>2. d \in Supports(r.s)'
    BY <1>1, <2>1 DEF Supports, Linked
  <2> QED BY <1>3, <1>4, <2>1, <2>2
<1>5. ASSUME r.new = "falsified"
      PROVE  Wrong(r.s)' /\ Tested(r.s)'
  <2>1. PICK t \in DOMAIN evidence :
          <<r.s, t, "test">> \in r.rows /\ Row(t).type = "falsification_test"
    BY <1>5 DEF TransitionRequest
  <2>2. /\ <<r.s, r.e, "falsification">> \in r.rows /\ r.e \in DOMAIN evidence
        /\ Row(r.e).type = "tangible_wrongness"
    BY <1>5 DEF TransitionRequest
  <2> QED BY <1>1, <1>2, <2>1, <2>2 DEF Wrong, Tested
<1> QED BY <1>3, <1>4, <1>5 DEF Earned

LEMMA TransitionStep ==
  ASSUME LedgerInv, NEW c \in Clients, Transition(c)
  PROVE  LedgerInv' /\ ClosedNow
<1>1. PICK r : r = req[c]
  OBVIOUS
<1>2. /\ r.op = "transition" /\ r.rows \cap links = {}
      /\ links' = links \cup r.rows
      /\ propositions' = [propositions EXCEPT
           ![r.s].status = r.new,
           ![r.s].falsifiedBy = IF r.new = "falsified" THEN r.e ELSE @]
      /\ evidence' = evidence
      /\ req' = [req EXCEPT ![c] = Idle] /\ raced' = (raced \/ r.seen # Standing(r.s))
  BY <1>1 DEF Transition, Processing, Linkable, Commit
<1>3. TransitionRequest(r)
  BY <1>1, <1>2, LedgerReads DEF LedgerRequest
<1>4. r.s \in Statements /\ r.new \in STATUSES /\ r.e \in DOMAIN evidence
  BY <1>3 DEF TransitionRequest
<1>5. propositions \in [Statements -> PropositionType] /\ r.e \in Nat
  BY <1>4, EvidenceRecords DEF LedgerInv
<1>6. /\ propositions' \in [Statements -> PropositionType]
      /\ propositions'[r.s].status = r.new
      /\ \A q \in Statements :
           /\ propositions'[q].superseded_by = propositions[q].superseded_by
           /\ q # r.s => propositions'[q] = propositions[q]
  BY <1>2, <1>4, <1>5 DEF PropositionType
<1>7. Earned(r.s, r.new)'
  BY <1>2, <1>3, TransitionEarned
<1>8. (\A q \in Statements : Earned(q, propositions[q].status))'
  BY <1>2, <1>6, <1>7, EarnedAfter
<1>9. SupersessionsEnd'
  BY <1>2, <1>6, CirclesStillEnd
<1>10. \E x : \E d \in Clients : LedgerRequest(x) /\ req' = [req EXCEPT ![d] = x]
  BY <1>2, IdleLedgerRequest
<1>11. LedgerInv'
  BY <1>2, <1>6, <1>8, <1>9, <1>10, LedgerKept DEF LedgerInv
<1>12. ASSUME ~raced', NEW s \in Proposed
       PROVE  /\ ~Open(s) => propositions'[s] = propositions[s]
              /\ propositions[s].status = "falsified" /\ propositions'[s].status # "falsified"
                   => /\ propositions'[s].status = "unresolved"
                      /\ \E e \in Linked(s, "reopening")' : e > propositions[s].falsifiedBy
  <2>1. s \in Statements
    BY DEF Proposed
  <2>2. CASE s # r.s
    BY <1>6, <2>1, <2>2
  <2>3. CASE s = r.s
    <3>1. /\ r.seen[1] = propositions[s].status /\ r.seen[2] = propositions[s].superseded_by
          /\ r.seen[3] = propositions[s].falsifiedBy
      BY <1>2, <1>12, <2>1, <2>3, Propositions
    <3>2. Open(s)
      BY <1>3, <3>1 DEF Open, TransitionRequest
    <3>3. ASSUME propositions[s].status = "falsified", r.new # "falsified"
          PROVE  /\ r.new = "unresolved"
                 /\ \E e \in Linked(s, "reopening")' : e > propositions[s].falsifiedBy
      <4>1. r.new = "unresolved" /\ <<r.s, r.e, "reopening">> \in r.rows /\ r.e > r.seen[3]
        BY <1>3, <3>1, <3>3 DEF TransitionRequest
      <4>2. r.e \in Linked(s, "reopening")'
        BY <1>2, <1>4, <2>3, <4>1 DEF Linked
      <4> QED BY <3>1, <4>1, <4>2
    <3> QED BY <1>6, <2>3, <3>2, <3>3
  <2> QED BY <2>2, <2>3
<1>13. ClosedNow
  BY <1>12 DEF ClosedNow
<1> QED BY <1>11, <1>13

\* A supersession that raced with none closes no circle: its statement was open,
\* and the one that replaces it still is.
LEMMA SupersedeEnds ==
  ASSUME LedgerInv, NEW s \in Statements, NEW by \in Statements, s # by, Open(by),
         ~raced, propositions'[s].superseded_by = by,
         \A q \in Statements \ {s} :
           propositions'[q].superseded_by = propositions[q].superseded_by
  PROVE  SupersessionsEnd'
<1> SUFFICES ASSUME NEW circle \in (SUBSET Statements) \ {{}}
             PROVE  \E q \in circle : propositions'[q].superseded_by \notin circle
  BY DEF SupersessionsEnd
<1>1. CASE by \in circle
  <2>1. propositions'[by].superseded_by = Nobody
    BY DEF Open
  <2>2. Nobody \notin circle
    BY RowsTyped
  <2> QED BY <1>1, <2>1, <2>2
<1>2. CASE by \notin circle
  <2>1. CASE s \in circle
    BY <1>2, <2>1
  <2>2. CASE s \notin circle
    <3>1. PICK q \in circle : propositions[q].superseded_by \notin circle
      BY DEF LedgerInv, SupersessionsEnd
    <3> QED BY <2>2, <3>1
  <2> QED BY <2>1, <2>2
<1> QED BY <1>1, <1>2

LEMMA SupersedeStep ==
  ASSUME LedgerInv, NEW c \in Clients, Supersede(c)
  PROVE  LedgerInv' /\ ClosedNow
<1>1. PICK r : r = req[c]
  OBVIOUS
<1>2. PICK status : status = r.seen[1]
  OBVIOUS
<1>3. /\ r.op = "supersede" /\ Open(r.s)
      /\ propositions' = [propositions EXCEPT
           ![r.s].superseded_by = r.by, ![r.s].status = status]
      /\ evidence' = evidence /\ links' = links
      /\ req' = [req EXCEPT ![c] = Idle]
      /\ raced' = (raced \/ (r.seen # Standing(r.s) \/ ~Open(r.by)))
  BY <1>1, <1>2 DEF Supersede, Processing, Commit
<1>4. SupersedeRequest(r)
  BY <1>1, <1>3, LedgerReads DEF LedgerRequest
<1>5. /\ r.s \in Statements /\ r.by \in Statements /\ r.s # r.by
      /\ status \in STATUSES \cup {"none"} /\ Earned(r.s, status)
  BY <1>2, <1>4 DEF SupersedeRequest
<1>6. propositions \in [Statements -> PropositionType]
  BY DEF LedgerInv
<1>7. /\ propositions' \in [Statements -> PropositionType]
      /\ propositions'[r.s].status = status /\ propositions'[r.s].superseded_by = r.by
      /\ \A q \in Statements \ {r.s} : propositions'[q] = propositions[q]
  BY <1>3, <1>5, <1>6 DEF PropositionType
<1>8. Earned(r.s, status)'
  BY <1>3, <1>5, EarnedKept
<1>9. (\A q \in Statements : Earned(q, propositions[q].status))'
  BY <1>3, <1>7, <1>8, EarnedAfter
<1>10. SupersessionsEnd'
  <2>1. CASE raced'
    BY <2>1 DEF SupersessionsEnd
  <2>2. CASE ~raced'
    BY <1>3, <1>5, <1>7, <2>2, SupersedeEnds
  <2> QED BY <2>1, <2>2
<1>11. \E x : \E d \in Clients : LedgerRequest(x) /\ req' = [req EXCEPT ![d] = x]
  BY <1>3, IdleLedgerRequest
<1>12. LedgerInv'
  BY <1>3, <1>7, <1>9, <1>10, <1>11, LedgerKept DEF LedgerInv
<1>13. ~raced' => status = propositions[r.s].status
  BY <1>2, <1>3, <1>5, Propositions
<1>14. ClosedNow
  BY <1>3, <1>7, <1>13 DEF ClosedNow, Proposed
<1> QED BY <1>12, <1>14

LEMMA LedgerStep ==
  ASSUME LedgerInv, [LedgerNext]_<<ledgerVars, req, raced>>
  PROVE  LedgerInv' /\ (ClosedNow \/ UNCHANGED <<ledgerVars, req, raced>>)
<1>1. CASE LedgerNext
  <2>1. PICK c \in Clients :
          \/ AddEvidence(c) \/ CheckSuccessor(c) \/ AddSuccessor(c)
          \/ Propose(c)
          \/ CheckTransition(c) \/ Transition(c)
          \/ CheckConfidence(c) \/ RecordConfidence(c)
          \/ CheckSupersede(c) \/ Supersede(c)
          \/ Drop(c) /\ UNCHANGED ledgerVars
    BY <1>1 DEF LedgerNext
  <2> QED BY <2>1, AddEvidenceStep, CheckSuccessorStep, AddSuccessorStep, ProposeStep,
             CheckTransitionStep, TransitionStep, CheckConfidenceStep, RecordConfidenceStep,
             CheckSupersedeStep, SupersedeStep, DropLedgerStep
<1>2. CASE UNCHANGED <<ledgerVars, req, raced>>
  BY <1>2, QuietLedger DEF ledgerVars, LedgerInv
<1> QED BY <1>1, <1>2

LEMMA LedgerInitially ==
  ASSUME StoreInit, LedgerInit
  PROVE  LedgerInv
<1>1. DOMAIN req = Clients /\ \A c \in Clients : \A r : r = req[c] => LedgerRequest(r)
  BY IdleLedgerRequest DEF StoreInit
<1>2. evidence \in Seq(EvidenceType)
  <2>1. /\ Recorded \in Seq(RowType) /\ Len(Recorded) \in Nat
        /\ DOMAIN Recorded = 1..Len(Recorded)
    BY RowsTyped
  <2>2. \A e \in 1..Len(Recorded) : Recorded[e] \in RowType
    <3> HIDE DEF RowType
    <3> QED BY <2>1
  <2>3. \A e \in 1..Len(Recorded) : First(Recorded[e]) \in EvidenceType
    BY <2>2 DEF First, EvidenceType
  <2>4. evidence = [e \in 1..Len(Recorded) |-> First(Recorded[e])]
    BY <2>1 DEF LedgerInit
  <2> HIDE DEF EvidenceType
  <2> QED BY <2>1, <2>3, <2>4, IsASeq
<1>3. NoProposition.status = "none" /\ NoProposition.superseded_by = Nobody
  BY DEF NoProposition
<1>7. NoProposition \in PropositionType
  BY DEF NoProposition, PropositionType
<1>4. propositions \in [Statements -> PropositionType]
  BY <1>7 DEF LedgerInit
<1>5. \A s \in Statements : Earned(s, propositions[s].status)
  BY <1>3 DEF LedgerInit, Earned
<1>6. SupersessionsEnd
  BY <1>3, RowsTyped DEF SupersessionsEnd, LedgerInit
<1> QED BY <1>1, <1>2, <1>4, <1>5, <1>6 DEF LedgerInv

\* Two different pieces of support are at least two.
LEMMA TwoSupports ==
  ASSUME LedgerInv, NEW s, NEW d \in Supports(s), NEW e \in Supports(s), d # e
  PROVE  Cardinality(Supports(s)) >= 2
<1>1. IsFiniteSet(Supports(s))
  <2>1. Supports(s) \subseteq 1..Len(evidence) /\ Len(evidence) \in Nat
    BY EvidenceRecords DEF Supports, Linked
  <2>2. IsFiniteSet(1..Len(evidence))
    BY <2>1, FS_Interval
  <2> QED BY <2>1, <2>2, FS_Subset
<1>2. IsFiniteSet({d}) /\ Cardinality({d}) = 1
  BY FS_Singleton
<1>3. Cardinality({d} \cup {e}) = 2
  BY <1>2, FS_AddElement
<1>4. Cardinality({d} \cup {e}) =< Cardinality(Supports(s)) /\ Cardinality(Supports(s)) \in Nat
  BY <1>1, FS_Subset, FS_CardinalityType
<1> QED BY <1>3, <1>4

LEMMA StatusesEarned ==
  ASSUME LedgerInv
  PROVE  StatusIsEarned
<1> SUFFICES ASSUME NEW s \in Proposed
             PROVE  LET status == propositions[s].status IN
                    /\ status = "established" => Cardinality(Supports(s)) >= 2
                    /\ status = "supported" => Supports(s) # {}
                    /\ status = "falsified" => Wrong(s) /\ Tested(s)
  BY DEF StatusIsEarned, Supports, Wrong, Tested
<1>1. Earned(s, propositions[s].status)
  BY Propositions DEF Proposed
<1> QED BY <1>1, TwoSupports DEF Earned

\* The epistemic ledger (ledger.py): however many clients interleave and die, a
\* status is earned by evidence; and as long as no two operations raced, what
\* was superseded stays closed, what was falsified is only reopened with newer
\* evidence, and supersessions end.
THEOREM BeliefsStayEarned == LedgerSpec => BeliefsAreEarned
<1>1. StoreInit /\ LedgerInit => LedgerInv
  BY LedgerInitially
<1>2. LedgerInv /\ [LedgerNext]_<<ledgerVars, req, raced>> =>
        LedgerInv' /\ (ClosedNow \/ UNCHANGED <<ledgerVars, req, raced>>)
  BY LedgerStep
<1>3. LedgerInv => StatusIsEarned /\ SupersessionsEnd
  BY StatusesEarned DEF LedgerInv
<1>4. ClosedNow \/ UNCHANGED <<ledgerVars, req, raced>> =>
        [raced' \/ \A s \in Proposed :
           /\ ~Open(s) => propositions'[s] = propositions[s]
           /\ propositions[s].status = "falsified" /\ propositions'[s].status # "falsified"
                => /\ propositions'[s].status = "unresolved"
                   /\ \E e \in Linked(s, "reopening")' : e > propositions[s].falsifiedBy
        ]_<<ledgerVars, req, raced>>
  BY DEF ClosedNow
<1> QED BY <1>1, <1>2, <1>3, <1>4, PTL DEF LedgerSpec, BeliefsAreEarned, ClosedStaysClosed

-----------------------------------------------------------------------------
(* The knowledge sources.                                                  *)

SourcesSpec == StoreInit /\ SourcesInit /\ [][SourcesNext]_<<sourceVars, req, raced>>

\* The requests of the registry.
Registrations ==
  [op : {"register"}, s : Sources, step : {"copy", "copying", "insert"},
   seen : {"absent", "intact"}]
SourceRequests ==
  {Idle} \cup Registrations \cup [op : {"span"}, s : Sources, span : Spans]
         \cup [op : {"tombstone"}, s : Sources]

Registering(c, step) == Processing(c, "register") /\ req[c].step = step

\* What a request relies on when it commits: a copy is under way, has ended, or
\* the source exists.
Grounded(c) ==
  /\ Registering(c, "copying") => blobs[req[c].s] = "partial"
  /\ Registering(c, "insert") => blobs[req[c].s] \in {"intact", "altered"}
  /\ Processing(c, "tombstone") => sources[req[c].s] # "none"

\* Only one client copies a blob.
Alone(c, d) ==
  Registering(c, "copying") /\ Registering(d, "copying") /\ req[c].s = req[d].s => c = d

Orderly ==
  /\ \A s \in Sources : sources[s] # "none" => blobs[s] \in {"intact", "altered"}
  /\ \A c \in Clients : Grounded(c)
  /\ \A c, d \in Clients : Alone(c, d)

SourcesInv ==
  /\ SourcesTypeOK /\ req \in [Clients -> SourceRequests] /\ raced \in BOOLEAN
  /\ raced \/ Orderly

-----------------------------------------------------------------------------
\* An idle client has no operation.
LEMMA IdleClients ==
  ASSUME NEW c \in Clients, req[c] = Idle, NEW op \in {"register", "span", "tombstone"}
  PROVE  ~Processing(c, op)
BY DEF Idle, Processing

\* The registry starts orderly.
LEMMA SourcesStart ==
  ASSUME StoreInit, SourcesInit
  PROVE  SourcesInv
<1>1. \A c \in Clients : req[c] = Idle
  BY DEF StoreInit
<1>2. Orderly
  BY <1>1, IdleClients DEF SourcesInit, Orderly, Grounded, Alone, Registering
<1> QED BY <1>1, <1>2 DEF StoreInit, SourcesInit, SourcesInv, SourcesTypeOK, SourceRequests

\* A client that begins keeps the registry typed, and it only has to be grounded.
LEMMA BeginIsOrderly ==
  ASSUME SourcesInv, NEW c \in Clients, NEW r \in SourceRequests, Begin(c, r), UNCHANGED sourceVars,
         r.op = "register" => r.step = "copy",
         r.op = "tombstone" => sources[r.s] # "none"
  PROVE  SourcesInv'
<1>1. req' \in [Clients -> SourceRequests] /\ req'[c] = r /\ \A d \in Clients \ {c} : req'[d] = req[d]
  BY DEF SourcesInv, Begin
<1>2. ASSUME ~raced
      PROVE  Orderly'
  <2>1. Orderly
    BY <1>2 DEF SourcesInv
  <2>2. \A d \in Clients : Grounded(d)'
    BY <1>1, <2>1 DEF Orderly, Grounded, Registering, Processing, sourceVars
  <2>3. \A d, e \in Clients : Alone(d, e)'
    BY <1>1, <2>1 DEF Orderly, Alone, Registering, Processing
  <2> QED BY <2>1, <2>2, <2>3 DEF Orderly, sourceVars
<1> QED BY <1>1, <1>2 DEF SourcesInv, SourcesTypeOK, sourceVars, Begin

\* The same for a client that ends, whatever it writes that keeps its
\* promises to the others.
LEMMA EndIsOrderly ==
  ASSUME SourcesInv, NEW c \in Clients, NEW stale \in BOOLEAN,
         Commit(c, stale), SourcesTypeOK', UNCHANGED blobs,
         \A s \in Sources : sources[s] # "none" => sources'[s] # "none",
         ~raced /\ Orderly =>
           \A s \in Sources : sources'[s] # "none" => blobs[s] \in {"intact", "altered"}
  PROVE  SourcesInv'
<1>1. /\ req' \in [Clients -> SourceRequests] /\ req'[c] = Idle
      /\ \A d \in Clients \ {c} : req'[d] = req[d]
  BY DEF SourcesInv, Commit, SourceRequests
<1>2. ASSUME ~raced'
      PROVE  Orderly'
  <2>1. ~raced /\ Orderly
    BY <1>2 DEF SourcesInv, Commit
  <2>2. \A d \in Clients : Grounded(d)'
    <3>1. Grounded(c)'
      BY <1>1 DEF Grounded, Registering, Processing, Idle
    <3>2. ASSUME NEW d \in Clients \ {c} PROVE Grounded(d)'
      <4>1. req[d] \in SourceRequests
        BY DEF SourcesInv
      <4>2. Processing(d, "tombstone") => req[d].s \in Sources
        BY <4>1 DEF SourceRequests, Registrations, Processing, Idle
      <4> QED BY <1>1, <2>1, <4>2 DEF Orderly, Grounded, Registering, Processing
    <3> QED BY <3>1, <3>2
  <2>3. \A d, e \in Clients : Alone(d, e)'
    BY <1>1, <2>1 DEF Orderly, Alone, Registering, Processing, Idle
  <2> QED BY <2>1, <2>2, <2>3 DEF Orderly
<1> QED BY <1>1, <1>2 DEF SourcesInv, Commit

\* A client in the middle of a registration knows its source.
LEMMA RegistrationType ==
  ASSUME SourcesInv, NEW c \in Clients, Processing(c, "register")
  PROVE  req[c] \in Registrations
BY DEF SourcesInv, SourceRequests, Registrations, Processing, Idle

\* The copy begins, or is found to be there.
LEMMA StartBlobIsOrderly ==
  ASSUME SourcesInv, NEW c \in Clients, StartBlob(c)
  PROVE  SourcesInv'
<1> DEFINE s == req[c].s
<1>1. req[c] \in Registrations /\ s \in Sources
  BY RegistrationType DEF StartBlob, Registrations
<1>2. PICK step \in {"copying", "insert"} :
        /\ req' = [req EXCEPT ![c].step = step]
        /\ step = "copying" => blobs[s] = "absent" /\ blobs' = [blobs EXCEPT ![s] = "partial"]
        /\ step = "insert" => blobs[s] # "absent" /\ blobs' = blobs
  BY <1>1 DEF StartBlob, SourcesInv, SourcesTypeOK
<1>3. /\ req'[c] \in Registrations /\ req'[c].step = step /\ req'[c].s = s
      /\ \A d \in Clients \ {c} : req'[d] = req[d]
      /\ req' \in [Clients -> SourceRequests]
  BY <1>1, <1>2 DEF SourcesInv, SourceRequests, Registrations
<1>4. SourcesTypeOK'
  BY <1>2, <1>1 DEF SourcesInv, SourcesTypeOK, StartBlob
<1>5. ASSUME ~raced'
      PROVE  Orderly'
  <2>1. ~raced /\ Orderly /\ blobs[s] = req[c].seen /\ UNCHANGED sources
    BY <1>5, <1>1 DEF SourcesInv, StartBlob, SourcesTypeOK
  <2>2. blobs[s] \in {"absent", "intact"}
    BY <2>1, <1>1 DEF Registrations
  <2>3. \A u \in Sources : sources[u] # "none" => blobs'[u] \in {"intact", "altered"}
    BY <2>1, <1>2 DEF Orderly, SourcesInv, SourcesTypeOK
  <2>4. Grounded(c)'
    BY <1>1, <1>2, <1>3, <2>2 DEF Grounded, Registering, Processing, Registrations,
       SourcesInv, SourcesTypeOK
  <2>5. ASSUME NEW d \in Clients \ {c} PROVE Grounded(d)' /\ Alone(c, d)' /\ Alone(d, c)'
    <3>1. Grounded(d) /\ req'[d] = req[d]
      BY <1>3, <2>1 DEF Orderly
    <3>2. Processing(d, "register") => req[d].s \in Sources
      BY RegistrationType DEF Registrations
    <3> QED BY <1>2, <1>3, <2>1, <3>1, <3>2 DEF Grounded, Alone, Registering, Processing,
            SourcesInv, SourcesTypeOK
  <2>6. \A d, e \in Clients \ {c} : Alone(d, e)'
    BY <1>3, <2>1 DEF Orderly, Alone, Registering, Processing
  <2> QED BY <2>1, <2>3, <2>4, <2>5, <2>6 DEF Orderly, Alone
<1> QED BY <1>3, <1>4, <1>5 DEF SourcesInv, StartBlob

\* The copy ends.
LEMMA EndBlobIsOrderly ==
  ASSUME SourcesInv, NEW c \in Clients, EndBlob(c)
  PROVE  SourcesInv'
<1> DEFINE s == req[c].s
<1>1. req[c] \in Registrations /\ s \in Sources
  BY RegistrationType DEF EndBlob, Registrations
<1>2. /\ req'[c] \in Registrations /\ req'[c].step = "insert" /\ req'[c].s = s
      /\ \A d \in Clients \ {c} : req'[d] = req[d]
      /\ req' \in [Clients -> SourceRequests]
  BY <1>1 DEF EndBlob, SourcesInv, SourceRequests, Registrations
<1>3. PICK copied \in {"intact", "altered"} :
        blobs' = [blobs EXCEPT ![s] = copied] /\ UNCHANGED <<raced, sources>>
  BY DEF EndBlob
<1>4. SourcesTypeOK'
  BY <1>1, <1>3 DEF SourcesInv, SourcesTypeOK, EndBlob
<1>5. ASSUME ~raced
      PROVE  Orderly'
  <2>1. Orderly
    BY <1>5 DEF SourcesInv
  <2>2. \A u \in Sources : sources[u] # "none" => blobs'[u] \in {"intact", "altered"}
    BY <2>1, <1>3 DEF Orderly, SourcesInv, SourcesTypeOK
  <2>3. Grounded(c)'
    BY <1>1, <1>2, <1>3 DEF Grounded, Registering, Processing, Registrations,
       SourcesInv, SourcesTypeOK
  <2>4. ASSUME NEW d \in Clients \ {c} PROVE Grounded(d)' /\ Alone(c, d)' /\ Alone(d, c)'
    <3>1. Grounded(d) /\ Alone(c, d) /\ req'[d] = req[d]
      BY <1>2, <2>1 DEF Orderly
    <3>2. Processing(d, "register") => req[d].s \in Sources
      BY RegistrationType DEF Registrations
    <3>3. Registering(c, "copying")
      BY DEF EndBlob, Registering
    <3> QED BY <1>2, <1>3, <3>1, <3>2, <3>3 DEF Grounded, Alone, Registering, Processing,
            SourcesInv, SourcesTypeOK
  <2>5. \A d, e \in Clients \ {c} : Alone(d, e)'
    BY <1>2, <2>1 DEF Orderly, Alone, Registering, Processing
  <2> QED BY <2>2, <2>3, <2>4, <2>5, <1>3 DEF Orderly, Alone
<1> QED BY <1>2, <1>3, <1>4, <1>5 DEF SourcesInv

\* Every step keeps the registry orderly.
LEMMA SourcesStep ==
  ASSUME SourcesInv, [SourcesNext]_<<sourceVars, req, raced>>
  PROVE  SourcesInv'
<1>1. CASE UNCHANGED <<sourceVars, req, raced>>
  BY <1>1 DEF SourcesInv, SourcesTypeOK, Orderly, Grounded, Alone, Registering, Processing,
     sourceVars
<1>2. ASSUME NEW c \in Clients,
             \/ CheckSource(c) \/ StartBlob(c) \/ EndBlob(c) \/ InsertSource(c)
             \/ CheckSpan(c) \/ InsertSpan(c) \/ CheckTombstone(c) \/ Tombstone(c)
             \/ Drop(c) /\ UNCHANGED sourceVars
      PROVE  SourcesInv'
  <2>1. CASE CheckSource(c)
    <3>1. PICK s \in Sources :
            /\ sources[s] = "none" /\ Acceptable(blobs[s])
            /\ Begin(c, [op |-> "register", s |-> s, step |-> "copy", seen |-> blobs[s]])
      BY <2>1 DEF CheckSource
    <3>2. blobs[s] \in {"absent", "intact"}
      BY <3>1 DEF SourcesInv, SourcesTypeOK, Acceptable
    <3>3. [op |-> "register", s |-> s, step |-> "copy", seen |-> blobs[s]] \in SourceRequests
      BY <3>2 DEF SourceRequests, Registrations
    <3> QED BY <2>1, <3>1, <3>3, BeginIsOrderly DEF CheckSource
  <2>2. CASE CheckSpan(c)
    <3>1. PICK s \in Sources, span \in Spans : Begin(c, [op |-> "span", s |-> s, span |-> span])
      BY <2>2 DEF CheckSpan
    <3> QED BY <2>2, <3>1, BeginIsOrderly DEF CheckSpan, SourceRequests
  <2>3. CASE CheckTombstone(c)
    <3>1. PICK s \in Sources :
            sources[s] \notin {"none", "tombstoned"} /\ Begin(c, [op |-> "tombstone", s |-> s])
      BY <2>3 DEF CheckTombstone
    <3> QED BY <2>3, <3>1, BeginIsOrderly DEF CheckTombstone, SourceRequests
  <2>4. CASE InsertSource(c)
    <3>1. req[c].s \in Sources /\ Registering(c, "insert")
      BY <2>4, RegistrationType DEF InsertSource, Registrations, Registering
    <3>2. SourcesTypeOK' /\ Commit(c, FALSE)
      BY <2>4, <3>1 DEF InsertSource, SourcesInv, SourcesTypeOK
    <3>3. ~raced /\ Orderly => \A s \in Sources : sources'[s] # "none" => blobs[s] \in {"intact", "altered"}
      BY <2>4, <3>1 DEF InsertSource, Orderly, Grounded, SourcesInv, SourcesTypeOK
    <3>4. \A s \in Sources : sources[s] # "none" => sources'[s] # "none"
      BY <2>4, <3>1 DEF InsertSource, SourcesInv, SourcesTypeOK
    <3> QED BY <2>4, <3>2, <3>3, <3>4, EndIsOrderly DEF InsertSource
  <2>5. CASE InsertSpan(c)
    <3>1. req[c].s \in Sources /\ req[c].span \in Spans
      BY <2>5 DEF InsertSpan, SourcesInv, SourceRequests, Registrations, Processing, Idle
    <3>2. SourcesTypeOK' /\ UNCHANGED <<blobs, sources>>
      BY <2>5, <3>1 DEF InsertSpan, SourcesInv, SourcesTypeOK
    <3>3. PICK stale \in BOOLEAN : Commit(c, stale)
      BY <2>5 DEF InsertSpan
    <3> QED BY <3>2, <3>3, EndIsOrderly DEF Orderly
  <2>6. CASE Tombstone(c)
    <3>1. req[c].s \in Sources
      BY <2>6 DEF Tombstone, SourcesInv, SourceRequests, Registrations, Processing, Idle
    <3>2. SourcesTypeOK' /\ Commit(c, FALSE)
      BY <2>6, <3>1 DEF Tombstone, SourcesInv, SourcesTypeOK
    <3>3. ~raced /\ Orderly => \A s \in Sources : sources'[s] # "none" => blobs[s] \in {"intact", "altered"}
      BY <2>6, <3>1 DEF Tombstone, Orderly, Grounded, SourcesInv, SourcesTypeOK
    <3>4. \A s \in Sources : sources[s] # "none" => sources'[s] # "none"
      BY <2>6, <3>1 DEF Tombstone, SourcesInv, SourcesTypeOK
    <3> QED BY <2>6, <3>2, <3>3, <3>4, EndIsOrderly DEF Tombstone
  <2>7. CASE Drop(c) /\ UNCHANGED sourceVars
    <3>1. Commit(c, FALSE) /\ SourcesTypeOK' /\ UNCHANGED <<blobs, sources>>
      BY <2>7 DEF Drop, Commit, SourcesInv, SourcesTypeOK, sourceVars
    <3> QED BY <3>1, EndIsOrderly DEF Orderly
  <2> QED BY <1>2, <2>1, <2>2, <2>3, <2>4, <2>5, <2>6, <2>7, StartBlobIsOrderly, EndBlobIsOrderly
<1> QED BY <1>1, <1>2 DEF SourcesNext

-----------------------------------------------------------------------------
\* A step keeps every tombstone, and without a race adds no span to its source.
LEMMA TombstonesStay ==
  ASSUME SourcesInv, [SourcesNext]_<<sourceVars, req, raced>>,
         NEW s \in Sources, sources[s] = "tombstoned"
  PROVE  /\ sources'[s] = "tombstoned"
         /\ raced' \/ \A span \in Spans : <<s, span>> \in spans' => <<s, span>> \in spans
<1>1. CASE UNCHANGED <<sources, spans>>
  BY <1>1
<1>2. ASSUME NEW c \in Clients, InsertSource(c) \/ InsertSpan(c) \/ Tombstone(c)
      PROVE  /\ sources'[s] = "tombstoned"
             /\ raced' \/ \A span \in Spans : <<s, span>> \in spans' => <<s, span>> \in spans
  <2>1. CASE InsertSource(c)
    BY <2>1 DEF InsertSource, SourcesInv, SourcesTypeOK
  <2>2. CASE InsertSpan(c)
    <3>1. UNCHANGED sources /\ spans' = spans \cup {<<req[c].s, req[c].span>>}
      BY <2>2 DEF InsertSpan
    <3>2. req[c].s = s => raced'
      BY <2>2 DEF InsertSpan, Commit, Available
    <3> QED BY <3>1, <3>2
  <2>3. CASE Tombstone(c)
    BY <2>3 DEF Tombstone, SourcesInv, SourcesTypeOK
  <2> QED BY <1>2, <2>1, <2>2, <2>3
<1> QED BY <1>1, <1>2 DEF SourcesNext, CheckSource, StartBlob, EndBlob, CheckSpan,
        CheckTombstone, sourceVars

LEMMA SourcesInvariant == SourcesSpec => []SourcesInv
BY SourcesStart, SourcesStep, PTL DEF SourcesSpec

\* The source registry is preserved: without races every registered source has
\* its whole blob, and a tombstone is final, for any number of clients.
THEOREM SourcesPreserved == SourcesSpec => SourcesArePreserved
<1>1. SourcesSpec => []SourcesInv
  BY SourcesInvariant
<1>2. SourcesInv => RegisteredIsIntact
  BY DEF SourcesInv, Orderly, RegisteredIsIntact
<1>3. SourcesInv /\ [SourcesNext]_<<sourceVars, req, raced>> =>
        [ \A s \in Sources : sources[s] = "tombstoned" =>
            /\ sources'[s] = "tombstoned"
            /\ raced' \/ \A span \in Spans : <<s, span>> \in spans' => <<s, span>> \in spans
        ]_<<sourceVars, req, raced>>
  BY TombstonesStay
<1> QED BY <1>1, <1>2, <1>3, PTL DEF SourcesSpec, SourcesArePreserved, TombstoneIsFinal
=============================================================================
