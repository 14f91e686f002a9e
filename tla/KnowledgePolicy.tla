---------------------------- MODULE KnowledgePolicy ----------------------------
(***************************************************************************)
(* The evaluation of a request against a knowledge policy                  *)
(* (src/erasmus/knowledge_runtime.py), and the rows it leaves.              *)
(*                                                                         *)
(* A policy never changes once it is in the database.  Which requests the  *)
(* selectors of a rule match is data: a rule names the kinds it applies to. *)
(***************************************************************************)
EXTENDS StoreClients, Sequences, FiniteSetsExt

CONSTANTS
  PolicySets,     \* the policies that may be active, sets of rules
  Requests,       \* the requests that are evaluated, none of them a dry run
  MaxEvaluations  \* bound on the rows of knowledge_policy_evaluations

VARIABLES
  policy,      \* the active policy
  policyEvaluations  \* knowledge_policy_evaluations: [request, decision, seq]

policyVars == <<policy, policyEvaluations>>

Modes == {"deny", "observation_only", "propose_only", "permit"}
RuleType ==
  [id : STRING, applies : SUBSET STRING, priority : Int, mode : Modes,
   authorities : SUBSET STRING, reviews : SUBSET STRING, human : BOOLEAN]
RequestType ==
  [id : STRING, kind : STRING, authority : SUBSET STRING, reviews : SUBSET STRING]
Decisions == {"permit", "deny", "observation_only", "requires_review", "insufficient_policy"}

\* No two deny rules of a policy differ only in what they ask for.
ASSUME PolicyAssumption ==
  /\ \A rules \in PolicySets : \A r \in rules :
       /\ r \in RuleType
       /\ \A q \in rules : q.mode = "deny" /\ r.mode = "deny"
            /\ q.id = r.id /\ q.priority = r.priority => q = r
  /\ Requests \subseteq RequestType /\ MaxEvaluations \in Nat

PolicyInit ==
  /\ policy \in PolicySets
  /\ policyEvaluations = <<>>

\* _match_rules, and what _evaluate_rules takes of the rules that match: those
\* of the highest priority and, once for each id, those that deny.
Matching(rules, request) == {r \in rules : request.kind \in r.applies}
Top(rules) == {r \in rules : \A q \in rules : q.priority =< r.priority}
Denying(rules) == {r \in rules : r.mode = "deny"}
Ids(rules) == {r.id : r \in rules}

Denials_outranked(rules) == {}
Denials(rules) ==
  {r \in Denying(rules) :
     /\ r.id \notin Ids(Top(rules))
     /\ \A q \in Denying(rules) : q.id = r.id => q.priority =< r.priority}

Candidates(rules) == Top(rules) \cup Denials(rules)

Prepared(candidates, request) ==
  \A r \in candidates :
    r.authorities \subseteq request.authority /\ r.reviews \subseteq request.reviews /\ ~r.human

\* The order of the answers: a conflict, what is missing, and then what the rules say.
Decide(candidates, request) ==
  LET some(mode) == \E r \in candidates : r.mode = mode IN
    IF candidates = {} THEN "insufficient_policy"
    ELSE IF some("permit") /\ some("observation_only") /\ ~some("deny") THEN "requires_review"
    ELSE IF ~Prepared(candidates, request) THEN "requires_review"
    ELSE IF some("deny") THEN "deny"
    ELSE IF some("permit") THEN "permit"
    ELSE IF some("observation_only") THEN "observation_only" ELSE "requires_review"

Decision(request) == Decide(Candidates(Matching(policy, request)), request)

\* evaluate_policy_request, up to the number that _persist_evaluation reads.
LastSeq == Max({0} \cup {policyEvaluations[n].seq : n \in DOMAIN policyEvaluations})

CheckRequest(c) ==
  /\ \E request \in Requests :
       Begin(c, [op |-> "policy", row |-> [request |-> request, decision |-> Decision(request),
                                           seq |-> LastSeq + 1]])
  /\ UNCHANGED policyVars

\* Its INSERT: request and number are UNIQUE together.
Recordable(row) ==
  \A n \in DOMAIN policyEvaluations :
    ~(policyEvaluations[n].request = row.request /\ policyEvaluations[n].seq = row.seq)

RecordEvaluation(c) ==
  /\ Processing(c, "policy") /\ Len(policyEvaluations) < MaxEvaluations
  /\ Recordable(req[c].row)
  /\ policyEvaluations' = Append(policyEvaluations, req[c].row)
  /\ Commit(c, LastSeq + 1 # req[c].row.seq)
  /\ UNCHANGED policy

PolicyNext ==
  \E c \in Clients :
    \/ CheckRequest(c) \/ RecordEvaluation(c)
    \/ Drop(c) /\ UNCHANGED policyVars

PolicyTypeOK ==
  /\ policy \in PolicySets
  /\ policyEvaluations \in Seq([request : Requests, decision : Decisions, seq : Nat \ {0}])
  /\ Len(policyEvaluations) =< MaxEvaluations

\* What a rule grants by itself.
Grants(r, request, mode) ==
  /\ r.mode = mode
  /\ r.authorities \subseteq request.authority /\ r.reviews \subseteq request.reviews
  /\ ~r.human

\* A request is only permitted, or let through to observe, if a rule of the
\* highest priority grants just that, no other such rule asks for more or says
\* otherwise, and no matching rule of any priority denies it, unless it has the
\* id of a rule of the highest priority; and a refusal names a rule that denies.
PermitsAreGranted ==
  \A n \in DOMAIN policyEvaluations :
    LET request == policyEvaluations[n].request
        rules == Matching(policy, request) IN
    /\ policyEvaluations[n].decision \in {"permit", "observation_only"} =>
         /\ \E r \in Top(rules) : Grants(r, request, policyEvaluations[n].decision)
         /\ \A r \in Top(rules) :
              \E mode \in {policyEvaluations[n].decision, "propose_only"} : Grants(r, request, mode)
         /\ \A r \in rules : r.mode = "deny" => r.id \in Ids(Top(rules))
    /\ policyEvaluations[n].decision = "deny" => Denying(rules) # {}

\* Whatever the clients do at once, no request has two evaluations with the same
\* number; and as long as no two of them raced, the numbers order all of them.
EvaluationsAreNumbered ==
  \A m, n \in DOMAIN policyEvaluations : m < n =>
    /\ policyEvaluations[m].seq = policyEvaluations[n].seq =>
         policyEvaluations[m].request # policyEvaluations[n].request
    /\ raced \/ policyEvaluations[m].seq < policyEvaluations[n].seq

\* The policy: permits are granted by its rules, and its record is in order.
PolicyIsKept == PermitsAreGranted /\ EvaluationsAreNumbered
=============================================================================
