---------------------------- MODULE SkillPromotion ----------------------------
(***************************************************************************)
(* The promotion of one experience candidate to a behavioral skill         *)
(* (src/erasmus/skills.py), behind the gate of sleep consolidation.        *)
(*                                                                         *)
(* _transition checks the state again before it writes, but its SELECT     *)
(* opens no transaction: only in draft, which has inserted the artifact    *)
(* before, and in the second transition of evaluate is the check inside    *)
(* one.  Where it is outside it is an action of its own.                   *)
(***************************************************************************)
EXTENDS StoreClients, Sequences

CONSTANTS
  Interactions,  \* source interactions that may be observed, each with its evidence
  MaxArtifacts   \* bound on the rows of skill_artifacts

VARIABLES
  gate,          \* sleep has approved the candidate as a skill
  skill,         \* the candidate's state
  observations,  \* skill_observations: [source, outcome, contamination]
  artifacts,     \* skill_artifacts: the evidence of each
  evaluations,   \* skill_evaluations: <<artifact, passed>>
  lastMove,      \* the last row of skill_transitions: [to, artifact]
  exports        \* the artifacts in some manifest of adapter_readiness_exports

skillVars == <<gate, skill, observations, artifacts, evaluations, lastMove, exports>>

SkillStates == {"candidate", "repeated_evidence", "drafted_skill", "held_out_evaluation",
                "approved", "rejected", "retired"}
Observation == [source : Interactions, outcome : {"success", "failure"},
                contamination : {"clean", "quarantined"}]

ASSUME SkillAssumption == MaxArtifacts \in Nat

SkillInit ==
  /\ gate = FALSE
  /\ skill = "candidate"
  /\ observations = {}
  /\ artifacts = <<>>
  /\ evaluations = {}
  /\ lastMove = [to |-> "candidate", artifact |-> 0]
  /\ exports = {}

\* decide_candidate of sleep: one decision, which never changes.
SleepPromotes(c) ==
  /\ ~gate /\ gate' = TRUE
  /\ Atomically(c)
  /\ UNCHANGED <<skill, observations, artifacts, evaluations, lastMove, exports>>

Clean == \A o \in observations : o.contamination = "clean"
Outcomes(outcome) == {o \in observations : o.outcome = outcome}
Artifact == Len(artifacts)  \* the latest one, 0 if none
Passed(artifact) == <<artifact, TRUE>> \in evaluations

\* observe, and the UNIQUE source of the row it inserts.
CheckObserve(c) ==
  /\ gate /\ skill = "candidate"
  /\ \E o \in Observation : Begin(c, [op |-> "observe", row |-> o])
  /\ UNCHANGED skillVars

Observe(c) ==
  /\ Processing(c, "observe")
  /\ \A o \in observations : o.source # req[c].row.source
  /\ observations' = observations \cup {req[c].row}
  /\ Commit(c, skill # "candidate")
  /\ UNCHANGED <<gate, skill, artifacts, evaluations, lastMove, exports>>

\* What promote allows from each state.
Promotions_reviving ==
  [candidate |-> {"repeated_evidence"}, held_out_evaluation |-> {"approved", "rejected"},
   approved |-> {"retired"}, retired |-> {"approved"}]
Promotions ==
  [candidate |-> {"repeated_evidence"}, held_out_evaluation |-> {"approved", "rejected"},
   approved |-> {"retired"}]

RepeatedEvidence ==
  /\ Clean
  /\ Cardinality(Outcomes("success")) >= 2
  /\ Cardinality(Outcomes("success")) > Cardinality(Outcomes("failure"))

Promotable(target) ==
  /\ gate
  /\ skill # "candidate" => Artifact # 0
  /\ target = "repeated_evidence" => RepeatedEvidence
  /\ target = "approved" => Passed(Artifact) /\ Clean

CheckPromote(c) ==
  /\ skill \in DOMAIN Promotions
  /\ \E target \in Promotions[skill] :
       /\ Promotable(target)
       /\ Begin(c, [op |-> "promote", from |-> skill, to |-> target, artifact |-> Artifact,
                    sure |-> FALSE, seen |-> observations])
  /\ UNCHANGED skillVars

\* evaluate: whether the held-out fixtures pass is an input.
CheckEvaluate(c) ==
  /\ skill = "drafted_skill" /\ Artifact # 0
  /\ \E passed \in BOOLEAN :
       Begin(c, [op |-> "evaluate", from |-> skill, artifact |-> Artifact,
                 passed |-> passed, sure |-> FALSE])
  /\ UNCHANGED skillVars

\* The first statement of _transition; if the state has moved it raises.
SameState(from) == skill = from

Recheck(c) ==
  /\ req[c].op \in {"promote", "evaluate"} /\ ~req[c].sure
  /\ SameState(req[c].from)
  /\ req' = [req EXCEPT ![c].sure = TRUE]
  /\ UNCHANGED <<skillVars, raced>>

Move(to, artifact) ==
  /\ skill' = to
  /\ lastMove' = [to |-> to, artifact |-> artifact]

Promote(c) ==
  /\ Processing(c, "promote") /\ req[c].sure
  /\ Move(req[c].to, req[c].artifact)
  /\ Commit(c, skill # req[c].from \/ observations # req[c].seen)
  /\ UNCHANGED <<gate, observations, artifacts, evaluations, exports>>

\* One skill_evaluations row for an artifact.
Evaluable(artifact) == \A passed \in BOOLEAN : <<artifact, passed>> \notin evaluations

Evaluate(c) ==
  /\ Processing(c, "evaluate") /\ req[c].sure
  /\ LET r == req[c] IN
       /\ Evaluable(r.artifact)
       /\ Move(IF r.passed THEN "held_out_evaluation" ELSE "rejected", r.artifact)
       /\ evaluations' = evaluations \cup {<<r.artifact, r.passed>>}
       /\ Commit(c, skill # r.from)
  /\ UNCHANGED <<gate, observations, artifacts, exports>>

\* draft: at least two pieces of evidence, each of a clean success.
CleanSuccesses == {o.source : o \in {p \in Outcomes("success") : p.contamination = "clean"}}

CheckDraft(c) ==
  /\ gate /\ skill = "repeated_evidence"
  /\ \E cited \in SUBSET CleanSuccesses :
       /\ Cardinality(cited) >= 2
       /\ Begin(c, [op |-> "draft", evidence |-> cited])
  /\ UNCHANGED skillVars

Draft(c) ==
  /\ Processing(c, "draft") /\ Len(artifacts) < MaxArtifacts
  /\ SameState("repeated_evidence")
  /\ artifacts' = Append(artifacts, req[c].evidence)
  /\ Move("drafted_skill", Len(artifacts) + 1)
  /\ Commit(c, FALSE)
  /\ UNCHANGED <<gate, observations, evaluations, exports>>

\* active_skills: what enters the runtime context.
Active ==
  /\ gate /\ skill = "approved"
  /\ Artifact # 0 /\ lastMove = [to |-> "approved", artifact |-> Artifact]

\* export_readiness: what it reads for the manifest, and the manifest's row.
CheckExport(c) ==
  /\ Active /\ Clean
  /\ Begin(c, [op |-> "export", artifact |-> Artifact])
  /\ UNCHANGED skillVars

Export(c) ==
  /\ Processing(c, "export")
  /\ exports' = exports \cup {req[c].artifact}
  /\ Commit(c, FALSE)
  /\ UNCHANGED <<gate, skill, observations, artifacts, evaluations, lastMove>>

SkillNext ==
  \E c \in Clients :
    \/ SleepPromotes(c)
    \/ CheckObserve(c) \/ Observe(c)
    \/ CheckPromote(c) \/ CheckEvaluate(c) \/ CheckDraft(c)
    \/ Recheck(c)
    \/ Promote(c) \/ Evaluate(c) \/ Draft(c)
    \/ CheckExport(c) \/ Export(c)
    \/ Drop(c) /\ UNCHANGED skillVars

SkillTypeOK ==
  /\ gate \in BOOLEAN /\ skill \in SkillStates
  /\ observations \subseteq Observation
  /\ artifacts \in Seq(SUBSET Interactions) /\ Artifact =< MaxArtifacts
  /\ evaluations \subseteq (1..MaxArtifacts) \X BOOLEAN
  /\ lastMove \in [to : SkillStates, artifact : 0..MaxArtifacts]
  /\ exports \subseteq 1..MaxArtifacts

\* Whatever promoters and observers do at once, a skill that enters the runtime
\* context or the export has an artifact that passed its held-out evaluation and
\* cites two clean successful interactions; and as long as no two of them raced,
\* no candidate has left its first state without repeated clean evidence.
SkillsAreProven ==
  /\ \A artifact \in exports \cup {a \in {Artifact} : Active} :
       /\ Passed(artifact)
       /\ Cardinality(artifacts[artifact] \cap CleanSuccesses) >= 2
  /\ skill # "candidate" => raced \/ RepeatedEvidence

\* As long as no two operations raced, a candidate only moves forward through
\* drafting and evaluation, and what is rejected or retired stays so.
PromotionIsOneWay ==
  [][ raced' \/ skill' = skill \/ <<skill, skill'>> \in
        { <<"candidate", "repeated_evidence">>, <<"repeated_evidence", "drafted_skill">>,
          <<"drafted_skill", "held_out_evaluation">>, <<"drafted_skill", "rejected">>,
          <<"held_out_evaluation", "approved">>, <<"held_out_evaluation", "rejected">>,
          <<"approved", "retired">> } ]_<<skillVars, req, raced>>

\* The gate of skills: what is active or exported is proven, and without races
\* no candidate skips a stage or comes back.
PromotionIsEarned == []SkillsAreProven /\ PromotionIsOneWay
=============================================================================
