------------------------------ MODULE MCServices ------------------------------
(* One instance of every service of the store, each checked by itself: the  *)
(* services share no table, but for the capability and the immune cascade,  *)
(* which the divergence engine composes and which are checked again there.  *)
(* part chooses the service whose processes run; the others rest.          *)
EXTENDS EpistemicLedger, SkillPromotion, ToolRegistry, KnowledgeSources, SchemaMigrations,
        DivergenceEngine, KnowledgePolicy, BundlePublication, LocalSession, TLC

CONSTANTS c1, c2, x1, x2, x3, d1, d2, i1, i2

VARIABLE part

Parts == {"ledger", "skills", "tools", "sources", "schema", "capability", "immune",
          "detection", "policy", "publication", "session"}

\* The ledger: one piece of each kind that a transition tells apart, and more
\* support to come.
Evidence(type, agreed) == [type |-> type, agreed |-> agreed, scope |-> "global"]
MCEvidenceRows == {Evidence("evidence", FALSE)}
MCRecorded ==
  << Evidence("evidence", FALSE), Evidence("tangible_wrongness", FALSE),
     Evidence("falsification_test", FALSE), Evidence("evidence", TRUE) >>

\* Two tools of one capability, with one digest or with two.
MCManifests ==
  {[digest |-> d1, capabilities |-> {"k"}], [digest |-> d2, capabilities |-> {"k", "l"}]}

\* Events with anomalies that wake all investigators, some of them at once, and
\* that are escalated, suppressed as a leap or tolerated; and a divergence.
Calm ==
  [type |-> "observation", provenance |-> TRUE, forbidden |-> FALSE, rise |-> 0,
   evidence |-> 0, undeclared |-> 0, direct |-> FALSE, agreement |-> 0, independent |-> 0,
   equivalence |-> FALSE, pathological |-> FALSE, consequence |-> 0]
MCEvents ==
  { [Calm EXCEPT !.rise = 40, !.agreement = 3, !.provenance = FALSE, !.undeclared = 1,
                 !.consequence = 90],
    [Calm EXCEPT !.type = "leap", !.equivalence = TRUE, !.direct = TRUE] }
Divergence ==
  [Calm EXCEPT !.type = "divergence_recommendation", !.pathological = TRUE, !.consequence = 50]
MCPatterns ==
  {[suspicious |-> FALSE, risky |-> TRUE, level |-> 2, label |-> "normal", event |-> Divergence]}

\* Policies of two rules, among them a deny that is outranked and one that has
\* the id of the rule above it.
Rule ==
  [id |-> "a", applies |-> {"x"}, priority |-> 1, mode |-> "permit",
   authorities |-> {}, reviews |-> {}, human |-> FALSE]
FirstRules ==
  {[Rule EXCEPT !.priority = p, !.mode = m, !.authorities = needed] :
     p \in 1..2, m \in Modes, needed \in {{}, {"steward"}}}
SecondRules ==
  {[Rule EXCEPT !.id = "b", !.applies = {"x", "y"}, !.mode = m, !.reviews = needed, !.human = h] :
     m \in Modes, needed \in {{}, {"review"}}, h \in BOOLEAN}
SameRules == {[Rule EXCEPT !.mode = m] : m \in {"deny", "permit"}}
MCPolicySets ==
  {rules \in {{r, q} : r \in FirstRules, q \in SecondRules \cup SameRules} :
     Cardinality(Denying(rules)) < 2 \/ Cardinality(Ids(rules)) = 2}
MCRequests ==
  { [id |-> "q1", kind |-> "x", authority |-> {"steward"}, reviews |-> {}],
    [id |-> "q2", kind |-> "y", authority |-> {}, reviews |-> {"review"}] }

MCSymmetry == Permutations({c1, c2}) \cup Permutations({x1, x2})

Init ==
  /\ StoreInit
  /\ part \in Parts
  /\ LedgerInit /\ SkillInit /\ ToolInit /\ SourcesInit /\ SessionInit
  /\ SchemaInit /\ (part # "schema" => versions = {})
  /\ IF part = "detection" THEN DetectionInit /\ binding = Knn
     ELSE /\ CapabilityInit /\ (part # "capability" => lifecycle = "unconfigured")
          /\ ImmuneInit /\ calibrations = <<>> /\ windows = <<>> /\ alarms = {}
  /\ BundleInit /\ (part # "publication" => output = Nothing)
  /\ policy \in IF part = "policy" THEN PolicySets ELSE {{Rule}}
  /\ policyEvaluations = <<>>

Registers == <<ledgerVars, skillVars, toolVars, sourceVars>>
Others == <<policyVars, bundleVars, sessionVars>>

Next ==
  /\ UNCHANGED part
  /\ \/ /\ part = "ledger" /\ LedgerNext
        /\ UNCHANGED <<skillVars, toolVars, sourceVars, schemaVars, detectionVars, Others>>
     \/ /\ part = "skills" /\ SkillNext
        /\ UNCHANGED <<ledgerVars, toolVars, sourceVars, schemaVars, detectionVars, Others>>
     \/ /\ part = "tools" /\ ToolNext
        /\ UNCHANGED <<ledgerVars, skillVars, sourceVars, schemaVars, detectionVars, Others>>
     \/ /\ part = "sources" /\ SourcesNext
        /\ UNCHANGED <<ledgerVars, skillVars, toolVars, schemaVars, detectionVars, Others>>
     \/ /\ part = "schema" /\ SchemaNext
        /\ UNCHANGED <<Registers, detectionVars, Others>>
     \/ /\ part = "capability" /\ CapabilityNext
        /\ UNCHANGED <<Registers, schemaVars, divergenceVars, immuneVars, Others>>
     \/ /\ part = "immune" /\ ImmuneNext
        /\ UNCHANGED <<Registers, schemaVars, divergenceVars, capabilityVars, Others>>
     \/ /\ part = "detection" /\ DetectionNext
        /\ UNCHANGED <<Registers, schemaVars, Others>>
     \/ /\ part = "policy" /\ PolicyNext
        /\ UNCHANGED <<Registers, schemaVars, detectionVars, bundleVars, sessionVars>>
     \/ /\ part = "publication" /\ BundleNext
        /\ UNCHANGED <<Registers, schemaVars, detectionVars, policyVars, sessionVars>>
     \/ /\ part = "session" /\ SessionNext
        /\ UNCHANGED <<Registers, schemaVars, detectionVars, policyVars, bundleVars>>

vars == <<part, req, raced, Registers, schemaVars, detectionVars, Others>>
Spec == Init /\ [][Next]_vars

\* Every table, file and request holds what the code can put there.
ServicesTypeOK ==
  /\ raced \in BOOLEAN /\ DOMAIN req = Clients
  /\ CASE part = "ledger" -> LedgerTypeOK
       [] part = "skills" -> SkillTypeOK
       [] part = "tools" -> ToolTypeOK
       [] part = "sources" -> SourcesTypeOK
       [] part = "schema" -> SchemaTypeOK
       [] part = "capability" -> CapabilityTypeOK
       [] part = "immune" -> ImmuneTypeOK
       [] part = "detection" -> CapabilityTypeOK /\ ImmuneTypeOK /\ DetectionTypeOK
       [] part = "policy" -> PolicyTypeOK
       [] part = "publication" -> BundleTypeOK
       [] part = "session" -> SessionTypeOK
=============================================================================
