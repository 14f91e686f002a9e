----------------------------- MODULE ImmuneCascade -----------------------------
(***************************************************************************)
(* The cognitive immune cascade (src/erasmus/immune.py): deterministic      *)
(* detectors, dormant investigators that wake for some of them, and the     *)
(* regulator that tolerates repeated false positives.                       *)
(*                                                                         *)
(* process is one transaction that begins with an INSERT, so that all it    *)
(* reads is current; an investigator passes through its states and sleeps   *)
(* again within it.  Scores are in hundredths.                              *)
(***************************************************************************)
EXTENDS StoreClients, Integers, Sequences

CONSTANTS
  Events,       \* the events that may be processed
  MaxIncidents  \* bound on the rows of immune_incidents

VARIABLES
  agents,     \* immune_state, the last row of each agent: its status
  incidents,  \* immune_incidents, with the findings and the agents retired by then
  reports     \* immune_false_positives: how many of <<detector, agent>>, up to two,
              \* without those of findings without an agent, which nothing reads

immuneVars == <<agents, incidents, reports>>

Reinforcement == "mutual-reinforcement-investigator"
Equivalence == "false-equivalence-investigator"
Provenance == "provenance-contamination-investigator"
Tier0 == "none"

Investigators == {Reinforcement, Equivalence, Provenance}

\* DEFAULT_AGENTS: the detectors that wake each.
WakeDetectors ==
  [a \in Investigators |->
     CASE a = Reinforcement -> {"confidence_without_evidence", "mutual_reinforcement"}
       [] a = Equivalence -> {"false_equivalence"}
       [] a = Provenance -> {"missing_provenance", "forbidden_transition", "undeclared_authority",
                             "direct_memory_to_belief", "provenance_contamination"}]
Findable == UNION {WakeDetectors[a] \X {a} : a \in Investigators}

\* undeclared counts the authorities requested and not declared; direct is a
\* belief promotion attempted by retrieved or model content.
EventType ==
  [type : {"observation", "leap", "divergence_recommendation"}, provenance : BOOLEAN,
   forbidden : BOOLEAN, rise : -100..100, evidence : Nat, undeclared : Nat, direct : BOOLEAN,
   agreement : Nat, independent : Nat, equivalence : BOOLEAN, pathological : BOOLEAN,
   consequence : 0..100]

ASSUME ImmuneAssumption == Events \subseteq EventType /\ MaxIncidents \in Nat

ImmuneInit ==
  /\ agents = [a \in Investigators |-> "absent"]
  /\ incidents = <<>>
  /\ reports = [p \in Findable |-> 0]

Score(n) == IF n > 100 THEN 100 ELSE n

\* deterministic_screen and the detectors that _detect adds, in their order.
Screened(e) ==
  << [detector |-> "missing_provenance", severity |-> 90, found |-> ~e.provenance],
     [detector |-> "forbidden_transition", severity |-> 100, found |-> e.forbidden],
     [detector |-> "confidence_without_evidence",
      severity |-> Score(e.rise + e.consequence \div 2), found |-> e.rise > 20 /\ e.evidence = 0],
     [detector |-> "undeclared_authority",
      severity |-> Score(50 + 10 * e.undeclared + e.consequence \div 2), found |-> e.undeclared > 0],
     [detector |-> "direct_memory_to_belief", severity |-> 100, found |-> e.direct],
     [detector |-> "mutual_reinforcement", severity |-> Score(50 + 10 * e.agreement),
      found |-> e.agreement >= 3 /\ e.independent = 0],
     [detector |-> "false_equivalence", severity |-> 75, found |-> e.equivalence],
     [detector |-> "provenance_contamination", severity |-> 100, found |-> e.direct] >>

\* A divergence that no detector recognizes is an anomaly too.
Behavioral(e) ==
  [detector |-> "behavioral_divergence", severity |-> Score(50 + e.consequence \div 2),
   found |-> /\ e.type = "divergence_recommendation" /\ e.pathological
             /\ \A i \in DOMAIN Screened(e) : ~Screened(e)[i].found]

\* The anomalies, by their place among all that could be found.
Anomalies(e) == [i \in 1..9 |-> IF i = 9 THEN Behavioral(e) ELSE Screened(e)[i]]
Detected(e) == {i \in DOMAIN Anomalies(e) : Anomalies(e)[i].found}
Detect(e) == {Anomalies(e)[i] : i \in Detected(e)}

\* The investigators that are not retired.
Awake(a) == agents[a] # "retired"

\* The anomalies of an event that an agent could wake for, and the one it is
\* assigned: the first of the most severe.
Wakes(a, e) == {i \in Detected(e) : Anomalies(e)[i].detector \in WakeDetectors[a]}
Severity(e, i) == Anomalies(e)[i].severity
Worst(a, e) ==
  CHOOSE i \in Wakes(a, e) : \A j \in Wakes(a, e) :
    Severity(e, i) > Severity(e, j) \/ (Severity(e, i) = Severity(e, j) /\ i =< j)
Assigned(a, e) == Anomalies(e)[Worst(a, e)]

Suppressed(detector, a, e) ==
  (e.type = "leap" /\ ~e.pathological) \/ reports[<<detector, a>>] >= 2

Consequential(e) == e.consequence >= 80

\* _specialist_mitigation.
Specialist(a, e) ==
  CASE Consequential(e) -> "escalate"
    [] ~Consequential(e) /\ a = Reinforcement -> "request_counterevidence"
    [] ~Consequential(e) /\ a = Equivalence -> "flag"
    [] ~Consequential(e) /\ a = Provenance -> "quarantine"

Finding(detector, a, outcome, severity) ==
  [detector |-> detector, agent |-> a, outcome |-> outcome, severity |-> severity]

Investigate(a, e) ==
  LET anomaly == Assigned(a, e) IN
    Finding(anomaly.detector, a,
            IF Suppressed(anomaly.detector, a, e) THEN "pass" ELSE Specialist(a, e),
            anomaly.severity)

\* What no investigator can wake for is answered without one.
Unassigned_retired(e) ==
  {anomaly \in Detect(e) :
     \A a \in Investigators : anomaly.detector \notin WakeDetectors[a]}
Unassigned(e) ==
  {anomaly \in Detect(e) :
     \A a \in Investigators : Awake(a) => anomaly.detector \notin WakeDetectors[a]}

Findings(e) ==
  IF Detect(e) = {} THEN {Finding("tier0", Tier0, "pass", 0)}
  ELSE {Finding(anomaly.detector, Tier0,
                IF Consequential(e) THEN "escalate" ELSE "flag", anomaly.severity) :
          anomaly \in Unassigned(e)}
       \cup {Investigate(a, e) : a \in {b \in Investigators : Awake(b) /\ Wakes(b, e) # {}}}

Incident(e) ==
  [event |-> e, findings |-> Findings(e),
   retired |-> {a \in Investigators : ~Awake(a)},
   tolerated |-> {p \in DOMAIN reports : reports[p] >= 2}]

Ready == \A a \in Investigators : agents[a] # "absent"

\* _ensure_agent_state: the SELECT of the first agent opens no transaction, its
\* INSERT does, and agent_id is not unique in immune_state: a second row of the
\* same agent takes the place of the first.
CheckAgents(c) ==
  /\ agents[Reinforcement] = "absent"
  /\ Begin(c, [op |-> "agents"])
  /\ UNCHANGED immuneVars

EnsureAgents(c) ==
  /\ Processing(c, "agents")
  /\ agents' = [a \in Investigators |->
       IF a = Reinforcement \/ agents[a] = "absent" THEN "sleeping" ELSE agents[a]]
  /\ Commit(c, agents[Reinforcement] # "absent")
  /\ UNCHANGED <<incidents, reports>>

Process(c) ==
  /\ Ready /\ Len(incidents) < MaxIncidents
  /\ \E e \in Events : incidents' = Append(incidents, Incident(e))
  /\ Atomically(c)
  /\ UNCHANGED <<agents, reports>>

\* record_false_positive: of any finding, and of the same one again.
RecordFalsePositive(c) ==
  /\ \E i \in DOMAIN incidents : \E f \in incidents[i].findings :
       LET p == <<f.detector, f.agent>> IN
         /\ f.agent # Tier0 /\ reports[p] < 2
         /\ reports' = [reports EXCEPT ![p] = @ + 1]
  /\ Atomically(c)
  /\ UNCHANGED <<agents, incidents>>

CheckRetire(c) ==
  /\ \E a \in Investigators :
       Ready /\ Awake(a) /\ Begin(c, [op |-> "retire agent", a |-> a])
  /\ UNCHANGED immuneVars

RetireAgent(c) ==
  /\ Processing(c, "retire agent")
  /\ agents' = [agents EXCEPT ![req[c].a] = "retired"]
  /\ Commit(c, ~Awake(req[c].a))
  /\ UNCHANGED <<incidents, reports>>

ImmuneStep(c) ==
  \/ CheckAgents(c) \/ EnsureAgents(c)
  \/ Process(c) \/ RecordFalsePositive(c)
  \/ CheckRetire(c) \/ RetireAgent(c)

ImmuneNext == \E c \in Clients : ImmuneStep(c) \/ (Drop(c) /\ UNCHANGED immuneVars)

ImmuneTypeOK ==
  /\ agents \in [Investigators -> {"absent", "sleeping", "retired"}]
  /\ Len(incidents) =< MaxIncidents
  /\ \A i \in DOMAIN incidents : incidents[i].event \in EventType
  /\ reports \in [Findable -> 0..2]

\* Every anomaly of an incident has an answer: the finding of its own detector,
\* or one of an investigator that wakes for it and has looked at something at
\* least as severe.  Only a leap that is not pathological and what the regulator
\* tolerates pass, and what is consequential is escalated otherwise.
AnomaliesAnswered ==
  \A i \in DOMAIN incidents :
    LET e == incidents[i].event
        detected == Detect(e) IN
      /\ \A anomaly \in detected : \E f \in incidents[i].findings :
           /\ f.severity >= anomaly.severity
           /\ \/ f.detector = anomaly.detector
              \/ f.agent # Tier0 /\ anomaly.detector \in WakeDetectors[f.agent]
      /\ \A f \in incidents[i].findings : detected # {} =>
           IF f.outcome = "pass"
           THEN /\ f.agent # Tier0
                /\ \/ <<f.detector, f.agent>> \in incidents[i].tolerated
                   \/ e.type = "leap" /\ ~e.pathological
           ELSE Consequential(e) => f.outcome = "escalate"

\* As long as no two operations raced, an investigator that was retired before
\* an incident finds nothing in it or in a later one.
RetiredAgentsRest ==
  raced \/ \A i, j \in DOMAIN incidents :
    i =< j => \A f \in incidents[j].findings : f.agent \notin incidents[i].retired

\* The cascade: every anomaly is answered, and not by a retired investigator.
CascadeAnswers == AnomaliesAnswered /\ RetiredAgentsRest
=============================================================================
