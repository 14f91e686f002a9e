---------------------------- MODULE DivergenceEngine ----------------------------
(***************************************************************************)
(* The divergence engine (src/erasmus/divergence.py), with the capability   *)
(* that its classical detector runs as and the immune cascade that it wakes. *)
(*                                                                         *)
(* evaluate commits the window, its recommendations and the incident in     *)
(* three transactions, after the invocation of the capability has committed *)
(* its own: a process may die between any two.  Its rows are append-only.   *)
(*                                                                         *)
(* A weight starts at one and is halved by each downweight, to a tenth at   *)
(* the least: a calibration counts its halvings, and a pattern of events    *)
(* the halvings that its score survives.                                    *)
(***************************************************************************)
EXTENDS CapabilityLifecycle, ImmuneCascade

CONSTANTS
  Knn,             \* the implementation that the classical detector configures
  Patterns,        \* what may be evaluated
  MaxCalibrations, \* bound on the rows of divergence_calibrations
  MaxWindows       \* bound on the rows of divergence_windows

VARIABLES
  calibrations,  \* divergence_calibrations
  windows,       \* divergence_windows, each with its divergence_recommendations
  alarms         \* the windows that an incident refers to

divergenceVars == <<calibrations, windows, alarms>>
detectionVars == <<divergenceVars, capabilityVars, immuneVars>>

\* suspicious: a deterministic rule has a reason; risky: the consequence or a
\* feature is; level: the calibrated score reaches its threshold as long as the
\* weight was halved less often; event: what _wake_immune makes of it.
PatternType ==
  [suspicious : BOOLEAN, risky : BOOLEAN, level : 0..5, label : {"normal", "divergent"},
   event : EventType]

MaxHalvings == 4  \* 1, 0.5, 0.25, 0.125 and 0.1

ASSUME DivergenceAssumption ==
  /\ Knn \in Implementations /\ Patterns \subseteq PatternType
  /\ {MaxCalibrations, MaxWindows} \subseteq Nat

\* The capability has been configured and activated.
DetectionInit ==
  /\ CapabilityInit /\ lifecycle = "active"
  /\ ImmuneInit
  /\ calibrations = <<>>
  /\ windows = <<>>
  /\ alarms = {}

Classical(k) == k # 0 /\ calibrations[k].kind = "classical"
Recommendation(k, outcome) == [calibration |-> k, outcome |-> outcome]
Alarming(recommendations) == \E r \in recommendations : r.outcome # "pass"

\* _deterministic and _calibrated: calibration 0 stands for the rules.
Rules(p) ==
  Recommendation(0,
    IF ~p.suspicious THEN "pass" ELSE IF Consequential(p.event) THEN "escalate" ELSE "wake")

Calibrated(p, k) ==
  Recommendation(k,
    IF calibrations[k].halvings >= p.level THEN "pass"
    ELSE IF Consequential(p.event) THEN "escalate" ELSE IF p.risky THEN "wake" ELSE "pass")

Detections(p, k) == {Rules(p)} \cup (IF k = 0 THEN {} ELSE {Calibrated(p, k)})

Calibrate(c) ==
  /\ Len(calibrations) < MaxCalibrations
  /\ \E kind \in {"statistical", "classical"} :
       calibrations' = Append(calibrations,
                              [kind |-> kind, halvings |-> 0, source |-> 0, window |-> 0])
  /\ Atomically(c)
  /\ UNCHANGED <<windows, alarms, capabilityVars, immuneVars>>

\* downweight: all that it checks is append-only, and the recommendation that it
\* rests on is UNIQUE among the calibrations.
FalsePositive(w, k) ==
  /\ windows[w].label = "normal"
  /\ \E r \in windows[w].recommendations : r.calibration = k /\ r.outcome # "pass"

Unused(w, k) ==
  \A n \in DOMAIN calibrations : ~(calibrations[n].window = w /\ calibrations[n].source = k)

Downweight(c) ==
  /\ Len(calibrations) < MaxCalibrations
  /\ \E w \in DOMAIN windows, k \in DOMAIN calibrations :
       /\ FalsePositive(w, k) /\ Unused(w, k)
       /\ LET old == calibrations[k].halvings IN
            calibrations' = Append(calibrations,
              [kind |-> calibrations[k].kind, source |-> k, window |-> w,
               halvings |-> IF old < MaxHalvings THEN old + 1 ELSE old])
  /\ Atomically(c)
  /\ UNCHANGED <<windows, alarms, capabilityVars, immuneVars>>

\* evaluate of a pattern with a calibration or without, and the request that its
\* process goes on with; evaluate_fixtures does not integrate the cascade.
Evaluating(c, step) == Processing(c, "evaluate") /\ req[c].step = step
NextStep(c, step) == req' = [req EXCEPT ![c].step = step] /\ UNCHANGED raced

CheckEvaluation(c) ==
  /\ \E p \in Patterns, k \in 0..Len(calibrations), integrate \in BOOLEAN :
       /\ Classical(k) => lifecycle = "active"
       /\ Begin(c, [op |-> "evaluate", pattern |-> p, k |-> k, integrate |-> integrate,
                    step |-> IF Classical(k) THEN "invoke" ELSE "window",
                    window |-> 0, implementation |-> Knn])
  /\ UNCHANGED detectionVars

\* configure finds the row, and invoke checks the lifecycle again.
StartKnn(c) ==
  /\ Evaluating(c, "invoke")
  /\ Compatible(Knn) /\ lifecycle = "active"
  /\ NextStep(c, "record")
  /\ UNCHANGED detectionVars

\* An invocation that is not ok fails the evaluation.
Continues_regardless(ok) == TRUE
Continues(ok) == ok

EndKnn(c) ==
  /\ Evaluating(c, "record")
  /\ \E ok \in BOOLEAN :
       /\ RecordInvocation(c, ok)
       /\ req' = [req EXCEPT ![c] = IF Continues(ok) THEN [@ EXCEPT !.step = "window"] ELSE Idle]
  /\ raced' = (raced \/ lifecycle # "active")
  /\ UNCHANGED <<divergenceVars, immuneVars>>

InsertWindow(c) ==
  /\ Evaluating(c, "window") /\ Len(windows) < MaxWindows
  /\ windows' = Append(windows, [label |-> req[c].pattern.label, recommendations |-> {}])
  /\ req' = [req EXCEPT ![c].step = "recommend", ![c].window = Len(windows) + 1]
  /\ UNCHANGED <<raced, calibrations, alarms, capabilityVars, immuneVars>>

Recommend(c) ==
  /\ Evaluating(c, "recommend")
  /\ LET detections == Detections(req[c].pattern, req[c].k) IN
       /\ windows' = [windows EXCEPT ![req[c].window].recommendations = detections]
       /\ IF req[c].integrate /\ Alarming(detections)
          THEN NextStep(c, "wake") ELSE Commit(c, FALSE)
  /\ UNCHANGED <<calibrations, alarms, capabilityVars, immuneVars>>

\* _wake_immune: a new cascade, which ensures its agents, and process.
WakeImmune(c) ==
  /\ Evaluating(c, "wake") /\ Len(incidents) < MaxIncidents
  /\ agents' = [a \in Investigators |-> IF agents[a] = "absent" THEN "sleeping" ELSE agents[a]]
  /\ incidents' = Append(incidents, Incident(req[c].pattern.event))
  /\ alarms' = alarms \cup {req[c].window}
  /\ Commit(c, FALSE)
  /\ UNCHANGED <<calibrations, windows, capabilityVars, reports>>

DetectionNext ==
  \E c \in Clients :
    \/ Calibrate(c) \/ Downweight(c)
    \/ CheckEvaluation(c) \/ StartKnn(c) \/ EndKnn(c)
    \/ InsertWindow(c) \/ Recommend(c) \/ WakeImmune(c)
    \/ (CheckLifecycle(c) \/ SetCapability(c)) /\ UNCHANGED <<divergenceVars, immuneVars>>
    \/ Drop(c) /\ UNCHANGED detectionVars

DetectionTypeOK ==
  /\ calibrations \in Seq([kind : {"statistical", "classical"}, halvings : 0..MaxHalvings,
                           source : 0..MaxCalibrations, window : 0..MaxWindows])
  /\ Len(calibrations) =< MaxCalibrations /\ Len(windows) =< MaxWindows
  /\ alarms \subseteq DOMAIN windows

Recommended(w) == {r.calibration : r \in windows[w].recommendations}

\* Wherever a process dies, an incident of the engine has the window that it
\* refers to with the recommendation that woke it, every recommendation of the
\* classical detector has a successful invocation of its own, and a weight was
\* halved at most once for each false positive of the calibration it came from.
DetectionsAreBacked ==
  /\ \A w \in alarms : Alarming(windows[w].recommendations)
  /\ Cardinality({w \in DOMAIN windows : \E k \in Recommended(w) : Classical(k)})
       =< Cardinality({n \in DOMAIN invocations : invocations[n].ok})
  /\ \A k \in DOMAIN calibrations :
       Cardinality({n \in DOMAIN calibrations : calibrations[n].source = k})
         =< Cardinality({w \in DOMAIN windows : FalsePositive(w, k)})
=============================================================================
