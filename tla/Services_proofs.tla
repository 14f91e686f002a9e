---------------------------- MODULE Services_proofs ----------------------------
(***************************************************************************)
(* Proofs about the services as MCServices runs them: what each one keeps  *)
(* is well typed, the divergence engine keeps what the capability and the  *)
(* immune cascade that it composes promise by themselves, and a service    *)
(* that rests changes nothing, so that all promises hold of the whole.     *)
(***************************************************************************)
EXTENDS MCServices, RegisterServices_proofs, RuntimeServices_proofs

-----------------------------------------------------------------------------
(* The types of the schema.                                                *)

\* A migration, a rollback and a renumbering only touch versions and tables
\* that there are.
LEMMA SchemaTypes ==
  ASSUME SchemaInv, SchemaTypeOK, [SchemaNext]_<<schemaVars, req, raced>>
  PROVE  SchemaTypeOK'
<1>1. versions' \subseteq MIGRATIONS
  BY SchemaStep DEF SchemaInv
<1>2. ASSUME NEW c \in Clients, Migrate(c)
      PROVE  schema' \subseteq MIGRATIONS \ {Guarded} /\ objects' \subseteq Objects
             /\ rollbacks' \in 0..MaxRollbacks /\ abandoned' \in BOOLEAN
  <2>1. PICK todo : todo = req[c].todo
    OBVIOUS
  <2>2. todo \subseteq MIGRATIONS /\ todo # {}
    BY <1>2, <2>1 DEF SchemaInv, Migrate, Applying, ApplyRequests
  <2>3. \E u \in todo : \A w \in todo : u =< w
    BY <2>2, LeastNumber DEF MIGRATIONS
  <2>4. PICK v : v = CHOOSE u \in todo : \A w \in todo : u =< w
    OBVIOUS
  <2>5. v \in MIGRATIONS
    BY <2>2, <2>3, <2>4
  <2>6. /\ schema' = schema \cup ({v} \ {Guarded})
        /\ objects' = IF v = Guarded THEN Objects ELSE objects
        /\ rollbacks' = rollbacks /\ abandoned' = abandoned
    BY <1>2, <2>1, <2>4 DEF Migrate
  <2> QED BY <2>5, <2>6 DEF SchemaTypeOK
<1>3. ASSUME NEW c \in Clients,
             \/ CheckLegacy(c) \/ Renumber(c) \/ ReadVersions(c) \/ Migrated(c) \/ Die(c)
      PROVE  schema' = schema /\ objects' = objects /\ rollbacks' = rollbacks
             /\ abandoned' \in BOOLEAN
  BY <1>3 DEF SchemaTypeOK, CheckLegacy, Renumber, ReadVersions, Migrated, Die, schemaVars
<1>4. ASSUME NEW c \in Clients, StartRollback(c) \/ DropObject(c) \/ EndRollback(c)
      PROVE  schema' = schema /\ objects' \subseteq objects /\ abandoned' \in BOOLEAN
             /\ rollbacks' \in 0..MaxRollbacks
  <2>1. schema' = schema /\ objects' \subseteq objects /\ abandoned' \in BOOLEAN
    BY <1>4 DEF SchemaTypeOK, StartRollback, DropObject, EndRollback
  <2>2. rollbacks' = rollbacks \/ (rollbacks < MaxRollbacks /\ rollbacks' = rollbacks + 1)
    BY <1>4 DEF StartRollback, DropObject, EndRollback
  <2>3. rollbacks \in 0..MaxRollbacks /\ MaxRollbacks \in Nat
    BY MigrationAssumption DEF SchemaTypeOK, MigrationAssumption
  <2> QED BY <2>1, <2>2, <2>3
<1>5. CASE UNCHANGED <<schemaVars, req, raced>>
  BY <1>5 DEF SchemaTypeOK, schemaVars, MIGRATIONS, Objects
<1> QED BY <1>1, <1>2, <1>3, <1>4, <1>5 DEF SchemaNext, SchemaTypeOK

LEMMA SchemaStaysTyped == SchemaSpec => []SchemaTypeOK
<1>1. StoreInit /\ SchemaInit => SchemaInv /\ SchemaTypeOK
  <2> SUFFICES ASSUME StoreInit, SchemaInit PROVE SchemaTypeOK
    BY MigrationAssumption, SchemaStarts
  <2>1. versions \subseteq MIGRATIONS
    BY MigrationAssumption, SchemaStarts DEF SchemaInv
  <2>2. schema \subseteq MIGRATIONS \ {Guarded}
    BY MigrationAssumption, Versions DEF SchemaInit, MIGRATIONS, MigrationAssumption, Policies
  <2>3. objects \subseteq Objects /\ rollbacks = 0 /\ abandoned = FALSE
    BY DEF SchemaInit
  <2>4. rollbacks \in 0..MaxRollbacks
    BY <2>3, MigrationAssumption DEF MigrationAssumption
  <2> QED BY <2>1, <2>2, <2>3, <2>4 DEF SchemaTypeOK
<1>2. SchemaInv /\ SchemaTypeOK /\ [SchemaNext]_<<schemaVars, req, raced>> =>
        (SchemaInv /\ SchemaTypeOK)'
  BY SchemaStep, SchemaTypes
<1> QED BY <1>1, <1>2, PTL DEF SchemaSpec

-----------------------------------------------------------------------------
(* The types of the immune cascade.                                        *)

LEMMA ImmuneStaysTyped == ImmuneSpec => []ImmuneTypeOK
<1>1. ImmuneSpec => []ImmuneInv
  BY ImmuneInvariant
<1>2. ImmuneInit => Len(incidents) =< MaxIncidents
  BY ImmuneAssumption DEF ImmuneInit
<1>3. ImmuneInv /\ Len(incidents) =< MaxIncidents /\ [ImmuneNext]_<<immuneVars, req, raced>> =>
        (Len(incidents) =< MaxIncidents)'
  <2> SUFFICES ASSUME ImmuneInv, Len(incidents) =< MaxIncidents,
                      [ImmuneNext]_<<immuneVars, req, raced>>
               PROVE  Len(incidents') =< MaxIncidents
    OBVIOUS
  <2>1. ASSUME NEW c \in Clients, Process(c) PROVE Len(incidents') =< MaxIncidents
    <3>1. PICK row : incidents' = Append(incidents, row) /\ Len(incidents) < MaxIncidents
      BY <2>1 DEF Process
    <3> QED BY <3>1, IncidentAppended, ImmuneAssumption
  <2>2. ASSUME incidents' # incidents PROVE \E c \in Clients : Process(c)
    BY <2>2 DEF ImmuneNext, ImmuneStep, CheckAgents, EnsureAgents, RecordFalsePositive, CheckRetire,
       RetireAgent, immuneVars
  <2> QED BY <2>1, <2>2
<1>4. ImmuneInv /\ Len(incidents) =< MaxIncidents => ImmuneTypeOK
  BY DEF ImmuneInv, ImmuneTypeOK
<1> QED BY <1>1, <1>2, <1>3, <1>4, PTL DEF ImmuneSpec

-----------------------------------------------------------------------------
(* The engine, with the capability and the cascade that it composes.       *)

\* It configures no handler, retires no investigator, and its classical detector
\* runs as what the row is bound to.
EngineRequests ==
  /\ binding # Unbound /\ "active" \in visited
  /\ \A c \in Clients :
       /\ req[c].op \in {"none", "evaluate", "lifecycle"}
       /\ Evaluating(c, "record") => binding = Knn

EngineInv == DetectionInv /\ CapabilityInv /\ ImmuneInv /\ EngineRequests

\* An evaluation that goes on or ends without touching the other two.
LEMMA EvaluationGoesOn ==
  ASSUME EngineInv, NEW c \in Clients, NEW r, req' = [req EXCEPT ![c] = r],
         r.op \in {"none", "evaluate"},
         r.op = "evaluate" /\ r.step = "record" => binding = Knn,
         UNCHANGED <<capabilityVars, immuneVars, raced>>
  PROVE  CapabilityInv' /\ ImmuneInv' /\ EngineRequests'
<1>1. CapabilityInv'
  BY QuietCapability DEF EngineInv
<1>2. ImmuneInv'
  BY QuietImmune DEF EngineInv
<1>3. EngineRequests'
  BY RequestOfOne DEF EngineInv, CapabilityInv, EngineRequests, Evaluating, Processing, capabilityVars
<1> QED BY <1>1, <1>2, <1>3

LEMMA EngineUnchanged ==
  ASSUME EngineInv, UNCHANGED <<capabilityVars, immuneVars, req, raced>>
  PROVE  CapabilityInv' /\ ImmuneInv' /\ EngineRequests'
<1>1. CapabilityInv'
  BY DEF EngineInv, CapabilityInv, CapabilityTypeOK, Staged, RowInv, BoundInv, Processing,
     capabilityVars
<1>2. ImmuneInv'
  <2>1. /\ UNCHANGED <<agents, incidents, reports, req, raced>> /\ \A a : Awake(a)' = Awake(a)
        /\ RetireRequests'
    BY DEF immuneVars, Awake, EngineInv, ImmuneInv, RetireRequests, Processing
  <2>2. ImmuneInv
    BY DEF EngineInv
  <2>3. /\ agents' \in [Investigators -> {"absent", "sleeping", "retired"}]
        /\ reports' \in [Findable -> 0..2] /\ raced' \in BOOLEAN /\ DOMAIN req' = Clients
    BY <2>1, <2>2 DEF ImmuneInv
  <2> QED BY <2>1, <2>2, <2>3, NoIncident
<1>3. EngineRequests'
  BY DEF EngineInv, EngineRequests, Evaluating, Processing, capabilityVars
<1> QED BY <1>1, <1>2, <1>3

\* The run of the classical detector ends.
LEMMA EngineRecords ==
  ASSUME EngineInv, NEW c \in Clients, EndKnn(c)
  PROVE  /\ CapabilityInv' /\ ImmuneInv' /\ EngineRequests'
         /\ raced' \/ lifecycle # "retired"
<1>1. PICK ok \in BOOLEAN :
        /\ RecordInvocation(c, ok)
        /\ req' = [req EXCEPT ![c] = IF Continues(ok) THEN [@ EXCEPT !.step = "window"] ELSE Idle]
  BY DEF EndKnn
<1>2. PICK r : r = IF Continues(ok) THEN [req[c] EXCEPT !.step = "window"] ELSE Idle
  OBVIOUS
<1>3. req[c] \in EvaluationRequests /\ Evaluating(c, "record")
  BY DEF EndKnn, Evaluating, EngineInv, DetectionInv
<1>4. req[c].implementation = Knn /\ binding = Knn /\ Knn \in Implementations
  BY <1>3, DivergenceAssumption DEF EvaluationRequests, EngineInv, EngineRequests
<1>5. /\ r.op \in {"none", "evaluate"}
      /\ r.op = "evaluate" => r.step = "window"
  BY <1>2, <1>3 DEF EvaluationRequests, Idle
<1>6. req' = [req EXCEPT ![c] = r]
  BY <1>1, <1>2
<1>7. raced' = (raced \/ lifecycle # "active") /\ raced \in BOOLEAN
  BY DEF EndKnn, EngineInv, CapabilityInv
<1>8. CapabilityInv'
  <2>1. CapabilityInv /\ "active" \in visited /\ RecordInvocation(c, ok)
    BY <1>1 DEF EngineInv, EngineRequests
  <2>2. req[c].implementation \in Implementations /\ req[c].implementation = binding
    BY <1>4
  <2>3. r.op \notin {"configure", "lifecycle", "invoke"}
    BY <1>5
  <2>4. raced' \in BOOLEAN /\ (raced => raced')
    BY <1>7
  <2> QED BY ONLY <1>1, <1>6, <2>1, <2>2, <2>3, <2>4, RecordInv
<1>9. /\ DOMAIN req' = Clients /\ req'[c] = r
      /\ \A d \in Clients \ {c} : req'[d] = req[d]
  BY <1>6, RequestOfOne DEF EngineInv, CapabilityInv
<1>10. ImmuneInv'
  <2>1. UNCHANGED <<agents, incidents, reports>> /\ \A a : Awake(a)' = Awake(a)
    BY DEF EndKnn, immuneVars, Awake
  <2>2. RetireRequests'
    BY <1>5, <1>9 DEF EngineInv, ImmuneInv, RetireRequests, Processing
  <2>3. ImmuneInv
    BY DEF EngineInv
  <2> QED BY <1>7, <1>9, <2>1, <2>2, <2>3, NoIncident DEF ImmuneInv
<1>11. EngineRequests'
  BY <1>1, <1>5, <1>9 DEF EngineInv, EngineRequests, Evaluating, Processing, RecordInvocation
<1> QED BY <1>7, <1>8, <1>10, <1>11

\* An alarm wakes the cascade.
LEMMA EngineWakes ==
  ASSUME EngineInv, NEW c \in Clients, WakeImmune(c)
  PROVE  CapabilityInv' /\ ImmuneInv' /\ EngineRequests'
<1>1. req' = [req EXCEPT ![c] = Idle] /\ raced' = raced /\ Idle.op = "none"
  BY DEF WakeImmune, Commit, EngineInv, CapabilityInv, Idle
<1>2. DOMAIN req' = Clients /\ req'[c] = Idle /\ \A d \in Clients \ {c} : req'[d] = req[d]
  BY <1>1, RequestOfOne DEF EngineInv, CapabilityInv
<1>3. CapabilityInv'
  BY <1>1, QuietCapability DEF EngineInv, WakeImmune
<1>4. req[c].pattern.event \in EventType
  <2>1. req[c].pattern \in Patterns
    BY DEF WakeImmune, Evaluating, EngineInv, DetectionInv, EvaluationRequests
  <2> QED BY <2>1, DivergenceAssumption DEF PatternType
<1>5. ImmuneInv'
  <2>1. /\ agents' \in [Investigators -> {"absent", "sleeping", "retired"}]
        /\ \A a \in Investigators : Awake(a)' <=> Awake(a)
    BY DEF WakeImmune, EngineInv, ImmuneInv, Awake
  <2>2. RetireRequests'
    BY <1>1, <1>2 DEF EngineInv, ImmuneInv, RetireRequests, Processing
  <2>3. incidents' = Append(incidents, Incident(req[c].pattern.event)) /\ reports' = reports
    BY DEF WakeImmune
  <2> QED BY <1>1, <1>2, <1>4, <2>1, <2>2, <2>3, NewIncident DEF EngineInv
<1>6. EngineRequests'
  BY <1>1, <1>2 DEF EngineInv, EngineRequests, Evaluating, Processing, WakeImmune, capabilityVars
<1> QED BY <1>3, <1>5, <1>6

\* Each step of the engine keeps what the capability and the cascade rely on,
\* and lets a retired capability rest.
LEMMA EngineStep ==
  ASSUME EngineInv, DetectionNext
  PROVE  /\ CapabilityInv' /\ ImmuneInv' /\ EngineRequests'
         /\ raced' \/ (lifecycle = "retired" =>
              lifecycle' = "retired" /\ invocations' = invocations)
<1> DEFINE Rests ==
      raced' \/ (lifecycle = "retired" => lifecycle' = "retired" /\ invocations' = invocations)
<1>1. ASSUME NEW c \in Clients, Calibrate(c) \/ Downweight(c)
      PROVE  CapabilityInv' /\ ImmuneInv' /\ EngineRequests' /\ Rests
  <2>1. UNCHANGED <<capabilityVars, immuneVars, req, raced>>
    BY <1>1 DEF Calibrate, Downweight, Atomically
  <2> QED BY <2>1, EngineUnchanged DEF capabilityVars
<1>2. ASSUME NEW c \in Clients, CheckEvaluation(c)
      PROVE  CapabilityInv' /\ ImmuneInv' /\ EngineRequests' /\ Rests
  <2>1. PICK p, k, integrate :
          Begin(c, [op |-> "evaluate", pattern |-> p, k |-> k, integrate |-> integrate,
                    step |-> IF Classical(k) THEN "invoke" ELSE "window",
                    window |-> 0, implementation |-> Knn])
    BY <1>2 DEF CheckEvaluation
  <2>2. PICK r : r = [op |-> "evaluate", pattern |-> p, k |-> k, integrate |-> integrate,
                      step |-> IF Classical(k) THEN "invoke" ELSE "window",
                      window |-> 0, implementation |-> Knn]
    OBVIOUS
  <2>3. r.op = "evaluate" /\ r.step # "record"
    BY <2>2
  <2>4. req' = [req EXCEPT ![c] = r] /\ raced' = raced
    BY <2>1, <2>2 DEF Begin
  <2>5. UNCHANGED <<capabilityVars, immuneVars>>
    BY <1>2 DEF CheckEvaluation, detectionVars
  <2> QED BY <2>3, <2>4, <2>5, EvaluationGoesOn DEF capabilityVars
<1>3. ASSUME NEW c \in Clients, StartKnn(c)
      PROVE  CapabilityInv' /\ ImmuneInv' /\ EngineRequests' /\ Rests
  <2>1. binding = Knn
    BY <1>3 DEF StartKnn, Compatible, EngineInv, EngineRequests
  <2>2. PICK r : r = [req[c] EXCEPT !.step = "record"]
    OBVIOUS
  <2>3. r.op = "evaluate"
    BY <1>3, <2>2 DEF StartKnn, Evaluating, EngineInv, DetectionInv, EvaluationRequests, Processing
  <2>4. req' = [req EXCEPT ![c] = r] /\ UNCHANGED <<capabilityVars, immuneVars, raced>>
    BY <1>3, <2>2 DEF StartKnn, NextStep, detectionVars
  <2> QED BY <2>1, <2>3, <2>4, EvaluationGoesOn DEF capabilityVars
<1>4. ASSUME NEW c \in Clients, EndKnn(c)
      PROVE  CapabilityInv' /\ ImmuneInv' /\ EngineRequests' /\ Rests
  BY <1>4, EngineRecords
<1>5. ASSUME NEW c \in Clients, InsertWindow(c) \/ Recommend(c)
      PROVE  CapabilityInv' /\ ImmuneInv' /\ EngineRequests' /\ Rests
  <2>1. req[c] \in EvaluationRequests
    BY <1>5 DEF InsertWindow, Recommend, Evaluating, EngineInv, DetectionInv
  <2>2. UNCHANGED <<capabilityVars, immuneVars>>
    BY <1>5 DEF InsertWindow, Recommend
  <2>3. CASE /\ req' = [req EXCEPT ![c].step = "recommend", ![c].window = Len(windows) + 1]
             /\ raced' = raced
    <3>1. PICK r : r = [req[c] EXCEPT !.step = "recommend", !.window = Len(windows) + 1]
      OBVIOUS
    <3>2. r.op = "evaluate" /\ r.step = "recommend"
      BY <2>1, <3>1 DEF EvaluationRequests
    <3>3. req' = [req EXCEPT ![c] = r]
      BY <2>3, <3>1
    <3> QED BY <2>2, <2>3, <3>2, <3>3, EvaluationGoesOn DEF capabilityVars
  <2>4. CASE NextStep(c, "wake")
    <3>1. PICK r : r = [req[c] EXCEPT !.step = "wake"]
      OBVIOUS
    <3>2. r.op = "evaluate" /\ r.step = "wake"
      BY <2>1, <3>1 DEF EvaluationRequests
    <3>3. req' = [req EXCEPT ![c] = r] /\ raced' = raced
      BY <2>4, <3>1 DEF NextStep
    <3> QED BY <2>2, <3>2, <3>3, EvaluationGoesOn DEF capabilityVars
  <2>5. CASE Commit(c, FALSE)
    <3>1. req' = [req EXCEPT ![c] = Idle] /\ raced' = raced /\ Idle.op = "none"
      BY <2>5 DEF Commit, Idle, EngineInv, CapabilityInv
    <3> QED BY <2>2, <3>1, EvaluationGoesOn DEF capabilityVars
  <2> QED BY <1>5, <2>3, <2>4, <2>5 DEF InsertWindow, Recommend
<1>6. ASSUME NEW c \in Clients, WakeImmune(c)
      PROVE  CapabilityInv' /\ ImmuneInv' /\ EngineRequests' /\ Rests
  BY <1>6, EngineWakes DEF WakeImmune, capabilityVars
<1>7. ASSUME NEW c \in Clients, UNCHANGED immuneVars,
             CheckLifecycle(c) \/ SetCapability(c) \/ (Drop(c) /\ UNCHANGED capabilityVars)
      PROVE  CapabilityInv' /\ ImmuneInv' /\ EngineRequests' /\ Rests
  <2>1. CapabilityInv' /\ Rests
    BY <1>7, CapabilityStep DEF CapabilityNext, EngineInv
  <2>2. raced => raced'
    BY <1>7 DEF CheckLifecycle, SetCapability, Drop, Begin, Commit
  <2>3. /\ DOMAIN req' = Clients /\ req'[c].op \in {"none", "lifecycle"}
        /\ \A d \in Clients \ {c} : req'[d] = req[d]
    BY <1>7 DEF CheckLifecycle, SetCapability, Drop, Begin, Commit, Idle, EngineInv, CapabilityInv
  <2>4. ImmuneInv'
    <3>1. UNCHANGED <<agents, incidents, reports>> /\ \A a : Awake(a)' = Awake(a)
      BY <1>7 DEF immuneVars, Awake
    <3>2. ImmuneInv /\ raced' \in BOOLEAN
      BY <2>1 DEF EngineInv, CapabilityInv
    <3>3. RetireRequests'
      BY <2>2, <2>3, <3>2 DEF ImmuneInv, RetireRequests, Processing
    <3>4. /\ agents' \in [Investigators -> {"absent", "sleeping", "retired"}]
          /\ reports' \in [Findable -> 0..2]
      BY <3>1, <3>2 DEF ImmuneInv
    <3> QED BY <2>2, <2>3, <3>1, <3>2, <3>3, <3>4, NoIncident
  <2>5. UNCHANGED binding /\ visited \subseteq visited'
    BY <1>7 DEF CheckLifecycle, SetCapability, capabilityVars
  <2>6. EngineRequests'
    BY <2>2, <2>3, <2>5 DEF EngineInv, EngineRequests, Evaluating, Processing
  <2> QED BY <2>1, <2>4, <2>6
<1>8. PICK c \in Clients :
        \/ Calibrate(c) \/ Downweight(c)
        \/ CheckEvaluation(c) \/ StartKnn(c) \/ EndKnn(c)
        \/ InsertWindow(c) \/ Recommend(c) \/ WakeImmune(c)
        \/ (CheckLifecycle(c) \/ SetCapability(c)) /\ UNCHANGED <<divergenceVars, immuneVars>>
        \/ Drop(c) /\ UNCHANGED detectionVars
  BY DEF DetectionNext
<1>9. CASE (CheckLifecycle(c) \/ SetCapability(c)) /\ UNCHANGED <<divergenceVars, immuneVars>>
  BY <1>7, <1>9
<1>10. CASE Drop(c) /\ UNCHANGED detectionVars
  BY <1>7, <1>10 DEF detectionVars
<1> QED BY <1>1, <1>2, <1>3, <1>4, <1>5, <1>6, <1>8, <1>9, <1>10

LEMMA EngineInvariant == DetectionSpec => []EngineInv
<1>1. DetectionSpec => []DetectionInv
  BY DetectionInvariant
<1>2. StoreInit /\ DetectionInit => EngineInv
  <2> SUFFICES ASSUME StoreInit, DetectionInit PROVE EngineInv
    OBVIOUS
  <2>1. CapabilityInv
    BY CapabilityStarts DEF DetectionInit
  <2>2. ImmuneInv
    BY ImmuneStarts DEF DetectionInit
  <2>3. EngineRequests
    BY CapabilityAssumption DEF StoreInit, DetectionInit, CapabilityInit, EngineRequests, Evaluating,
       Processing, Idle, Lifecycles
  <2> QED BY <2>1, <2>2, <2>3, DetectionStarts DEF EngineInv
<1>3. EngineInv /\ DetectionInv' /\ [DetectionNext]_<<detectionVars, req, raced>> => EngineInv'
  <2> SUFFICES ASSUME EngineInv, DetectionInv', [DetectionNext]_<<detectionVars, req, raced>>
               PROVE  EngineInv'
    OBVIOUS
  <2>1. CASE DetectionNext
    BY <2>1, EngineStep DEF EngineInv
  <2>2. CASE UNCHANGED <<detectionVars, req, raced>>
    BY <2>2, EngineUnchanged DEF EngineInv, detectionVars
  <2> QED BY <2>1, <2>2
<1> QED BY <1>1, <1>2, <1>3, PTL DEF DetectionSpec

\* The capability keeps its promise as the engine uses it, whose evaluations read
\* its lifecycle and record its invocations outside its own operations: it has
\* only run once it was reviewed, and as what its row is bound to.
THEOREM EngineRunsAsReviewed == DetectionSpec => CapabilityIsGoverned
<1>1. DetectionSpec => []EngineInv
  BY EngineInvariant
<1>2. EngineInv => InvokedAsReviewed
  BY DEF EngineInv, CapabilityInv, Staged, InvokedAsReviewed
<1>3. EngineInv /\ [DetectionNext]_<<detectionVars, req, raced>> =>
        [raced' \/ (lifecycle = "retired" =>
           lifecycle' = "retired" /\ invocations' = invocations)]_<<capabilityVars, req, raced>>
  BY EngineStep DEF detectionVars
<1> QED BY <1>1, <1>2, <1>3, PTL DEF DetectionSpec, CapabilityIsGoverned, RetiredCapabilityRests

\* The cascade answers every anomaly of an incident that the engine makes of an
\* alarm, as it does of an event that it is given.
THEOREM EngineIsAnswered == DetectionSpec => []CascadeAnswers
<1>1. DetectionSpec => []EngineInv
  BY EngineInvariant
<1>2. EngineInv => CascadeAnswers
  BY DEF EngineInv, ImmuneInv, CascadeAnswers, AnomaliesAnswered, Answered, Answers
<1> QED BY <1>1, <1>2, PTL

\* The tables of the engine stay within their bounds: what a downweighted
\* calibration refers to is there.
CalibrationRows ==
  [kind : {"statistical", "classical"}, halvings : 0..MaxHalvings,
   source : 0..MaxCalibrations, window : 0..MaxWindows]

EngineTables ==
  /\ calibrations \in Seq(CalibrationRows)
  /\ Len(calibrations) =< MaxCalibrations /\ Len(windows) =< MaxWindows

LEMMA EngineTablesStay ==
  ASSUME DetectionInv, EngineTables, [DetectionNext]_<<detectionVars, req, raced>>
  PROVE  EngineTables'
<1>1. /\ MaxCalibrations \in Nat /\ MaxWindows \in Nat
      /\ Len(calibrations) \in Nat /\ DOMAIN calibrations = 1..Len(calibrations)
      /\ Len(windows) \in Nat /\ DOMAIN windows = 1..Len(windows)
  BY DivergenceAssumption DEF DetectionInv
<1> HIDE DEF CalibrationRows
<1>2. ASSUME NEW row \in CalibrationRows, Len(calibrations) < MaxCalibrations,
             calibrations' = Append(calibrations, row), windows' = windows
      PROVE  EngineTables'
  <2>1. Append(calibrations, row) \in Seq(CalibrationRows)
        /\ Len(Append(calibrations, row)) = Len(calibrations) + 1
    BY Appended DEF EngineTables
  <2> QED BY <1>1, <1>2, <2>1 DEF EngineTables
<1>3. ASSUME NEW c \in Clients, Calibrate(c) PROVE EngineTables'
  <2>1. PICK kind \in {"statistical", "classical"} :
          calibrations' = Append(calibrations,
                                 [kind |-> kind, halvings |-> 0, source |-> 0, window |-> 0])
    BY <1>3 DEF Calibrate
  <2>2. [kind |-> kind, halvings |-> 0, source |-> 0, window |-> 0] \in CalibrationRows
    BY <1>1 DEF CalibrationRows, MaxHalvings
  <2> QED BY <1>2, <1>3, <2>1, <2>2 DEF Calibrate
<1>4. ASSUME NEW c \in Clients, Downweight(c) PROVE EngineTables'
  <2>1. PICK w \in DOMAIN windows, k \in DOMAIN calibrations :
          LET old == calibrations[k].halvings IN
            calibrations' = Append(calibrations,
              [kind |-> calibrations[k].kind, source |-> k, window |-> w,
               halvings |-> IF old < MaxHalvings THEN old + 1 ELSE old])
    BY <1>4 DEF Downweight
  <2>2. PICK old : old = calibrations[k].halvings
    OBVIOUS
  <2>3. calibrations[k] \in CalibrationRows
    BY DEF EngineTables
  <2>4. calibrations[k].kind \in {"statistical", "classical"} /\ old \in 0..MaxHalvings
    BY <2>2, <2>3 DEF CalibrationRows
  <2>5. k \in 0..MaxCalibrations /\ w \in 0..MaxWindows
    BY <1>1 DEF EngineTables
  <2>6. (IF old < MaxHalvings THEN old + 1 ELSE old) \in 0..MaxHalvings
    BY <2>4 DEF MaxHalvings
  <2>7. [kind |-> calibrations[k].kind, source |-> k, window |-> w,
         halvings |-> IF old < MaxHalvings THEN old + 1 ELSE old] \in CalibrationRows
    BY <2>4, <2>5, <2>6 DEF CalibrationRows
  <2> QED BY <1>2, <1>4, <2>1, <2>2, <2>7 DEF Downweight
<1>5. ASSUME NEW c \in Clients, InsertWindow(c) PROVE EngineTables'
  <2>1. PICK row : windows' = Append(windows, row) /\ Len(windows) < MaxWindows
                   /\ calibrations' = calibrations
    BY <1>5 DEF InsertWindow
  <2>2. Len(windows') = Len(windows) + 1
    BY <1>1, <2>1 DEF DetectionInv
  <2> QED BY <1>1, <2>1, <2>2 DEF EngineTables
<1>6. ASSUME NEW c \in Clients, Recommend(c) PROVE EngineTables'
  <2>1. PICK row : windows' = [windows EXCEPT ![req[c].window] = row]
                   /\ calibrations' = calibrations
    BY <1>6 DEF Recommend
  <2>2. Len(windows') = Len(windows)
    BY <2>1 DEF DetectionInv
  <2> QED BY <2>1, <2>2 DEF EngineTables
<1>7. ASSUME windows' = windows, calibrations' = calibrations PROVE EngineTables'
  BY <1>7 DEF EngineTables, CalibrationRows
<1>8. ASSUME NEW c \in Clients,
             \/ CheckEvaluation(c) \/ StartKnn(c) \/ EndKnn(c) \/ WakeImmune(c)
      PROVE  windows' = windows /\ calibrations' = calibrations
  BY <1>8 DEF CheckEvaluation, StartKnn, EndKnn, WakeImmune, detectionVars, divergenceVars
<1>9. ASSUME UNCHANGED divergenceVars PROVE windows' = windows /\ calibrations' = calibrations
  BY <1>9 DEF divergenceVars
<1>10. UNCHANGED detectionVars => UNCHANGED divergenceVars
  BY DEF detectionVars
<1> QED BY <1>3, <1>4, <1>5, <1>6, <1>7, <1>8, <1>9, <1>10 DEF DetectionNext

LEMMA EngineStaysTyped ==
  DetectionSpec => [](CapabilityTypeOK /\ ImmuneTypeOK /\ DetectionTypeOK)
<1>1. DetectionSpec => []EngineInv
  BY EngineInvariant
<1>2. DetectionInit => EngineTables /\ Len(incidents) =< MaxIncidents
  BY DivergenceAssumption, ImmuneAssumption DEF DetectionInit, ImmuneInit, EngineTables
<1>3. EngineInv /\ EngineTables /\ [DetectionNext]_<<detectionVars, req, raced>> => EngineTables'
  BY EngineTablesStay DEF EngineInv
<1>4. EngineInv /\ Len(incidents) =< MaxIncidents
        /\ [DetectionNext]_<<detectionVars, req, raced>> => (Len(incidents) =< MaxIncidents)'
  <2> SUFFICES ASSUME EngineInv, Len(incidents) =< MaxIncidents,
                      [DetectionNext]_<<detectionVars, req, raced>>
               PROVE  Len(incidents') =< MaxIncidents
    OBVIOUS
  <2>1. ASSUME NEW c \in Clients, WakeImmune(c) PROVE Len(incidents') =< MaxIncidents
    <3>1. PICK row : incidents' = Append(incidents, row) /\ Len(incidents) < MaxIncidents
      BY <2>1 DEF WakeImmune
    <3> QED BY <3>1, IncidentAppended, ImmuneAssumption DEF EngineInv
  <2>2. ASSUME incidents' # incidents PROVE \E c \in Clients : WakeImmune(c)
    BY <2>2 DEF DetectionNext, Calibrate, Downweight, CheckEvaluation, StartKnn, EndKnn,
       InsertWindow, Recommend, detectionVars, immuneVars
  <2> QED BY <2>1, <2>2
<1>5. EngineInv /\ EngineTables /\ Len(incidents) =< MaxIncidents =>
        CapabilityTypeOK /\ ImmuneTypeOK /\ DetectionTypeOK
  <2> SUFFICES ASSUME EngineInv, EngineTables, Len(incidents) =< MaxIncidents
               PROVE  CapabilityTypeOK /\ ImmuneTypeOK /\ DetectionTypeOK
    OBVIOUS
  <2>1. CapabilityTypeOK
    BY DEF EngineInv, CapabilityInv
  <2>2. ImmuneTypeOK
    BY DEF EngineInv, ImmuneInv, ImmuneTypeOK
  <2>3. alarms \subseteq DOMAIN windows
    BY DEF EngineInv, DetectionInv, WindowsInv
  <2> QED BY <2>1, <2>2, <2>3 DEF EngineTables, CalibrationRows, DetectionTypeOK
<1> QED BY <1>1, <1>2, <1>3, <1>4, <1>5, PTL DEF DetectionSpec

-----------------------------------------------------------------------------
(* The types of the policy.                                                *)

PolicyRows == [request : Requests, decision : Decisions, seq : Nat \ {0}]

\* Finitely many numbers have a greatest one, and so has their set with zero.
LEMMA NumbersBounded ==
  ASSUME NEW last \in Nat, NEW f, \A i \in 1..last : f[i] \in Nat
  PROVE  \E u \in Nat : \A i \in 1..last : f[i] =< u
<1> DEFINE Bounded(n) == \E u \in Nat : \A i \in 1..n : f[i] =< u
<1> SUFFICES ASSUME ~Bounded(last) PROVE FALSE
  OBVIOUS
<1>1. PICK T : T = {n \in 0..last : ~Bounded(n)}
  OBVIOUS
<1>2. T \in SUBSET Nat /\ T # {}
  <2> HIDE DEF Bounded
  <2>1. last \in T
    BY <1>1
  <2> QED BY <1>1, <2>1
<1>3. PICK n \in T : \A m \in T : n =< m
  BY <1>2, LeastNumber
<1>4. n \in 0..last /\ ~Bounded(n)
  BY <1>1, <1>3
<1>5. n # 0
  BY <1>4
<1>6. n - 1 \in 0..last /\ n - 1 \notin T
  BY <1>2, <1>3, <1>4, <1>5
<1>7. Bounded(n - 1)
  BY <1>1, <1>6
<1>8. PICK u \in Nat : \A i \in 1..(n - 1) : f[i] =< u
  BY <1>7
<1>9. f[n] \in Nat
  BY <1>4, <1>5
<1>10. PICK w \in Nat : u =< w /\ f[n] =< w
  <2>1. u =< u + f[n] /\ f[n] =< u + f[n] /\ u + f[n] \in Nat
    BY <1>9
  <2> QED BY <2>1
<1>11. \A i \in 1..n : f[i] =< w
  <2> SUFFICES ASSUME NEW i \in 1..n PROVE f[i] =< w
    OBVIOUS
  <2>1. f[i] \in Nat /\ (i = n \/ i \in 1..(n - 1))
    BY <1>4
  <2> QED BY <1>8, <1>10, <2>1
<1> QED BY <1>4, <1>11

LEMMA GreatestOf ==
  ASSUME NEW T \in SUBSET Nat, 0 \in T, NEW u \in Nat, \A y \in T : y =< u
  PROVE  \E x \in T : \A y \in T : x >= y
<1>1. PICK U : U = {w \in Nat : \A y \in T : y =< w}
  OBVIOUS
<1>2. U \in SUBSET Nat /\ U # {}
  BY <1>1
<1>3. PICK x \in U : \A w \in U : x =< w
  BY <1>2, LeastNumber
<1>4. x \in Nat /\ \A y \in T : y =< x
  BY <1>1, <1>3
<1>5. ASSUME x \notin T PROVE FALSE
  <2>1. x # 0 /\ x - 1 \in Nat
    BY <1>4, <1>5
  <2>2. \A y \in T : y \in Nat /\ y =< x /\ y # x
    BY <1>4, <1>5
  <2>3. \A y \in T : y =< x - 1
    BY <1>4, <2>2
  <2>4. x - 1 \in U
    BY <1>1, <2>1, <2>3
  <2>5. x =< x - 1
    BY <1>3, <2>4
  <2> QED BY <1>4, <2>5
<1>6. \A y \in T : x >= y
  BY <1>4
<1> QED BY <1>5, <1>6

\* So the next number of an evaluation is there to read, races or not.
LEMMA GreatestNumber ==
  ASSUME policyEvaluations \in Seq(PolicyRows)
  PROVE  LastSeq \in Nat
<1>1. PICK last : last = Len(policyEvaluations)
  OBVIOUS
<1>2. last \in Nat /\ DOMAIN policyEvaluations = 1..last
  BY <1>1
<1>3. \A i \in 1..last : policyEvaluations[i] \in PolicyRows
  BY <1>2
<1>4. PICK f : f = [i \in 1..last |-> policyEvaluations[i].seq]
  OBVIOUS
<1>5. \A i \in 1..last : f[i] = policyEvaluations[i].seq /\ f[i] \in Nat
  BY <1>3, <1>4 DEF PolicyRows
<1>6. PICK u \in Nat : \A i \in 1..last : f[i] =< u
  BY <1>2, <1>5, NumbersBounded
<1>7. PICK T : T = {0} \cup {policyEvaluations[n].seq : n \in DOMAIN policyEvaluations}
  OBVIOUS
<1>8. \A y \in T : y = 0 \/ \E i \in 1..last : y = f[i]
  BY <1>2, <1>5, <1>7
<1>9. T \in SUBSET Nat /\ 0 \in T /\ \A y \in T : y =< u
  <2>1. \A y \in T : y \in Nat /\ y =< u
    <3> SUFFICES ASSUME NEW y \in T PROVE y \in Nat /\ y =< u
      OBVIOUS
    <3>1. CASE y = 0
      BY <1>6, <3>1
    <3>2. CASE \E i \in 1..last : y = f[i]
      BY <1>5, <1>6, <3>2
    <3> QED BY <1>8, <3>1, <3>2
  <2> QED BY <1>7, <2>1
<1>10. \E x \in T : \A y \in T : x >= y
  BY <1>9, GreatestOf
<1>11. LastSeq = CHOOSE x \in T : \A y \in T : x >= y
  BY <1>7 DEF LastSeq, Max
<1>12. LastSeq \in T
  BY <1>10, <1>11
<1> QED BY <1>9, <1>12

\* What is decided is one of the five answers.
LEMMA AnswerGiven ==
  ASSUME NEW request
  PROVE  Decision(request) \in Decisions
BY DEF Decision, Decide, Decisions

PolicyTables ==
  /\ policyEvaluations \in Seq(PolicyRows) /\ Len(policyEvaluations) =< MaxEvaluations
  /\ \A c \in Clients : Processing(c, "policy") => req[c].row \in PolicyRows

LEMMA PolicyTablesStay ==
  ASSUME PolicyInv, PolicyTables, [PolicyNext]_<<policyVars, req, raced>>
  PROVE  PolicyTables'
<1>1. ASSUME NEW c \in Clients, NEW r, req' = [req EXCEPT ![c] = r],
             r.op = "policy" => r.row \in PolicyRows, UNCHANGED policyVars
      PROVE  PolicyTables'
  <2>1. DOMAIN req' = Clients /\ req'[c] = r /\ \A d \in Clients \ {c} : req'[d] = req[d]
    BY <1>1, RequestReplaced DEF PolicyInv
  <2>2. \A d \in Clients : Processing(d, "policy")' => req'[d].row \in PolicyRows
    BY <1>1, <2>1 DEF PolicyTables, Processing
  <2> QED BY <1>1, <2>2 DEF PolicyTables, PolicyRows, policyVars
<1>2. ASSUME NEW c \in Clients, CheckRequest(c) PROVE PolicyTables'
  <2>1. PICK request \in Requests :
          Begin(c, [op |-> "policy", row |-> [request |-> request, decision |-> Decision(request),
                                              seq |-> LastSeq + 1]])
    BY <1>2 DEF CheckRequest
  <2>2. LastSeq \in Nat
    BY GreatestNumber DEF PolicyTables
  <2>3. LastSeq + 1 \in Nat \ {0}
    BY <2>2
  <2>4. PICK r : r = [op |-> "policy", row |-> [request |-> request, decision |-> Decision(request),
                                                seq |-> LastSeq + 1]]
    OBVIOUS
  <2>5. r.row \in PolicyRows
    BY <2>3, <2>4, AnswerGiven DEF PolicyRows
  <2>6. req' = [req EXCEPT ![c] = r] /\ UNCHANGED policyVars
    BY <1>2, <2>1, <2>4 DEF Begin, CheckRequest
  <2> QED BY <1>1, <2>5, <2>6
<1>3. ASSUME NEW c \in Clients, RecordEvaluation(c) PROVE PolicyTables'
  <2> HIDE DEF PolicyRows
  <2>1. /\ req[c].row \in PolicyRows /\ Len(policyEvaluations) < MaxEvaluations
        /\ policyEvaluations' = Append(policyEvaluations, req[c].row)
        /\ req' = [req EXCEPT ![c] = Idle]
    BY <1>3 DEF RecordEvaluation, Commit, PolicyTables
  <2>2. DOMAIN req' = Clients /\ req'[c] = Idle /\ \A d \in Clients \ {c} : req'[d] = req[d]
    BY <2>1, RequestReplaced DEF PolicyInv
  <2>3. Idle.op # "policy"
    BY DEF Idle
  <2>4. \A d \in Clients : Processing(d, "policy")' => req'[d].row \in PolicyRows
    BY <2>2, <2>3 DEF PolicyTables, Processing
  <2>5. /\ policyEvaluations' \in Seq(PolicyRows) /\ Len(policyEvaluations) \in Nat
        /\ Len(policyEvaluations') = Len(policyEvaluations) + 1
    BY <2>1, RowAppended DEF PolicyTables
  <2>6. Len(policyEvaluations') =< MaxEvaluations
    BY <2>1, <2>5, PolicyAssumption DEF PolicyAssumption
  <2> QED BY <2>4, <2>5, <2>6 DEF PolicyTables, PolicyRows
<1>4. ASSUME NEW c \in Clients, Drop(c), UNCHANGED policyVars PROVE PolicyTables'
  <2>1. req' = [req EXCEPT ![c] = Idle] /\ Idle.op # "policy"
    BY <1>4 DEF Drop, Idle
  <2> QED BY <1>1, <1>4, <2>1
<1>5. CASE UNCHANGED <<policyVars, req, raced>>
  BY <1>5 DEF PolicyTables, PolicyRows, Processing, policyVars
<1> QED BY <1>2, <1>3, <1>4, <1>5 DEF PolicyNext

LEMMA PolicyStaysTyped == PolicySpec => []PolicyTypeOK
<1>1. StoreInit /\ PolicyInit => PolicyInv /\ PolicyTables
  <2> SUFFICES ASSUME StoreInit, PolicyInit PROVE PolicyTables
    BY PolicyStarts
  <2>1. policyEvaluations \in Seq(PolicyRows) /\ Len(policyEvaluations) = 0
    BY DEF PolicyInit
  <2> QED BY <2>1, PolicyAssumption DEF PolicyTables, PolicyAssumption, StoreInit, Processing, Idle
<1>2. PolicyInv /\ PolicyTables /\ [PolicyNext]_<<policyVars, req, raced>> =>
        (PolicyInv /\ PolicyTables)'
  <2> SUFFICES ASSUME PolicyInv, PolicyTables, [PolicyNext]_<<policyVars, req, raced>>
               PROVE  PolicyInv' /\ PolicyTables'
    OBVIOUS
  <2>1. CASE UNCHANGED <<policyVars, req, raced>>
    BY <2>1, PolicyTablesStay DEF PolicyInv, PolicyRow, Decision, EvaluationsAreNumbered, Processing, policyVars
  <2> QED BY <2>1, PolicyStep, PolicyTablesStay
<1>3. PolicyInv /\ PolicyTables => PolicyTypeOK
  BY DEF PolicyInv, PolicyTables, PolicyRows, PolicyTypeOK
<1> QED BY <1>1, <1>2, <1>3, PTL DEF PolicySpec

-----------------------------------------------------------------------------
(* The types of the tool registry.                                         *)

ToolFiles == publisher \in BOOLEAN /\ cache \in [Digests -> {"absent", "partial", "intact"}]

LEMMA ToolFilesStay ==
  ASSUME ToolFiles, [ToolNext]_<<toolVars, req, raced>>
  PROVE  ToolFiles'
<1>1. ASSUME NEW t, NEW content \in {"absent", "partial", "intact"}, SetFile(t, content)
      PROVE  cache' \in [Digests -> {"absent", "partial", "intact"}]
  BY <1>1 DEF SetFile, ToolFiles
<1>2. ASSUME NEW c \in Clients, StartCopy(c) \/ EndCopy(c) \/ Unlink(c) PROVE ToolFiles'
  BY <1>1, <1>2 DEF ToolFiles, StartCopy, EndCopy, Unlink
<1>3. ASSUME NEW c \in Clients, TrustPublisher(c) PROVE ToolFiles'
  BY <1>3 DEF ToolFiles, TrustPublisher
<1>4. ASSUME UNCHANGED <<publisher, cache>> PROVE ToolFiles'
  BY <1>4 DEF ToolFiles
<1>5. UNCHANGED toolVars => UNCHANGED <<publisher, cache>>
  BY DEF toolVars
<1> QED BY <1>2, <1>3, <1>4, <1>5 DEF ToolNext, Register, SetLifecycle, CheckVerify, Verify,
      CheckInstall, Install, CheckActivate, Activate, CheckDeactivate, Deactivate, CheckUninstall,
      Uninstall

LEMMA ToolsStayTyped == ToolSpec => []ToolTypeOK
<1>1. StoreInit /\ ToolInit => ToolInv /\ ToolFiles
  BY ToolStarts DEF ToolInit, ToolFiles
<1>2. ToolInv /\ ToolFiles /\ [ToolNext]_<<toolVars, req, raced>> => (ToolInv /\ ToolFiles)'
  BY ToolStep, ToolFilesStay
<1>3. ToolInv /\ ToolFiles => ToolTypeOK
  BY RegisteredRows DEF ToolFiles, ToolTypeOK, ToolRows
<1> QED BY <1>1, <1>2, <1>3, PTL DEF ToolSpec

-----------------------------------------------------------------------------
(* The types of the promotion of a skill.                                  *)

\* What a client is about to write is of an observation, a stage or an artifact
\* that there is.
SkillRequest(r) ==
  /\ r.op = "observe" => r.row \in Observation
  /\ r.op = "promote" => r.to \in SkillStates /\ r.artifact \in 0..MaxArtifacts
  /\ r.op = "evaluate" => r.artifact \in 1..MaxArtifacts /\ r.passed \in BOOLEAN
  /\ r.op = "draft" => r.evidence \subseteq Interactions
  /\ r.op = "export" => r.artifact \in 1..MaxArtifacts

SkillTyped == SkillTypeOK /\ \A c \in Clients : SkillRequest(req[c])

\* A client begins or ends, with the tables as they are.
LEMMA SkillsQuiet ==
  ASSUME DOMAIN req = Clients, SkillTyped, NEW c \in Clients, NEW r,
         req' = [req EXCEPT ![c] = r], SkillRequest(r), UNCHANGED skillVars
  PROVE  SkillTyped'
<1>1. DOMAIN req' = Clients /\ req'[c] = r /\ \A d \in Clients \ {c} : req'[d] = req[d]
  BY RequestReplaced
<1>2. \A d \in Clients : SkillRequest(req[d])'
  BY <1>1 DEF SkillTyped, SkillRequest
<1>3. SkillTypeOK'
  BY DEF SkillTyped, SkillTypeOK, Artifact, skillVars, SkillStates
<1> QED BY <1>2, <1>3 DEF SkillTyped

\* A client whose transaction is done is idle again.
LEMMA SkillDone ==
  ASSUME DOMAIN req = Clients, SkillTyped, NEW c \in Clients, req' = [req EXCEPT ![c] = Idle]
  PROVE  \A d \in Clients : SkillRequest(req[d])'
<1>1. DOMAIN req' = Clients /\ req'[c] = Idle /\ \A d \in Clients \ {c} : req'[d] = req[d]
  BY RequestReplaced
<1>2. SkillRequest(Idle)
  BY DEF SkillRequest, Idle
<1> QED BY <1>1, <1>2 DEF SkillTyped, SkillRequest

LEMMA SkillTypes ==
  ASSUME DOMAIN req = Clients, SkillTyped, [SkillNext]_<<skillVars, req, raced>>
  PROVE  SkillTyped'
<1>1. SkillTypeOK /\ \A c \in Clients : SkillRequest(req[c])
  BY DEF SkillTyped
<1>2. /\ MaxArtifacts \in Nat /\ Artifact \in 0..MaxArtifacts
      /\ Artifact # 0 => Artifact \in 1..MaxArtifacts
  BY <1>1, SkillAssumption DEF SkillTypeOK, Artifact, SkillAssumption
<1>3. ASSUME NEW c \in Clients, SleepPromotes(c) PROVE SkillTyped'
  BY <1>1, <1>3 DEF SleepPromotes, Atomically, SkillTyped, SkillTypeOK, SkillRequest, Artifact,
     SkillStates
<1>4. ASSUME NEW c \in Clients, CheckObserve(c) PROVE SkillTyped'
  <2>1. PICK o \in Observation : Begin(c, [op |-> "observe", row |-> o]) /\ UNCHANGED skillVars
    BY <1>4 DEF CheckObserve
  <2>2. PICK r : r = [op |-> "observe", row |-> o]
    OBVIOUS
  <2>3. SkillRequest(r)
    BY <2>2 DEF SkillRequest
  <2>4. req' = [req EXCEPT ![c] = r]
    BY <2>1, <2>2 DEF Begin
  <2> QED BY <2>1, <2>3, <2>4, SkillsQuiet
<1>5. ASSUME NEW c \in Clients, CheckPromote(c) PROVE SkillTyped'
  <2>1. PICK to \in Promotions[skill] :
          Begin(c, [op |-> "promote", from |-> skill, to |-> to, artifact |-> Artifact,
                    sure |-> FALSE, seen |-> observations])
    BY <1>5 DEF CheckPromote
  <2>2. to \in SkillStates /\ UNCHANGED skillVars
    BY <1>5, <2>1 DEF CheckPromote, Promotions, SkillStates
  <2>3. PICK r : r = [op |-> "promote", from |-> skill, to |-> to, artifact |-> Artifact,
                      sure |-> FALSE, seen |-> observations]
    OBVIOUS
  <2>4. SkillRequest(r)
    BY <1>2, <2>2, <2>3 DEF SkillRequest
  <2>5. req' = [req EXCEPT ![c] = r]
    BY <2>1, <2>3 DEF Begin
  <2> QED BY <2>2, <2>4, <2>5, SkillsQuiet
<1>6. ASSUME NEW c \in Clients, CheckEvaluate(c) PROVE SkillTyped'
  <2>1. PICK passed \in BOOLEAN :
          Begin(c, [op |-> "evaluate", from |-> skill, artifact |-> Artifact,
                    passed |-> passed, sure |-> FALSE])
    BY <1>6 DEF CheckEvaluate
  <2>2. Artifact \in 1..MaxArtifacts /\ UNCHANGED skillVars
    BY <1>2, <1>6 DEF CheckEvaluate
  <2>3. PICK r : r = [op |-> "evaluate", from |-> skill, artifact |-> Artifact,
                      passed |-> passed, sure |-> FALSE]
    OBVIOUS
  <2>4. SkillRequest(r)
    BY <2>2, <2>3 DEF SkillRequest
  <2>5. req' = [req EXCEPT ![c] = r]
    BY <2>1, <2>3 DEF Begin
  <2> QED BY <2>2, <2>4, <2>5, SkillsQuiet
<1>7. ASSUME NEW c \in Clients, CheckDraft(c) PROVE SkillTyped'
  <2>1. PICK cited \in SUBSET CleanSuccesses : Begin(c, [op |-> "draft", evidence |-> cited])
    BY <1>7 DEF CheckDraft
  <2>2. cited \subseteq Interactions /\ UNCHANGED skillVars
    BY <1>1, <1>7 DEF CheckDraft, CleanSuccesses, Outcomes, SkillTypeOK, Observation
  <2>3. PICK r : r = [op |-> "draft", evidence |-> cited]
    OBVIOUS
  <2>4. SkillRequest(r)
    BY <2>2, <2>3 DEF SkillRequest
  <2>5. req' = [req EXCEPT ![c] = r]
    BY <2>1, <2>3 DEF Begin
  <2> QED BY <2>2, <2>4, <2>5, SkillsQuiet
<1>8. ASSUME NEW c \in Clients, CheckExport(c) PROVE SkillTyped'
  <2>1. Artifact \in 1..MaxArtifacts /\ UNCHANGED skillVars
    BY <1>2, <1>8 DEF CheckExport, Active
  <2>2. PICK r : r = [op |-> "export", artifact |-> Artifact]
    OBVIOUS
  <2>3. SkillRequest(r)
    BY <2>1, <2>2 DEF SkillRequest
  <2>4. req' = [req EXCEPT ![c] = r]
    BY <1>8, <2>2 DEF CheckExport, Begin
  <2> QED BY <2>1, <2>3, <2>4, SkillsQuiet
<1>9. ASSUME NEW c \in Clients, Recheck(c) PROVE SkillTyped'
  <2>1. PICK r : r = [req[c] EXCEPT !.sure = TRUE]
    OBVIOUS
  <2>2. /\ r.op = req[c].op /\ r.to = req[c].to /\ r.artifact = req[c].artifact
        /\ r.passed = req[c].passed
    BY <2>1
  <2>3. SkillRequest(r)
    BY <1>1, <1>9, <2>2 DEF SkillRequest, Recheck
  <2>4. req' = [req EXCEPT ![c] = r] /\ UNCHANGED skillVars
    BY <1>9, <2>1 DEF Recheck
  <2> QED BY <2>3, <2>4, SkillsQuiet
<1>10. ASSUME NEW c \in Clients, Observe(c) PROVE SkillTyped'
  <2>1. req[c].row \in Observation
    BY <1>1, <1>10 DEF Observe, Processing, SkillRequest
  <2>2. \A d \in Clients : SkillRequest(req[d])'
    BY <1>10, SkillDone DEF Observe, Commit
  <2>3. SkillTypeOK'
    BY <1>1, <1>10, <2>1 DEF Observe, SkillTypeOK, Artifact, SkillStates
  <2> QED BY <2>2, <2>3 DEF SkillTyped
<1>11. ASSUME NEW c \in Clients, Promote(c) PROVE SkillTyped'
  <2>1. req[c].to \in SkillStates /\ req[c].artifact \in 0..MaxArtifacts
    BY <1>1, <1>11 DEF Promote, Processing, SkillRequest
  <2>2. \A d \in Clients : SkillRequest(req[d])'
    BY <1>11, SkillDone DEF Promote, Commit
  <2>3. SkillTypeOK'
    BY <1>1, <1>11, <2>1 DEF Promote, Move, SkillTypeOK, Artifact
  <2> QED BY <2>2, <2>3 DEF SkillTyped
<1>12. ASSUME NEW c \in Clients, Evaluate(c) PROVE SkillTyped'
  <2>1. req[c].artifact \in 1..MaxArtifacts /\ req[c].passed \in BOOLEAN
    BY <1>1, <1>12 DEF Evaluate, Processing, SkillRequest
  <2>2. \A d \in Clients : SkillRequest(req[d])'
    BY <1>12, SkillDone DEF Evaluate, Commit
  <2>3. PICK to : /\ to = IF req[c].passed THEN "held_out_evaluation" ELSE "rejected"
                  /\ skill' = to /\ lastMove' = [to |-> to, artifact |-> req[c].artifact]
                  /\ evaluations' = evaluations \cup {<<req[c].artifact, req[c].passed>>}
                  /\ UNCHANGED <<gate, observations, artifacts, exports>>
    BY <1>12 DEF Evaluate, Move
  <2>4. to \in SkillStates /\ req[c].artifact \in 0..MaxArtifacts
    BY <1>2, <2>1, <2>3 DEF SkillStates
  <2>5. lastMove' \in [to : SkillStates, artifact : 0..MaxArtifacts]
        /\ evaluations' \subseteq (1..MaxArtifacts) \X BOOLEAN
    BY <1>1, <2>1, <2>3, <2>4 DEF SkillTypeOK
  <2>6. SkillTypeOK'
    BY <1>1, <2>3, <2>4, <2>5 DEF SkillTypeOK, Artifact
  <2> QED BY <2>2, <2>6 DEF SkillTyped
<1>13. ASSUME NEW c \in Clients, Draft(c) PROVE SkillTyped'
  <2>1. req[c].evidence \in SUBSET Interactions
    BY <1>1, <1>13 DEF Draft, Processing, SkillRequest
  <2>2. \A d \in Clients : SkillRequest(req[d])'
    BY <1>13, SkillDone DEF Draft, Commit
  <2>3. artifacts' = Append(artifacts, req[c].evidence) /\ Len(artifacts) < MaxArtifacts
        /\ artifacts \in Seq(SUBSET Interactions)
    BY <1>1, <1>13 DEF Draft, SkillTypeOK
  <2>4. /\ artifacts' \in Seq(SUBSET Interactions) /\ Len(artifacts) \in Nat
        /\ Len(artifacts') = Len(artifacts) + 1
    BY <2>1, <2>3, RowAppended
  <2>5. Len(artifacts') =< MaxArtifacts /\ Len(artifacts) + 1 \in 0..MaxArtifacts
    BY <1>2, <2>3, <2>4
  <2>6. /\ skill' = "drafted_skill"
        /\ lastMove' = [to |-> "drafted_skill", artifact |-> Len(artifacts) + 1]
        /\ UNCHANGED <<gate, observations, evaluations, exports>>
    BY <1>13 DEF Draft, Move
  <2>7. "drafted_skill" \in SkillStates
    BY DEF SkillStates
  <2>8. lastMove' \in [to : SkillStates, artifact : 0..MaxArtifacts]
    BY <2>5, <2>6, <2>7
  <2>9. SkillTypeOK'
    BY <1>1, <2>4, <2>5, <2>6, <2>7, <2>8 DEF SkillTypeOK, Artifact
  <2> QED BY <2>2, <2>9 DEF SkillTyped
<1>14. ASSUME NEW c \in Clients, Export(c) PROVE SkillTyped'
  <2>1. req[c].artifact \in 1..MaxArtifacts
    BY <1>1, <1>14 DEF Export, Processing, SkillRequest
  <2>2. \A d \in Clients : SkillRequest(req[d])'
    BY <1>14, SkillDone DEF Export, Commit
  <2>3. SkillTypeOK'
    BY <1>1, <1>14, <2>1 DEF Export, SkillTypeOK, Artifact, SkillStates
  <2> QED BY <2>2, <2>3 DEF SkillTyped
<1>15. ASSUME NEW c \in Clients, Drop(c), UNCHANGED skillVars PROVE SkillTyped'
  <2>1. req' = [req EXCEPT ![c] = Idle] /\ SkillRequest(Idle)
    BY <1>15 DEF Drop, SkillRequest, Idle
  <2> QED BY <1>15, <2>1, SkillsQuiet
<1>16. CASE UNCHANGED <<skillVars, req, raced>>
  BY <1>1, <1>16 DEF SkillTyped, SkillTypeOK, SkillRequest, Artifact, SkillStates, skillVars
<1> QED BY <1>3, <1>4, <1>5, <1>6, <1>7, <1>8, <1>9, <1>10, <1>11, <1>12, <1>13, <1>14, <1>15,
           <1>16 DEF SkillNext

LEMMA SkillsStayTyped == SkillSpec => []SkillTypeOK
<1>1. StoreInit /\ SkillInit => SkillInv /\ SkillTyped
  <2> SUFFICES ASSUME StoreInit, SkillInit PROVE SkillTyped
    BY SkillStarts
  <2>1. SkillTypeOK
    <3>1. artifacts \in Seq(SUBSET Interactions) /\ Len(artifacts) = 0
      BY DEF SkillInit
    <3>2. MaxArtifacts \in Nat /\ 0 =< MaxArtifacts /\ 0 \in 0..MaxArtifacts
      BY SkillAssumption DEF SkillAssumption
    <3>3. "candidate" \in SkillStates
      BY DEF SkillStates
    <3>4. lastMove \in [to : SkillStates, artifact : 0..MaxArtifacts]
      BY <3>2, <3>3 DEF SkillInit
    <3> QED BY <3>1, <3>2, <3>3, <3>4 DEF SkillInit, SkillTypeOK, Artifact
  <2>2. \A c \in Clients : SkillRequest(req[c])
    BY DEF StoreInit, Idle, SkillRequest
  <2> QED BY <2>1, <2>2 DEF SkillTyped
<1>2. SkillInv /\ SkillTyped /\ [SkillNext]_<<skillVars, req, raced>> => (SkillInv /\ SkillTyped)'
  BY SkillStep, SkillTypes DEF SkillInv
<1>3. SkillTyped => SkillTypeOK
  BY DEF SkillTyped
<1> QED BY <1>1, <1>2, <1>3, PTL DEF SkillSpec

-----------------------------------------------------------------------------
(* The types of the ledger.                                                *)

Relations == {"support", "contradiction", "test", "falsification", "reopening"}
EvidenceTable == [row : RowType, supersedes : 0..MaxEvidence]

\* What a client is about to write is about a proposition and evidence that
\* there are: neither is ever deleted.
LedgerPending(r) ==
  /\ r.op = "successor" => r.new.supersedes \in 0..MaxEvidence
  /\ r.op = "transition" =>
       r.s \in Proposed /\ r.rows \subseteq ({r.s} \X (DOMAIN evidence) \X Relations)
  /\ r.op = "confidence" => r.s \in Proposed
  /\ r.op = "supersede" => r.s \in Proposed /\ r.seen[1] \in STATUSES

EvidenceFits == evidence \in Seq(EvidenceTable) /\ Len(evidence) =< MaxEvidence

LedgerTables ==
  /\ EvidenceFits
  /\ \A s \in Proposed : propositions[s].status \in STATUSES
  /\ \A s \in Statements : propositions[s].falsifiedBy \in 0..MaxEvidence
  /\ links \subseteq (Proposed \X (DOMAIN evidence) \X Relations)

LedgerWaiting == \A c \in Clients : \A r : r = req[c] => LedgerPending(r)

LEMMA MoveRows ==
  ASSUME NEW s, NEW rows, NEW D, \A row \in rows : \E d \in D, x \in Relations : row = <<d, x>>
  PROVE  {<<s>> \o row : row \in rows} \subseteq ({s} \X D \X Relations)
<1> SUFFICES ASSUME NEW row \in rows PROVE <<s>> \o row \in ({s} \X D \X Relations)
  OBVIOUS
<1>1. PICK d \in D, x \in Relations : row = <<d, x>>
  OBVIOUS
<1>2. <<s>> \o row = <<s, d, x>>
  BY <1>1, LinkRows
<1> QED BY <1>2

\* A client's request is replaced by one that is pending after the step; those
\* of the others still are.
LEMMA PendingReplaced ==
  ASSUME DOMAIN req = Clients, LedgerWaiting, NEW c \in Clients, NEW r,
         req' = [req EXCEPT ![c] = r], LedgerPending(r),
         Proposed \subseteq Proposed', DOMAIN evidence \subseteq DOMAIN evidence'
  PROVE  LedgerWaiting'
<1>1. DOMAIN req' = Clients /\ req'[c] = r /\ \A d \in Clients \ {c} : req'[d] = req[d]
  BY RequestReplaced
<1>2. \A x : LedgerPending(x) => LedgerPending(x)'
  <2> SUFFICES ASSUME NEW x, LedgerPending(x) PROVE LedgerPending(x)'
    OBVIOUS
  <2>1. ({x.s} \X (DOMAIN evidence) \X Relations) \subseteq ({x.s} \X (DOMAIN evidence') \X Relations)
    OBVIOUS
  <2> QED BY <2>1 DEF LedgerPending, Relations, STATUSES, INITIAL_STATUSES
<1>3. \A d \in Clients : \A x : x = req'[d] => LedgerPending(x)
  BY <1>1 DEF LedgerWaiting
<1> QED BY <1>2, <1>3 DEF LedgerWaiting

LEMMA IdlePending == LedgerPending(Idle)
BY DEF LedgerPending, Idle

LEMMA PendingStays ==
  ASSUME LedgerWaiting, req' = req,
         Proposed \subseteq Proposed', DOMAIN evidence \subseteq DOMAIN evidence'
  PROVE  LedgerWaiting'
<1>1. \A x : LedgerPending(x) => LedgerPending(x)'
  <2> SUFFICES ASSUME NEW x, LedgerPending(x) PROVE LedgerPending(x)'
    OBVIOUS
  <2>1. ({x.s} \X (DOMAIN evidence) \X Relations) \subseteq ({x.s} \X (DOMAIN evidence') \X Relations)
    OBVIOUS
  <2> QED BY <2>1 DEF LedgerPending, Relations, STATUSES, INITIAL_STATUSES
<1> QED BY <1>1 DEF LedgerWaiting

\* The tables as a step that appends evidence leaves them.
LEMMA EvidenceGrows ==
  ASSUME LedgerInv, LedgerTables, NEW row \in EvidenceTable, Len(evidence) < MaxEvidence,
         evidence' = Append(evidence, row), UNCHANGED <<propositions, links>>
  PROVE  LedgerTables' /\ Proposed' = Proposed /\ DOMAIN evidence \subseteq DOMAIN evidence'
<1> HIDE DEF EvidenceTable
<1>1. /\ evidence' \in Seq(EvidenceTable) /\ Len(evidence) \in Nat
      /\ Len(evidence') = Len(evidence) + 1
      /\ DOMAIN evidence \subseteq DOMAIN evidence'
  BY RowAppended DEF LedgerTables, EvidenceFits
<1>2. EvidenceFits'
  BY <1>1, LedgerAssumption DEF LedgerAssumption, EvidenceFits, EvidenceTable, RowType
<1>3. Proposed' = Proposed
  BY DEF Proposed
<1>4. links' \subseteq (Proposed' \X (DOMAIN evidence') \X Relations)
  <2>1. (Proposed \X (DOMAIN evidence) \X Relations)
          \subseteq (Proposed' \X (DOMAIN evidence') \X Relations)
    BY <1>1, <1>3
  <2> QED BY <2>1 DEF LedgerTables
<1>5. (\A s \in Proposed : propositions[s].status \in STATUSES)'
      /\ (\A s \in Statements : propositions[s].falsifiedBy \in 0..MaxEvidence)'
  BY <1>3 DEF LedgerTables, STATUSES, INITIAL_STATUSES
<1> QED BY <1>1, <1>2, <1>3, <1>4, <1>5 DEF LedgerTables, Relations

\* And as one that writes a row of a proposition does.
LEMMA PropositionWritten ==
  ASSUME LedgerInv, LedgerTables, NEW s \in Statements, NEW p,
         p.status \in STATUSES, p.falsifiedBy \in 0..MaxEvidence,
         propositions' = [propositions EXCEPT ![s] = p], evidence' = evidence,
         NEW rows, rows \subseteq ({s} \X (DOMAIN evidence) \X Relations), links' = links \cup rows
  PROVE  LedgerTables' /\ Proposed \subseteq Proposed'
<1>1. /\ propositions'[s] = p
      /\ \A q \in Statements \ {s} : propositions'[q] = propositions[q]
  BY DEF LedgerInv
<1>2. p # NoProposition
  BY DEF NoProposition, STATUSES, INITIAL_STATUSES
<1>3. Proposed' = Proposed \cup {s}
  BY <1>1, <1>2 DEF Proposed
<1>4. (\A q \in Proposed : propositions[q].status \in STATUSES)'
  <2> SUFFICES ASSUME NEW q \in Proposed' PROVE propositions'[q].status \in STATUSES
    BY DEF STATUSES, INITIAL_STATUSES
  <2>1. CASE q = s
    BY <1>1, <2>1
  <2>2. CASE q # s
    BY <1>1, <1>3, <2>2 DEF LedgerTables, Proposed
  <2> QED BY <2>1, <2>2
<1>5. (\A q \in Statements : propositions[q].falsifiedBy \in 0..MaxEvidence)'
  BY <1>1 DEF LedgerTables
<1>6. links' \subseteq (Proposed' \X (DOMAIN evidence') \X Relations)
  <2>1. (Proposed \X (DOMAIN evidence) \X Relations)
          \subseteq (Proposed' \X (DOMAIN evidence') \X Relations)
    BY <1>3
  <2>2. ({s} \X (DOMAIN evidence) \X Relations)
          \subseteq (Proposed' \X (DOMAIN evidence') \X Relations)
    BY <1>3
  <2> QED BY <2>1, <2>2 DEF LedgerTables
<1>7. EvidenceFits'
  BY DEF LedgerTables, EvidenceFits, EvidenceTable, RowType
<1> QED BY <1>3, <1>4, <1>5, <1>6, <1>7 DEF LedgerTables, Relations

\* A client that has checked something leaves the tables alone.
LEMMA LedgerChecked ==
  ASSUME LedgerInv, LedgerTables, LedgerWaiting, NEW c \in Clients, NEW r, LedgerPending(r),
         req' = [req EXCEPT ![c] = r], UNCHANGED ledgerVars
  PROVE  LedgerTables' /\ LedgerWaiting'
<1>1. UNCHANGED <<evidence, propositions, links>> /\ Proposed' = Proposed
  BY DEF ledgerVars, Proposed
<1>2. LedgerTables'
  BY <1>1 DEF LedgerTables, EvidenceFits, EvidenceTable, RowType, Relations, STATUSES, INITIAL_STATUSES
<1>3. LedgerWaiting'
  BY <1>1, PendingReplaced DEF LedgerInv
<1> QED BY <1>2, <1>3

\* The checks of a transition ask for rows of the proposition and of evidence
\* that there is.
LEMMA TransitionPending ==
  ASSUME LedgerInv, LedgerTables, LedgerWaiting, NEW c \in Clients, CheckTransition(c)
  PROVE  LedgerTables' /\ LedgerWaiting'
<1>1. PICK s \in Proposed : \E e \in DOMAIN evidence :
        /\ Counts(s, e)
        /\ \/ /\ Support(s, e)
              /\ Begin(c, Requested(s, e, SUPPORT_TRANSITIONS[propositions[s].status],
                               {<<e, "support">>}))
           \/ Contradict(s, e) /\ Begin(c, Requested(s, e, "contradicted", {<<e, "contradiction">>}))
           \/ Reopen(s, e) /\ Begin(c, Requested(s, e, "unresolved", {<<e, "reopening">>}))
           \/ \E t \in DOMAIN evidence :
                /\ Falsify(s, e, t)
                /\ Begin(c, Requested(s, e, "falsified", {<<e, "falsification">>, <<t, "test">>}))
  BY CheckedMoves
<1>2. ASSUME NEW e, NEW new, NEW rows, Begin(c, Requested(s, e, new, rows)),
             \A row \in rows : \E d \in DOMAIN evidence, x \in Relations : row = <<d, x>>
      PROVE  LedgerTables' /\ LedgerWaiting'
  <2>1. PICK r : r = Requested(s, e, new, rows)
    OBVIOUS
  <2>2. r.op = "transition" /\ r.s = s /\ r.rows = {<<s>> \o row : row \in rows}
    BY <2>1 DEF Requested
  <2>3. r.rows \subseteq ({s} \X (DOMAIN evidence) \X Relations)
    <3>1. PICK D : D = DOMAIN evidence
      OBVIOUS
    <3>2. \A row \in rows : \E d \in D, x \in Relations : row = <<d, x>>
      BY <1>2, <3>1
    <3>3. {<<s>> \o row : row \in rows} \subseteq ({s} \X D \X Relations)
      BY <3>2, MoveRows
    <3> QED BY <2>2, <3>1, <3>3
  <2>4. LedgerPending(r)
    BY <2>2, <2>3 DEF LedgerPending
  <2>5. req' = [req EXCEPT ![c] = r] /\ UNCHANGED ledgerVars
    BY <1>2, <2>1 DEF Begin, CheckTransition
  <2> QED BY <2>4, <2>5, LedgerChecked
<1>3. PICK e \in DOMAIN evidence :
        \/ Begin(c, Requested(s, e, SUPPORT_TRANSITIONS[propositions[s].status], {<<e, "support">>}))
        \/ Begin(c, Requested(s, e, "contradicted", {<<e, "contradiction">>}))
        \/ Begin(c, Requested(s, e, "unresolved", {<<e, "reopening">>}))
        \/ \E t \in DOMAIN evidence :
             Begin(c, Requested(s, e, "falsified", {<<e, "falsification">>, <<t, "test">>}))
  BY <1>1
<1>4. ASSUME NEW x \in Relations
      PROVE  \A row \in {<<e, x>>} : \E d \in DOMAIN evidence, y \in Relations : row = <<d, y>>
  OBVIOUS
<1>5. {"support", "contradiction", "reopening", "falsification", "test"} \subseteq Relations
  BY DEF Relations
<1>6. CASE Begin(c, Requested(s, e, SUPPORT_TRANSITIONS[propositions[s].status], {<<e, "support">>}))
  BY <1>2, <1>4, <1>5, <1>6
<1>7. CASE Begin(c, Requested(s, e, "contradicted", {<<e, "contradiction">>}))
  BY <1>2, <1>4, <1>5, <1>7
<1>8. CASE Begin(c, Requested(s, e, "unresolved", {<<e, "reopening">>}))
  BY <1>2, <1>4, <1>5, <1>8
<1>9. CASE \E t \in DOMAIN evidence :
             Begin(c, Requested(s, e, "falsified", {<<e, "falsification">>, <<t, "test">>}))
  <2>1. PICK t \in DOMAIN evidence :
          Begin(c, Requested(s, e, "falsified", {<<e, "falsification">>, <<t, "test">>}))
    BY <1>9
  <2>2. \A row \in {<<e, "falsification">>, <<t, "test">>} :
          \E d \in DOMAIN evidence, y \in Relations : row = <<d, y>>
    BY <1>5
  <2> QED BY <1>2, <2>1, <2>2
<1> QED BY <1>3, <1>6, <1>7, <1>8, <1>9

LEMMA LedgerTypes ==
  ASSUME LedgerInv, LedgerTables, LedgerWaiting, [LedgerNext]_<<ledgerVars, req, raced>>
  PROVE  LedgerTables' /\ LedgerWaiting'
<1>1. /\ MaxEvidence \in Nat /\ 0 \in 0..MaxEvidence
      /\ \A e \in DOMAIN evidence : e \in 0..MaxEvidence
  BY LedgerAssumption, EvidenceRecords DEF LedgerAssumption, LedgerTables, EvidenceFits
<1>2. ASSUME NEW c \in Clients, AddEvidence(c) PROVE LedgerTables' /\ LedgerWaiting'
  <2>1. PICK row \in EvidenceRows : evidence' = Append(evidence, First(row))
    BY <1>2 DEF AddEvidence
  <2>2. First(row) \in EvidenceTable
    BY <1>1, <2>1, RowsTyped DEF First, EvidenceTable
  <2>3. LedgerTables' /\ Proposed' = Proposed /\ DOMAIN evidence \subseteq DOMAIN evidence'
    BY <1>2, <2>1, <2>2, EvidenceGrows DEF AddEvidence
  <2> QED BY <1>2, <2>3, PendingStays DEF AddEvidence, Atomically
<1>3. ASSUME NEW c \in Clients, CheckSuccessor(c) PROVE LedgerTables' /\ LedgerWaiting'
  <2>1. PICK row \in EvidenceRows, e \in DOMAIN evidence :
          Begin(c, [op |-> "successor", new |-> [row |-> row, supersedes |-> e]])
    BY <1>3 DEF CheckSuccessor
  <2>2. PICK r : r = [op |-> "successor", new |-> [row |-> row, supersedes |-> e]]
    OBVIOUS
  <2>3. LedgerPending(r)
    BY <1>1, <2>2 DEF LedgerPending
  <2>4. req' = [req EXCEPT ![c] = r] /\ UNCHANGED ledgerVars
    BY <1>3, <2>1, <2>2 DEF Begin, CheckSuccessor
  <2> QED BY <2>3, <2>4, LedgerChecked
<1>4. ASSUME NEW c \in Clients, AddSuccessor(c) PROVE LedgerTables' /\ LedgerWaiting'
  <2>1. PICK r : r = req[c]
    OBVIOUS
  <2>2. r.op = "successor" /\ LedgerPending(r) /\ LedgerRequest(r)
    BY <1>4, <2>1, LedgerReads DEF AddSuccessor, Processing, LedgerWaiting
  <2>3. r.new \in EvidenceType /\ r.new.supersedes \in 0..MaxEvidence
    BY <2>2 DEF LedgerPending, LedgerRequest
  <2>4. r.new \in EvidenceTable
    BY <2>3 DEF EvidenceType, EvidenceTable
  <2>5. LedgerTables' /\ Proposed' = Proposed /\ DOMAIN evidence \subseteq DOMAIN evidence'
    BY <1>4, <2>1, <2>4, EvidenceGrows DEF AddSuccessor
  <2>6. req' = [req EXCEPT ![c] = Idle]
    BY <1>4 DEF AddSuccessor, Commit
  <2> QED BY <2>5, <2>6, PendingReplaced, IdlePending DEF LedgerInv
<1>5. ASSUME NEW c \in Clients, Propose(c) PROVE LedgerTables' /\ LedgerWaiting'
  <2>1. PICK s \in Statements \ Proposed, e \in DOMAIN evidence, status \in Proposals :
          propositions' = [propositions EXCEPT ![s] =
            [NoProposition EXCEPT !.status = status, !.scope = Row(e).scope]]
    BY <1>5 DEF Propose
  <2>2. PICK p : p = [NoProposition EXCEPT !.status = status, !.scope = Row(e).scope]
    OBVIOUS
  <2>3. p.status \in STATUSES /\ p.falsifiedBy \in 0..MaxEvidence
    BY <1>1, <2>2, RowsTyped DEF NoProposition, STATUSES
  <2>4. propositions' = [propositions EXCEPT ![s] = p] /\ evidence' = evidence
        /\ links' = links \cup {}
    BY <1>5, <2>1, <2>2 DEF Propose
  <2>5. LedgerTables' /\ Proposed \subseteq Proposed'
    BY <2>3, <2>4, PropositionWritten
  <2> QED BY <1>5, <2>4, <2>5, PendingStays DEF Propose, Atomically
<1>6. ASSUME NEW c \in Clients, CheckTransition(c) PROVE LedgerTables' /\ LedgerWaiting'
  BY <1>6, TransitionPending
<1>7. ASSUME NEW c \in Clients, Transition(c) PROVE LedgerTables' /\ LedgerWaiting'
  <2>1. PICK r : r = req[c]
    OBVIOUS
  <2>2. r.op = "transition" /\ LedgerPending(r) /\ LedgerRequest(r)
    BY <1>7, <2>1, LedgerReads DEF Transition, Processing, LedgerWaiting
  <2>3. /\ r.s \in Proposed /\ r.rows \subseteq ({r.s} \X (DOMAIN evidence) \X Relations)
        /\ r.new \in STATUSES /\ r.e \in 0..MaxEvidence
    BY <1>1, <2>2 DEF LedgerPending, LedgerRequest, TransitionRequest
  <2>4. r.s \in Statements /\ propositions[r.s].falsifiedBy \in 0..MaxEvidence
    BY <2>3 DEF LedgerTables, Proposed
  <2>5. /\ propositions \in [Statements -> PropositionType] /\ evidence' = evidence
        /\ links' = links \cup r.rows /\ req' = [req EXCEPT ![c] = Idle]
        /\ propositions' = [propositions EXCEPT
             ![r.s].status = r.new,
             ![r.s].falsifiedBy = IF r.new = "falsified" THEN r.e ELSE @]
    BY <1>7, <2>1 DEF Transition, Commit, LedgerInv
  <2>6. PICK p : p = propositions'[r.s]
    OBVIOUS
  <2>7. /\ propositions' = [propositions EXCEPT ![r.s] = p]
        /\ p.status \in STATUSES /\ p.falsifiedBy \in 0..MaxEvidence
    BY <2>3, <2>4, <2>5, <2>6 DEF PropositionType
  <2>8. LedgerTables' /\ Proposed \subseteq Proposed'
    BY <2>3, <2>4, <2>5, <2>7, PropositionWritten
  <2> QED BY <2>5, <2>8, PendingReplaced, IdlePending DEF LedgerInv
<1>8. ASSUME NEW c \in Clients, CheckConfidence(c) PROVE LedgerTables' /\ LedgerWaiting'
  <2>1. PICK s \in Proposed, e \in DOMAIN evidence, confidence \in Confidences :
          Begin(c, [op |-> "confidence", s |-> s, confidence |-> confidence])
    BY <1>8 DEF CheckConfidence
  <2>2. PICK r : r = [op |-> "confidence", s |-> s, confidence |-> confidence]
    OBVIOUS
  <2>3. LedgerPending(r)
    BY <2>2 DEF LedgerPending
  <2>4. req' = [req EXCEPT ![c] = r] /\ UNCHANGED ledgerVars
    BY <1>8, <2>1, <2>2 DEF Begin, CheckConfidence
  <2> QED BY <2>3, <2>4, LedgerChecked
<1>9. ASSUME NEW c \in Clients, RecordConfidence(c) PROVE LedgerTables' /\ LedgerWaiting'
  <2>1. PICK r : r = req[c]
    OBVIOUS
  <2>2. r.op = "confidence" /\ LedgerPending(r)
    BY <1>9, <2>1 DEF RecordConfidence, Processing, LedgerWaiting
  <2>3. r.s \in Proposed
    BY <2>2 DEF LedgerPending
  <2>4. /\ r.s \in Statements /\ propositions[r.s].falsifiedBy \in 0..MaxEvidence
        /\ propositions[r.s].status \in STATUSES
    BY <2>3 DEF LedgerTables, Proposed
  <2>5. /\ propositions \in [Statements -> PropositionType] /\ evidence' = evidence
        /\ links' = links \cup {} /\ req' = [req EXCEPT ![c] = Idle]
        /\ propositions' = [propositions EXCEPT ![r.s].confidence = r.confidence]
    BY <1>9, <2>1 DEF RecordConfidence, Commit, LedgerInv
  <2>6. PICK p : p = propositions'[r.s]
    OBVIOUS
  <2>7. /\ propositions' = [propositions EXCEPT ![r.s] = p]
        /\ p.status \in STATUSES /\ p.falsifiedBy \in 0..MaxEvidence
    BY <2>4, <2>5, <2>6 DEF PropositionType
  <2>8. LedgerTables' /\ Proposed \subseteq Proposed'
    BY <2>4, <2>5, <2>7, PropositionWritten
  <2> QED BY <2>5, <2>8, PendingReplaced, IdlePending DEF LedgerInv
<1>10. ASSUME NEW c \in Clients, CheckSupersede(c) PROVE LedgerTables' /\ LedgerWaiting'
  <2>1. PICK s \in Proposed, by \in Proposed :
          Begin(c, [op |-> "supersede", s |-> s, by |-> by, seen |-> Standing(s)])
    BY <1>10 DEF CheckSupersede
  <2>2. PICK r : r = [op |-> "supersede", s |-> s, by |-> by, seen |-> Standing(s)]
    OBVIOUS
  <2>3. Standing(s)[1] = propositions[s].status /\ propositions[s].status \in STATUSES
    BY Propositions DEF LedgerTables, Proposed
  <2>4. LedgerPending(r)
    BY <2>2, <2>3 DEF LedgerPending
  <2>5. req' = [req EXCEPT ![c] = r] /\ UNCHANGED ledgerVars
    BY <1>10, <2>1, <2>2 DEF Begin, CheckSupersede
  <2> QED BY <2>4, <2>5, LedgerChecked
<1>11. ASSUME NEW c \in Clients, Supersede(c) PROVE LedgerTables' /\ LedgerWaiting'
  <2>1. PICK r : r = req[c]
    OBVIOUS
  <2>2. r.op = "supersede" /\ LedgerPending(r)
    BY <1>11, <2>1 DEF Supersede, Processing, LedgerWaiting
  <2>3. PICK status : status = r.seen[1]
    OBVIOUS
  <2>4. r.s \in Proposed /\ status \in STATUSES
    BY <2>2, <2>3 DEF LedgerPending
  <2>5. r.s \in Statements /\ propositions[r.s].falsifiedBy \in 0..MaxEvidence
    BY <2>4 DEF LedgerTables, Proposed
  <2>6. /\ propositions \in [Statements -> PropositionType] /\ evidence' = evidence
        /\ links' = links \cup {} /\ req' = [req EXCEPT ![c] = Idle]
        /\ propositions' = [propositions EXCEPT
             ![r.s].superseded_by = r.by, ![r.s].status = status]
    BY <1>11, <2>1, <2>3 DEF Supersede, Commit, LedgerInv
  <2>7. PICK p : p = propositions'[r.s]
    OBVIOUS
  <2>8. /\ propositions' = [propositions EXCEPT ![r.s] = p]
        /\ p.status \in STATUSES /\ p.falsifiedBy \in 0..MaxEvidence
    BY <2>4, <2>5, <2>6, <2>7 DEF PropositionType
  <2>9. LedgerTables' /\ Proposed \subseteq Proposed'
    BY <2>5, <2>6, <2>8, PropositionWritten
  <2> QED BY <2>6, <2>9, PendingReplaced, IdlePending DEF LedgerInv
<1>12. ASSUME NEW c \in Clients, Drop(c), UNCHANGED ledgerVars PROVE LedgerTables' /\ LedgerWaiting'
  BY <1>12, LedgerChecked, IdlePending DEF Drop
<1>13. CASE UNCHANGED <<ledgerVars, req, raced>>
  <2>1. UNCHANGED <<evidence, propositions, links>> /\ req' = req /\ Proposed' = Proposed
    BY <1>13 DEF ledgerVars, Proposed
  <2>2. LedgerTables'
    BY <2>1 DEF LedgerTables, EvidenceFits, EvidenceTable, RowType, Relations, STATUSES,
       INITIAL_STATUSES
  <2> QED BY <2>1, <2>2, PendingStays
<1> QED BY <1>2, <1>3, <1>4, <1>5, <1>6, <1>7, <1>8, <1>9, <1>10, <1>11, <1>12, <1>13 DEF LedgerNext

LEMMA LedgerStaysTyped == LedgerSpec => []LedgerTypeOK
<1>1. StoreInit /\ LedgerInit => LedgerInv /\ LedgerTables /\ LedgerWaiting
  <2> SUFFICES ASSUME StoreInit, LedgerInit PROVE LedgerTables /\ LedgerWaiting
    BY LedgerInitially
  <2>1. /\ Recorded \in Seq(RowType) /\ Len(Recorded) \in Nat /\ Len(Recorded) =< MaxEvidence
        /\ DOMAIN Recorded = 1..Len(Recorded) /\ MaxEvidence \in Nat
    <3> HIDE DEF RowType
    <3> QED BY LedgerAssumption DEF LedgerAssumption
  <2>2. \A e \in 1..Len(Recorded) : Recorded[e] \in RowType
    <3> HIDE DEF RowType
    <3> QED BY <2>1
  <2>3. \A e \in 1..Len(Recorded) : First(Recorded[e]) \in EvidenceTable
    BY <2>1, <2>2 DEF First, EvidenceTable
  <2>4. evidence = [e \in 1..Len(Recorded) |-> First(Recorded[e])]
    BY <2>1 DEF LedgerInit
  <2>5. evidence \in Seq(EvidenceTable)
    <3> HIDE DEF EvidenceTable
    <3> QED BY <2>1, <2>3, <2>4, IsASeq
  <2>6. Len(evidence) = Len(Recorded)
    BY <2>1, <2>4
  <2>7. \A s \in Statements : propositions[s] = NoProposition
    BY DEF LedgerInit
  <2>8. Proposed = {} /\ links = {}
    BY <2>7 DEF Proposed, LedgerInit
  <2>9. \A s \in Statements : propositions[s].falsifiedBy \in 0..MaxEvidence
    BY <2>1, <2>7 DEF NoProposition
  <2>10. LedgerTables
    BY <2>1, <2>5, <2>6, <2>8, <2>9 DEF LedgerTables, EvidenceFits
  <2>11. LedgerWaiting
    BY IdlePending DEF StoreInit, LedgerWaiting
  <2> QED BY <2>10, <2>11
<1>2. LedgerInv /\ LedgerTables /\ LedgerWaiting /\ [LedgerNext]_<<ledgerVars, req, raced>> =>
        (LedgerInv /\ LedgerTables /\ LedgerWaiting)'
  BY LedgerStep, LedgerTypes
<1>3. LedgerInv /\ LedgerTables => LedgerTypeOK
  <2> SUFFICES ASSUME LedgerInv, LedgerTables PROVE LedgerTypeOK
    OBVIOUS
  <2>1. propositions \in [Statements -> PropositionType]
    BY DEF LedgerInv
  <2>2. propositions \in [Statements ->
          [status : STATUSES \cup {"none"}, scope : STRING \cup {NoScope},
           confidence : Confidences \cup {Initially}, falsifiedBy : 0..MaxEvidence,
           superseded_by : Statements \cup {Nobody}]]
    BY <2>1 DEF LedgerTables, PropositionType
  <2> QED BY <2>2 DEF LedgerTables, EvidenceFits, EvidenceTable, Relations, LedgerTypeOK
<1> QED BY <1>1, <1>2, <1>3, PTL DEF LedgerSpec

-----------------------------------------------------------------------------
(* The store that they share.                                              *)

\* Each client has a request or none, and only the migrations have one that
\* applies them.
StoreOK ==
  /\ DOMAIN req = Clients /\ raced \in BOOLEAN
  /\ \A c \in Clients : req[c].op # "apply"

\* A client's request is replaced by one that is of another kind.
LEMMA StoreGoesOn ==
  ASSUME StoreOK, NEW c \in Clients, NEW r, r.op # "apply", req' = [req EXCEPT ![c] = r],
         raced' \in BOOLEAN
  PROVE  StoreOK'
BY RequestReplaced DEF StoreOK

LEMMA LedgerStore ==
  ASSUME StoreOK, LedgerNext
  PROVE  StoreOK'
<1>1. ASSUME NEW c \in Clients, AddEvidence(c) PROVE StoreOK'
  BY <1>1 DEF StoreOK, AddEvidence, Begin, Commit, Drop, Atomically, Idle, Processing
<1>2. ASSUME NEW c \in Clients, CheckSuccessor(c) PROVE StoreOK'
  BY <1>2 DEF StoreOK, CheckSuccessor, Begin, Commit, Drop, Atomically, Idle, Processing
<1>3. ASSUME NEW c \in Clients, AddSuccessor(c) PROVE StoreOK'
  BY <1>3 DEF StoreOK, AddSuccessor, Begin, Commit, Drop, Atomically, Idle, Processing
<1>4. ASSUME NEW c \in Clients, Propose(c) PROVE StoreOK'
  BY <1>4 DEF StoreOK, Propose, Begin, Commit, Drop, Atomically, Idle, Processing
<1>5. ASSUME NEW c \in Clients, CheckTransition(c) PROVE StoreOK'
  <2>1. \E s, e, new, rows : Begin(c, Requested(s, e, new, rows))
    BY <1>5, CheckedMoves
  <2>2. PICK s, e, new, rows : Begin(c, Requested(s, e, new, rows))
    BY <2>1
  <2>3. Requested(s, e, new, rows).op = "transition"
    BY MoveFields
  <2> QED BY <2>2, <2>3, StoreGoesOn DEF StoreOK, Begin
<1>6. ASSUME NEW c \in Clients, Transition(c) PROVE StoreOK'
  BY <1>6 DEF StoreOK, Transition, Begin, Commit, Drop, Atomically, Idle, Processing
<1>7. ASSUME NEW c \in Clients, CheckConfidence(c) PROVE StoreOK'
  BY <1>7 DEF StoreOK, CheckConfidence, Begin, Commit, Drop, Atomically, Idle, Processing
<1>8. ASSUME NEW c \in Clients, RecordConfidence(c) PROVE StoreOK'
  BY <1>8 DEF StoreOK, RecordConfidence, Begin, Commit, Drop, Atomically, Idle, Processing
<1>9. ASSUME NEW c \in Clients, CheckSupersede(c) PROVE StoreOK'
  BY <1>9 DEF StoreOK, CheckSupersede, Begin, Commit, Drop, Atomically, Idle, Processing
<1>10. ASSUME NEW c \in Clients, Supersede(c) PROVE StoreOK'
  BY <1>10 DEF StoreOK, Supersede, Begin, Commit, Drop, Atomically, Idle, Processing
<1>11. ASSUME NEW c \in Clients, Drop(c) PROVE StoreOK'
  BY <1>11 DEF StoreOK, Begin, Commit, Drop, Atomically, Idle, Processing
<1> QED BY <1>1, <1>2, <1>3, <1>4, <1>5, <1>6, <1>7, <1>8, <1>9, <1>10, <1>11 DEF LedgerNext

LEMMA SkillStore ==
  ASSUME StoreOK, SkillNext
  PROVE  StoreOK'
<1>1. ASSUME NEW c \in Clients, SleepPromotes(c) PROVE StoreOK'
  BY <1>1 DEF StoreOK, SleepPromotes, Begin, Commit, Drop, Atomically, Idle, Processing
<1>2. ASSUME NEW c \in Clients, CheckObserve(c) PROVE StoreOK'
  BY <1>2 DEF StoreOK, CheckObserve, Begin, Commit, Drop, Atomically, Idle, Processing
<1>3. ASSUME NEW c \in Clients, Observe(c) PROVE StoreOK'
  BY <1>3 DEF StoreOK, Observe, Begin, Commit, Drop, Atomically, Idle, Processing
<1>4. ASSUME NEW c \in Clients, CheckPromote(c) PROVE StoreOK'
  BY <1>4 DEF StoreOK, CheckPromote, Begin, Commit, Drop, Atomically, Idle, Processing
<1>5. ASSUME NEW c \in Clients, CheckEvaluate(c) PROVE StoreOK'
  BY <1>5 DEF StoreOK, CheckEvaluate, Begin, Commit, Drop, Atomically, Idle, Processing
<1>6. ASSUME NEW c \in Clients, CheckDraft(c) PROVE StoreOK'
  BY <1>6 DEF StoreOK, CheckDraft, Begin, Commit, Drop, Atomically, Idle, Processing
<1>7. ASSUME NEW c \in Clients, Recheck(c) PROVE StoreOK'
  BY <1>7 DEF StoreOK, Recheck, Begin, Commit, Drop, Atomically, Idle, Processing
<1>8. ASSUME NEW c \in Clients, Promote(c) PROVE StoreOK'
  BY <1>8 DEF StoreOK, Promote, Begin, Commit, Drop, Atomically, Idle, Processing
<1>9. ASSUME NEW c \in Clients, Evaluate(c) PROVE StoreOK'
  BY <1>9 DEF StoreOK, Evaluate, Begin, Commit, Drop, Atomically, Idle, Processing
<1>10. ASSUME NEW c \in Clients, Draft(c) PROVE StoreOK'
  BY <1>10 DEF StoreOK, Draft, Begin, Commit, Drop, Atomically, Idle, Processing
<1>11. ASSUME NEW c \in Clients, CheckExport(c) PROVE StoreOK'
  BY <1>11 DEF StoreOK, CheckExport, Begin, Commit, Drop, Atomically, Idle, Processing
<1>12. ASSUME NEW c \in Clients, Export(c) PROVE StoreOK'
  BY <1>12 DEF StoreOK, Export, Begin, Commit, Drop, Atomically, Idle, Processing
<1>13. ASSUME NEW c \in Clients, Drop(c) PROVE StoreOK'
  BY <1>13 DEF StoreOK, Begin, Commit, Drop, Atomically, Idle, Processing
<1> QED BY <1>1, <1>2, <1>3, <1>4, <1>5, <1>6, <1>7, <1>8, <1>9, <1>10, <1>11, <1>12, <1>13 DEF SkillNext

LEMMA ToolStore ==
  ASSUME StoreOK, ToolNext
  PROVE  StoreOK'
<1>1. ASSUME NEW c \in Clients, TrustPublisher(c) PROVE StoreOK'
  BY <1>1 DEF StoreOK, TrustPublisher, Begin, Commit, Drop, Atomically, Idle, Processing, Ask, Step, Continue, Stale
<1>2. ASSUME NEW c \in Clients, Register(c) PROVE StoreOK'
  BY <1>2 DEF StoreOK, Register, Begin, Commit, Drop, Atomically, Idle, Processing, Ask, Step, Continue, Stale
<1>3. ASSUME NEW c \in Clients, SetLifecycle(c) PROVE StoreOK'
  BY <1>3 DEF StoreOK, SetLifecycle, Begin, Commit, Drop, Atomically, Idle, Processing, Ask, Step, Continue, Stale
<1>4. ASSUME NEW c \in Clients, CheckVerify(c) PROVE StoreOK'
  BY <1>4 DEF StoreOK, CheckVerify, Begin, Commit, Drop, Atomically, Idle, Processing, Ask, Step, Continue, Stale
<1>5. ASSUME NEW c \in Clients, Verify(c) PROVE StoreOK'
  BY <1>5 DEF StoreOK, Verify, Begin, Commit, Drop, Atomically, Idle, Processing, Ask, Step, Continue, Stale
<1>6. ASSUME NEW c \in Clients, CheckInstall(c) PROVE StoreOK'
  BY <1>6 DEF StoreOK, CheckInstall, Begin, Commit, Drop, Atomically, Idle, Processing, Ask, Step, Continue, Stale
<1>7. ASSUME NEW c \in Clients, StartCopy(c) PROVE StoreOK'
  BY <1>7 DEF StoreOK, StartCopy, Begin, Commit, Drop, Atomically, Idle, Processing, Ask, Step, Continue, Stale
<1>8. ASSUME NEW c \in Clients, EndCopy(c) PROVE StoreOK'
  <2>1. CASE req' = [req EXCEPT ![c].step = 3]
    BY <1>8, <2>1 DEF StoreOK, EndCopy, Step, Processing
  <2>2. CASE req' = [req EXCEPT ![c] = Idle]
    BY <1>8, <2>2 DEF StoreOK, EndCopy, Step, Processing, Idle
  <2> QED BY <1>8, <2>1, <2>2 DEF EndCopy
<1>9. ASSUME NEW c \in Clients, Install(c) PROVE StoreOK'
  BY <1>9 DEF StoreOK, Install, Begin, Commit, Drop, Atomically, Idle, Processing, Ask, Step, Continue, Stale
<1>10. ASSUME NEW c \in Clients, CheckActivate(c) PROVE StoreOK'
  BY <1>10 DEF StoreOK, CheckActivate, Begin, Commit, Drop, Atomically, Idle, Processing, Ask, Step, Continue, Stale
<1>11. ASSUME NEW c \in Clients, Activate(c) PROVE StoreOK'
  BY <1>11 DEF StoreOK, Activate, Begin, Commit, Drop, Atomically, Idle, Processing, Ask, Step, Continue, Stale
<1>12. ASSUME NEW c \in Clients, CheckDeactivate(c) PROVE StoreOK'
  BY <1>12 DEF StoreOK, CheckDeactivate, Begin, Commit, Drop, Atomically, Idle, Processing, Ask, Step, Continue, Stale
<1>13. ASSUME NEW c \in Clients, Deactivate(c) PROVE StoreOK'
  BY <1>13 DEF StoreOK, Deactivate, Begin, Commit, Drop, Atomically, Idle, Processing, Ask, Step, Continue, Stale
<1>14. ASSUME NEW c \in Clients, CheckUninstall(c) PROVE StoreOK'
  BY <1>14 DEF StoreOK, CheckUninstall, Begin, Commit, Drop, Atomically, Idle, Processing, Ask, Step, Continue, Stale
<1>15. ASSUME NEW c \in Clients, Unlink(c) PROVE StoreOK'
  BY <1>15 DEF StoreOK, Unlink, Begin, Commit, Drop, Atomically, Idle, Processing, Ask, Step, Continue, Stale
<1>16. ASSUME NEW c \in Clients, Uninstall(c) PROVE StoreOK'
  BY <1>16 DEF StoreOK, Uninstall, Begin, Commit, Drop, Atomically, Idle, Processing, Ask, Step, Continue, Stale
<1>17. ASSUME NEW c \in Clients, Drop(c) PROVE StoreOK'
  BY <1>17 DEF StoreOK, Begin, Commit, Drop, Atomically, Idle, Processing
<1> QED BY <1>1, <1>2, <1>3, <1>4, <1>5, <1>6, <1>7, <1>8, <1>9, <1>10, <1>11, <1>12, <1>13, <1>14, <1>15, <1>16, <1>17 DEF ToolNext

LEMMA SourcesStore ==
  ASSUME StoreOK, SourcesNext
  PROVE  StoreOK'
<1>1. ASSUME NEW c \in Clients, CheckSource(c) PROVE StoreOK'
  BY <1>1 DEF StoreOK, CheckSource, Begin, Commit, Drop, Atomically, Idle, Processing
<1>2. ASSUME NEW c \in Clients, StartBlob(c) PROVE StoreOK'
  BY <1>2 DEF StoreOK, StartBlob, Begin, Commit, Drop, Atomically, Idle, Processing
<1>3. ASSUME NEW c \in Clients, EndBlob(c) PROVE StoreOK'
  BY <1>3 DEF StoreOK, EndBlob, Begin, Commit, Drop, Atomically, Idle, Processing
<1>4. ASSUME NEW c \in Clients, InsertSource(c) PROVE StoreOK'
  BY <1>4 DEF StoreOK, InsertSource, Begin, Commit, Drop, Atomically, Idle, Processing
<1>5. ASSUME NEW c \in Clients, CheckSpan(c) PROVE StoreOK'
  BY <1>5 DEF StoreOK, CheckSpan, Begin, Commit, Drop, Atomically, Idle, Processing
<1>6. ASSUME NEW c \in Clients, InsertSpan(c) PROVE StoreOK'
  BY <1>6 DEF StoreOK, InsertSpan, Begin, Commit, Drop, Atomically, Idle, Processing
<1>7. ASSUME NEW c \in Clients, CheckTombstone(c) PROVE StoreOK'
  BY <1>7 DEF StoreOK, CheckTombstone, Begin, Commit, Drop, Atomically, Idle, Processing
<1>8. ASSUME NEW c \in Clients, Tombstone(c) PROVE StoreOK'
  BY <1>8 DEF StoreOK, Tombstone, Begin, Commit, Drop, Atomically, Idle, Processing
<1>9. ASSUME NEW c \in Clients, Drop(c) PROVE StoreOK'
  BY <1>9 DEF StoreOK, Begin, Commit, Drop, Atomically, Idle, Processing
<1> QED BY <1>1, <1>2, <1>3, <1>4, <1>5, <1>6, <1>7, <1>8, <1>9 DEF SourcesNext

LEMMA CapabilityStore ==
  ASSUME StoreOK, CapabilityNext
  PROVE  StoreOK'
<1>1. ASSUME NEW c \in Clients, CheckConfigure(c) PROVE StoreOK'
  BY <1>1 DEF StoreOK, CheckConfigure, Begin, Commit, Drop, Atomically, Idle, Processing
<1>2. ASSUME NEW c \in Clients, Configure(c) PROVE StoreOK'
  BY <1>2 DEF StoreOK, Configure, Begin, Commit, Drop, Atomically, Idle, Processing
<1>3. ASSUME NEW c \in Clients, CheckLifecycle(c) PROVE StoreOK'
  BY <1>3 DEF StoreOK, CheckLifecycle, Begin, Commit, Drop, Atomically, Idle, Processing
<1>4. ASSUME NEW c \in Clients, SetCapability(c) PROVE StoreOK'
  BY <1>4 DEF StoreOK, SetCapability, Begin, Commit, Drop, Atomically, Idle, Processing
<1>5. ASSUME NEW c \in Clients, StartInvocation(c) PROVE StoreOK'
  BY <1>5 DEF StoreOK, StartInvocation, Begin, Commit, Drop, Atomically, Idle, Processing
<1>6. ASSUME NEW c \in Clients, EndInvocation(c) PROVE StoreOK'
  BY <1>6 DEF StoreOK, EndInvocation, Begin, Commit, Drop, Atomically, Idle, Processing
<1>7. ASSUME NEW c \in Clients, Restart(c) PROVE StoreOK'
  BY <1>7 DEF StoreOK, Restart, Begin, Commit, Drop, Atomically, Idle, Processing
<1>8. ASSUME NEW c \in Clients, Drop(c) PROVE StoreOK'
  BY <1>8 DEF StoreOK, Begin, Commit, Drop, Atomically, Idle, Processing
<1> QED BY <1>1, <1>2, <1>3, <1>4, <1>5, <1>6, <1>7, <1>8 DEF CapabilityNext

LEMMA ImmuneStore ==
  ASSUME StoreOK, ImmuneNext
  PROVE  StoreOK'
<1>1. ASSUME NEW c \in Clients, CheckAgents(c) PROVE StoreOK'
  BY <1>1 DEF StoreOK, CheckAgents, Begin, Commit, Drop, Atomically, Idle, Processing
<1>2. ASSUME NEW c \in Clients, EnsureAgents(c) PROVE StoreOK'
  BY <1>2 DEF StoreOK, EnsureAgents, Begin, Commit, Drop, Atomically, Idle, Processing
<1>3. ASSUME NEW c \in Clients, Process(c) PROVE StoreOK'
  BY <1>3 DEF StoreOK, Process, Begin, Commit, Drop, Atomically, Idle, Processing
<1>4. ASSUME NEW c \in Clients, RecordFalsePositive(c) PROVE StoreOK'
  BY <1>4 DEF StoreOK, RecordFalsePositive, Begin, Commit, Drop, Atomically, Idle, Processing
<1>5. ASSUME NEW c \in Clients, CheckRetire(c) PROVE StoreOK'
  <2>1. PICK a \in Investigators : Begin(c, [op |-> "retire agent", a |-> a])
    BY <1>5 DEF CheckRetire
  <2> QED BY <2>1, StoreGoesOn DEF StoreOK, Begin
<1>6. ASSUME NEW c \in Clients, RetireAgent(c) PROVE StoreOK'
  BY <1>6 DEF StoreOK, RetireAgent, Begin, Commit, Drop, Atomically, Idle, Processing
<1>7. ASSUME NEW c \in Clients, Drop(c) PROVE StoreOK'
  BY <1>7 DEF StoreOK, Begin, Commit, Drop, Atomically, Idle, Processing
<1> QED BY <1>1, <1>2, <1>3, <1>4, <1>5, <1>6, <1>7 DEF ImmuneNext, ImmuneStep

LEMMA DetectionStore ==
  ASSUME StoreOK, DetectionNext
  PROVE  StoreOK'
<1>1. ASSUME NEW c \in Clients, Calibrate(c) PROVE StoreOK'
  BY <1>1 DEF StoreOK, Calibrate, Begin, Commit, Drop, Atomically, Idle, Processing, NextStep, Evaluating
<1>2. ASSUME NEW c \in Clients, Downweight(c) PROVE StoreOK'
  BY <1>2 DEF StoreOK, Downweight, Begin, Commit, Drop, Atomically, Idle, Processing, NextStep, Evaluating
<1>3. ASSUME NEW c \in Clients, CheckEvaluation(c) PROVE StoreOK'
  BY <1>3 DEF StoreOK, CheckEvaluation, Begin, Commit, Drop, Atomically, Idle, Processing, NextStep, Evaluating
<1>4. ASSUME NEW c \in Clients, StartKnn(c) PROVE StoreOK'
  BY <1>4 DEF StoreOK, StartKnn, Begin, Commit, Drop, Atomically, Idle, Processing, NextStep, Evaluating
<1>5. ASSUME NEW c \in Clients, EndKnn(c) PROVE StoreOK'
  BY <1>5 DEF StoreOK, EndKnn, Begin, Commit, Drop, Atomically, Idle, Processing, NextStep, Evaluating
<1>6. ASSUME NEW c \in Clients, InsertWindow(c) PROVE StoreOK'
  BY <1>6 DEF StoreOK, InsertWindow, Begin, Commit, Drop, Atomically, Idle, Processing, NextStep, Evaluating
<1>7. ASSUME NEW c \in Clients, Recommend(c) PROVE StoreOK'
  <2>1. CASE NextStep(c, "wake")
    BY <1>7, <2>1 DEF StoreOK, Recommend, NextStep, Evaluating, Processing
  <2>2. CASE Commit(c, FALSE)
    BY <2>2 DEF StoreOK, Commit, Idle
  <2> QED BY <1>7, <2>1, <2>2 DEF Recommend
<1>8. ASSUME NEW c \in Clients, WakeImmune(c) PROVE StoreOK'
  BY <1>8 DEF StoreOK, WakeImmune, Begin, Commit, Drop, Atomically, Idle, Processing, NextStep, Evaluating
<1>9. ASSUME NEW c \in Clients, CheckLifecycle(c) PROVE StoreOK'
  BY <1>9 DEF StoreOK, CheckLifecycle, Begin, Commit, Drop, Atomically, Idle, Processing, NextStep, Evaluating
<1>10. ASSUME NEW c \in Clients, SetCapability(c) PROVE StoreOK'
  BY <1>10 DEF StoreOK, SetCapability, Begin, Commit, Drop, Atomically, Idle, Processing, NextStep, Evaluating
<1>11. ASSUME NEW c \in Clients, Drop(c) PROVE StoreOK'
  BY <1>11 DEF StoreOK, Begin, Commit, Drop, Atomically, Idle, Processing
<1> QED BY <1>1, <1>2, <1>3, <1>4, <1>5, <1>6, <1>7, <1>8, <1>9, <1>10, <1>11 DEF DetectionNext

LEMMA PolicyStore ==
  ASSUME StoreOK, PolicyNext
  PROVE  StoreOK'
<1>1. ASSUME NEW c \in Clients, CheckRequest(c) PROVE StoreOK'
  BY <1>1 DEF StoreOK, CheckRequest, Begin, Commit, Drop, Atomically, Idle, Processing
<1>2. ASSUME NEW c \in Clients, RecordEvaluation(c) PROVE StoreOK'
  BY <1>2 DEF StoreOK, RecordEvaluation, Begin, Commit, Drop, Atomically, Idle, Processing
<1>3. ASSUME NEW c \in Clients, Drop(c) PROVE StoreOK'
  BY <1>3 DEF StoreOK, Begin, Commit, Drop, Atomically, Idle, Processing
<1> QED BY <1>1, <1>2, <1>3 DEF PolicyNext

LEMMA BundleStore ==
  ASSUME StoreOK, BundleNext
  PROVE  StoreOK'
<1>1. ASSUME NEW c \in Clients, Build(c) PROVE StoreOK'
  BY <1>1 DEF StoreOK, Build, Begin, Commit, Drop, Atomically, Idle, Processing, GoOn, Publishing
<1>2. ASSUME NEW c \in Clients, LookAtOutput(c) PROVE StoreOK'
  <2>1. ASSUME NEW step, GoOn(c, step) PROVE StoreOK'
    BY <1>2, <2>1 DEF StoreOK, LookAtOutput, GoOn, Publishing, Processing
  <2>2. CASE Commit(c, FALSE)
    BY <2>2 DEF StoreOK, Commit, Idle
  <2> QED BY <1>2, <2>1, <2>2 DEF LookAtOutput
<1>3. ASSUME NEW c \in Clients, MoveAside(c) PROVE StoreOK'
  <2>1. CASE output = Nothing
    BY <1>3, <2>1 DEF StoreOK, MoveAside, Commit, Idle
  <2>2. CASE output # Nothing
    <3>1. PICK r : r = [req[c] EXCEPT !.step = "rename", !.backup = output]
      OBVIOUS
    <3>2. req[c].op = "publish"
      BY <1>3 DEF MoveAside, Publishing, Processing
    <3>3. r.op = req[c].op
      BY <3>1
    <3>4. req' = [req EXCEPT ![c].step = "rename", ![c].backup = output] /\ raced' = raced
      BY <1>3, <2>2 DEF MoveAside
    <3>5. req' = [req EXCEPT ![c] = r]
      BY <3>1, <3>4 DEF StoreOK
    <3> QED BY <3>2, <3>3, <3>4, <3>5, StoreGoesOn DEF StoreOK
  <2> QED BY <2>1, <2>2
<1>4. ASSUME NEW c \in Clients, Rename(c) PROVE StoreOK'
  BY <1>4 DEF StoreOK, Rename, Begin, Commit, Drop, Atomically, Idle, Processing, GoOn, Publishing
<1>5. ASSUME NEW c \in Clients, Restore(c) PROVE StoreOK'
  BY <1>5 DEF StoreOK, Restore, Begin, Commit, Drop, Atomically, Idle, Processing, GoOn, Publishing
<1>6. ASSUME NEW c \in Clients, RemoveBackup(c) PROVE StoreOK'
  BY <1>6 DEF StoreOK, RemoveBackup, Begin, Commit, Drop, Atomically, Idle, Processing, GoOn, Publishing
<1>7. ASSUME NEW c \in Clients, DieBuilding(c) PROVE StoreOK'
  BY <1>7 DEF StoreOK, DieBuilding, Begin, Commit, Drop, Atomically, Idle, Processing, GoOn, Publishing
<1> QED BY <1>1, <1>2, <1>3, <1>4, <1>5, <1>6, <1>7 DEF BundleNext

LEMMA SessionStore ==
  ASSUME StoreOK, SessionNext
  PROVE  StoreOK'
<1>1. ASSUME NEW c \in Clients, ReadPrevious(c) PROVE StoreOK'
  BY <1>1 DEF StoreOK, ReadPrevious, Begin, Commit, Drop, Atomically, Idle, Processing
<1>2. ASSUME NEW c \in Clients, StartSession(c) PROVE StoreOK'
  BY <1>2 DEF StoreOK, StartSession, Begin, Commit, Drop, Atomically, Idle, Processing
<1>3. ASSUME NEW c \in Clients, Succeed(c) PROVE StoreOK'
  BY <1>3 DEF StoreOK, Succeed, Begin, Commit, Drop, Atomically, Idle, Processing
<1>4. ASSUME NEW c \in Clients, Fail(c) PROVE StoreOK'
  BY <1>4 DEF StoreOK, Fail, Begin, Commit, Drop, Atomically, Idle, Processing
<1>5. ASSUME NEW c \in Clients, Drop(c) PROVE StoreOK'
  BY <1>5 DEF StoreOK, Begin, Commit, Drop, Atomically, Idle, Processing
<1> QED BY <1>1, <1>2, <1>3, <1>4, <1>5 DEF SessionNext

-----------------------------------------------------------------------------
(* The services together: while one runs, the others rest.                 *)

LEMMA LedgerRuns == Spec /\ part = "ledger" => LedgerSpec /\ [](part = "ledger")
<1>1. Init /\ part = "ledger" => StoreInit /\ LedgerInit
  BY DEF Init
<1>2. [Next]_vars /\ part = "ledger" => [LedgerNext]_<<ledgerVars, req, raced>> /\ (part = "ledger")'
  BY DEF Next, vars, Registers, Others
<1> QED BY <1>1, <1>2, PTL DEF Spec, LedgerSpec

LEMMA SkillRuns == Spec /\ part = "skills" => SkillSpec /\ [](part = "skills")
<1>1. Init /\ part = "skills" => StoreInit /\ SkillInit
  BY DEF Init
<1>2. [Next]_vars /\ part = "skills" => [SkillNext]_<<skillVars, req, raced>> /\ (part = "skills")'
  BY DEF Next, vars, Registers, Others
<1> QED BY <1>1, <1>2, PTL DEF Spec, SkillSpec

LEMMA ToolRuns == Spec /\ part = "tools" => ToolSpec /\ [](part = "tools")
<1>1. Init /\ part = "tools" => StoreInit /\ ToolInit
  BY DEF Init
<1>2. [Next]_vars /\ part = "tools" => [ToolNext]_<<toolVars, req, raced>> /\ (part = "tools")'
  BY DEF Next, vars, Registers, Others
<1> QED BY <1>1, <1>2, PTL DEF Spec, ToolSpec

LEMMA SourcesRuns == Spec /\ part = "sources" => SourcesSpec /\ [](part = "sources")
<1>1. Init /\ part = "sources" => StoreInit /\ SourcesInit
  BY DEF Init
<1>2. [Next]_vars /\ part = "sources" => [SourcesNext]_<<sourceVars, req, raced>> /\ (part = "sources")'
  BY DEF Next, vars, Registers, Others
<1> QED BY <1>1, <1>2, PTL DEF Spec, SourcesSpec

LEMMA SchemaRuns == Spec /\ part = "schema" => SchemaSpec /\ [](part = "schema")
<1>1. Init /\ part = "schema" => StoreInit /\ SchemaInit
  BY DEF Init
<1>2. [Next]_vars /\ part = "schema" => [SchemaNext]_<<schemaVars, req, raced>> /\ (part = "schema")'
  BY DEF Next, vars, Registers, Others
<1> QED BY <1>1, <1>2, PTL DEF Spec, SchemaSpec

LEMMA CapabilityRuns == Spec /\ part = "capability" => CapabilitySpec /\ [](part = "capability")
<1>1. Init /\ part = "capability" => StoreInit /\ CapabilityInit
  BY DEF Init
<1>2. [Next]_vars /\ part = "capability" => [CapabilityNext]_<<capabilityVars, req, raced>> /\ (part = "capability")'
  BY DEF Next, vars, Registers, Others, detectionVars
<1> QED BY <1>1, <1>2, PTL DEF Spec, CapabilitySpec

LEMMA ImmuneRuns == Spec /\ part = "immune" => ImmuneSpec /\ [](part = "immune")
<1>1. Init /\ part = "immune" => StoreInit /\ ImmuneInit
  BY DEF Init
<1>2. [Next]_vars /\ part = "immune" => [ImmuneNext]_<<immuneVars, req, raced>> /\ (part = "immune")'
  BY DEF Next, vars, Registers, Others, detectionVars
<1> QED BY <1>1, <1>2, PTL DEF Spec, ImmuneSpec

LEMMA DetectionRuns == Spec /\ part = "detection" => DetectionSpec /\ [](part = "detection")
<1>1. Init /\ part = "detection" => StoreInit /\ DetectionInit
  BY DEF Init
<1>2. [Next]_vars /\ part = "detection" => [DetectionNext]_<<detectionVars, req, raced>> /\ (part = "detection")'
  BY DEF Next, vars, Registers, Others
<1> QED BY <1>1, <1>2, PTL DEF Spec, DetectionSpec

LEMMA PolicyRuns == Spec /\ part = "policy" => PolicySpec /\ [](part = "policy")
<1>1. Init /\ part = "policy" => StoreInit /\ PolicyInit
  BY DEF Init, PolicyInit
<1>2. [Next]_vars /\ part = "policy" => [PolicyNext]_<<policyVars, req, raced>> /\ (part = "policy")'
  BY DEF Next, vars, Registers, Others
<1> QED BY <1>1, <1>2, PTL DEF Spec, PolicySpec

LEMMA PublicationRuns == Spec /\ part = "publication" => PublicationSpec /\ [](part = "publication")
<1>1. Init /\ part = "publication" => StoreInit /\ BundleInit
  BY DEF Init
<1>2. [Next]_vars /\ part = "publication" => [BundleNext]_<<bundleVars, req, raced>> /\ (part = "publication")'
  BY DEF Next, vars, Registers, Others
<1> QED BY <1>1, <1>2, PTL DEF Spec, PublicationSpec

LEMMA SessionRuns == Spec /\ part = "session" => SessionSpec /\ [](part = "session")
<1>1. Init /\ part = "session" => StoreInit /\ SessionInit
  BY DEF Init
<1>2. [Next]_vars /\ part = "session" => [SessionNext]_<<sessionVars, req, raced>> /\ (part = "session")'
  BY DEF Next, vars, Registers, Others
<1> QED BY <1>1, <1>2, PTL DEF Spec, SessionSpec

LEMMA SchemaStore ==
  ASSUME DOMAIN req = Clients, raced \in BOOLEAN, SchemaNext
  PROVE  DOMAIN req' = Clients /\ raced' \in BOOLEAN
<1> DEFINE P == DOMAIN req' = Clients /\ raced' \in BOOLEAN
<1>1. ASSUME NEW c \in Clients, CheckLegacy(c) PROVE P
  BY <1>1 DEF CheckLegacy, Begin, Commit, Drop, Atomically, Idle, Processing, Applying
<1>2. ASSUME NEW c \in Clients, Renumber(c) PROVE P
  BY <1>2 DEF Renumber, Begin, Commit, Drop, Atomically, Idle, Processing, Applying
<1>3. ASSUME NEW c \in Clients, ReadVersions(c) PROVE P
  BY <1>3 DEF ReadVersions, Begin, Commit, Drop, Atomically, Idle, Processing, Applying
<1>4. ASSUME NEW c \in Clients, Migrate(c) PROVE P
  BY <1>4 DEF Migrate, Begin, Commit, Drop, Atomically, Idle, Processing, Applying
<1>5. ASSUME NEW c \in Clients, Migrated(c) PROVE P
  BY <1>5 DEF Migrated, Begin, Commit, Drop, Atomically, Idle, Processing, Applying
<1>6. ASSUME NEW c \in Clients, StartRollback(c) PROVE P
  BY <1>6 DEF StartRollback, Begin, Commit, Drop, Atomically, Idle, Processing, Applying
<1>7. ASSUME NEW c \in Clients, DropObject(c) PROVE P
  BY <1>7 DEF DropObject, Begin, Commit, Drop, Atomically, Idle, Processing, Applying
<1>8. ASSUME NEW c \in Clients, EndRollback(c) PROVE P
  BY <1>8 DEF EndRollback, Begin, Commit, Drop, Atomically, Idle, Processing, Applying
<1>9. ASSUME NEW c \in Clients, Die(c) PROVE P
  BY <1>9 DEF Die, Begin, Commit, Drop, Atomically, Idle, Processing, Applying
<1> QED BY <1>1, <1>2, <1>3, <1>4, <1>5, <1>6, <1>7, <1>8, <1>9 DEF SchemaNext

\* Whichever service runs, its requests are of its clients.
StoreInv ==
  /\ DOMAIN req = Clients /\ raced \in BOOLEAN
  /\ part # "schema" => \A c \in Clients : req[c].op # "apply"

LEMMA StoreStays == Spec => []StoreInv
<1>1. Init => StoreInv
  <2> SUFFICES ASSUME StoreInit PROVE StoreInv
    BY DEF Init
  <2>1. DOMAIN req = Clients /\ raced = FALSE /\ \A c \in Clients : req[c].op = "none"
    BY DEF StoreInit, Idle
  <2> QED BY <2>1 DEF StoreInv
<1>2. StoreInv /\ [Next]_vars => StoreInv'
  <2> SUFFICES ASSUME StoreInv, [Next]_vars PROVE StoreInv'
    OBVIOUS
  <2>1. CASE part = "schema" /\ SchemaNext /\ UNCHANGED part
    BY <2>1, SchemaStore DEF StoreInv
  <2>2. CASE part # "schema" /\ UNCHANGED part
    <3>1. StoreOK
      BY <2>2 DEF StoreInv, StoreOK
    <3>2. \/ LedgerNext \/ SkillNext \/ ToolNext \/ SourcesNext \/ CapabilityNext \/ ImmuneNext
          \/ DetectionNext \/ PolicyNext \/ BundleNext \/ SessionNext
          \/ UNCHANGED <<req, raced>>
      BY <2>2 DEF Next, vars
    <3>3. CASE UNCHANGED <<req, raced>>
      BY <2>2, <3>3 DEF StoreInv
    <3>4. StoreOK' => StoreInv'
      BY DEF StoreOK, StoreInv
    <3> QED BY <3>1, <3>2, <3>3, <3>4, LedgerStore, SkillStore, ToolStore, SourcesStore,
               CapabilityStore, ImmuneStore, DetectionStore, PolicyStore, BundleStore, SessionStore
  <2>3. CASE UNCHANGED vars
    BY <2>3 DEF StoreInv, vars
  <2> QED BY <2>1, <2>2, <2>3 DEF Next
<1> QED BY <1>1, <1>2, PTL DEF Spec

\* Of each part, its type in ServicesTypeOK.
PartTyped ==
  /\ part = "ledger" => LedgerTypeOK
  /\ part = "skills" => SkillTypeOK
  /\ part = "tools" => ToolTypeOK
  /\ part = "sources" => SourcesTypeOK
  /\ part = "schema" => SchemaTypeOK
  /\ part = "capability" => CapabilityTypeOK
  /\ part = "immune" => ImmuneTypeOK
  /\ part = "detection" => CapabilityTypeOK /\ ImmuneTypeOK /\ DetectionTypeOK
  /\ part = "policy" => PolicyTypeOK
  /\ part = "publication" => BundleTypeOK
  /\ part = "session" => SessionTypeOK

LEMMA PartsStayTyped == Spec => []PartTyped
<1>1. Init => part \in Parts
  BY DEF Init
<1>2. Spec /\ part = "ledger" => []PartTyped
  <2>1. part = "ledger" /\ LedgerTypeOK => PartTyped
    BY DEF PartTyped
  <2> QED BY <2>1, LedgerRuns, LedgerStaysTyped, PTL
<1>3. Spec /\ part = "skills" => []PartTyped
  <2>1. part = "skills" /\ SkillTypeOK => PartTyped
    BY DEF PartTyped
  <2> QED BY <2>1, SkillRuns, SkillsStayTyped, PTL
<1>4. Spec /\ part = "tools" => []PartTyped
  <2>1. part = "tools" /\ ToolTypeOK => PartTyped
    BY DEF PartTyped
  <2> QED BY <2>1, ToolRuns, ToolsStayTyped, PTL
<1>5. Spec /\ part = "sources" => []PartTyped
  <2>1. part = "sources" /\ SourcesInv => PartTyped
    BY DEF PartTyped, SourcesInv
  <2> QED BY <2>1, SourcesRuns, SourcesInvariant, PTL
<1>6. Spec /\ part = "schema" => []PartTyped
  <2>1. part = "schema" /\ SchemaTypeOK => PartTyped
    BY DEF PartTyped
  <2> QED BY <2>1, SchemaRuns, SchemaStaysTyped, PTL
<1>7. Spec /\ part = "capability" => []PartTyped
  <2>1. part = "capability" /\ CapabilityInv => PartTyped
    BY DEF PartTyped, CapabilityInv
  <2> QED BY <2>1, CapabilityRuns, CapabilityInvariant, PTL
<1>8. Spec /\ part = "immune" => []PartTyped
  <2>1. part = "immune" /\ ImmuneTypeOK => PartTyped
    BY DEF PartTyped
  <2> QED BY <2>1, ImmuneRuns, ImmuneStaysTyped, PTL
<1>9. Spec /\ part = "detection" => []PartTyped
  <2>1. part = "detection" /\ (CapabilityTypeOK /\ ImmuneTypeOK /\ DetectionTypeOK) => PartTyped
    BY DEF PartTyped
  <2> QED BY <2>1, DetectionRuns, EngineStaysTyped, PTL
<1>10. Spec /\ part = "policy" => []PartTyped
  <2>1. part = "policy" /\ PolicyTypeOK => PartTyped
    BY DEF PartTyped
  <2> QED BY <2>1, PolicyRuns, PolicyStaysTyped, PTL
<1>11. Spec /\ part = "publication" => []PartTyped
  <2>1. part = "publication" /\ BundleInv => PartTyped
    BY DEF PartTyped, BundleInv
  <2> QED BY <2>1, PublicationRuns, BundleInvariant, PTL
<1>12. Spec /\ part = "session" => []PartTyped
  <2>1. part = "session" /\ SessionInv => PartTyped
    BY DEF PartTyped, SessionInv
  <2> QED BY <2>1, SessionRuns, SessionInvariant, PTL
<1>13. Spec => \/ part = "ledger" \/ part = "skills" \/ part = "tools" \/ part = "sources"
               \/ part = "schema" \/ part = "capability" \/ part = "immune" \/ part = "detection"
               \/ part = "policy" \/ part = "publication" \/ part = "session"
  BY <1>1 DEF Spec, Parts
<1> QED BY <1>2, <1>3, <1>4, <1>5, <1>6, <1>7, <1>8, <1>9, <1>10, <1>11, <1>12, <1>13, PTL

\* Whatever the clients of a service do, and wherever they die, its tables, its
\* files and the history hold what the code can put there, and each bounded
\* table stays within its bound.
THEOREM ServicesStayTyped == Spec => []ServicesTypeOK
<1>1. Spec => [](part \in Parts)
  <2>1. Init => part \in Parts
    BY DEF Init
  <2>2. part \in Parts /\ [Next]_vars => (part \in Parts)'
    BY DEF Next, vars, Parts
  <2> QED BY <2>1, <2>2, PTL DEF Spec
<1>2. part \in Parts /\ StoreInv /\ PartTyped => ServicesTypeOK
  BY DEF Parts, StoreInv, PartTyped, ServicesTypeOK
<1> QED BY <1>1, <1>2, StoreStays, PartsStayTyped, PTL

\* A ledger that no client writes is empty but for what was recorded.
LEMMA LedgerPromise == Spec => BeliefsAreEarned
<1>1. Spec /\ part = "ledger" => BeliefsAreEarned
  BY LedgerRuns, BeliefsStayEarned, PTL
<1>2. Init => LedgerInit
  BY DEF Init
<1>3. ~(part = "ledger") /\ [Next]_vars => (~(part = "ledger"))' /\ UNCHANGED ledgerVars
  BY DEF Next, vars, Registers
<1>4. LedgerInit /\ UNCHANGED ledgerVars => LedgerInit'
  BY DEF LedgerInit, ledgerVars, First, NoProposition, Initially
<1>5. LedgerInit => StatusIsEarned /\ SupersessionsEnd
  <2> SUFFICES ASSUME LedgerInit PROVE StatusIsEarned /\ SupersessionsEnd
    OBVIOUS
  <2>1. Proposed = {}
    BY DEF LedgerInit, Proposed
  <2>2. \A s \in Statements : propositions[s].superseded_by \notin Statements
    BY LedgerAssumption DEF LedgerAssumption, LedgerInit, NoProposition
  <2> QED BY <2>1, <2>2 DEF StatusIsEarned, SupersessionsEnd
<1>6. UNCHANGED ledgerVars =>
        [ raced' \/ \A s \in Proposed :
            /\ ~Open(s) => propositions'[s] = propositions[s]
            /\ propositions[s].status = "falsified" /\ propositions'[s].status # "falsified"
                 => /\ propositions'[s].status = "unresolved"
                    /\ \E e \in Linked(s, "reopening")' : e > propositions[s].falsifiedBy
        ]_<<ledgerVars, req, raced>>
  BY DEF ledgerVars
<1> QED BY <1>1, <1>2, <1>3, <1>4, <1>5, <1>6, PTL DEF Spec, BeliefsAreEarned, ClosedStaysClosed

\* A candidate that nobody promotes stays one.
LEMMA SkillPromise == Spec => PromotionIsEarned
<1>1. Spec /\ part = "skills" => PromotionIsEarned
  BY SkillRuns, PromotionStaysEarned, PTL
<1>2. Init => SkillInit
  BY DEF Init
<1>3. ~(part = "skills") /\ [Next]_vars => (~(part = "skills"))' /\ UNCHANGED skillVars
  BY DEF Next, vars, Registers
<1>4. SkillInit /\ UNCHANGED skillVars => SkillInit'
  BY DEF SkillInit, skillVars
<1>5. SkillInit => SkillsAreProven
  BY DEF SkillInit, SkillsAreProven, Active
<1>6. UNCHANGED skillVars =>
        [ raced' \/ skill' = skill \/ <<skill, skill'>> \in
            { <<"candidate", "repeated_evidence">>, <<"repeated_evidence", "drafted_skill">>,
              <<"drafted_skill", "held_out_evaluation">>, <<"drafted_skill", "rejected">>,
              <<"held_out_evaluation", "approved">>, <<"held_out_evaluation", "rejected">>,
              <<"approved", "retired">> } ]_<<skillVars, req, raced>>
  BY DEF skillVars
<1> QED BY <1>1, <1>2, <1>3, <1>4, <1>5, <1>6, PTL DEF Spec, PromotionIsEarned, PromotionIsOneWay

\* A registry of no tools serves none.
LEMMA ToolPromise == Spec => RegistryServes
<1>1. Spec /\ part = "tools" => RegistryServes
  BY ToolRuns, RegistryKeepsServing, PTL
<1>2. Init => ToolInit
  BY DEF Init
<1>3. ~(part = "tools") /\ [Next]_vars => (~(part = "tools"))' /\ UNCHANGED toolVars
  BY DEF Next, vars, Registers
<1>4. ToolInit /\ UNCHANGED toolVars => ToolInit'
  BY DEF ToolInit, toolVars, Unregistered
<1>5. ToolInit => Registered = {}
  BY DEF ToolInit, Registered
<1>6. ToolInit => ActiveToolsServe
  BY <1>5 DEF ActiveToolsServe, ActiveTools
<1>7. ToolInit =>
        [ raced' \/ \A t \in Registered :
            Lifecycle(t) \in Withdrawn => tools'[t].lifecycle \in Withdrawn
        ]_<<toolVars, req, raced>>
  BY <1>5
<1> QED BY <1>1, <1>2, <1>3, <1>4, <1>6, <1>7, PTL DEF Spec, RegistryServes, WithdrawnStaysWithdrawn

\* Nothing is registered or tombstoned where there is no source.
LEMMA SourcesPromise == Spec => SourcesArePreserved
<1>1. Spec /\ part = "sources" => SourcesArePreserved
  BY SourcesRuns, SourcesPreserved, PTL
<1>2. Init => SourcesInit
  BY DEF Init
<1>3. ~(part = "sources") /\ [Next]_vars => (~(part = "sources"))' /\ UNCHANGED sourceVars
  BY DEF Next, vars, Registers
<1>4. SourcesInit /\ UNCHANGED sourceVars => SourcesInit'
  BY DEF SourcesInit, sourceVars
<1>5. SourcesInit => RegisteredIsIntact
  BY DEF SourcesInit, RegisteredIsIntact
<1>6. SourcesInit =>
        [ \A s \in Sources : sources[s] = "tombstoned" =>
            /\ sources'[s] = "tombstoned"
            /\ raced' \/ \A span \in Spans : <<s, span>> \in spans' => <<s, span>> \in spans
        ]_<<sourceVars, req, raced>>
  BY DEF SourcesInit
<1> QED BY <1>1, <1>2, <1>3, <1>4, <1>5, <1>6, PTL DEF Spec, SourcesArePreserved, TombstoneIsFinal

\* A database that no process opens stays without versions and tables.
LEMMA SchemaPromise == Spec => MigrationsAgree
<1> DEFINE Empty == versions = {} /\ schema = {} /\ objects = {} /\ rollbacks = 0 /\ ~abandoned
<1>1. Spec /\ part = "schema" => MigrationsAgree
  BY SchemaRuns, MigrationsStayAgreed, PTL
<1>2. Init /\ ~(part = "schema") => Empty
  <2> SUFFICES ASSUME SchemaInit, versions = {} PROVE Empty
    BY DEF Init
  <2>1. Policies \in Nat /\ Policies >= 1 /\ Guarded \in Nat /\ Guarded # 0
    BY MigrationAssumption DEF MigrationAssumption, Policies
  <2>2. 1 \in 1..Policies
    BY <2>1
  <2>3. versions # 1..Policies
    BY <2>2
  <2>4. PICK last \in 0..Guarded :
          /\ versions = 1..last /\ schema = (1..last) \ {Guarded}
          /\ objects = IF last = Guarded THEN Objects ELSE {}
    BY <2>3 DEF SchemaInit
  <2>5. last = 0
    BY <2>1, <2>4
  <2> QED BY <2>1, <2>4, <2>5 DEF SchemaInit
<1>3. ~(part = "schema") /\ [Next]_vars => (~(part = "schema"))' /\ UNCHANGED schemaVars
  BY DEF Next, vars
<1>4. Empty /\ UNCHANGED schemaVars => Empty'
  BY DEF schemaVars
<1>5. Empty => VersionsMatchSchema
  BY DEF VersionsMatchSchema
<1>6. ~(part = "schema") /\ StoreInv =>
        [ \A c \in Clients : Migrated(c) /\ rollbacks = 0 /\ ~raced =>
            schema = MIGRATIONS \ {Guarded} /\ objects = Objects /\ versions = MIGRATIONS
        ]_<<schemaVars, req, raced>>
  BY DEF StoreInv, Migrated, Applying, Processing
<1> QED BY <1>1, <1>2, <1>3, <1>4, <1>5, <1>6, StoreStays, PTL DEF Spec, MigrationsAgree, OpensMigrated

\* Nobody invokes a capability that is not configured; the engine uses one.
LEMMA CapabilityPromise == Spec => CapabilityIsGoverned
<1> DEFINE Resting == ~(part = "capability") /\ ~(part = "detection")
<1>1. Spec /\ part = "capability" => CapabilityIsGoverned
  BY CapabilityRuns, CapabilityStaysGoverned, PTL
<1>2. Spec /\ part = "detection" => CapabilityIsGoverned
  BY DetectionRuns, EngineRunsAsReviewed, PTL
<1>3. Init => invocations = <<>>
  BY DEF Init, DetectionInit, CapabilityInit
<1>4. Resting /\ [Next]_vars => Resting' /\ UNCHANGED capabilityVars
  BY DEF Next, vars, detectionVars
<1>5. invocations = <<>> /\ UNCHANGED capabilityVars => (invocations = <<>>)'
  BY DEF capabilityVars
<1>6. invocations = <<>> => InvokedAsReviewed
  BY DEF InvokedAsReviewed
<1>7. UNCHANGED capabilityVars =>
        [raced' \/ (lifecycle = "retired" =>
           lifecycle' = "retired" /\ invocations' = invocations)]_<<capabilityVars, req, raced>>
  BY DEF capabilityVars
<1> QED BY <1>1, <1>2, <1>3, <1>4, <1>5, <1>6, <1>7, PTL
        DEF Spec, CapabilityIsGoverned, RetiredCapabilityRests

\* No bundle is lost where none is published.
LEMMA PublicationPromise == Spec => PublicationIsSafe
<1>1. Spec /\ part = "publication" => PublicationIsSafe
  BY PublicationRuns, PublicationStaysSafe, PTL
<1>2. Init => backups = {}
  BY DEF Init, BundleInit
<1>3. ~(part = "publication") /\ [Next]_vars => (~(part = "publication"))' /\ UNCHANGED bundleVars
  BY DEF Next, vars, Others
<1>4. backups = {} /\ UNCHANGED bundleVars => (backups = {})'
  BY DEF bundleVars
<1>5. backups = {} => OutputReturns
  BY DEF OutputReturns
<1>6. UNCHANGED bundleVars =>
        [ /\ output # Nothing \/ backups # {} => output' # Nothing \/ backups' # {}
          /\ output # Nothing /\ output' # output =>
               /\ output' = Nothing /\ output \in backups'
               /\ \E c \in Clients : Publishing(c, "aside") /\ req[c].overwrite
        ]_<<bundleVars, req, raced>>
  BY DEF bundleVars
<1> QED BY <1>1, <1>2, <1>3, <1>4, <1>5, <1>6, PTL DEF Spec, PublicationIsSafe, BundlesSurvive

\* An immune cascade that nothing is observed by has no incident to answer.
LEMMA ImmunePromise == Spec => []CascadeAnswers
<1> DEFINE Resting == ~(part = "immune") /\ ~(part = "detection")
<1>1. Spec /\ part = "immune" => []CascadeAnswers
  BY ImmuneRuns, CascadeKeepsAnswering, PTL
<1>2. Spec /\ part = "detection" => []CascadeAnswers
  BY DetectionRuns, EngineIsAnswered, PTL
<1>3. Init => incidents = <<>>
  BY DEF Init, DetectionInit, ImmuneInit
<1>4. Resting /\ [Next]_vars => Resting' /\ UNCHANGED immuneVars
  BY DEF Next, vars, detectionVars
<1>5. incidents = <<>> /\ UNCHANGED immuneVars => (incidents = <<>>)'
  BY DEF immuneVars
<1>6. incidents = <<>> => CascadeAnswers
  BY DEF CascadeAnswers, AnomaliesAnswered, RetiredAgentsRest
<1> QED BY <1>1, <1>2, <1>3, <1>4, <1>5, <1>6, PTL DEF Spec

\* A runtime that nobody asks has no session.
LEMMA SessionPromise == Spec => []SessionsAreJournaled
<1>1. Spec /\ part = "session" => []SessionsAreJournaled
  BY SessionRuns, SessionsStayJournaled, PTL
<1>2. Init => SessionInit
  BY DEF Init
<1>3. ~(part = "session") /\ [Next]_vars => (~(part = "session"))' /\ UNCHANGED sessionVars
  BY DEF Next, vars, Others
<1>4. SessionInit /\ UNCHANGED sessionVars => SessionInit'
  BY DEF SessionInit, sessionVars
<1>5. SessionInit => SessionsAreJournaled
  BY DEF SessionInit, SessionsAreJournaled
<1> QED BY <1>1, <1>2, <1>3, <1>4, <1>5, PTL DEF Spec

\* A policy that nobody asks has recorded no evaluation.
LEMMA PolicyPromise == Spec => []PolicyIsKept
<1>1. Spec /\ part = "policy" => []PolicyIsKept
  BY PolicyRuns, PolicyStaysKept, PTL
<1>2. Init => policyEvaluations = <<>>
  BY DEF Init
<1>3. ~(part = "policy") /\ [Next]_vars => (~(part = "policy"))' /\ UNCHANGED policyVars
  BY DEF Next, vars, Others
<1>4. policyEvaluations = <<>> /\ UNCHANGED policyVars => (policyEvaluations = <<>>)'
  BY DEF policyVars
<1>5. policyEvaluations = <<>> => PolicyIsKept
  BY DEF PolicyIsKept, PermitsAreGranted, EvaluationsAreNumbered
<1> QED BY <1>1, <1>2, <1>3, <1>4, <1>5, PTL DEF Spec

\* Without calibrations and windows there is nothing to back, whatever the
\* capability has been invoked for.
LEMMA DetectionPromise == Spec => []DetectionsAreBacked
<1> DEFINE Blank == calibrations = <<>> /\ windows = <<>> /\ alarms = {}
           Uninvoked == invocations = <<>> \/ part = "capability"
<1>1. Spec /\ part = "detection" => []DetectionsAreBacked
  BY DetectionRuns, DetectionsStayBacked, PTL
<1>2. Init => Blank /\ Uninvoked
  BY DEF Init, DetectionInit, CapabilityInit
<1>3. ~(part = "detection") /\ [Next]_vars => (~(part = "detection"))' /\ UNCHANGED divergenceVars
  BY DEF Next, vars, detectionVars
<1>4. Blank /\ UNCHANGED divergenceVars => Blank'
  BY DEF divergenceVars
<1>5. ~(part = "detection") /\ Uninvoked /\ [Next]_vars => Uninvoked'
  BY DEF Next, vars, detectionVars, capabilityVars
<1>6. Blank /\ Uninvoked /\ PartTyped => DetectionsAreBacked
  <2> SUFFICES ASSUME Blank, Uninvoked, PartTyped PROVE DetectionsAreBacked
    OBVIOUS
  <2>1. PICK n \in Nat : DOMAIN invocations = 1..n
    <3>1. CASE invocations = <<>>
      BY <3>1
    <3>2. CASE part = "capability"
      BY <3>2 DEF PartTyped, CapabilityTypeOK
    <3> QED BY <3>1, <3>2
  <2>2. IsFiniteSet({m \in DOMAIN invocations : invocations[m].ok})
    BY <2>1, FS_Interval, FS_Subset
  <2>3. Cardinality({m \in DOMAIN invocations : invocations[m].ok}) \in Nat
    BY <2>2, FS_CardinalityType
  <2>4. {w \in DOMAIN windows : \E k \in Recommended(w) : Classical(k)} = {}
    OBVIOUS
  <2>5. Cardinality({}) = 0
    BY FS_EmptySet
  <2> QED BY <2>3, <2>4, <2>5 DEF DetectionsAreBacked
<1> QED BY <1>1, <1>2, <1>3, <1>4, <1>5, <1>6, PartsStayTyped, PTL DEF Spec

\* Whichever service of the store has processes at work at once and dying
\* anywhere, with the others at rest: beliefs and skills are earned, the registry serves what it has,
\* sources are preserved, migrations agree, the capability is governed, bundles
\* are published safely, the detections are backed, the sessions journaled, the
\* anomalies answered and the policy kept.
THEOREM ServicesKeepTheirPromises ==
  Spec => /\ BeliefsAreEarned /\ PromotionIsEarned /\ RegistryServes /\ SourcesArePreserved
          /\ MigrationsAgree /\ CapabilityIsGoverned /\ PublicationIsSafe
          /\ [](DetectionsAreBacked /\ SessionsAreJournaled /\ CascadeAnswers /\ PolicyIsKept)
<1>1. Spec => [](DetectionsAreBacked /\ SessionsAreJournaled /\ CascadeAnswers /\ PolicyIsKept)
  BY DetectionPromise, SessionPromise, ImmunePromise, PolicyPromise, PTL
<1> QED BY <1>1, LedgerPromise, SkillPromise, ToolPromise, SourcesPromise, SchemaPromise,
           CapabilityPromise, PublicationPromise

=============================================================================
