SPECIFICATION Spec
CONSTANTS
  c1 = c1
  c2 = c2
  x1 = x1
  x2 = x2
  x3 = x3
  d1 = d1
  d2 = d2
  i1 = i1
  i2 = i2
  Clients = {c1, c2}
  Statements = {x1, x2}
  EvidenceRows <- MCEvidenceRows
  Recorded <- MCRecorded
  Proposals = {"speculative"}
  Confidences = {"high"}
  MaxEvidence = 5
  MaxRows = 3
  Interactions = {x1, x2, x3}
  MaxArtifacts = 2
  Tools = {x1, x2}
  Digests = {d1, d2}
  Manifests <- MCManifests
  Withdrawals = {"revoked"}
  Sources = {x1, x2}
  Spans = {"pages"}
  Guarded = 4
  MaxRollbacks = 2
  Implementations = {i1, i2}
  MaxInvocations = 1
  Events <- MCEvents
  MaxIncidents = 2
  Knn = i1
  Patterns <- MCPatterns
  MaxCalibrations = 3
  MaxWindows = 1
  PolicySets <- MCPolicySets
  Requests <- MCRequests
  MaxEvaluations = 2
  MaxBundles = 3
  Identities = {x1, x2}
  MaxSessions = 3
CHECK_DEADLOCK FALSE
SYMMETRY MCSymmetry
INVARIANTS ServicesTypeOK DetectionsAreBacked SessionsAreJournaled CascadeAnswers PolicyIsKept
PROPERTIES BeliefsAreEarned PromotionIsEarned RegistryServes SourcesArePreserved MigrationsAgree CapabilityIsGoverned PublicationIsSafe
