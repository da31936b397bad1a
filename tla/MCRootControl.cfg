\* Registry: two threads submit two contents under a key, move the command to
\* version 4 and record and repeat an operation, with a restart.  Envelopes: one id,
\* three uses, limits up to 2, times out of order.  Approvals: one proposal in three
\* versions, two keys.  Security: two processes, one device more than there are
\* challenges, a session, one failed attempt or restart.
SPECIFICATION PartsSpec
SYMMETRY Symmetry
CONSTANTS
  Threads = {c1, c2}
  Keys = {"k"}
  Contents = {"A", "B"}
  Operations = {"op"}
  Payloads = {"x", "y"}
  Refs = {"r1", "r2"}
  None = None
  MaxVersion = 4
  MaxRestarts = 1
  Ids = {"env"}
  Subjects = {"AGENT_01", "AGENT_02"}
  OperationTypes = {"READ_ARTIFACT"}
  Resources = {"WORLD_ARTIFACT", "ROOT_CONTROL"}
  Environments = {"CONTROL_PLANE", "PRODUCTION_RUNTIME"}
  Others = {"as issued"}
  allowed_subjects = {"AGENT_01"}
  allowed_operations = {"READ_ARTIFACT"}
  protected_assets = {"ROOT_CONTROL"}
  max_risk_by_subject <- RiskBySubject
  UsageIds = {"use-1", "use-2", "use-3"}
  MaxLimit = 2
  MaxAmount = 1
  MaxTime = 2
  Actors = {"root", "root again"}
  NoRecord = NoRecord
  ProposalIds = {"proposal"}
  Bodies = {"plan"}
  Scopes = {"SSI_V5_MASTER"}
  Assurances = {"PRIMARY", "STEP_UP"}
  DecisionKeys = {d1, d2}
  Authors = {"root"}
  MaxRevision = 3
  Nothing = Nothing
  c1 = c1
  c2 = c2
  r1 = r1
  r2 = r2
  d1 = d1
  d2 = d2
  RootIds = {r1, r2}
  ChallengeIds = {"enr"}
  DeviceIds = {d1, d2}
  SessionIds = {"ses-1"}
  Callers = {c1, c2}
  max_failures = 1
  MaxTroubles = 1
  Nobody = Nobody
INVARIANTS
  AuditIsTrue
  AuditIsComplete
  AnswersAgree
  UsesWithinGrant
  SupersededForGood
  ChainStands
  RaceBound
  LateOnce
  RootHandedOver
CHECK_DEADLOCK FALSE
