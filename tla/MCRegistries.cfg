\* Two processes write to one generation; or carry two registrations for one
\* generation to a prediction, with one fault; or hand in two outcomes, one
\* prediction after the other.
SYMMETRY Symmetry
SPECIFICATION PartsSpec
CONSTANTS
  a = a
  b = b
  p = p
  q = q
  o1 = o1
  o2 = o2
  GenerationIds = {"gen-1"}
  Networks = {"NET"}
  MaxGeneration = 1
  MaxTransitions = 6
  Writers = {p, q}
  Targets = {"QUEUED", "TRAINING", "HISTORICALLY_EVALUATED", "SHADOW", "ACTIVE", "QUARANTINED"}
  Grounds <- AllGrounds
  Absent = Absent
  Gens = {"gen-1"}
  NoState = None
  Artifacts = {a, b}
  Predictions = {"pred-1"}
  Procs = {p, q}
  MaxFaults = 1
  None = None
  Predicted = {"pred-1", "pred-2"}
  OutcomeIds = {o1, o2}
  EvaluationIds = {"eval-1"}
  Contents = {"won", "lost"}
  Observers = {p, q}
  Empty = Empty
  NoRow = NoRow
INVARIANTS
  StateIsOnRecord
  PredictionRests
  MaterialStands
  OrphanIsCutOff
  OneVerifiedContent
PROPERTY
  ImplementsOutline
CHECK_DEADLOCK FALSE
