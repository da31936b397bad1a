\* Two control processes, two jobs with one key, no failures but the interleaving.
SYMMETRY Symmetry
SPECIFICATION Spec
CONSTANTS
  ja = ja
  jb = jb
  jc = jc
  jd = jd
  None = None
  NoKey = NoKey
  p1 = p1
  p2 = p2
  Procs = {p1, p2}
  Jobs = {ja, jb}
  Keys = {"k"}
  KeyOf <- SharedKey
  Allowed <- Workable
  Fits <- SmallEnough
  Outcomes = {"COMPLETED", "FAILED"}
  MaxRuns = 2
  MaxFaults = 0
INVARIANTS
  OneJobPerKey
  RecordedWasExecuted
PROPERTY
  ImplementsLedger
CHECK_DEADLOCK FALSE
