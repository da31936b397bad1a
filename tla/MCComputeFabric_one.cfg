\* One control process, a job of each kind of job type, one failure, fair.
SPECIFICATION FairSpec
CONSTANTS
  ja = ja
  jb = jb
  jc = jc
  jd = jd
  None = None
  NoKey = NoKey
  p1 = p1
  p2 = p2
  Procs = {p1}
  Jobs = {ja, jc, jd}
  Keys = {"k"}
  KeyOf <- SharedKey
  Allowed <- Workable
  Fits <- SmallEnough
  Outcomes = {"COMPLETED", "FAILED"}
  MaxRuns = 2
  MaxFaults = 1
INVARIANTS
  RecordedIsComplete
  RemoteIsOnNode
  OnceWithoutFaults
PROPERTIES
  CollectedIsFinal
  EventuallyRecorded
CHECK_DEADLOCK FALSE
