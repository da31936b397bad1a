\* The calls that are shipped give the jobs they dispatched and collected as a list.
SPECIFICATION Spec
CONSTANTS
  Worlds <- MCWorlds
  Domains <- MCDomains
  WorldOf <- MCWorldOf
  Markets = {"CAPITAL.STOCK"}
  None = None
  Dependencies = {"shipped"}
  OtherJobs = {"healthcheck"}
  MaxVersion = 1
  MaxCycles = 2
  MaxRuns = 1
  MaxFaults = 0
INVARIANT DispatchJournalled
CHECK_DEADLOCK FALSE
