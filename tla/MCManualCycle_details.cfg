\* The pipeline that is shipped gives the details of the sports ingestion as a list.
SPECIFICATION Spec
CONSTANTS
  Worlds <- MCWorlds
  Domains <- MCDomains
  WorldOf <- MCWorldOf
  Markets = {"CAPITAL.STOCK"}
  None = None
  Dependencies = {"shipped"}
  OtherJobs = {}
  MaxVersion = 1
  MaxCycles = 2
  MaxRuns = 0
  MaxFaults = 0
INVARIANT IngestionJournalled
CHECK_DEADLOCK FALSE
