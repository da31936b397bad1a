\* One process, no deaths: does a pass take its trials to candidates?
SPECIFICATION PartsSpec
CONSTANTS
  p = p
  q = q
  Events = {"match-1", "match-2"}
  Files = {"day-1"}
  Results = {"1", "2", "void"}
  Complete = {"1", "2"}
  Uncontracted = {}
  TimeOf <- MCTimeOf
  Markets = {"MARKETS.CURRENCY", "CAPITAL.STOCK"}
  MaxTick = 16
  PeriodLength = 2
  Values = {"low", "high"}
  NoValue = NoValue
  Procs = {p}
  MaxChanges = 1
  FirstRows <- MCRows
  FirstResults <- MCResults
  FirstSeries <- MCSeries
  Parents = {"MARKETS.CURRENCY"}
  Children = {"CAPITAL.STOCK"}
  MinSamples = 2
  MinPeriods = 2
  MinDiversity = 2
  GrowthPercent = 20
  MinNew = 1
  TrainPercent = 60
  Kinds = {"MLP"}
  Labs = {"dry", "backed", "real"}
  MaxPasses = 2
  MaxFaults = 0
INVARIANT TrialsArePlanned
CHECK_DEADLOCK FALSE
