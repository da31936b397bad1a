\* Cycle: two cycles and a run over two domains, with one death or lost checkpoint,
\* given what is shipped or what is tested.  Admission: up to three jobs of six
\* classes are submitted, sent and claimed in any order, and wait for up to 297
\* ageing steps; the clock of the node is 299 seconds ahead, and its memory is
\* short or not.
SPECIFICATION PartsSpec
CONSTANTS
  Worlds <- MCWorlds
  Domains <- MCDomains
  WorldOf <- MCWorldOf
  Markets = {"CAPITAL.STOCK"}
  None = None
  Dependencies = {"shipped", "tested"}
  OtherJobs = {"healthcheck"}
  MaxVersion = 1
  MaxCycles = 2
  MaxRuns = 1
  MaxFaults = 1
  Keyless = Keyless
  NoDeadline = NoDeadline
  NoWindow = NoWindow
  Envelopes <- MCEnvelopes
  FactoryJobs <- MCFactoryJobs
  RootClasses = {5}
  Profile <- MCProfile
  CpuCount = 4
  MemoryLevels = {1024, 10240}
  Stacks = {TRUE}
  Skew = 299
  Jumps = {29701}
  MaxClock = 89103
  MaxJobs = 3
  Limit = 2
INVARIANTS
  CheckpointCovers
  CompletedIsCurrent
  BaselineHasCause
  CompletedIsAccounted
  BoundedInversion
  WindowsAligned
CHECK_DEADLOCK FALSE
