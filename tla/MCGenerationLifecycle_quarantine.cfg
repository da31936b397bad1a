\* A transition checked before the quarantine, written after it.
SPECIFICATION LifecycleSpec
CONSTANTS
  GenerationIds = {"gen-1"}
  Networks = {"NET"}
  MaxGeneration = 1
  MaxTransitions = 6
  Writers = {p, q}
  Targets = {"QUEUED", "TRAINING", "HISTORICALLY_EVALUATED", "SHADOW", "ACTIVE", "QUARANTINED"}
  Grounds <- AllGrounds
  Absent = Absent
PROPERTY QuarantineStands
CHECK_DEADLOCK FALSE
