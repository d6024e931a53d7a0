SPECIFICATION Spec
CONSTANTS
  NoJob = NoJob
  None = None
  a = a
  JobIds = {a}
  Messages = {a}
  b = b
  Daemons = {d1, d2}
  Served = d1
  Requests = {}
  Initial <- InitialEvery
  Templates <- EveryTemplates
  Patches <- EveryPatches
  Outcomes = {"ok", "error", "failed"}
  MaxTime = 1
  MaxEdits = 1
  MaxCrashes = 1
  MaxTries = 1
INVARIANT MutualExclusion
CHECK_DEADLOCK FALSE
