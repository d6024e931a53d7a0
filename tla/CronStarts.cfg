SPECIFICATION Spec
CONSTANTS
  NoJob = NoJob
  None = None
  a = a
  b = b
  JobIds = {a, b}
  Messages = {a, b}
  Daemons = {d1}
  Served = d1
  Requests = {}
  Initial <- InitialBoth
  Templates <- NoTemplates
  Patches <- OneShotPatches
  Outcomes = {"ok", "skipped"}
  MaxTime = 2
  MaxEdits = 1
  MaxCrashes = 1
  MaxTries = 1
INVARIANTS OneShotOnce RunningIsLocked
PROPERTY NeverEarly
