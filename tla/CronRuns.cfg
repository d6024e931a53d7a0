SPECIFICATION RunsSpec
CONSTANTS
  NoJob = NoJob
  None = None
  a = a
  b = b
  JobIds = {a, b}
  Messages = {a}
  Daemons = {d1}
  Served = d1
  Requests = {r1, r2}
  Initial <- InitialEither
  Templates <- NoTemplates
  Patches <- EveryPatches
  Outcomes = {"ok", "error", "failed"}
  MaxTime = 2
  MaxEdits = 1
  MaxCrashes = 1
  MaxTries = 2
INVARIANT DaemonRanTruly
PROPERTIES DueJobRuns ServerReturns
CHECK_DEADLOCK FALSE
