SPECIFICATION RestartedSpec
CONSTANTS
  NoJob = NoJob
  None = None
  a = a
  b = b
  JobIds = {a}
  Messages = {a}
  Daemons = {d1}
  Served = d1
  Requests = {}
  Initial <- InitialEvery
  Templates <- NoTemplates
  Patches <- NoPatches
  Outcomes = {"ok"}
  MaxTime = 1
  MaxEdits = 0
  MaxCrashes = 1
  MaxTries = 1
PROPERTY RunsAfterRestart
