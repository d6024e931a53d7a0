\* Two turns of three sessions; two tool servers and one job; two skills and
\* two targets; texts of up to four segments; two agents of the application,
\* three changes of its settings and two lists in the background; five starts
\* of its three children; three of its threads that install and use the tools.
SPECIFICATION AgentsSpec
CONSTANTS
  main = main
  list = list
  command = command
  Sessions = {main, chat, kline}
  Main     = main
  Foreign  = {kline}
  MaxTurns = 2
  MaxTexts = 2
  Servers  = {s1, s2}
  JobIds   = {j1}
  Nothing  = Nothing
  Policy   <- OpenPolicy
  Skills     = {pdf, git}
  TargetDirs = {user, repo}
  MaxVersion = 2
  MaxStops   = 1
  MaxChars = 3
  Overlap  = 2
  Lengths <- SmallLengths
  ChildKinds = {"agent"}
  NoChild = NoChild
  Values = {"on", "off"}
  Unset = "on"
  Tasks = {k1, k2}
  MaxStarts = 2
  MaxRequests = 2
  MaxClicks = 3
  MaxDeaths = 1
  Jobs = {main, list, command}
  MainJob = main
  Unlocked = Unlocked
  Files = {"codex", "clawdex"}
  Bundled = {"plugin"}
  MaxJobs = 4
  MaxEnds = 1
SYMMETRY AnyTask
INVARIANTS
  TextIsOwn
  UnshownIsSuspect
  SyncedIsWhole
  ChunksCover
  NoOrphans
  SettingsSettle
  InstalledIsWhole
CHECK_DEADLOCK FALSE
