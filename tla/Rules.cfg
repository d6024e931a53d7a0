\* Schedules on a small clock; every mix of settings of one job, changed twice;
\* conversations of two contacts with three jobs; exports of two and three plugins.
SPECIFICATION RulesSpec
CONSTANTS
  Texts <- SomeTexts
  Blank = ""
  LastRoute = "last"
  Trim <- Trimmed
  Lower <- Lowered
  Url <- Urls
  None = None
  Null = Null
  Canonical <- Aliases
  ChannelOrder <- Order
  Ttl = 1
  Contacts = {}
  Main = main
  Jobs <- MixedJobs
  Patches <- MixedPatches
  Heartbeats = {}
  MaxTime = 0
  MaxEdits = 3
  MaxIncoming = 0
  NoJob = NoJob
  Schedules <- SmallSchedules
  Horizon = 14
  Up = Up
  Words <- SomeWords
  Tokens <- SomeTokens
  Addresses = {url, hub, otherHub}
  Absent = Absent
  Broken = Broken
  NoWord = NoWord
  Dot = Dot
  DotDot = DotDot
  Tilde = Tilde
  Github <- Repositories
  Normal <- Lowercase
  upper = upper
  lower = lower
  url = url
  hub = hub
  otherHub = otherHub
  Nothing = Nothing
  Prefixed <- PrefixedNames
  Exports <- SomeExports
INVARIANTS
  PlanHolds
  AnnouncedOnRecord
  RepliesGoBack
  NextIsFirst
  ServersAreKept
CHECK_DEADLOCK FALSE
