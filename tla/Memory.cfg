\* One file that is written, changed and removed, two processes that sync it,
\* and one kill; two writers of events and a follower.
SPECIFICATION ReadersSpec
CONSTANTS
  note = note
  s1 = s1
  s2 = s2
  Files = {note}
  Sessions = {}
  Syncers = {s1, s2}
  Parts = {1}
  None = None
  MaxVersion = 2
  MaxKills = 1
  main = main
  dir = dir
  dotted = dotted
  sessions = sessions
  state = state
  Names <- SmallNames
  Undotted <- NoDots
  MarkdownNames = {main, note}
  MainNames = {main}
  MemoryDir = dir
  SessionsDir = sessions
  RegularFiles <- SmallFiles
  Directories <- SmallDirs
  Extras <- SmallExtras
  StateDir <- SmallState
  thread = thread
  tools = tools
  Recorders = {thread, tools}
  Runner = thread
  Limit = 3
  MaxTime = 3
  MaxEvents = 4
INVARIANTS
  OneVersion
  NothingSkipped
PROPERTIES
  SearchIsFresh
  Remembered
  FollowerEnds
CHECK_DEADLOCK FALSE
