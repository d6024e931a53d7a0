\* Two plugins, one of them bundled and one with MCP servers; two writers of
\* one audit log.
SPECIFICATION StoresSpec
CONSTANTS
  gsd = gsd
  docs = docs
  v1 = v1
  v2 = v2
  Plugins = {gsd, docs}
  Versions = {v1, v2}
  Bundled <- OneBundled
  Exports = {docs}
  Half = Half
  None = None
  MaxCommands = 3
  MaxMishaps = 2
  thread = thread
  tools = tools
  Writers = {thread, tools}
  RecordKinds = {"event", "artifact"}
  NoFile = NoFile
  Newline = Newline
  MaxRecords = 3
  MaxStops = 1
INVARIANTS
  PartsAgree
  ChainIsLinear
PROPERTY
  LastCopyIsKept
CHECK_DEADLOCK FALSE
