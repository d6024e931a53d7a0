SPECIFICATION FairSpec
CONSTANTS
  None = None
  r1 = r1
  r2 = r2
  Runs = {r1}
  Cancellers = {cli}
  cli = cli
  Kinds = {"delete", "input"}
  MaxAsks = 2
  MaxNotes = 1
  MaxCancels = 1
  MaxCrashes = 1
INVARIANTS AnswersAreDecisions OpenIsAwaited CancelIsPrompt
PROPERTIES KeepsPromise RunsEnd
CHECK_DEADLOCK FALSE
