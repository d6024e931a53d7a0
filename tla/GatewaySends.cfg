SPECIFICATION RunsSpec
CONSTANTS
  None = None
  s1 = s1
  t1 = t1
  daemon = daemon
  k1 = k1
  Senders = {mcp, daemon}
  Daemons = {daemon}
  Keys = {k1, k2}
  Sessions = {s1}
  Targets = {t1}
  Contacts <- OneContact
  MaxSends = 2
  MaxIncoming = 2
  MaxCrashes = 1
INVARIANTS KeysAreQueued ReceiptsAreTrue TwiceOnlyIfLost HandledInOrder
PROPERTY InboxIsHandled
CHECK_DEADLOCK FALSE
