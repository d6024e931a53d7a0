SPECIFICATION Spec
CONSTANTS
  None = None
  s1 = s1
  t1 = t1
  Senders = {mcp}
  Daemons = {}
  Keys = {k1, k2}
  Sessions = {s1}
  Targets = {t1}
  Contacts <- OneContact
  MaxSends = 3
  MaxIncoming = 0
  MaxCrashes = 0
INVARIANT KeyPreventsDuplicates
CHECK_DEADLOCK FALSE
