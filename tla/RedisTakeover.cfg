CONSTANTS
  Server = {s1, s2}
  Call = {c1}
  Note = {}
  Junk = {}
  Silent = {}
  Throwing = {}
  None = None
  BatchMax = 1
  ClaimMax = 1
  ReplyMaxLen = 2
  MaxFaults = 1
  MaxSlow = 1
SPECIFICATION FairSpec
INVARIANTS
  PendingIsWaiting
  RunsAreBounded
PROPERTIES
  SettledOnce
  DeliveredIsServed
  ImplementsFairContract
CHECK_DEADLOCK FALSE
