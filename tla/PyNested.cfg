CONSTANTS
  Server = {s1}
  Call = {inner}
  Note = {outer}
  Junk = {j1}
  Garbled = {}
  Silent = {}
  outer = outer
  inner = inner
  Inner <- NestedInner
  None = None
  BatchMax = 1
  ClaimMax = 1
  ReplyMaxLen = 5
  MaxFaults = 0
  MaxSlow = 1
  MaxStops = 0
SPECIFICATION FairSpec
INVARIANT RunsAreBounded
PROPERTIES
  DeliveredIsServed
  ImplementsFairContract
CHECK_DEADLOCK FALSE
