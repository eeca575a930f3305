CONSTANTS
  Server = {s1}
  Call = {outer}
  Note = {}
  Junk = {}
  Garbled = {}
  Silent = {}
  outer = outer
  inner = inner
  Inner <- FlatInner
  None = None
  BatchMax = 1
  ClaimMax = 1
  ReplyMaxLen = 5
  MaxFaults = 0
  MaxSlow = 0
  MaxStops = 1
SPECIFICATION Spec
INVARIANT DrainedIsDone
CHECK_DEADLOCK FALSE
