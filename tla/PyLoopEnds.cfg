CONSTANTS
  Server = {s1}
  Call = {outer}
  Note = {n1}
  Junk = {}
  Garbled = {}
  Silent = {}
  outer = outer
  inner = inner
  Inner <- FlatInner
  None = None
  BatchMax = 1
  ClaimMax = 1
  ReplyMaxLen = 5
  MaxFaults = 1
  MaxSlow = 0
  MaxStops = 0
SPECIFICATION FairSpec
PROPERTY HandlersKeepServing
CHECK_DEADLOCK FALSE
