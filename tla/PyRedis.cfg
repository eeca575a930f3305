CONSTANTS
  Server = {s1,s2}
  Call = {outer}
  Note = {}
  Junk = {j1}
  Garbled = {j1}
  Silent = {}
  outer = outer
  inner = inner
  Inner <- FlatInner
  None = None
  BatchMax = 2
  ClaimMax = 2
  ReplyMaxLen = 5
  MaxFaults = 1
  MaxSlow = 0
  MaxStops = 1
SPECIFICATION Spec
INVARIANTS
  TypeOK
  AckedOnlyWhenServed
  DictHasTheWaiting
  HeldOnce
  RunsAreBounded
PROPERTY ImplementsContract
SYMMETRY Symmetry
CHECK_DEADLOCK FALSE
