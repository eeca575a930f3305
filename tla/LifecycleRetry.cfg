CONSTANTS
  Service = {s1, s2}
  Caller = {a}
  BatchMax = 1
  MaxCalls = 3
  MaxFaults = 1
CHECK_DEADLOCK FALSE
SPECIFICATION Spec
INVARIANT StartReturnsReady
