CONSTANTS
  Service = {s1}
  Caller = {a, b}
  BatchMax = 2
  MaxCalls = 4
  MaxFaults = 1
CHECK_DEADLOCK FALSE
SPECIFICATION PromptSpec
INVARIANTS
  TypeOK
  OneLoopPerService
  StopIsDrained
PROPERTIES
  CallsReturn
  AbortedLoopsExit
