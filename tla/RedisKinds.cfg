CONSTANTS
  Server = {s1}
  Call = {c1,c2}
  Note = {n1}
  Junk = {j1}
  Silent = {}
  Throwing = {n1}
  None = None
  BatchMax = 2
  ClaimMax = 2
  ReplyMaxLen = 5
  MaxFaults = 1
  MaxSlow = 0
SPECIFICATION Spec
SYMMETRY Symmetry
INVARIANTS
  TypeOK
  AckedOnlyWhenServed
  PendingIsWaiting
  AnsweredWasDispatched
  NoReplyLost
  HeldOnce
PROPERTIES
  ImplementsContract
CONSTRAINT ClientRuns
CHECK_DEADLOCK FALSE
