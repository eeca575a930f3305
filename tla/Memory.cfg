CONSTANTS
  s1 = s1
  s2 = s2
  x = x
  y = y
  m1 = m1
  m2 = m2
  Server = {s1, s2}
  Service = {x, y}
  Provides <- TwoProvide
  Call = {m1}
  Note = {m2}
  To <- AllTo
  None = None
SPECIFICATION FairSpec
INVARIANTS
  TypeOK
  PendingIsWaiting
  BusIsOwned
  DrainedStop
PROPERTY
  ImplementsFairContract
CHECK_DEADLOCK FALSE
