CONSTANTS
  Service = {1, 2}
  File = {1, 2}
  Version = {1, 2}
  Methods <- AllNames
  Imported <- ImportPaths
  MaxLength = 4
  MaxEdits = 1
  MaxFails = 1
SPECIFICATION Spec
INVARIANTS
  TypeOK
  CompleteRunAgrees
  LeaksAreFailures
  HandlersAreDistinct
PROPERTY ManifestIsLast
CHECK_DEADLOCK FALSE
