CONSTANT Transport = {"memory", "redis"}
SPECIFICATION Spec
INVARIANTS
  OutcomeAsDocumented
  OnlyRequestsAnswered
  InflightReleased
CHECK_DEADLOCK FALSE
