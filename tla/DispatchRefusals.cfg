CONSTANT Transport = {"memory", "redis"}
SPECIFICATION Spec
INVARIANT ValidationFailureAnswered
CHECK_DEADLOCK FALSE
