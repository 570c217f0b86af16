SPECIFICATION Spec
CONSTANTS
  MaxSubscribe = 3
INVARIANTS
  BodyIsOwn
CHECK_DEADLOCK FALSE
