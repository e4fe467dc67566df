CONSTANT
  MaxWrites = 1
SPECIFICATION Spec
CHECK_DEADLOCK FALSE
INVARIANT NothingDropped
