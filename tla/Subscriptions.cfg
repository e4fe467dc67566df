CONSTANTS
  Topics = {"status", "command", "other"}
  Status = "status"
  MaxDrops = 2
  MaxBirths = 2
SPECIFICATION Spec
CHECK_DEADLOCK FALSE
INVARIANT TypeOK
INVARIANT NoneIgnored
INVARIANT NothingForgotten
PROPERTY Resubscribed
