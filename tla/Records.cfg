CONSTANT
  MaxWrites = 2
SPECIFICATION Spec
CHECK_DEADLOCK FALSE
INVARIANT TypeOK
INVARIANT Announced
INVARIANT FormsFit
INVARIANT BatteryShown
INVARIANT LocatedShowsAll
PROPERTY KeepsLastFix
