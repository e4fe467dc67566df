CONSTANTS
  MaxPending = 4
  MaxEvents = 5
  MaxTorn = 2
  MaxCrashes = 2
SPECIFICATION FairSpec
CHECK_DEADLOCK FALSE
INVARIANT TypeOK
INVARIANT NothingLost
PROPERTY FirstInOrder
PROPERTY EveryEventArrives
PROPERTY ImplementsQueue
