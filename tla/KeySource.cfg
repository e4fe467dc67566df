CONSTANTS
  NFiles = 2
  MaxVersion = 2
  MaxKey = 2
SPECIFICATION FairSpec
INVARIANT TypeOK
PROPERTY ImplementsFeed
PROPERTY RetryIsEnough
PROPERTY Recovers
