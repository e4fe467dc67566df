CONSTANTS
  CheckEvery = 3
  StaleAfter = 12
  KillPause = 1
  Settle = 2
  FirstFetch = 2
  FetchEvery = 6
  Old = 28
  DiesFrom = {"fetching", "wedged"}
  MaxRestarts = 1
  PollEvery = 2
  MaxFailed = 1
SPECIFICATION FairFreshSpec
INVARIANT FreshTypeOK
INVARIANT StalenessBounded
INVARIANT ShownIsFresh
INVARIANT HealthIsTouched
 
PROPERTY LeavesHealthyAlone
PROPERTY KeepsFetching
PROPERTY MissedIsMadeUp
