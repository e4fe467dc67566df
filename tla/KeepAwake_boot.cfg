CONSTANTS
  CheckEvery = 15
  StaleAfter = 60
  KillPause = 3
  Settle = 8
  FirstFetch = 20
  FetchEvery = 30
  Old = 130
  DiesFrom = {"fetching", "wedged"}
  MaxRestarts = 0
SPECIFICATION Spec
PROPERTY LeavesHealthyAlone
