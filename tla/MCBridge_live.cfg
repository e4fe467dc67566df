CONSTANTS
  r1 = r1
  r2 = r2
  e1 = e1
  Rec = {r1, r2}
  Entity = {e1}
  Hub = Hub
  Online = Online
  Offline = Offline
  Config = Config
  OldState = OldState
  NoBody = NoBody
  Legacy = OldState
  Exclude = {}
  Envs <- LiveEnvs
SPECIFICATION FairSpec
CHECK_DEADLOCK FALSE
INVARIANT LastIsRetained
INVARIANT UnstoppedOnline
PROPERTY ConfigsConverge
PROPERTY AvailabilityConverges
PROPERTY CalmStatesConverge
PROPERTY KeepsPolling
PROPERTY StopEnds
