CONSTANTS
  r1 = r1
  r2 = r2
  e1 = e1
  Rec = {r1}
  Entity = {e1}
  Hub = Hub
  Online = Online
  Offline = Offline
  Config = Config
  OldState = OldState
  NoBody = NoBody
  Legacy = OldState
  Exclude = {}
  Envs <- ClearEnvs
SPECIFICATION Spec
CHECK_DEADLOCK FALSE
INVARIANT ClearRemovesEveryConfig
