SPECIFICATION MCFairSpec
CONSTANTS
  Retention = 3
  MaxBytes = 3
  Pre = 1
  Post = 1
  Cooldown = 1
  U64Max = 4
  WorkerQueueCapacity = 1
  TsSteps = {0, 1, 2}
  Sizes = {1, 4}
  TriggerTimes = {2, 3}
  MaxEmit = 4
  MaxLate = 1
  MaxOversize = 1
  MaxCalls = 2
  MaxGen = 2
INVARIANTS
  RecorderTypeOK
  EventAccounting
  GateMatchesActive
  ClipsWellFormed
  ClipContiguous
  ClipSpansRequest
  CooldownRespected
PROPERTIES
  StopDrains
