SPECIFICATION MCSpec
CONSTANTS
  LastEpoch = 1
  Clients = {c1}
  MaxSessions = 1
PROPERTY StopReturns
CHECK_DEADLOCK FALSE
