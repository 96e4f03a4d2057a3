SPECIFICATION MCSpec
CONSTANTS
  LastEpoch = 2
  Clients = {c1}
  MaxSessions = 2
INVARIANTS
  AllOrNothing
  CallbacksInEpoch
PROPERTIES
  ExpiredSessionsRemoved
  CallsReturn
CHECK_DEADLOCK FALSE
