SPECIFICATION BoundedSpec
CONSTANTS
  Retention = 2
  MaxBytes = 4
  MaxTime = 5
  UnitSizes = {0, 1, 2, 5}
  MaxEpoch = 4
  MaxResets = 1
INVARIANTS
  RingOrdered
  RingIsRetentionWindow
  PreRollRetained
