SPECIFICATION MCSpec
CONSTANTS
  SinkMax = 1
  Period = 1
  SensorTimes = {2, 3}
  PlainTime = 3
  MaxFrames = 3
  MaxGen = 2
  MaxSourceGen = 3
  MaxUnmade = 1
  Bytes = {0, 1, 101, 104}
  MaxBytes = 6
INVARIANTS
  ServesOnlyAfterKeyframe
  SensorTimestampExact
  SourceStartsDecodable
  OfferedInOrder
  ScanMatchesHeaders
PROPERTIES
  FailureHandled
