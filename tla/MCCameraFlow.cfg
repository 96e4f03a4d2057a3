SPECIFICATION MCSlowSpec
CONSTANTS
  Requests = {r1, r2, r3, r4}
  BufferCount = 4
  MaxLost = 0
  Faults = {}
PROPERTIES
  FramesKeepFlowing
