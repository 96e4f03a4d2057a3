SPECIFICATION MCSpec
CONSTANTS
  Requests = {r1, r2, r3, r4}
  BufferCount = 4
  MaxLost = 1
  Faults = {"error", "bus", "wake", "start", "exit"}
SYMMETRY Symmetry
INVARIANTS
  RequestInOnePlace
  OutstandingExact
  CameraNeverExhausted
  DoneReturnsLeases
