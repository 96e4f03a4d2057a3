SPECIFICATION MCSpec
CONSTANTS
  UIntMax = 15
  SizeMax = 15
  Fds = {1, 2, 3}
  MaxFrames = 2
  Padding = {0, 1, 2}
  MaxDetections = 3
INVARIANTS
  ReadsInSession
  SessionsEnded
  ReadsWholePictures
  InfersCurrentFrame
  SuppressionKeepsTheLikeliest
  RawBufferShowsPicture
