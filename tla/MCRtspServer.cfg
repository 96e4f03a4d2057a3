SPECIFICATION MCFairSpec
CONSTANTS
  Media = {m1, m2}
  NoMedia = NoMedia
  PushLimit = 2
  MaxErrors = 1
  MaxTokens = 3
  Events = {"stop", "attach", "bind"}
INVARIANTS
  RecoveryOwnsMedia
  FeedsCachedMedia
  StopIsSynchronous
PROPERTIES
  ResumesAfterTeardown
  UndisturbedRecoveryResumes
