SPECIFICATION MCFairSpec
CONSTANTS
  Media = {m1}
  NoMedia = NoMedia
  PushLimit = 3
  MaxErrors = 1
  MaxTokens = 3
  Events = {}
PROPERTIES
  ListenerResumes
