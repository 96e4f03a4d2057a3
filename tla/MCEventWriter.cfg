SPECIFICATION MCSpec
CONSTANTS
  EventId = {e1, e2}
  MaxCrashes = 2
INVARIANTS
  PublishedComplete
  NothingInBetween
PROPERTIES
  PublishesAtomically
