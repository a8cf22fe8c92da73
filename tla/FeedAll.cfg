SPECIFICATION FairSpec
CONSTANTS
  Row = {1, 2, 3}
  Time = {1, 2, 3}
  Limits = {1, 2}
  None = None
  Damaged = Damaged
INVARIANTS NoRepeat Complete OffsetExplained
PROPERTIES FeedEnds
