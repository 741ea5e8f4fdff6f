SPECIFICATION FairSpec
CONSTANTS
  Capacity = 3
  MaxBufferBytes = 5
  MaxSnapshotBytes = 4
  MaxPageBytes = 6
  PageOverhead = 1
  Limit = 2
  Sizes = {1, 3, 5}
  MaxSequence = 5
  MaxSessions = 2
INVARIANTS TypeOK BufferIsNewestStretch NothingSkippedSilently GapsAreReal CursorStaysValid
PROPERTIES ConsumerCatchesUp
