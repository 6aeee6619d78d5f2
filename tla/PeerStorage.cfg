\* A Push and a Sync among three changes; two writes fail; one shutdown.
SPECIFICATION FairSpec
CONSTANTS
  Change = {x, y, z}
  MaxFails = 2
INVARIANT NothingForgotten
PROPERTY SavedInTime
CHECK_DEADLOCK FALSE
