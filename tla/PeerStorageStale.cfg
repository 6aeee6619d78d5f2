\* No write fails: the flag is wrong only because two saves overlap.
SPECIFICATION Spec
CONSTANTS
  Change = {x, y}
  MaxFails = 0
INVARIANT FlagTellsUnsaved
CHECK_DEADLOCK FALSE
