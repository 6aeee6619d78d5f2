\* Two peers that discover each other; two changes; one lost link or failed dial.
SPECIFICATION Spec
CONSTANTS
  a = a
  b = b
  c = c
  Node = {a, b}
  Change = {x, y}
  Discovers <- MCMutual
  NoFilter = {}
  Writers = {a, b}
  MaxDowns = 1
  None = None
SYMMETRY Same
INVARIANTS SyncFits SyncedAtRest OnlyUnsentIsMissing
CHECK_DEADLOCK FALSE
