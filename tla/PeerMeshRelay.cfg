\* Three peers that form a cycle; one of them writes.
SPECIFICATION FairSpec
CONSTANTS
  a = a
  b = b
  c = c
  Node = {a, b, c}
  Change = {x}
  Discovers <- MCTriangle
  NoFilter = {}
  Writers = {b}
  MaxDowns = 0
  None = None
INVARIANT OnlyUnsentIsMissing
PROPERTY Settles
CHECK_DEADLOCK FALSE
