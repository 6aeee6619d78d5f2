SPECIFICATION FairSpec
CONSTANTS
  a = a  b = b
  k1 = k1  k2 = k2  k3 = k3
  x = x  y = y  z = z
  p = p  q = q
  Root = Root
  None = None
  Client = {a, b}
  Conn = {k1, k2, k3}
  Change = {y, z}
  Path = {p, q}
  ClientOf <- MCClientOf
  Patterns <- MCPatterns
  PathOf <- MCPathOf
  Delta = {}
  Cap = 1
  Overlap = FALSE
  PersistFails = FALSE
  MaxFrames = 1
  MaxFaults = 1
CHECK_DEADLOCK FALSE
INVARIANTS NothingHeldBack
PROPERTIES Delivered Forgotten
