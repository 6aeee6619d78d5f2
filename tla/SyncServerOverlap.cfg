SPECIFICATION Spec
CONSTANTS
  a = a  b = b
  k1 = k1  k2 = k2  k3 = k3
  x = x  y = y  z = z
  p = p  q = q
  Root = Root
  None = None
  Client = {a, b}
  Conn = {k1, k2, k3}
  Change = {x}
  Path = {p, q}
  ClientOf <- MCClientOf
  Patterns <- MCPatterns
  PathOf <- MCPathOf
  Delta = {a}
  Cap = 2
  Overlap = TRUE
  PersistFails = FALSE
  MaxFrames = 1
  MaxFaults = 1
CHECK_DEADLOCK FALSE
INVARIANTS NoSilentGap
