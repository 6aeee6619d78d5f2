SPECIFICATION Spec
CONSTANTS
  low = low  high = high
  c1 = c1  c2 = c2  c3 = c3
  None = None
  Peer = {low, high}
  Conn = {c1, c2, c3}
  From <- MCFrom
  To <- MCTo
  Rank <- MCRank
  MaxTroubles = 1
CHECK_DEADLOCK FALSE
INVARIANTS TypeOK NoDeadEntry NoLeakedWriter AgreeAtRest TrackedAtRest
SYMMETRY SameConns
