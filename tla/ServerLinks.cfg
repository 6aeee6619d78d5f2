\* Three servers and two links, in every way that differs; one fault.
SPECIFICATION FairSpec
CONSTANTS
  a = a  b = b  c = c  f = f
  l1 = l1  l2 = l2
  Server = {a, b, c}
  Link = {l1, l2}
  Topologies <- MCTopologies
  Load <- MCLoad
  MaxChanges = 2
  Frame = {f}
  Cap = 1
  MaxEvents = 2
  MaxFaults = 1
INVARIANTS TypeOK OnlySyncIsUnsaved OnlyRelayedIsMissingBelow OnlyEarlierIsMissingAbove OnlySilentIsUntold
PROPERTY Settles
CHECK_DEADLOCK FALSE
