\* Two servers that dial each other, one ephemeral frame.
SPECIFICATION FairSpec
CONSTANTS
  a = a  b = b  c = c  f = f
  l1 = l1  l2 = l2
  Server = {a, b, c}
  Link = {l1, l2}
  Topologies <- LoopTopologies
  Load <- LoopLoad
  MaxChanges = 0
  Frame = {f}
  Cap = 1
  MaxEvents = 1
  MaxFaults = 0
INVARIANT FrameOnce
CHECK_DEADLOCK FALSE
