\* The parts that run on their own, one at a time.
SPECIFICATION MCSpec
CONSTANTS
  u = u  v = v
  box = box  boxa = boxa  boxes = boxes  me = me  p1 = p1  p10 = p10  p2 = p2
  old = old  new = new  anon = anon  n1 = n1  n2 = n2
  \* Policy and subscriptions: two actors, two rules, paths of three segments.
  Name = {u, v}
  Actor = {u, v}
  Star = Star
  Deep = Deep
  Self = Self
  Anyone = Anyone
  Priorities = {1, 2}
  MaxSegments = 3
  MaxPath = 3
  MaxRules = 2
  Wanted <- MCWanted
  MaxRequest = 2
  Absent = Absent
  \* The document: paths of two segments, two objects, one observer.
  Segment = {p, n}
  Index = {n}
  MaxDepth = 2
  Scalar = {s}
  Opaque = {b}
  None = None
  Bad = Bad
  MaxObjects = 2
  MaxWatched = 1
  \* Arrays of records: two replicas, three assignments of up to two items.
  NumReplicas = 2
  Key = {1, 2, 3}
  Item = {old, new, anon}
  Time <- MCTime
  KeysOf <- MCKeysOf
  Nothing = Nothing
  Here = Here
  MaxItems = 2
  MaxAssigns = 3
  MaxWrites = 3
  \* The codec: strings and lists of up to two elements, some beyond the limits.
  MaxString = 1
  MaxBytes = 2
  MaxStrings = 1
  MaxChanges = 2
  MaxUpdates = 1
  Wrap = 3
  Longest = 2
  Trailing = 1
  \* Observers of the browser: a map, a scalar in it and one beside it; one observer.
  Leaf = {boxa, boxes}
  Branch = {box}
  Under <- MCUnder
  Begins <- MCBegins
  Datum = {x, y}
  Unset = Unset
  MaxWatchers = 1
  \* Discovery: four peers, six moves.
  Peer = {me, p1, p10, p2}
  Me = me
  InName <- MCInName
  NoId = NoId
  MaxMoves = 6
  \* Datagrams: two nodes, one inbound connection in each step of handle_inbound.
  Node = {n1, n2}
  Rank <- MCRank
  Dials <- MCDials
  NoEntry = NoEntry
  NoAddress = NoAddress
  MaxStarts = 1
  MaxPending = 1
  MaxUnder = 2
INVARIANTS MatchesWhatItCovers AnswersTell ObserversKnow RegistryKnows ReadsBack NoItemLost ArrivesAsSent CutIsRefused WatchersKnow KnowsWhoIsThere UdpBothWays
PROPERTY LaterRulesYield
CHECK_DEADLOCK FALSE
