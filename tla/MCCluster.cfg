SPECIFICATION Spec
CONSTANTS
  p1 = p1
  p2 = p2
  c1 = c1
  c2 = c2
  Process = {p1, p2}
  Conn = {c1, c2}
  Home <- MCHome
  StatTTL = 1
  StatDelta = 2
  PingInterval = 2
  OnlineTTL = 2
  OnlineDelta = 4
  Rtt = 1
  MaxLate = 1
  MaxStall = 2
  MaxStalls = 1
  MaxFaults = 1
INVARIANTS
  LiveProcessListed
  NoGhostProcess
  OnlineWhileConnected
  OnlineNeedsRecentClient
SYMMETRY Exchange
