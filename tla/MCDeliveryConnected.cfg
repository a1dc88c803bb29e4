SPECIFICATION Spec
CONSTANTS
  A = A  B = B  m1 = m1  m2 = m2  m3 = m3
  Processes = {p, q}
  Messages = {m1}
  Channels = {A, B}
  To <- BothChannels
  Stored = {m1}
  Clients = {w}
  Websockets = {w}
  Subscribed <- ListensToTwo
  Warm = FALSE
  RangeLimit = 3
  ReplayLimit = 3
  Expiring = TRUE
  MaxFaults = 1
PROPERTY ConnectedGetsAll
CHECK_DEADLOCK FALSE
