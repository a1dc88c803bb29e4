SPECIFICATION Spec
CONSTANTS
  A = A  B = B  m1 = m1  m2 = m2  m3 = m3
  Processes = {p, q}
  Messages = {m1, m2}
  Channels = {A, B}
  To <- OneChannel
  Stored = {m1, m2}
  Clients = {c}
  Websockets = {}
  Subscribed <- ListensToOne
  Warm = TRUE
  RangeLimit = 3
  ReplayLimit = 3
  Expiring = FALSE
  MaxFaults = 0
INVARIANT EveryMessageInOrder
CHECK_DEADLOCK FALSE
