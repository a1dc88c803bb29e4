SPECIFICATION Spec
CONSTANTS
  A = A  B = B  m1 = m1  m2 = m2  m3 = m3
  Processes = {p}
  Messages = {m1, m2, m3}
  Channels = {A, B}
  To <- TwoChannels
  Stored = {m1, m2, m3}
  Clients = {c}
  Websockets = {}
  Subscribed <- ListensToTwo
  Warm = TRUE
  RangeLimit = 2
  ReplayLimit = 2
  Expiring = FALSE
  MaxFaults = 1
INVARIANTS TypeOK Ascending NothingSkipped
PROPERTIES SavedIsDelivered ChannelsGetTTL
CHECK_DEADLOCK FALSE
