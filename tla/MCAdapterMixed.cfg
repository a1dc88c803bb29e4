SPECIFICATION Spec
CONSTANTS
  w1 = w1  w2 = w2  w3 = w3  p1 = p1  p2 = p2
  A = A  B = B  qa = qa  qb = qb
  Connections = {w1, w2, p1, p2}
  Websockets = {w1, w2}
  Private = {A, B}
  Public = {qa, qb}
  NoId = NoId
  Channels <- MixedSubscriptions
  WithMid = {p1}
  MaxConnPerChannel = 2
  CloudMode = TRUE
  MaxReceivers = 2
INVARIANTS
  AllOrNothing RegisteredPollIsUnanswered PublicIdResolves StatisticsCount
CHECK_DEADLOCK FALSE
