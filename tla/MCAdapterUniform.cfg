SPECIFICATION Spec
CONSTANTS
  w1 = w1  w2 = w2  w3 = w3  p1 = p1  p2 = p2
  A = A  B = B  qa = qa  qb = qb
  Connections = {w1, w2, w3, p1, p2}
  Websockets = {w1, w2, w3}
  Private = {A, B}
  Public = {qa, qb}
  NoId = NoId
  Channels <- UniformSubscriptions
  WithMid = {w2, p1}
  MaxConnPerChannel = 2
  CloudMode = FALSE
  MaxReceivers = 1
INVARIANTS
  OpenSubscriberIsRegistered NoGhost NoLeakedPublicId ChannelCapacity
PROPERTIES EvictsTheOldest DirectorySpec
CHECK_DEADLOCK FALSE
