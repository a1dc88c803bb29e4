SPECIFICATION Spec
CONSTANTS
  r1 = r1
  r2 = r2
  Req = {r1, r2}
  Kinds <- MCKinds
  Frames <- MCFrames
  Server <- MCServer
  LicenseServer = TRUE
  MaxPayload = 2
  MaxMessages = 2
  MaxChannels = 2
  MaxFrames = 2
  MaxDay = 1
INVARIANTS
  PublishedIsAllowed
  AnswerTellsTheFate
  CrashNeedsCause
  GhostPollNeedsCloud
  ReportedIsToday
PROPERTY RequestEnds
CHECK_DEADLOCK FALSE
