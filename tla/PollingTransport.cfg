SPECIFICATION PollSpec
CONSTANTS
  Polls = {a, b, c}
  WithMid = {a}
INVARIANTS PollTypeOK CrashNeedsLateReply
PROPERTY PollEnds
CHECK_DEADLOCK FALSE
