SPECIFICATION Spec
CONSTANTS
  p1 = p1
  p2 = p2
  p3 = p3
  text1 = text1
  binary1 = binary1
  poll2 = poll2
  binary2 = binary2
  Process = {p1, p2, p3}
  PublishOnly = {p3}
  Sub = {text1, binary1, poll2, binary2}
  Home <- MCHome
  Binary = {binary1, binary2}
  Poll = {poll2}
  Message = {m1, m2}
  Stored = {m1}
  MsPerSec = 4
  Word = 4
  Start = 11
  MaxNow = 12
INVARIANTS
  WrongTimeNeedsText
  ReplayTellsPublication
