SPECIFICATION Spec
CONSTANTS
  Processes = {p, q}
  NoLicense = NoLicense
  MaxStarts = 2
  MaxLookups = 1
  MaxFaults = 1
INVARIANTS TypeOK OneKey OutdatedNeedsReason StopNeedsRemovalOrFault ErrorNeedsLostConnection
PROPERTY CheckEnds
CHECK_DEADLOCK FALSE
