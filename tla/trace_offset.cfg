SPECIFICATION Spec
CONSTANTS
  TIME_RESOLUTION = 4
  DURATION = 2
  Flows <- RecordedFlow
  MaxRows = 12
INVARIANTS
  OffsetIgnored
