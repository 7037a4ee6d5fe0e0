SPECIFICATION FairSpec
CONSTANTS
  TIME_RESOLUTION = 4
  DURATION = 2
  Flows <- MixedFlows
  MaxRows = 12
INVARIANTS
  Replayable
  RateReached
  RecordingKept
PROPERTIES
  Terminates
