SPECIFICATION FairSpec
CONSTANTS
  Count = 3
  AbsoluteRoot = TRUE
  SimulateOption = {TRUE, FALSE}
  BuildOption = {TRUE, FALSE}
  Rows = 2
  MaxFaults = 2
INVARIANTS
  OwnRows
  DoneIsComplete
PROPERTIES
  Progress
