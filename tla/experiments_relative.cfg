SPECIFICATION FairSpec
CONSTANTS
  Count = 2
  AbsoluteRoot = FALSE
  SimulateOption = {TRUE}
  BuildOption = {TRUE}
  Rows = 2
  MaxFaults = 0
PROPERTIES
  RunsAll
