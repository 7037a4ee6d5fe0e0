SPECIFICATION Spec
CONSTANTS
  Word = 16
  Delta = {0, 3, 7}
  IrqCount = 3
  Latency = {0, 2, 8}
  Overrun = {0, 1}
  StartTime = {5, 14}
INVARIANTS
  NotEarly
  Compensated
  TxDelayTrue
CHECK_DEADLOCK FALSE
