SPECIFICATION Spec
CONSTANTS
  None = None
  PassThrough = PassThrough
  b1 = b1
  b2 = b2
  b3 = b3
  f0 = f0
  f1 = f1
  f2 = f2
  f3 = f3
  f9 = f9
  Buffer = {b1, b2, b3}
  BufferOrder <- ThreeBuffers
  Config <- AllLimits
  Mapping <- OwnBuffers
  Flow = {f0, f1, f2, f3, f9}
  RUNTIME = 9
  MaxPackets = 4
  MaxGap = 2
  ByteSize = 4
  DeltaSize = 16
  LastByte <- Bytes
INVARIANTS
  SimulatorTypeOK
  InOrderOnce
  IrqTimesAgree
  LatencyBound
  Punctual
  BatchWithinLimit
  EmptyOnlyAfterLimit
  CountsAddUp
  PortsKept
  TimesRestored
PROPERTIES
  OverflowPersists
