SPECIFICATION Spec
CONSTANTS
  None = None
  PassThrough = PassThrough
  b1 = b1
  b2 = b2
  b3 = b3
  f0 = f0
  f1 = f1
  f2 = f2
  f3 = f3
  f9 = f9
  Buffer = {b1}
  BufferOrder <- OneBuffer
  Config <- BothTimers
  Mapping <- SharedBuffer
  Flow = {f1, f2}
  RUNTIME = 8
  MaxPackets = 4
  MaxGap = 2
  ByteSize = 4
  DeltaSize = 16
  LastByte <- TwoBytes
INVARIANTS
  SequencePorts
