SPECIFICATION Spec
CONSTANTS
  None = None
  PassThrough = PassThrough
  b1 = b1
  f0 = f0
  f1 = f1
  Buffer = {b1}
  BufferOrder <- OneBuffer
  Config <- TimerOnly
  Mapping <- OneFlow
  Flow = {f0, f1}
  RUNTIME = 8
  MaxPackets = 4
  MaxGap = 3
INVARIANTS
  NeverCrashes
