SPECIFICATION FairSpec
CONSTANTS
  WORKER_COUNT = 3
  NET_PORT_MAX = 4
  NET_SOCK_MAX = 5
  WorkerPort <- Port
  TracePort <- Port
  QueueMemory = {4}
INVARIANTS
  BoundIsUsable
