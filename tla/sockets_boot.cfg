SPECIFICATION FairSpec
CONSTANTS
  WORKER_COUNT = 3
  NET_PORT_MAX = 4
  NET_SOCK_MAX = 5
  WorkerPort <- InsidePorts
  TracePort <- InsidePorts
  QueueMemory = {0, 1, 3, 4}
INVARIANTS
  OwnSocket
  BootMatches
  NeverMisdelivers
  CrashesOnlyForMemory
PROPERTIES
  Boots
