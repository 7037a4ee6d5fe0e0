SPECIFICATION FairSpec
CONSTANTS
  WORKER_COUNT = 2
  NET_QUEUE_SIZE = 2
  port_map <- MC_port_map
  Trace <- MixedTrace
  Start <- MixedStart
  TRACE_PACKET_COUNT <- MixedCount
  HeapWord = {"zero"}
INVARIANTS
  TypeOK
  Handshake
  Numbering
  MailboxCredit
  Pipeline
  InOrder
  RightWorker
  SentBeforeReceived
PROPERTIES
  Drains
  Delivers
  ReportsUnlessLost
  AcceptedCompletes
