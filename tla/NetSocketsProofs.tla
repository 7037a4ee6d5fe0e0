-------------------------- MODULE NetSocketsProofs --------------------------
(***************************************************************************)
(* Theorems about NetSockets: with ports inside the port map, the boot     *)
(* gives each worker its own socket, for any number of workers, ports and  *)
(* queues, and any number of crashes and reboots.                          *)
(***************************************************************************)
EXTENDS NetSockets, TLAPS

\* The sockets numbered like their workers fit into sock_table, and no port is
\* the one behind the port map.
PortsInside == WorkerPort \cup TracePort \subseteq 0 .. NET_PORT_MAX - 1

-----------------------------------------------------------------------------
(* The inductive invariant.  The socket of a worker is right because       *)
(* nobody else is between the two steps of net_sock: app_main has created  *)
(* the workers one by one, each has blocked before the next exists.        *)

Started(w) == wpc[w] \in {"bind", "recv", "blocked"}
Bound(w)   == wpc[w] \in {"recv", "blocked"}

OwnPorts ==
  /\ port \in [Worker -> WorkerPort]
  /\ \A v, w \in Worker : v # w => port[v] # port[w]

OneByOne ==
  /\ boot \in {"traffic", "net"} => created = 0
  /\ boot = "returned" => created = WORKER_COUNT
  /\ \A w \in Worker : /\ w < created => wpc[w] = "blocked"
                       /\ w = created => wpc[w] # "absent"
                       /\ w > created => wpc[w] = "absent"
  /\ tpc = "running" => boot = "returned" /\ wpc[WORKER_COUNT] = "blocked"

\* The counter is one behind while the newest worker has not incremented it.
Counted ==
  sock_high = IF \E w \in Worker : wpc[w] = "sock" THEN created - 1 ELSE created

Numbered == \A w \in Worker : Started(w) => sock[w] = w /\ sock_table[w].task = w

Mapped ==
  /\ \A w \in Worker : Bound(w) => port_map[port[w]] = w
  /\ \A p \in 0 .. NET_PORT_MAX - 1 :
       port_map[p] # 0 => \E w \in Worker : port[w] = p /\ Bound(w)

BootInv == /\ TypeOK /\ OwnPorts /\ OneByOne /\ Counted /\ Numbered /\ Mapped
           /\ NeverMisdelivers

LEMMA SizeFacts ==
  /\ WORKER_COUNT \in Nat /\ NET_PORT_MAX \in Nat /\ NET_SOCK_MAX \in Nat
  /\ WORKER_COUNT > 0 /\ NET_PORT_MAX > 0 /\ WORKER_COUNT < NET_SOCK_MAX
BY SocketsAssumption

LEMMA InitBoot == Init => BootInv
<1> SUFFICES ASSUME Init PROVE BootInv
  OBVIOUS
<1> USE SizeFacts
<1>1. TypeOK
  <2>1. port \in [Worker -> Port] /\ memory \in Nat
    BY SocketsAssumption DEF Init
  <2>2. /\ sock \in [Worker -> Socket] /\ port_map \in [Port -> Socket]
        /\ sock_table \in [Socket -> [task : {NULL} \cup Worker, queue : BOOLEAN]]
    <3>1. 0 \in Socket
      BY DEF Socket
    <3> QED
      BY <3>1 DEF Init
  <2>3. queues \in 0 .. memory
    BY <2>1 DEF Init
  <2>4. /\ wpc \in [Worker -> {"absent", "sock", "entry", "bind", "recv", "blocked"}]
        /\ \A w \in Worker : wpc[w] = "absent"
    BY DEF Init
  <2>5. /\ boot = "traffic" /\ tpc = "absent" /\ npc = "absent" /\ crashed \in BOOLEAN
    BY DEF Init
  <2>6. created \in 0 .. WORKER_COUNT /\ delivered \subseteq Port \X (Worker \cup {NULL})
    BY DEF Init
  <2> QED
    BY <2>1, <2>2, <2>3, <2>4, <2>5, <2>6 DEF TypeOK
<1>2. OwnPorts /\ NeverMisdelivers
  BY DEF Init, OwnPorts, NeverMisdelivers, Misdelivers
<1>3. OneByOne
  BY DEF Init, OneByOne, Worker
<1>4. Counted
  BY DEF Init, Counted, sock_high, Port
<1>5. Numbered /\ Mapped
  BY DEF Init, Numbered, Mapped, Started, Bound, Port
<1> QED
  BY <1>1, <1>2, <1>3, <1>4, <1>5 DEF BootInv

\* app_main only runs when every worker it has created is blocked.
LEMMA MainLast ==
  ASSUME MainRuns PROVE \A w \in Worker : wpc[w] \in {"absent", "blocked"}
<1>1. \A other \in 0 .. WORKER_COUNT : ~Ready(other)
  BY SizeFacts DEF MainRuns, Runs
<1> QED
  BY <1>1, SizeFacts DEF Ready, Worker

LEMMA MainBoot == BootInv /\ (MainStep \/ TrafficStarts \/ NetBlocks) => BootInv'
<1> SUFFICES ASSUME BootInv, MainStep \/ TrafficStarts \/ NetBlocks PROVE BootInv'
  OBVIOUS
<1> USE DEF BootInv
<1>1. /\ UNCHANGED <<config, sock, port_map, sock_table, delivered>>
      /\ OwnPorts' /\ NeverMisdelivers'
  BY DEF MainStep, TrafficInit, NetInit, WorkerInit, TrafficStarts, NetBlocks, netMemory,
         config, OwnPorts, NeverMisdelivers, Misdelivers
<1>2. CASE TrafficInit \/ NetInit \/ TrafficStarts \/ NetBlocks
  <2>1. wpc' = wpc /\ created' = created
    BY <1>2 DEF TrafficInit, NetInit, TrafficStarts, NetBlocks, bootVars
  <2>2. TypeOK'
    <3>1. queues' \in 0 .. memory
      BY <1>2 DEF TrafficInit, NetInit, TrafficStarts, NetBlocks, netMemory, QueuesAfter,
                  QueueCreated, TypeOK
    <3> QED
      BY <1>1, <1>2, <2>1, <3>1, SizeFacts
      DEF TrafficInit, NetInit, TrafficStarts, NetBlocks, config, bootVars, OneByOne, TypeOK
  <2>3. OneByOne'
    <3>1. CASE TrafficInit \/ NetInit \/ NetBlocks
      BY <2>1, <3>1 DEF TrafficInit, NetInit, NetBlocks, bootVars, OneByOne
    <3>2. CASE TrafficStarts
      <4>1. WORKER_COUNT \in Worker /\ created = WORKER_COUNT /\ boot = "returned"
        BY <3>2, SizeFacts DEF TrafficStarts, OneByOne, Worker
      <4>2. wpc[WORKER_COUNT] = "blocked"
        BY <3>2, <4>1, MainLast DEF TrafficStarts, OneByOne
      <4> QED
        BY <2>1, <3>2, <4>1, <4>2 DEF TrafficStarts, bootVars, OneByOne
    <3> QED
      BY <1>2, <3>1, <3>2
  <2>4. Counted' /\ Numbered' /\ Mapped'
    BY <1>1, <2>1 DEF Counted, sock_high, Numbered, Mapped, Started, Bound, config
  <2> QED
    BY <1>1, <2>2, <2>3, <2>4
<1>3. CASE WorkerInit
  <2>1. /\ created \in Nat /\ created < WORKER_COUNT /\ created + 1 \in Worker
        /\ created' = created + 1 /\ wpc' = [wpc EXCEPT ![created + 1] = "sock"]
        /\ UNCHANGED <<tpc, npc, queues, crashed>>
        /\ boot' = IF created + 1 = WORKER_COUNT THEN "returned" ELSE "workers"
        /\ wpc \in [Worker -> {"absent", "sock", "entry", "bind", "recv", "blocked"}]
    BY <1>3, SizeFacts DEF WorkerInit, LastWorker, netMemory, TypeOK, Worker
  <2>2. /\ wpc'[created + 1] = "sock" /\ wpc[created + 1] = "absent"
        /\ \A w \in Worker : w # created + 1 => wpc'[w] = wpc[w]
    BY <2>1 DEF OneByOne, Worker
  <2>3. \A w \in Worker : wpc[w] \in {"absent", "blocked"}
    BY <1>3, MainLast DEF WorkerInit
  <2>4. TypeOK'
    BY <1>1, <2>1, <2>2, SizeFacts DEF config, TypeOK
  <2>5. OneByOne'
    <3>1. \A w \in Worker : /\ w < created' => wpc'[w] = "blocked"
                            /\ w = created' => wpc'[w] # "absent"
                            /\ w > created' => wpc'[w] = "absent"
      <4> SUFFICES ASSUME NEW w \in Worker
                   PROVE  /\ w < created + 1 => wpc'[w] = "blocked"
                          /\ w = created + 1 => wpc'[w] # "absent"
                          /\ w > created + 1 => wpc'[w] = "absent"
        BY <2>1
      <4>1. w \in Nat /\ (w < created + 1 => w = created \/ w < created)
        BY <2>1, SizeFacts DEF Worker
      <4> QED
        BY <2>1, <2>2, <2>3, <4>1 DEF OneByOne
    <3>2. tpc # "running"
      BY <1>3 DEF WorkerInit, OneByOne
    <3> QED
      BY <2>1, <3>1, <3>2 DEF OneByOne
  <2>6. Counted'
    <3>1. sock_high' = sock_high /\ sock_high = created
      BY <1>1, <2>3 DEF Counted, sock_high
    <3> QED
      BY <2>1, <2>2, <3>1 DEF Counted
  <2>7. Numbered' /\ Mapped'
    <3>1. \A w \in Worker : (Started(w)' <=> Started(w)) /\ (Bound(w)' <=> Bound(w))
      BY <2>2 DEF Started, Bound
    <3> QED
      BY <1>1, <3>1 DEF Numbered, Mapped, config
  <2> QED
    BY <1>1, <2>4, <2>5, <2>6, <2>7
<1> QED
  BY <1>2, <1>3 DEF MainStep

\* A worker that has not blocked yet is the one created last.
LEMMA Newest ==
  ASSUME BootInv, NEW w \in Worker, wpc[w] \notin {"absent", "blocked"}
  PROVE  /\ w = created /\ w \in Nat /\ w > 0 /\ w < NET_SOCK_MAX
         /\ tpc # "running"
         /\ \A v \in Worker : v # w => wpc[v] \in {"absent", "blocked"}
         /\ sock_high = IF wpc[w] = "sock" THEN w - 1 ELSE w
<1>1. w \in Nat /\ w > 0 /\ w <= WORKER_COUNT /\ created \in Nat
  BY SizeFacts DEF Worker, BootInv, TypeOK
<1>2. \A v \in Worker : wpc[v] \notin {"absent", "blocked"} => v = created
  <2> SUFFICES ASSUME NEW v \in Worker, wpc[v] \notin {"absent", "blocked"} PROVE v = created
    OBVIOUS
  <2>1. v \in Nat /\ ~(v < created) /\ ~(v > created)
    BY SizeFacts DEF Worker, BootInv, OneByOne
  <2> QED
    BY <1>1, <2>1
<1>3. w = created
  BY <1>2
<1>4. tpc # "running"
  BY <1>3 DEF BootInv, OneByOne
<1>5. (\E v \in Worker : wpc[v] = "sock") <=> wpc[w] = "sock"
  BY <1>2, <1>3
<1>6. sock_high = IF wpc[w] = "sock" THEN w - 1 ELSE w
  BY <1>3, <1>5 DEF BootInv, Counted
<1> QED
  BY <1>1, <1>2, <1>3, <1>4, <1>6, SizeFacts

\* A step of worker w that changes only its own control point to `pc` leaves the
\* order of the boot as it is.
LEMMA StartOneByOne ==
  ASSUME BootInv, NEW w \in Worker, wpc[w] \notin {"absent", "blocked"},
         NEW pc \in {"entry", "bind", "recv", "blocked"},
         wpc' = [wpc EXCEPT ![w] = pc], UNCHANGED <<bootVars, tpc>>
  PROVE  /\ OneByOne'
         /\ wpc'[w] = pc /\ \A v \in Worker : v # w => wpc'[v] = wpc[v]
         /\ \A v \in Worker : wpc'[v] # "sock"
<1>1. wpc'[w] = pc /\ \A v \in Worker : v # w => wpc'[v] = wpc[v]
  BY DEF BootInv, TypeOK
<1>2. w = created /\ w \in Nat /\ tpc # "running"
  BY Newest
<1>3. \A v \in Worker : wpc'[v] # "sock"
  BY <1>1, Newest
<1>4. \A v \in Worker : /\ v < created => wpc'[v] = "blocked"
                        /\ v = created => wpc'[v] # "absent"
                        /\ v > created => wpc'[v] = "absent"
  BY <1>1, <1>2 DEF BootInv, OneByOne
<1>5. /\ boot \in {"traffic", "net"} => created = 0
      /\ boot = "returned" => created = WORKER_COUNT
  BY DEF BootInv, OneByOne
<1>6. OneByOne'
  BY <1>2, <1>4, <1>5 DEF OneByOne, bootVars
<1> QED
  BY <1>1, <1>3, <1>6

LEMMA WorkerBoot ==
  ASSUME PortsInside, NEW w \in Worker PROVE BootInv /\ WorkerStart(w) => BootInv'
<1> SUFFICES ASSUME BootInv, WorkerStart(w) PROVE BootInv'
  OBVIOUS
<1>1. /\ wpc[w] \notin {"absent", "blocked"}
      /\ UNCHANGED <<config, bootVars, tpc, npc, delivered, crashed>>
  BY DEF WorkerStart, SockIncrement, SockEntry, Bind, Recv
<1>2. /\ w = created /\ w \in Nat /\ w > 0 /\ w < NET_SOCK_MAX
      /\ w \in Socket /\ w - 1 \in Socket
      /\ sock_high = IF wpc[w] = "sock" THEN w - 1 ELSE w
  BY <1>1, Newest, SizeFacts DEF Socket
<1>3. OwnPorts' /\ NeverMisdelivers'
  BY <1>1 DEF BootInv, config, OwnPorts, NeverMisdelivers, Misdelivers
<1>4. \A v \in Worker : port[v] \in Port /\ port[v] # NET_PORT_MAX
                        /\ port[v] \in 0 .. NET_PORT_MAX - 1
  <2>1. \A v \in Worker : port[v] \in 0 .. NET_PORT_MAX - 1
    BY DEF BootInv, OwnPorts, PortsInside
  <2> QED
    BY <2>1, SizeFacts DEF Port
<1>5. NET_PORT_MAX \in Port
  BY SizeFacts DEF Port
<1>6. TypeOK
  BY DEF BootInv
<1>7. CASE SockIncrement(w)
  <2>1. /\ wpc[w] = "sock" /\ wpc' = [wpc EXCEPT ![w] = "entry"]
        /\ port_map' = [port_map EXCEPT ![NET_PORT_MAX] = port_map[NET_PORT_MAX] + 1]
        /\ UNCHANGED <<sock, sock_table, queues>>
    BY <1>7 DEF SockIncrement
  <2>2. /\ OneByOne' /\ wpc'[w] = "entry"
        /\ \A v \in Worker : v # w => wpc'[v] = wpc[v]
        /\ \A v \in Worker : wpc'[v] # "sock"
    BY <1>1, <2>1, StartOneByOne
  <2>3. sock_high' = w /\ \A p \in Port : p # NET_PORT_MAX => port_map'[p] = port_map[p]
    <3>1. port_map[NET_PORT_MAX] = w - 1 /\ port_map \in [Port -> Socket]
      BY <1>2, <1>6, <2>1 DEF sock_high, TypeOK
    <3> QED
      BY <1>2, <1>5, <2>1, <3>1 DEF sock_high
  <2>4. TypeOK'
    <3>1. port_map' \in [Port -> Socket]
      BY <1>2, <1>6, <2>1, <2>3 DEF TypeOK, sock_high
    <3> QED
      BY <1>1, <1>6, <2>1, <2>2, <3>1 DEF TypeOK, config, bootVars
  <2>5. Counted'
    BY <1>1, <1>2, <2>2, <2>3 DEF Counted, bootVars
  <2>6. \A v \in Worker : (Started(v)' <=> Started(v)) /\ (Bound(v)' <=> Bound(v))
    BY <2>1, <2>2 DEF Started, Bound
  <2>7. Numbered'
    BY <2>1, <2>6 DEF BootInv, Numbered
  <2>8. Mapped'
    <3>1. \A p \in 0 .. NET_PORT_MAX - 1 : port_map'[p] = port_map[p]
      BY <2>3, SizeFacts DEF Port
    <3> QED
      BY <1>1, <1>4, <2>6, <3>1 DEF BootInv, Mapped, config
  <2> QED
    BY <1>3, <2>2, <2>4, <2>5, <2>7, <2>8 DEF BootInv
<1>8. CASE SockEntry(w)
  <2>1. /\ wpc[w] = "entry" /\ wpc' = [wpc EXCEPT ![w] = "bind"] /\ sock_high = w
        /\ sock_table' = [sock_table EXCEPT ![w] = [task |-> w, queue |-> QueueCreated]]
        /\ sock' = [sock EXCEPT ![w] = w] /\ queues' = QueuesAfter /\ port_map' = port_map
    BY <1>2, <1>8 DEF SockEntry, Entry
  <2>2. /\ OneByOne' /\ wpc'[w] = "bind"
        /\ \A v \in Worker : v # w => wpc'[v] = wpc[v]
        /\ \A v \in Worker : wpc'[v] # "sock"
    BY <1>1, <2>1, StartOneByOne
  <2>3. /\ sock'[w] = w /\ sock_table'[w].task = w
        /\ \A v \in Worker : v # w => sock'[v] = sock[v] /\ sock_table'[v] = sock_table[v]
    <3>1. Worker \subseteq Socket
      BY SizeFacts DEF Worker, Socket
    <3> QED
      BY <1>2, <1>6, <2>1, <3>1 DEF TypeOK
  <2>4. TypeOK'
    <3>1. sock' \in [Worker -> Socket]
      BY <1>2, <1>6, <2>1 DEF TypeOK
    <3>2. sock_table' \in [Socket -> [task : {NULL} \cup Worker, queue : BOOLEAN]]
      <4>1. [task |-> w, queue |-> QueueCreated] \in [task : {NULL} \cup Worker, queue : BOOLEAN]
        BY DEF QueueCreated
      <4> QED
        BY <1>6, <2>1, <4>1 DEF TypeOK
    <3>3. queues' \in 0 .. memory
      BY <1>6, <2>1 DEF QueuesAfter, QueueCreated, TypeOK
    <3>4. \A v \in Worker : wpc'[v] \in {"bind", "recv", "blocked"} => sock'[v] > 0
      BY <1>2, <1>6, <2>2, <2>3 DEF TypeOK
    <3>5. wpc' \in [Worker -> {"absent", "sock", "entry", "bind", "recv", "blocked"}]
      BY <1>6, <2>1 DEF TypeOK
    <3> QED
      BY <1>1, <1>6, <2>1, <3>1, <3>2, <3>3, <3>4, <3>5 DEF TypeOK, config, bootVars
  <2>5. Counted'
    BY <1>1, <1>2, <2>1, <2>2 DEF Counted, sock_high, bootVars
  <2>6. Numbered'
    BY <2>2, <2>3 DEF BootInv, Numbered, Started
  <2>7. Mapped'
    <3>1. \A v \in Worker : Bound(v)' <=> Bound(v)
      BY <2>1, <2>2 DEF Bound
    <3> QED
      BY <1>1, <2>1, <3>1 DEF BootInv, Mapped, config
  <2> QED
    BY <1>3, <2>2, <2>4, <2>5, <2>6, <2>7 DEF BootInv
<1>9. CASE Bind(w)
  <2>1. /\ wpc[w] = "bind" /\ wpc' = [wpc EXCEPT ![w] = "recv"]
        /\ port_map' = [port_map EXCEPT ![port[w]] = w]
        /\ UNCHANGED <<sock, sock_table, queues>>
    BY <1>9 DEF Bind, BoundAt, Owns, BootInv, Numbered, Started
  <2>2. /\ OneByOne' /\ wpc'[w] = "recv"
        /\ \A v \in Worker : v # w => wpc'[v] = wpc[v]
        /\ \A v \in Worker : wpc'[v] # "sock"
    BY <1>1, <2>1, StartOneByOne
  <2>3. port_map'[port[w]] = w /\ \A p \in Port : p # port[w] => port_map'[p] = port_map[p]
    BY <1>4, <1>6, <2>1 DEF TypeOK
  <2>4. TypeOK'
    <3>1. port_map' \in [Port -> Socket]
      BY <1>2, <1>6, <2>1 DEF TypeOK
    <3>2. wpc' \in [Worker -> {"absent", "sock", "entry", "bind", "recv", "blocked"}]
      BY <1>6, <2>1 DEF TypeOK
    <3>3. \A v \in Worker : wpc'[v] \in {"bind", "recv", "blocked"} => sock'[v] > 0
      BY <1>6, <2>1, <2>2 DEF TypeOK
    <3> QED
      BY <1>1, <1>6, <2>1, <3>1, <3>2, <3>3 DEF TypeOK, config, bootVars
  <2>5. Counted'
    <3>1. sock_high' = w
      BY <1>2, <1>4, <1>5, <2>1, <2>3 DEF sock_high
    <3> QED
      BY <1>1, <1>2, <2>2, <3>1 DEF Counted, bootVars
  <2>6. Numbered'
    BY <2>1, <2>2 DEF BootInv, Numbered, Started
  <2>7. Mapped'
    <3>1. ASSUME NEW v \in Worker, Bound(v)' PROVE port_map'[port'[v]] = v
      <4>1. port' = port
        BY <1>1 DEF config
      <4>2. CASE v = w
        BY <2>3, <4>1, <4>2
      <4>3. CASE v # w
        <5>1. Bound(v) /\ port_map[port[v]] = v
          BY <2>2, <3>1, <4>3 DEF Bound, BootInv, Mapped
        <5>2. port[v] # port[w]
          BY <4>3 DEF BootInv, OwnPorts
        <5> QED
          BY <1>4, <2>3, <4>1, <5>1, <5>2
      <4> QED
        BY <4>2, <4>3
    <3>2. ASSUME NEW p \in 0 .. NET_PORT_MAX - 1, port_map'[p] # 0
          PROVE  \E v \in Worker : port'[v] = p /\ Bound(v)'
      <4>1. port' = port /\ p \in Port
        BY <1>1, SizeFacts DEF config, Port
      <4>2. CASE p = port[w]
        BY <2>2, <4>1, <4>2 DEF Bound
      <4>3. CASE p # port[w]
        <5>1. PICK v \in Worker : port[v] = p /\ Bound(v)
          BY <2>3, <3>2, <4>1, <4>3 DEF BootInv, Mapped
        <5> QED
          BY <2>2, <4>1, <4>3, <5>1 DEF Bound
      <4> QED
        BY <4>2, <4>3
    <3> QED
      BY <3>1, <3>2 DEF Mapped
  <2> QED
    BY <1>3, <2>2, <2>4, <2>5, <2>6, <2>7 DEF BootInv
<1>10. CASE Recv(w)
  <2>1. /\ wpc[w] = "recv" /\ wpc' = [wpc EXCEPT ![w] = "blocked"]
        /\ UNCHANGED <<sock, port_map, sock_table, queues>>
    BY <1>10 DEF Recv, Owns, BootInv, Numbered, Started, netMemory
  <2>2. /\ OneByOne' /\ wpc'[w] = "blocked"
        /\ \A v \in Worker : v # w => wpc'[v] = wpc[v]
        /\ \A v \in Worker : wpc'[v] # "sock"
    BY <1>1, <2>1, StartOneByOne
  <2>3. \A v \in Worker : (Started(v)' <=> Started(v)) /\ (Bound(v)' <=> Bound(v))
    BY <2>1, <2>2 DEF Started, Bound
  <2>4. TypeOK'
    <3>1. wpc' \in [Worker -> {"absent", "sock", "entry", "bind", "recv", "blocked"}]
      BY <1>6, <2>1 DEF TypeOK
    <3>2. \A v \in Worker : wpc'[v] \in {"bind", "recv", "blocked"} => sock'[v] > 0
      BY <1>6, <2>1, <2>2 DEF TypeOK
    <3> QED
      BY <1>1, <1>6, <2>1, <3>1, <3>2 DEF TypeOK, config, bootVars
  <2>5. Counted'
    BY <1>1, <1>2, <2>1, <2>2 DEF Counted, sock_high, bootVars
  <2>6. Numbered' /\ Mapped'
    BY <1>1, <2>1, <2>3 DEF BootInv, Numbered, Mapped, config
  <2> QED
    BY <1>3, <2>2, <2>4, <2>5, <2>6 DEF BootInv
<1> QED
  BY <1>7, <1>8, <1>9, <1>10 DEF WorkerStart

LEMMA PacketBoot ==
  ASSUME PortsInside, NEW p \in TracePort PROVE BootInv /\ TracePacket(p) => BootInv'
<1> SUFFICES ASSUME BootInv, Packet(p) \/ Unbound(p) PROVE BootInv'
  BY DEF TracePacket
<1>1. CASE Unbound(p)
  BY <1>1 DEF Unbound, vars, config, bootVars, netMemory, BootInv, TypeOK, OwnPorts, OneByOne,
              Counted, sock_high, Numbered, Mapped, Started, Bound, NeverMisdelivers, Misdelivers
<1>2. CASE Packet(p)
  <2> DEFINE s == port_map[p]
  <2>1. UNCHANGED <<config, bootVars, tpc, npc, wpc, sock, netMemory>>
    BY <1>2 DEF Packet
  <2>2. /\ delivered' \in {delivered, delivered \cup {<<p, sock_table[s].task>>}}
        /\ crashed' \in BOOLEAN /\ s # 0
    <3>1. s \in Socket /\ IsSocket(s)
      BY <1>2, SocketsAssumption DEF Packet, BootInv, TypeOK
    <3>2. s # 0
      BY <3>1, SizeFacts DEF IsSocket, Socket
    <3>3. CASE sock_table[s].queue
      BY <1>2, <3>2, <3>3 DEF Packet, BootInv, TypeOK
    <3>4. CASE ~sock_table[s].queue
      BY <1>2, <3>2, <3>4 DEF Packet
    <3> QED
      BY <3>3, <3>4
  <2>3. PICK w \in Worker : port[w] = p /\ Bound(w) /\ s = w /\ sock_table[s].task = w
    <3>1. p \in 0 .. NET_PORT_MAX - 1
      BY DEF PortsInside
    <3>2. PICK w \in Worker : port[w] = p /\ Bound(w)
      BY <2>2, <3>1 DEF BootInv, Mapped
    <3>3. s = w
      BY <3>2 DEF BootInv, Mapped
    <3>4. sock_table[w].task = w
      BY <3>2 DEF BootInv, Numbered, Started, Bound
    <3> QED
      BY <3>2, <3>3, <3>4
  <2>4. OwnPorts' /\ OneByOne' /\ Counted' /\ Numbered' /\ Mapped'
    BY <2>1 DEF config, bootVars, netMemory, BootInv, OwnPorts, OneByOne, Counted, sock_high,
                Numbered, Mapped, Started, Bound
  <2>5. NeverMisdelivers'
    <3> SUFFICES ASSUME NEW d \in delivered', d[2] = NULL \/ port[d[2]] # d[1] PROVE FALSE
      BY <2>1 DEF NeverMisdelivers, Misdelivers, config
    <3>1. d \notin delivered
      BY DEF BootInv, NeverMisdelivers, Misdelivers
    <3>2. d = <<p, w>>
      BY <2>2, <2>3, <3>1
    <3>3. d[1] = p /\ d[2] = w /\ w # NULL
      BY <3>2, SizeFacts DEF Worker, NULL
    <3> QED
      BY <2>3, <3>3
  <2>6. TypeOK'
    <3>1. p \in Port /\ w \in Worker \cup {NULL}
      BY SocketsAssumption
    <3>2. delivered' \subseteq Port \X (Worker \cup {NULL})
      <4>1. delivered \subseteq Port \X (Worker \cup {NULL})
        BY DEF BootInv, TypeOK
      <4>2. <<p, w>> \in Port \X (Worker \cup {NULL})
        BY <3>1
      <4>3. delivered' \in {delivered, delivered \cup {<<p, w>>}}
        BY <2>2, <2>3
      <4> QED
        BY <4>1, <4>2, <4>3
    <3> QED
      BY <2>1, <2>2, <3>2 DEF config, bootVars, netMemory, BootInv, TypeOK
  <2> QED
    BY <2>4, <2>5, <2>6 DEF BootInv
<1> QED
  BY <1>1, <1>2

LEMMA RebootBoot == BootInv /\ Reboot => BootInv'
<1> SUFFICES ASSUME BootInv, Reboot PROVE BootInv'
  OBVIOUS
<1>1. /\ UNCHANGED <<port, memory, delivered>>
      /\ boot' = "traffic" /\ created' = 0 /\ tpc' = "absent" /\ npc' = "absent"
      /\ queues' = 0 /\ crashed' = FALSE
  BY DEF Reboot, config
<1>2. /\ wpc' = [w \in Worker |-> "absent"] /\ sock' = [w \in Worker |-> 0]
      /\ port_map' = [p \in Port |-> 0]
      /\ sock_table' = [s \in Socket |-> [task |-> NULL, queue |-> FALSE]]
  BY DEF Reboot
<1>3. OwnPorts' /\ NeverMisdelivers'
  BY <1>1 DEF BootInv, OwnPorts, NeverMisdelivers, Misdelivers
<1>4. TypeOK'
  <2>1. 0 \in Socket
    BY SizeFacts DEF Socket
  <2>2. /\ sock' \in [Worker -> Socket] /\ port_map' \in [Port -> Socket]
        /\ sock_table' \in [Socket -> [task : {NULL} \cup Worker, queue : BOOLEAN]]
        /\ wpc' \in [Worker -> {"absent", "sock", "entry", "bind", "recv", "blocked"}]
        /\ \A w \in Worker : wpc'[w] = "absent"
    BY <1>2, <2>1
  <2>3. created' \in 0 .. WORKER_COUNT /\ queues' \in 0 .. memory
    BY <1>1, SizeFacts DEF BootInv, TypeOK
  <2> QED
    BY <1>1, <2>2, <2>3 DEF BootInv, TypeOK
<1>5. OneByOne'
  BY <1>1, <1>2, SizeFacts DEF OneByOne, Worker
<1>6. Counted'
  <2>1. sock_high' = 0
    BY <1>2, SizeFacts DEF sock_high, Port
  <2> QED
    BY <1>1, <1>2, <2>1 DEF Counted
<1>7. Numbered'
  BY <1>2 DEF Numbered, Started
<1>8. Mapped'
  BY <1>2, SizeFacts DEF Mapped, Bound, Port
<1> QED
  BY <1>3, <1>4, <1>5, <1>6, <1>7, <1>8 DEF BootInv

LEMMA NextBoot == ASSUME PortsInside PROVE BootInv /\ [Next]_vars => BootInv'
<1> SUFFICES ASSUME BootInv, [Next]_vars PROVE BootInv'
  OBVIOUS
<1>1. CASE UNCHANGED vars
  BY <1>1 DEF vars, config, bootVars, netMemory, BootInv, TypeOK, OwnPorts, OneByOne,
              Counted, sock_high, Numbered, Mapped, Started, Bound, NeverMisdelivers, Misdelivers
<1>2. CASE MainStep \/ NetBlocks \/ TrafficStarts
  BY <1>2, MainBoot
<1>3. CASE \E w \in Worker : WorkerStart(w)
  BY <1>3, WorkerBoot
<1>4. CASE \E p \in TracePort : TracePacket(p)
  BY <1>4, PacketBoot
<1>5. CASE Reboot
  BY <1>5, RebootBoot
<1> QED
  BY <1>1, <1>2, <1>3, <1>4, <1>5 DEF Next

LEMMA BootInvariance == ASSUME PortsInside PROVE Spec => []BootInv
<1>1. Init => BootInv
  BY InitBoot
<1>2. BootInv /\ [Next]_vars => BootInv'
  BY NextBoot
<1> QED
  BY <1>1, <1>2, PTL DEF Spec

-----------------------------------------------------------------------------
\* net_sock returns to each worker a socket of its own.
THEOREM OwnSocketHolds == ASSUME PortsInside PROVE Spec => []OwnSocket
<1>1. BootInv => OwnSocket
  BY DEF BootInv, Numbered, Started, OwnSocket, Owns
<1> QED
  BY <1>1, BootInvariance, PTL

\* The trace reader begins in the state that NetDriver starts from: every worker
\* waits on the socket of its number, and the port map leads there.
THEOREM BootMatchesHolds == ASSUME PortsInside PROVE Spec => []BootMatches
<1>1. BootInv => BootMatches
  <2> SUFFICES ASSUME BootInv, tpc = "running" PROVE BootMatches
    BY DEF BootMatches
  <2>1. \A w \in Worker : wpc[w] = "blocked"
    <3> SUFFICES ASSUME NEW w \in Worker PROVE wpc[w] = "blocked"
      OBVIOUS
    <3>1. created = WORKER_COUNT /\ wpc[WORKER_COUNT] = "blocked"
      BY DEF BootInv, OneByOne
    <3>2. w = WORKER_COUNT \/ w < WORKER_COUNT
      BY SizeFacts DEF Worker
    <3> QED
      BY <3>1, <3>2 DEF BootInv, OneByOne
  <2>2. \A w \in Worker : sock[w] = w /\ port_map[port[w]] = w
    BY <2>1 DEF BootInv, Numbered, Mapped, Started, Bound
  <2>3. \A p \in TracePort : (\A w \in Worker : port[w] # p) => port_map[p] = 0
    BY DEF BootInv, Mapped, PortsInside
  <2> QED
    BY <2>1, <2>2, <2>3 DEF BootMatches
<1> QED
  BY <1>1, BootInvariance, PTL

\* net_process_packet sends a packet to no worker but the one that has bound its
\* port, before and after any crash.
THEOREM NeverMisdeliversHolds == ASSUME PortsInside PROVE Spec => []NeverMisdelivers
<1>1. BootInv => NeverMisdelivers
  BY DEF BootInv
<1> QED
  BY <1>1, BootInvariance, PTL

-----------------------------------------------------------------------------
(* Crashes.  With memory for every queue no creation fails: the queues     *)
(* created so far are at most the ingress queue and one for each worker    *)
(* that has come past net_sock.                                            *)

Enough == memory >= WORKER_COUNT + 1

QueuesBounded ==
  /\ boot \in {"traffic", "net"} => queues = 0
  /\ boot \in {"workers", "returned"} =>
       queues <= IF \E w \in Worker : wpc[w] \in {"sock", "entry"} THEN created ELSE created + 1

HasMailbox == Enough => \A w \in Worker : Started(w) => sock_table[w].queue

HeapInv == QueuesBounded /\ HasMailbox /\ CrashesOnlyForMemory

LEMMA InitHeap == Init => HeapInv
BY DEF Init, HeapInv, QueuesBounded, HasMailbox, CrashesOnlyForMemory, Started

LEMMA MainHeap ==
  ASSUME BootInv, HeapInv, MainStep \/ TrafficStarts \/ NetBlocks PROVE HeapInv'
<1> USE DEF HeapInv
<1>1. /\ created \in Nat /\ queues \in Nat /\ memory \in Nat
      /\ UNCHANGED <<memory, sock_table>>
  BY SizeFacts DEF BootInv, TypeOK, MainStep, TrafficInit, NetInit, WorkerInit, TrafficStarts,
                   NetBlocks, netMemory, config
<1>2. CASE TrafficInit \/ TrafficStarts \/ NetBlocks
  <2>1. UNCHANGED <<wpc, created, queues, crashed>>
    BY <1>2 DEF TrafficInit, TrafficStarts, NetBlocks, netMemory, bootVars
  <2>2. boot' = boot \/ (boot = "traffic" /\ boot' = "net")
    BY <1>2 DEF TrafficInit, TrafficStarts, NetBlocks, bootVars
  <2> QED
    BY <1>1, <2>1, <2>2 DEF QueuesBounded, HasMailbox, CrashesOnlyForMemory, Enough, Started
<1>3. CASE NetInit
  <2>1. /\ boot = "net" /\ boot' = "workers" /\ UNCHANGED <<wpc, created>>
        /\ queues = 0 /\ created = 0 /\ queues' \in {0, 1}
    BY <1>3 DEF NetInit, QueuesAfter, QueueCreated, QueuesBounded, BootInv, OneByOne
  <2>2. \A w \in Worker : wpc[w] \notin {"sock", "entry"}
    BY <1>3, MainLast DEF NetInit
  <2>3. crashed' => crashed \/ ~(0 < memory)
    BY <1>3, <2>1 DEF NetInit, QueueCreated
  <2>4. QueuesBounded'
    BY <1>1, <2>1, <2>2 DEF QueuesBounded
  <2>5. CrashesOnlyForMemory'
    BY <1>1, <2>3, SizeFacts DEF CrashesOnlyForMemory
  <2> QED
    BY <1>1, <2>1, <2>4, <2>5 DEF HasMailbox, Enough, Started
<1>4. CASE WorkerInit
  <2>1. /\ boot = "workers" /\ boot' \in {"workers", "returned"}
        /\ created' = created + 1 /\ wpc' = [wpc EXCEPT ![created + 1] = "sock"]
        /\ UNCHANGED <<queues, crashed>>
    BY <1>4 DEF WorkerInit, netMemory
  <2>2. \A w \in Worker : wpc[w] \in {"absent", "blocked"}
    BY <1>4, MainLast DEF WorkerInit
  <2>3. created + 1 \in Worker
    BY <1>1, <2>1, SizeFacts DEF BootInv, TypeOK, Worker
  <2>4. wpc'[created + 1] = "sock"
    BY <2>1, <2>3 DEF BootInv, TypeOK
  <2>5. QueuesBounded'
    BY <1>1, <2>1, <2>2, <2>3, <2>4 DEF QueuesBounded
  <2>6. HasMailbox'
    BY <1>1, <2>1, <2>3, <2>4 DEF HasMailbox, Enough, Started, BootInv, TypeOK
  <2> QED
    BY <1>1, <2>1, <2>5, <2>6 DEF CrashesOnlyForMemory
<1> QED
  BY <1>2, <1>3, <1>4 DEF MainStep

LEMMA WorkerHeap ==
  ASSUME BootInv, BootInv', HeapInv, NEW w \in Worker, WorkerStart(w) PROVE HeapInv'
<1> USE DEF HeapInv
<1>1. /\ created \in Nat /\ queues \in Nat /\ memory \in Nat /\ WORKER_COUNT \in Nat
      /\ created <= WORKER_COUNT
      /\ UNCHANGED <<memory, boot, created, crashed>>
  BY SizeFacts DEF BootInv, TypeOK, WorkerStart, SockIncrement, SockEntry, Bind, Recv, config,
                   bootVars
<1>2. /\ wpc[w] \notin {"absent", "blocked"} /\ boot \in {"workers", "returned"}
      /\ \A v \in Worker : v # w => wpc[v] \in {"absent", "blocked"} /\ wpc'[v] = wpc[v]
  <2>1. wpc[w] \notin {"absent", "blocked"}
    BY DEF WorkerStart, SockIncrement, SockEntry, Bind, Recv
  <2>2. w = created /\ w > 0
    BY <2>1, Newest
  <2>3. \A v \in Worker : v # w => wpc[v] \in {"absent", "blocked"}
    BY <1>1, <2>2 DEF BootInv, OneByOne, Worker
  <2>4. \A v \in Worker : v # w => wpc'[v] = wpc[v]
    BY DEF WorkerStart, SockIncrement, SockEntry, Bind, Recv, BootInv, TypeOK
  <2> QED
    BY <2>1, <2>2, <2>3, <2>4 DEF BootInv, OneByOne, TypeOK
<1>3. CASE SockEntry(w)
  <2>1. /\ wpc[w] = "entry" /\ wpc'[w] = "bind" /\ sock'[w] = sock_high
    BY <1>3 DEF SockEntry, BootInv, TypeOK
  <2>2. sock_high = w
    BY <2>1 DEF BootInv, Numbered, Started
  <2>3. queues <= created /\ queues' \in {queues, queues + 1}
    BY <1>2, <1>3, <2>1 DEF QueuesBounded, SockEntry, QueuesAfter
  <2>4. QueuesBounded'
    BY <1>1, <1>2, <2>1, <2>3 DEF QueuesBounded
  <2>5. ASSUME Enough PROVE sock_table'[w].queue
    <3>1. QueueCreated
      BY <1>1, <2>3, <2>5 DEF QueueCreated, Enough
    <3>2. w \in Socket
      BY <2>2, SizeFacts DEF Worker, Socket
    <3> QED
      BY <1>3, <2>2, <3>1, <3>2 DEF SockEntry, Entry, BootInv, TypeOK
  <2>6. \A v \in Worker : v # w => sock_table'[v] = sock_table[v]
    <3>1. Worker \subseteq Socket
      BY SizeFacts DEF Worker, Socket
    <3> QED
      BY <1>3, <2>2, <3>1 DEF SockEntry, BootInv, TypeOK
  <2>7. HasMailbox'
    BY <1>1, <1>2, <2>5, <2>6 DEF HasMailbox, Enough, Started
  <2> QED
    BY <1>1, <2>4, <2>7 DEF CrashesOnlyForMemory
<1>4. CASE ~SockEntry(w)
  <2>1. UNCHANGED <<sock_table, queues>>
    BY <1>4 DEF WorkerStart, SockIncrement, Bind, Recv, netMemory
  <2>2. /\ wpc[w] \in {"sock", "entry"} <=> wpc'[w] \in {"sock", "entry"}
        /\ Started(w)' => Started(w)
    BY <1>4 DEF WorkerStart, SockIncrement, Bind, Recv, Started, BootInv, TypeOK
  <2>3. QueuesBounded'
    BY <1>1, <1>2, <2>1, <2>2 DEF QueuesBounded
  <2>4. HasMailbox'
    BY <1>1, <1>2, <2>1, <2>2 DEF HasMailbox, Enough, Started
  <2> QED
    BY <1>1, <2>3, <2>4 DEF CrashesOnlyForMemory
<1> QED
  BY <1>3, <1>4

LEMMA PacketHeap ==
  ASSUME PortsInside, BootInv, HeapInv, NEW p \in TracePort, TracePacket(p) PROVE HeapInv'
<1> USE DEF HeapInv
<1>1. /\ UNCHANGED <<memory, boot, created, wpc, sock_table, queues>>
      /\ memory \in Nat /\ WORKER_COUNT \in Nat
  BY SizeFacts DEF TracePacket, Packet, Unbound, vars, config, bootVars, netMemory, BootInv, TypeOK
<1>2. QueuesBounded' /\ HasMailbox'
  BY <1>1 DEF QueuesBounded, HasMailbox, Enough, Started
<1>3. ASSUME Enough, ~crashed PROVE ~crashed'
  <2>1. CASE Unbound(p)
    BY <1>3, <2>1 DEF Unbound, vars
  <2>2. CASE Packet(p)
    <3>1. p \in 0 .. NET_PORT_MAX - 1 /\ port_map[p] # 0
      BY <2>2, SizeFacts DEF PortsInside, Packet, IsSocket
    <3>2. PICK w \in Worker : port[w] = p /\ Bound(w)
      BY <3>1 DEF BootInv, Mapped
    <3>3. port_map[p] = w /\ Started(w)
      BY <3>2 DEF BootInv, Mapped, Bound, Started
    <3>4. sock_table[port_map[p]].queue
      BY <1>3, <3>3 DEF HasMailbox
    <3> QED
      BY <1>3, <2>2, <3>4 DEF Packet
  <2> QED
    BY <2>1, <2>2 DEF TracePacket
<1>4. CrashesOnlyForMemory'
  BY <1>1, <1>3 DEF CrashesOnlyForMemory, Enough
<1> QED
  BY <1>2, <1>4

LEMMA NextHeap ==
  ASSUME PortsInside PROVE BootInv /\ BootInv' /\ HeapInv /\ [Next]_vars => HeapInv'
<1> SUFFICES ASSUME BootInv, BootInv', HeapInv, [Next]_vars PROVE HeapInv'
  OBVIOUS
<1>1. CASE UNCHANGED vars
  BY <1>1 DEF vars, config, bootVars, netMemory, HeapInv, QueuesBounded, HasMailbox, Enough,
              Started, CrashesOnlyForMemory
<1>2. CASE MainStep \/ TrafficStarts \/ NetBlocks
  BY <1>2, MainHeap
<1>3. ASSUME NEW w \in Worker, WorkerStart(w) PROVE HeapInv'
  BY <1>3, WorkerHeap
<1>4. ASSUME NEW p \in TracePort, TracePacket(p) PROVE HeapInv'
  BY <1>4, PacketHeap
<1>5. CASE Reboot
  BY <1>5 DEF Reboot, HeapInv, QueuesBounded, HasMailbox, CrashesOnlyForMemory, Started
<1> QED
  BY <1>1, <1>2, <1>3, <1>4, <1>5 DEF Next

\* The chip crashes in net_main, or when a packet arrives for a worker without a
\* mailbox, only if the heap had no room for the queues of net_init and net_sock.
THEOREM CrashesOnlyForMemoryHolds == ASSUME PortsInside PROVE Spec => []CrashesOnlyForMemory
<1>1. Init => HeapInv
  BY InitHeap
<1>2. BootInv /\ BootInv' /\ HeapInv /\ [Next]_vars => HeapInv'
  BY NextHeap
<1>3. HeapInv => CrashesOnlyForMemory
  BY DEF HeapInv
<1>4. Spec => []BootInv
  BY BootInvariance
<1> QED
  BY <1>1, <1>2, <1>3, <1>4, PTL DEF Spec
=============================================================================
