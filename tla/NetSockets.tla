----------------------------- MODULE NetSockets -----------------------------
(***************************************************************************)
(* From app_main to the first packets: the tasks are created, the workers  *)
(* acquire and bind their sockets (net_sock, net_bind, net_recv of net.c), *)
(* and net_process_packet looks up the socket of a port.  NetDriver starts *)
(* from the state that this module ends its boot in.                       *)
(*                                                                         *)
(* Everything but the trace reader runs on core 0.  Tasks are numbered by  *)
(* falling priority: the net task, the workers in the order in which       *)
(* app_main creates them, and the task that runs app_main itself.          *)
(***************************************************************************)
EXTENDS Naturals

CONSTANTS
  WORKER_COUNT, NET_PORT_MAX, NET_SOCK_MAX,
  WorkerPort,   \* ports app_main may give to its workers
  TracePort,    \* ports that occur in the trace
  QueueMemory   \* numbers of queues the heap may have room for

Worker == 1 .. WORKER_COUNT
Port   == 0 .. NET_PORT_MAX          \* the values of an unsigned char
Socket == 0 .. NET_SOCK_MAX - 1       \* the indices of sock_table[]
NULL   == 0

ASSUME SocketsAssumption ==
  /\ {WORKER_COUNT, NET_PORT_MAX, NET_SOCK_MAX} \subseteq Nat \ {0}
  /\ WORKER_COUNT < NET_SOCK_MAX
  /\ WorkerPort \subseteq Port /\ TracePort \subseteq Port /\ QueueMemory \subseteq Nat

VARIABLES
  port, memory,  \* worker_init's port of each worker; room for queues
  boot,          \* app_main: "traffic", "net", "workers" or "returned"
  created,       \* number of workers created
  tpc, npc, wpc, \* control points of the trace reader, net_main, worker_main
  sock,          \* per worker: its local `sock`
  port_map,      \* port_map[NET_PORT_MAX] and the word behind it, sock_high
  sock_table,    \* per socket: its task, and whether in_queue was created
  queues,        \* number of queues created
  delivered,     \* history: <<port of the packet, task that got it>>
  crashed

config == <<port, memory>>
bootVars == <<boot, created>>
netMemory == <<port_map, sock_table, queues>>
vars == <<config, bootVars, tpc, npc, wpc, sock, netMemory, delivered, crashed>>

\* The last members of net_t are int port_map[NET_PORT_MAX] and int sock_high:
\* index NET_PORT_MAX of port_map is the word of sock_high.
sock_high == port_map[NET_PORT_MAX]

Init ==
  /\ port \in [Worker -> WorkerPort]
  /\ \A v, w \in Worker : v # w => port[v] # port[w]
  /\ memory \in QueueMemory
  /\ delivered = {}
  /\ boot = "traffic" /\ created = 0
  /\ tpc = "absent" /\ npc = "absent" /\ wpc = [w \in Worker |-> "absent"]
  /\ sock = [w \in Worker |-> 0]
  /\ port_map = [p \in Port |-> 0]
  /\ sock_table = [s \in Socket |-> [task |-> NULL, queue |-> FALSE]]
  /\ queues = 0 /\ crashed = FALSE

\* Core 0 runs the ready task of the highest priority: 0 is the net task.
Ready(task) == IF task = 0 THEN npc = "start" ELSE wpc[task] \notin {"absent", "blocked"}
Runs_AnyTask(task) == ~crashed
Runs(task) == ~crashed /\ \A other \in 0 .. task - 1 : ~Ready(other)
MainRuns   == Runs(WORKER_COUNT + 1)

-----------------------------------------------------------------------------
(* app_main                                                                *)

\* traffic_init(): the trace reader starts on core 1 and sleeps for a second.
TrafficInit ==
  /\ MainRuns /\ boot = "traffic"
  /\ boot' = "net" /\ tpc' = "delay"
  /\ UNCHANGED <<config, created, npc, wpc, sock, netMemory, delivered, crashed>>

QueueCreated == queues < memory
QueuesAfter  == IF QueueCreated THEN queues + 1 ELSE queues

\* net_init() does not look at the result of xQueueCreate: net_main's first
\* xQueueReceive fails an assertion of FreeRTOS if there is no queue.
NetInit ==
  /\ MainRuns /\ boot = "net"
  /\ boot' = "workers"
  /\ queues' = QueuesAfter
  /\ IF QueueCreated THEN npc' = "start" /\ UNCHANGED crashed
                     ELSE crashed' = TRUE /\ UNCHANGED npc
  /\ UNCHANGED <<config, created, tpc, wpc, sock, port_map, sock_table, delivered>>

NetBlocks ==
  /\ Runs(0) /\ npc = "start"
  /\ npc' = "blocked"
  /\ UNCHANGED <<config, bootVars, tpc, wpc, sock, netMemory, delivered, crashed>>

LastWorker == created + 1 = WORKER_COUNT

WorkerInit ==
  /\ MainRuns /\ boot = "workers"
  /\ created' = created + 1
  /\ wpc' = [wpc EXCEPT ![created + 1] = "sock"]
  /\ boot' = IF LastWorker THEN "returned" ELSE "workers"
  /\ UNCHANGED <<config, tpc, npc, sock, netMemory, delivered, crashed>>

-----------------------------------------------------------------------------
(* worker_main up to its first wait.  It goes on after a failed call.      *)

SockIncrement(w) ==
  /\ Runs(w) /\ wpc[w] = "sock"
  /\ port_map' = [port_map EXCEPT ![NET_PORT_MAX] = @ + 1]
  /\ wpc' = [wpc EXCEPT ![w] = "entry"]
  /\ UNCHANGED <<config, bootVars, tpc, npc, sock, sock_table, queues, delivered,
                 crashed>>

\* The rest of net_sock reads sock_high again, and only logs a missing queue.
Entry_NoTask(w) == [task |-> NULL, queue |-> QueueCreated]
Entry(w)        == [task |-> w, queue |-> QueueCreated]

SockEntry(w) ==
  /\ Runs(w) /\ wpc[w] = "entry"
  /\ sock_table' = [sock_table EXCEPT ![sock_high] = Entry(w)]
  /\ queues' = QueuesAfter
  /\ sock' = [sock EXCEPT ![w] = sock_high]
  /\ wpc' = [wpc EXCEPT ![w] = "bind"]
  /\ UNCHANGED <<config, bootVars, tpc, npc, port_map, delivered, crashed>>

Owns(w) == sock_table[sock[w]].task = w

\* net_bind() lets every port up to and including NET_PORT_MAX pass.
BoundAt_SocketIsPort(w) == port[w]
BoundAt(w)              == sock[w]

Bind(w) ==
  /\ Runs(w) /\ wpc[w] = "bind"
  /\ port_map' = IF Owns(w) THEN [port_map EXCEPT ![port[w]] = BoundAt(w)] ELSE port_map
  /\ wpc' = [wpc EXCEPT ![w] = "recv"]
  /\ UNCHANGED <<config, bootVars, tpc, npc, sock, sock_table, queues, delivered,
                 crashed>>

\* net_recv() blocks, or returns -1 at once to a worker that calls it again.
Recv(w) ==
  /\ Runs(w) /\ wpc[w] = "recv"
  /\ wpc' = [wpc EXCEPT ![w] = IF Owns(w) THEN "blocked" ELSE "recv"]
  /\ UNCHANGED <<config, bootVars, tpc, npc, sock, netMemory, delivered, crashed>>

-----------------------------------------------------------------------------
\* "Let the other tasks get ready": booting takes far less than the second the
\* trace reader sleeps.
TrafficStarts ==
  /\ tpc = "delay" /\ boot = "returned" /\ MainRuns
  /\ tpc' = "running"
  /\ UNCHANGED <<config, bootVars, npc, wpc, sock, netMemory, delivered, crashed>>

\* net_process_packet(): the lookup of a packet's socket.  Sending to a mailbox
\* that was never created fails an assertion of FreeRTOS.
IsSocket_AlsoZero(s) == s < NET_SOCK_MAX
IsSocket(s)          == 0 < s /\ s < NET_SOCK_MAX

Packet(p) ==
  /\ tpc = "running" /\ ~crashed
  /\ LET s == port_map[p] IN
     /\ IsSocket(s)
     /\ IF sock_table[s].queue
          THEN delivered' = delivered \cup {<<p, sock_table[s].task>>} /\ UNCHANGED crashed
          ELSE crashed' = TRUE /\ UNCHANGED delivered
  /\ UNCHANGED <<config, bootVars, tpc, npc, wpc, sock, netMemory>>

Unbound(p) == tpc = "running" /\ ~crashed /\ ~IsSocket(port_map[p]) /\ UNCHANGED vars

\* The panic handler reboots the chip.
Reboot ==
  /\ crashed
  /\ boot' = "traffic" /\ created' = 0
  /\ tpc' = "absent" /\ npc' = "absent" /\ wpc' = [w \in Worker |-> "absent"]
  /\ sock' = [w \in Worker |-> 0]
  /\ port_map' = [p \in Port |-> 0]
  /\ sock_table' = [s \in Socket |-> [task |-> NULL, queue |-> FALSE]]
  /\ queues' = 0 /\ crashed' = FALSE
  /\ UNCHANGED <<config, delivered>>

-----------------------------------------------------------------------------
MainStep       == TrafficInit \/ NetInit \/ WorkerInit
WorkerStart(w) == SockIncrement(w) \/ SockEntry(w) \/ Bind(w) \/ Recv(w)
TracePacket(p) == Packet(p) \/ Unbound(p)

Next == \/ MainStep \/ NetBlocks \/ \E w \in Worker : WorkerStart(w)
        \/ TrafficStarts \/ \E p \in TracePort : TracePacket(p)
        \/ Reboot

Spec == Init /\ [][Next]_vars

\* Core 0 runs the task its scheduler selects, and the sleep ends.
FairSpec ==
  /\ Spec /\ WF_vars(MainStep) /\ WF_vars(NetBlocks) /\ WF_vars(TrafficStarts)
  /\ \A w \in Worker : WF_vars(WorkerStart(w))

-----------------------------------------------------------------------------
(* Properties                                                              *)

\* Types; sockets index sock_table within its bounds.
TypeOK ==
  /\ port \in [Worker -> Port] /\ memory \in Nat
  /\ boot \in {"traffic", "net", "workers", "returned"} /\ created \in 0 .. WORKER_COUNT
  /\ (boot = "workers" => created < WORKER_COUNT)
  /\ tpc \in {"absent", "delay", "running"} /\ npc \in {"absent", "start", "blocked"}
  /\ wpc \in [Worker -> {"absent", "sock", "entry", "bind", "recv", "blocked"}]
  /\ sock \in [Worker -> Socket]
  /\ \A w \in Worker : wpc[w] \in {"bind", "recv", "blocked"} => sock[w] > 0
  /\ port_map \in [Port -> Socket]
  /\ sock_table \in [Socket -> [task : {NULL} \cup Worker, queue : BOOLEAN]]
  /\ queues \in 0 .. memory
  /\ delivered \subseteq Port \X (Worker \cup {NULL}) /\ crashed \in BOOLEAN

\* A socket belongs to the task that net_sock returned it to, although net_sock
\* increments sock_high and uses it afterwards without a lock.
OwnSocket ==
  \A w \in Worker : wpc[w] \in {"bind", "recv", "blocked"} => Owns(w)

\* When the trace reader begins, every worker waits on its own socket, numbered
\* like the worker, and port_map sends exactly the bound ports there: the state
\* that NetDriver starts from.
BootMatches ==
  tpc = "running" =>
    /\ \A w \in Worker : wpc[w] = "blocked" /\ sock[w] = w /\ port_map[port[w]] = w
    /\ \A p \in TracePort : (\A w \in Worker : port[w] # p) => port_map[p] = 0

\* A packet only reaches the worker that has bound the packet's port.
Misdelivers == \E d \in delivered : d[2] = NULL \/ port[d[2]] # d[1]
NeverMisdelivers == ~Misdelivers

\* The chip only crashes for want of memory; a worker without a mailbox looks
\* like any other until the first packet for its port.
CrashesOnlyForMemory == crashed => memory < WORKER_COUNT + 1

\* No worker keeps core 0 to itself while app_main has workers to create: with
\* memory for the ingress queue, the trace reader begins.
Boots == memory > 0 => <>(tpc = "running")

\* net_api.h: "The socket may be used if the return value is 0": packets for the
\* port that a waiting worker has bound are sent to its socket.
BoundIsUsable ==
  \A w \in Worker : wpc[w] = "blocked" => port_map[port[w]] = sock[w]
=============================================================================
