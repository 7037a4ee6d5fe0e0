------------------------------ MODULE NetDriver ------------------------------
(***************************************************************************)
(* The ESP32 evaluator of esp_nic_evaluator/main: the trace reader         *)
(* (traffic.c, core 1) replays interrupts by toggling a GPIO pin, the ISR  *)
(* (net.c) copies the packets of the interrupt into packet_queue, the net  *)
(* task dispatches them to the mailbox of the socket bound to their port   *)
(* and notifies its task, and the workers (worker.c) receive them and time *)
(* stamp results[].  ISR, net task and workers share core 0, where         *)
(* FreeRTOS always runs the ready task of highest priority.                *)
(*                                                                         *)
(* The initial state is the one in which the trace reader finds the system *)
(* after its first vTaskDelay: app_main has started the tasks one by one,  *)
(* worker w owns socket w, and every worker is blocked in net_recv.        *)
(* Clock values are abstracted: a stamp is present or it is not.           *)
(***************************************************************************)
EXTENDS Integers, Sequences

CONSTANTS
  WORKER_COUNT,        \* worker tasks; worker w has a higher priority than w + 1
  NET_QUEUE_SIZE,      \* capacity of packet_queue and of every mailbox
  port_map,            \* port -> socket, 0 where nothing was bound
  Trace,               \* the blob: one [port, count] per interrupt
  Start,               \* Start[k] is the number of packets before interrupt k
  TRACE_PACKET_COUNT,  \* length of results[]
  HeapWord             \* what malloc may leave in results[].received

Worker == 1 .. WORKER_COUNT
Port   == DOMAIN port_map
Seqno  == 0 .. TRACE_PACKET_COUNT - 1
Packet == [seq : Seqno, port : Port]
Result == [sent : BOOLEAN, received : {"zero", "junk", "time"}, runtime : BOOLEAN]

ASSUME ConstantsAssumption ==
  /\ WORKER_COUNT \in Nat \ {0}
  /\ NET_QUEUE_SIZE \in Nat \ {0}
  /\ TRACE_PACKET_COUNT \in Nat /\ TRACE_PACKET_COUNT >= WORKER_COUNT
  /\ Port \subseteq Nat /\ port_map \in [Port -> 0 .. WORKER_COUNT]
  /\ HeapWord \subseteq {"zero", "junk"}

\* trace2blob counts the packets while it writes the interrupts: the counts
\* add up to at most TRACE_PACKET_COUNT.
ASSUME TraceAssumption ==
  /\ Trace \in Seq([port : Port, count : Nat]) /\ Trace # << >>
  /\ Start \in [1 .. Len(Trace) + 1 -> 0 .. TRACE_PACKET_COUNT]
  /\ Start[1] = 0
  /\ \A k \in 1 .. Len(Trace) : Start[k + 1] = Start[k] + Trace[k].count

VARIABLES
  tpc, i, edge, report,    \* traffic_trace_reader: control point, irq index,
                           \* __edge, and the rows printed so far
  notified,                \* notification count of the traffic task
  shared,                  \* the record both cores use: [seq, port, count]
  irq, isr,                \* latched pin interrupt; the ISR's loop counter
  packet_queue,            \* ingress queue of the driver
  npc, packet,             \* net_main: control point and local packet
  in_queue, notify,        \* per socket: mailbox and its task's notifications
  wpc, buf,                \* per worker: control point and receive buffer
  results,                 \* per packet: [sent, received, runtime]
  log                      \* history: sequence numbers each worker handled

trafficVars == <<tpc, i, edge, report>>
isrVars     == <<irq, isr>>
netVars     == <<npc, packet>>
mailVars    == <<in_queue, notify>>
workerVars  == <<wpc, buf, log>>
vars == <<trafficVars, notified, shared, isrVars, packet_queue, netVars,
          mailVars, workerVars, results>>

NotRunning == -1
NoPacket   == [seq |-> -1, port |-> -1]   \* an uninitialized local packet

Init ==
  /\ tpc = "load" /\ i = 1 /\ edge = FALSE /\ report = << >>
  /\ notified = 0
  /\ shared = [seq |-> 0, port |-> 0, count |-> 0]
  /\ irq = FALSE /\ isr = NotRunning
  /\ packet_queue = << >>
  /\ npc = "recv" /\ packet = NoPacket
  /\ in_queue = [w \in Worker |-> << >>]
  /\ notify = [w \in Worker |-> 0]
  /\ wpc = [w \in Worker |-> "take"]
  /\ buf = [w \in Worker |-> NoPacket]
  /\ results \in [Seqno -> [sent : {FALSE}, received : HeapWord, runtime : {FALSE}]]
  /\ log = [w \in Worker |-> << >>]

-----------------------------------------------------------------------------
(* traffic_trace_reader, alone on core 1.  ulTaskNotifyTake with           *)
(* portMAX_DELAY returns a positive count, so "if (notified)" never skips. *)

\* ulTaskNotifyTake(pdFALSE, ..) takes one from the notification count.
Taken_All(count) == 0
Taken(count) == IF count > 0 THEN count - 1 ELSE 0

LoadBatch ==
  /\ tpc = "load"
  /\ tpc' = "stamp"
  /\ shared' = [shared EXCEPT !.port = Trace[i].port, !.count = Trace[i].count]
  /\ UNCHANGED <<i, edge, report, notified, isrVars, packet_queue, netVars,
                 mailVars, workerVars, results>>

\* The sequence numbers the ISR will give to the packets of this interrupt.
BatchSeqs_First == {shared.seq}
BatchSeqs == shared.seq .. shared.seq + shared.count - 1

StampSent ==
  /\ tpc = "stamp"
  /\ tpc' = "toggle"
  /\ results' = [s \in Seqno |-> [results[s] EXCEPT !.sent = @ \/ s \in BatchSeqs]]
  /\ UNCHANGED <<i, edge, report, notified, shared, isrVars, packet_queue,
                 netVars, mailVars, workerVars>>

\* Drives the pin to the other level; the input is sensitive to any edge.
NextLevel_Stuck == TRUE
NextLevel == ~edge

SendPacket ==
  /\ tpc = "toggle"
  /\ tpc' = "wait"
  /\ edge' = NextLevel
  /\ irq' = (irq \/ NextLevel # edge)
  /\ UNCHANGED <<i, report, notified, shared, isr, packet_queue, netVars,
                 mailVars, workerVars, results>>

CanTake_NoWait(count) == TRUE
CanTake(count) == count > 0

MoreIrqs_OneTooMany == i <= Len(Trace)
MoreIrqs == i < Len(Trace)

AwaitIsr ==
  /\ tpc = "wait" /\ CanTake(notified)
  /\ notified' = Taken(notified)
  /\ i' = i + 1
  /\ tpc' = IF MoreIrqs THEN "load" ELSE "check"
  /\ UNCHANGED <<edge, report, shared, isrVars, packet_queue, netVars,
                 mailVars, workerVars, results>>

\* The rows the completion check looks at; there are at least worker_count rows.
Checked == TRACE_PACKET_COUNT - WORKER_COUNT .. TRACE_PACKET_COUNT - 2

traffic_check_done == \A s \in Checked : results[s].received # "zero"

CheckDone ==
  /\ tpc = "check"
  /\ tpc' = IF traffic_check_done THEN "print" ELSE "check"
  /\ UNCHANGED <<i, edge, report, notified, shared, isrVars, packet_queue,
                 netVars, mailVars, workerVars, results>>

\* One iteration of traffic_print_results; afterwards the task only sleeps.
PrintRow ==
  /\ tpc = "print"
  /\ report' = Append(report, results[Len(report)])
  /\ tpc' = IF Len(report) + 1 < TRACE_PACKET_COUNT THEN "print" ELSE "sleep"
  /\ UNCHANGED <<i, edge, notified, shared, isrVars, packet_queue, netVars,
                 mailVars, workerVars, results>>

Sleep == tpc = "sleep" /\ UNCHANGED vars

-----------------------------------------------------------------------------
(* net_gpio_isr on core 0: it preempts every task, once the core takes it. *)

IsrEnter ==
  /\ irq /\ isr = NotRunning
  /\ irq' = FALSE
  /\ isr' = 0
  /\ UNCHANGED <<trafficVars, notified, shared, packet_queue, netVars,
                 mailVars, workerVars, results>>

\* The result of xQueueSendFromISR is ignored: a full queue loses the packet.
Sent(queue, p) == IF Len(queue) < NET_QUEUE_SIZE THEN Append(queue, p) ELSE queue

\* seq counts every packet of the trace, queued or lost.
NextSeq_NotAdvanced == shared.seq
NextSeq_OnlyQueued  == shared.seq + Len(Sent(packet_queue, shared)) - Len(packet_queue)
NextSeq             == shared.seq + 1

IsrCopy ==
  /\ isr # NotRunning /\ isr < shared.count
  /\ packet_queue' = Sent(packet_queue, [seq |-> shared.seq, port |-> shared.port])
  /\ shared' = [shared EXCEPT !.seq = NextSeq]
  /\ isr' = isr + 1
  /\ UNCHANGED <<trafficVars, notified, irq, netVars, mailVars, workerVars,
                 results>>

IsrExit ==
  /\ isr # NotRunning /\ isr >= shared.count
  /\ notified' = notified + 1
  /\ isr' = NotRunning
  /\ UNCHANGED <<trafficVars, shared, irq, packet_queue, netVars, mailVars,
                 workerVars, results>>

-----------------------------------------------------------------------------
(* Core 0 runs the net task before any worker and worker w before w + 1.   *)

NetReady       == npc # "recv" \/ packet_queue # << >>
WorkerReady(w) == wpc[w] # "take" \/ notify[w] > 0
NetRuns        == isr = NotRunning /\ NetReady
WorkerRuns(w)  == /\ isr = NotRunning /\ ~NetReady
                  /\ \A v \in 1 .. w - 1 : ~WorkerReady(v)

NetReceive ==
  /\ NetRuns /\ npc = "recv"
  /\ npc' = "process"
  /\ packet' = Head(packet_queue)
  /\ packet_queue' = Tail(packet_queue)
  /\ UNCHANGED <<trafficVars, notified, shared, isrVars, mailVars, workerVars,
                 results>>

\* net_process_packet drops the packet when its port has no socket, and when
\* the mailbox is full: only a delivered packet is followed by a notification.
AfterDispatch_Always(delivered) == "give"
AfterDispatch_Never(delivered)  == "recv"
AfterDispatch(delivered)        == IF delivered THEN "give" ELSE "recv"

NetDispatch ==
  LET sock      == port_map[packet.port]
      delivered == sock > 0 /\ Len(in_queue[sock]) < NET_QUEUE_SIZE
  IN
  /\ NetRuns /\ npc = "process"
  /\ in_queue' = IF delivered
                   THEN [in_queue EXCEPT ![sock] = Append(@, packet)]
                   ELSE in_queue
  /\ npc' = AfterDispatch(delivered)
  /\ UNCHANGED <<trafficVars, notified, shared, isrVars, packet_queue, packet,
                 notify, workerVars, results>>

NetGive ==
  /\ NetRuns /\ npc = "give"
  /\ notify' = [notify EXCEPT ![port_map[packet.port]] = @ + 1]
  /\ npc' = "recv"
  /\ UNCHANGED <<trafficVars, notified, shared, isrVars, packet_queue, packet,
                 in_queue, workerVars, results>>

-----------------------------------------------------------------------------
(* worker_main: net_recv blocks on the task's notification count, then     *)
(* net_recv_cb takes from the mailbox without waiting and without checking *)
(* that there was a packet.                                                *)

RecvTake(w) ==
  /\ WorkerRuns(w) /\ wpc[w] = "take" /\ CanTake(notify[w])
  /\ notify' = [notify EXCEPT ![w] = Taken(@)]
  /\ wpc' = [wpc EXCEPT ![w] = "callback"]
  /\ UNCHANGED <<trafficVars, notified, shared, isrVars, packet_queue, netVars,
                 in_queue, buf, log, results>>

RecvCallback(w) ==
  /\ WorkerRuns(w) /\ wpc[w] = "callback"
  /\ wpc' = [wpc EXCEPT ![w] = "received"]
  /\ IF in_queue[w] # << >>
       THEN /\ buf' = [buf EXCEPT ![w] = Head(in_queue[w])]
            /\ in_queue' = [in_queue EXCEPT ![w] = Tail(@)]
       ELSE UNCHANGED <<buf, in_queue>>
  /\ UNCHANGED <<trafficVars, notified, shared, isrVars, packet_queue, netVars,
                 notify, log, results>>

StampReceived(w) ==
  /\ WorkerRuns(w) /\ wpc[w] = "received"
  /\ wpc' = [wpc EXCEPT ![w] = "load"]
  /\ results' = [results EXCEPT ![buf[w].seq].received = "time"]
  /\ log' = [log EXCEPT ![w] = Append(@, buf[w].seq)]
  /\ UNCHANGED <<trafficVars, notified, shared, isrVars, packet_queue, netVars,
                 mailVars, buf>>

StampRuntime(w) ==
  /\ WorkerRuns(w) /\ wpc[w] = "load"
  /\ wpc' = [wpc EXCEPT ![w] = "take"]
  /\ results' = [results EXCEPT ![buf[w].seq].runtime = TRUE]
  /\ UNCHANGED <<trafficVars, notified, shared, isrVars, packet_queue, netVars,
                 mailVars, buf, log>>

-----------------------------------------------------------------------------
TrafficStep   == \/ LoadBatch \/ StampSent \/ SendPacket \/ AwaitIsr
                 \/ CheckDone \/ PrintRow \/ Sleep
IsrStep       == IsrEnter \/ IsrCopy \/ IsrExit
NetStep       == NetReceive \/ NetDispatch \/ NetGive
WorkerStep(w) == RecvTake(w) \/ RecvCallback(w) \/ StampReceived(w) \/ StampRuntime(w)

Next == TrafficStep \/ IsrStep \/ NetStep \/ \E w \in Worker : WorkerStep(w)

Spec == Init /\ [][Next]_vars

\* Each core runs the task its scheduler selects, and a pending interrupt is
\* taken; load() is finite.
Fairness == /\ WF_vars(TrafficStep) /\ WF_vars(IsrStep) /\ WF_vars(NetStep)
            /\ \A w \in Worker : WF_vars(WorkerStep(w))

FairSpec == Spec /\ Fairness

-----------------------------------------------------------------------------
(* Properties                                                              *)

\* Every variable keeps its type, queues stay within NET_QUEUE_SIZE, and no
\* task indexes results[] or sock_table[] out of bounds.
TypeOK ==
  /\ tpc \in {"load", "stamp", "toggle", "wait", "check", "print", "sleep"}
  /\ i \in 1 .. Len(Trace) + 1 /\ (tpc \in {"load", "stamp", "toggle", "wait"} => i <= Len(Trace))
  /\ edge \in BOOLEAN /\ notified \in Nat
  /\ shared \in [seq : Nat, port : Nat, count : Nat]
  /\ irq \in BOOLEAN /\ isr \in Nat \cup {NotRunning}
  /\ packet_queue \in Seq(Packet) /\ Len(packet_queue) <= NET_QUEUE_SIZE
  /\ npc \in {"recv", "process", "give"}
  /\ packet \in Packet \cup {NoPacket}
  /\ (npc # "recv" => packet \in Packet)
  /\ in_queue \in [Worker -> Seq(Packet)]
  /\ \A w \in Worker : Len(in_queue[w]) <= NET_QUEUE_SIZE
  /\ notify \in [Worker -> Nat]
  /\ wpc \in [Worker -> {"take", "callback", "received", "load"}]
  /\ buf \in [Worker -> Packet \cup {NoPacket}]
  /\ \A w \in Worker : wpc[w] \in {"received", "load"} => buf[w] \in Packet
  /\ results \in [Seqno -> Result] /\ report \in Seq(Result)
  /\ (tpc = "print" => Len(report) < TRACE_PACKET_COUNT)
  /\ (tpc \notin {"print", "sleep"} => report = << >>)
  /\ log \in [Worker -> Seq(Seqno)]

Token(b) == IF b THEN 1 ELSE 0

\* The handshake over the unprotected record `shared`: while the trace reader
\* waits there is exactly one of a latched edge, a running ISR and a pending
\* notification, and otherwise there is none.  So no edge is coalesced with an
\* earlier one, and the two cores never use `shared` at the same time.
Handshake ==
  Token(irq) + Token(isr # NotRunning) + notified = Token(tpc = "wait")

\* The two cores agree on the numbers of the packets, although one writes send
\* times from the counter before the interrupt and the other advances it while it
\* copies: the counter is the start of the interrupt that is being prepared, and
\* the next one's when the ISR has notified the trace reader.  So the send times
\* of an interrupt go to its own packets and stay within results[].
Numbering ==
  /\ tpc # "wait" => shared.seq = Start[i]
  /\ irq => shared.seq = Start[i]
  /\ isr # NotRunning => isr <= shared.count /\ shared.seq = Start[i] + isr
  /\ notified > 0 => shared.seq = Start[i + 1]
  /\ tpc \in {"stamp", "toggle", "wait"} =>
       shared.port = Trace[i].port /\ shared.count = Trace[i].count

\* A mailbox holds one packet for every notification its task has not yet used,
\* counting the one net_process_packet is about to give and the one net_recv
\* has just taken: net_recv_cb, which ignores the result of xQueueReceive,
\* always finds a packet.
MailboxCredit ==
  \A w \in Worker :
    Len(in_queue[w]) = notify[w] + Token(wpc[w] = "callback")
                       + Token(npc = "give" /\ port_map[packet.port] = w)

\* A worker handles its packets in the order in which they arrived at the NIC,
\* and none of them twice.
InOrder ==
  \A w \in Worker : \A m, n \in DOMAIN log[w] : m < n => log[w][m] < log[w][n]

\* Sequence number s belongs to an interrupt whose port is bound to socket w.
Addressed(s, w) ==
  \E k \in 1 .. Len(Trace) :
    /\ Start[k] <= s /\ s < Start[k + 1]
    /\ port_map[Trace[k].port] = w

\* A worker only handles packets of interrupts for the port it has bound: the
\* trace reader never changes `shared` under the ISR, and the ISR numbers the
\* packets it copies, also those a full queue loses.
RightWorker ==
  \A w \in Worker : \A n \in DOMAIN log[w] : Addressed(log[w][n], w)

\* The send time of a packet is in results[] before its receive time: tx_delay
\* is never computed from a missing send time.
SentBeforeReceived ==
  \A s \in Seqno : results[s].received = "time" => results[s].sent

\* Interrupts whose packets have their send times.
Announced == IF tpc \in {"toggle", "wait"} THEN i ELSE i - 1

\* Packet p is one of the first a interrupts, with a number below s.
Reached(p, a, s) ==
  \E k \in 1 .. a : /\ Start[k] <= p.seq /\ p.seq < Start[k + 1] /\ p.seq < s
                    /\ p.port = Trace[k].port

\* A copy the ISR has made of a packet of an announced interrupt.
FromTrace(p) == Reached(p, Announced, shared.seq)

\* Sequence numbers in the parts of the pipeline, from the end to the beginning.
Numbers(queue) == {queue[n].seq : n \in DOMAIN queue}
Handled(w)     == {log[w][n] : n \in DOMAIN log[w]}
Held(w)        == IF wpc[w] = "received" THEN {buf[w].seq} ELSE {}
Dispatched     == IF npc = "process" THEN {packet.seq} ELSE {}

Precede(S, T)    == \A s \in S : \A t \in T : s < t
Ascending(queue) == \A m, n \in DOMAIN queue : m < n => queue[m].seq < queue[n].seq

\* Every packet on its way comes from an announced interrupt, and those of a
\* mailbox belong to its worker.
Provenance ==
  /\ \A n \in DOMAIN packet_queue : FromTrace(packet_queue[n])
  /\ npc # "recv" => FromTrace(packet)
  /\ \A w \in Worker :
       /\ \A n \in DOMAIN in_queue[w] :
            FromTrace(in_queue[w][n]) /\ port_map[in_queue[w][n].port] = w
       /\ wpc[w] = "received" => FromTrace(buf[w]) /\ port_map[buf[w].port] = w

\* No packet overtakes another: whatever a worker has handled precedes what it
\* holds, that what is in its mailbox, and that what is still in the driver.
Order ==
  /\ Ascending(packet_queue) /\ Precede(Dispatched, Numbers(packet_queue))
  /\ \A w \in Worker :
       /\ Ascending(in_queue[w])
       /\ Precede(Handled(w), Held(w))
       /\ Precede(Handled(w) \cup Held(w), Numbers(in_queue[w]))
       /\ Precede(Handled(w) \cup Held(w) \cup Numbers(in_queue[w]),
                  Dispatched \cup Numbers(packet_queue))
       /\ \A s \in Handled(w) : s < shared.seq

\* The packets of announced interrupts have their send times.
Stamped ==
  \A k \in 1 .. Announced : \A s \in Start[k] .. Start[k + 1] - 1 : results[s].sent

\* The packets between the ISR and the workers stay in the order and on the path
\* of their interrupts through three queues, two local buffers and any losses: the
\* reason for InOrder, RightWorker, SentBeforeReceived and Delivers.
Pipeline == Provenance /\ Order /\ Stamped

Delivery == INSTANCE PacketDelivery WITH
  Interrupt <- 1 .. Len(Trace),
  Batch     <- [k \in 1 .. Len(Trace) |-> Start[k] .. Start[k + 1] - 1],
  Receiver  <- [k \in 1 .. Len(Trace) |-> port_map[Trace[k].port]],
  announced <- Announced,
  handled   <- log

\* The application implements the delivery of packets it simulates, whatever is
\* lost on the way: at most once, in order, to the right worker, and never
\* before the interrupt that announces the packet.
Delivers == Delivery!Spec

\* Nothing is left to do for core 0.
Idle(w) == wpc[w] = "take" /\ notify[w] = 0 /\ in_queue[w] = << >>
AllIdle == /\ ~irq /\ isr = NotRunning /\ packet_queue = << >> /\ npc = "recv"
           /\ \A w \in Worker : Idle(w)

\* A packet that has reached the mailbox of a worker ends up with its three time
\* stamps, whatever is lost before and after it and however often the worker's
\* task is preempted.
Accepted(s) == \E w \in Worker : s \in Numbers(in_queue[w])
Complete(s) == results[s] = [sent |-> TRUE, received |-> "time", runtime |-> TRUE]
AcceptedCompletes == \A s \in Seqno : Accepted(s) ~> Complete(s)

\* Also when packets are lost, all that was accepted is eventually handled.
Drains == <>[]AllIdle

\* The trace reader hangs in its completion check only when a packet the check
\* looks at is never received: core 0 has nothing left to do, and still the
\* packet has no receive time.  Otherwise the results are printed.
Reports   == <>(tpc = "sleep")
Missed(s) == tpc = "check" /\ AllIdle /\ results[s].received = "zero"
ReportsUnlessLost == Reports \/ <>[](\E s \in Checked : Missed(s))


=============================================================================
