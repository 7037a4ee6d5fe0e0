--------------------------- MODULE NetDriverProofs ---------------------------
(***************************************************************************)
(* Theorems about NetDriver, for every trace, port map, number of workers  *)
(* and queue size.                                                         *)
(***************************************************************************)
EXTENDS NetDriver, SequenceTheorems, TLAPS

Irq == [port : Port, count : Nat]

\* What the steps need to know of the constants.
LEMMA ConstantFacts ==
  /\ WORKER_COUNT \in Nat /\ NET_QUEUE_SIZE \in Nat /\ TRACE_PACKET_COUNT \in Nat
  /\ WORKER_COUNT > 0 /\ NET_QUEUE_SIZE > 0 /\ TRACE_PACKET_COUNT > 0
  /\ Len(Trace) \in Nat /\ Len(Trace) > 0
  /\ \A k \in 1 .. Len(Trace) :
       /\ Trace[k].port \in Port /\ Trace[k].count \in Nat
       /\ Start[k] \in Nat /\ Start[k + 1] = Start[k] + Trace[k].count
       /\ Start[k + 1] <= TRACE_PACKET_COUNT
  /\ Start[1] = 0
  /\ Port \subseteq Nat
  /\ \A p \in Port : port_map[p] \in Nat /\ port_map[p] <= WORKER_COUNT
<1>1. Trace \in Seq(Irq) /\ Trace # << >>
  BY TraceAssumption DEF Irq
<1>2. Len(Trace) \in Nat /\ Len(Trace) > 0
  BY <1>1, EmptySeq
<1>3. \A k \in 1 .. Len(Trace) : Trace[k] \in Irq
  BY <1>1, ElementOfSeq
<1>4. \A k \in 1 .. Len(Trace) : Trace[k].port \in Port /\ Trace[k].count \in Nat
  BY <1>3 DEF Irq
<1>5. ASSUME NEW k \in 1 .. Len(Trace)
      PROVE  /\ Start[k] \in Nat /\ Start[k + 1] = Start[k] + Trace[k].count
             /\ Start[k + 1] <= TRACE_PACKET_COUNT
  <2>1. k \in 1 .. Len(Trace) + 1 /\ k + 1 \in 1 .. Len(Trace) + 1
    BY <1>2
  <2>2. Start[k] \in 0 .. TRACE_PACKET_COUNT /\ Start[k + 1] \in 0 .. TRACE_PACKET_COUNT
    BY <2>1, TraceAssumption
  <2> QED
    BY <2>2, TraceAssumption, ConstantsAssumption
<1>6. \A p \in Port : port_map[p] \in Nat /\ port_map[p] <= WORKER_COUNT
  BY ConstantsAssumption
<1> QED
  BY <1>2, <1>4, <1>5, <1>6, ConstantsAssumption, TraceAssumption

\* Setting one field of a row of results[] leaves a row.
LEMMA ResultUpdate ==
  ASSUME NEW r \in Result, NEW b \in BOOLEAN
  PROVE  /\ [r EXCEPT !.sent = b] \in Result
         /\ [r EXCEPT !.received = "time"] \in Result
         /\ [r EXCEPT !.runtime = TRUE] \in Result
BY Zenon DEF Result

-----------------------------------------------------------------------------
(* The inductive invariant.  No part is inductive by itself: the types of  *)
(* packet_queue and results need the numbers of Numbering, which needs     *)
(* Handshake to know that only one side uses `shared`, and the type of buf *)
(* needs MailboxCredit, because net_recv_cb may leave buf as it was.       *)
IInv == TypeOK /\ Handshake /\ Numbering /\ MailboxCredit

LEMMA InitInv == Init => IInv
<1> SUFFICES ASSUME Init PROVE IInv
  OBVIOUS
<1> USE ConstantFacts
<1>1. TypeOK
  <2>1. \A w \in Worker : in_queue[w] = << >> /\ wpc[w] = "take"
    BY DEF Init
  <2>2. in_queue \in [Worker -> Seq(Packet)] /\ log \in [Worker -> Seq(Seqno)]
    BY EmptySeq DEF Init
  <2>3. results \in [Seqno -> Result]
    <3>1. [sent : {FALSE}, received : HeapWord, runtime : {FALSE}] \subseteq Result
      BY ConstantsAssumption DEF Result
    <3> QED
      BY <3>1 DEF Init
  <2>4. packet_queue \in Seq(Packet) /\ Len(packet_queue) = 0 /\ report \in Seq(Result)
    BY EmptySeq DEF Init
  <2>5. \A w \in Worker : Len(in_queue[w]) = 0
    BY <2>1, EmptySeq
  <2>6. shared \in [seq : Nat, port : Nat, count : Nat]
    BY DEF Init
  <2>7. /\ tpc = "load" /\ report = << >> /\ npc = "recv" /\ isr = NotRunning
        /\ edge \in BOOLEAN /\ irq \in BOOLEAN
    BY Zenon DEF Init
  <2>8. i \in 1 .. Len(Trace) + 1 /\ i <= Len(Trace) /\ notified \in Nat
    <3>1. i = 1 /\ notified = 0
      BY DEF Init
    <3> QED
      BY <3>1
  <2>9. /\ notify \in [Worker -> Nat]
        /\ wpc \in [Worker -> {"take", "callback", "received", "load"}]
        /\ buf \in [Worker -> Packet \cup {NoPacket}]
        /\ packet \in Packet \cup {NoPacket}
    BY DEF Init
  <2> QED
    BY <2>1, <2>2, <2>3, <2>4, <2>5, <2>6, <2>7, <2>8, <2>9 DEF TypeOK
<1>2. Handshake
  BY DEF Init, Handshake, Token
<1>3. Numbering
  BY DEF Init, Numbering
<1>4. MailboxCredit
  BY DEF Init, MailboxCredit, Token
<1> QED
  BY <1>1, <1>2, <1>3, <1>4 DEF IInv

LEMMA TrafficInv == IInv /\ TrafficStep => IInv'
<1> SUFFICES ASSUME IInv, TrafficStep PROVE IInv'
  OBVIOUS
<1> USE DEF IInv
<1>1. CASE LoadBatch
  <2>1. TypeOK'
    <3>1. shared' \in [seq : Nat, port : Nat, count : Nat]
      <4>1. /\ shared \in [seq : Nat, port : Nat, count : Nat]
            /\ Trace[i].port \in Nat /\ Trace[i].count \in Nat
        BY <1>1, ConstantFacts DEF LoadBatch, TypeOK
      <4> QED
        BY <1>1, <4>1, Zenon DEF LoadBatch
    <3> QED
      BY <1>1, <3>1 DEF LoadBatch, TypeOK, isrVars, netVars, mailVars, workerVars
  <2>2. Handshake'
    BY <1>1 DEF LoadBatch, TypeOK, Handshake, Token, isrVars
  <2>3. Numbering'
    BY <1>1 DEF LoadBatch, TypeOK, Handshake, Token, Numbering, isrVars
  <2>4. MailboxCredit'
    BY <1>1 DEF LoadBatch, MailboxCredit, Token, netVars, mailVars, workerVars
  <2> QED
    BY <2>1, <2>2, <2>3, <2>4
<1>2. CASE StampSent
  <2>1. TypeOK'
    <3>1. results' \in [Seqno -> Result]
      <4>1. results \in [Seqno -> Result]
        BY DEF TypeOK
      <4>2. results' = [s \in Seqno |->
                          [results[s] EXCEPT !.sent = @ \/ s \in BatchSeqs]]
        BY <1>2 DEF StampSent
      <4>3. ASSUME NEW s \in Seqno
            PROVE  [results[s] EXCEPT !.sent = @ \/ s \in BatchSeqs] \in Result
        <5>1. results[s] \in Result
          BY <4>1
        <5>2. (results[s].sent \/ s \in BatchSeqs) \in BOOLEAN
          OBVIOUS
        <5> QED
          BY <5>1, <5>2, ResultUpdate, Zenon
      <4> QED
        BY <4>2, <4>3, Zenon
    <3> QED
    BY <1>2, <3>1 DEF StampSent, TypeOK, isrVars, netVars, mailVars, workerVars
  <2>2. Handshake'
    BY <1>2 DEF StampSent, TypeOK, Handshake, Token, isrVars
  <2>3. Numbering'
    BY <1>2 DEF StampSent, TypeOK, Handshake, Token, Numbering, isrVars
  <2>4. MailboxCredit'
    BY <1>2 DEF StampSent, MailboxCredit, Token, netVars, mailVars, workerVars
  <2> QED
    BY <2>1, <2>2, <2>3, <2>4
<1>3. CASE SendPacket
  <2>1. TypeOK'
    BY <1>3 DEF SendPacket, NextLevel, TypeOK, netVars, mailVars, workerVars
  <2>2. Handshake'
    <3>1. irq'
      BY <1>3 DEF SendPacket, NextLevel, TypeOK
    <3>2. ~irq /\ isr = NotRunning /\ notified = 0
      BY <1>3 DEF SendPacket, TypeOK, Handshake, Token
    <3> QED
      BY <1>3, <3>1, <3>2 DEF SendPacket, Handshake, Token
  <2>3. Numbering'
    BY <1>3 DEF SendPacket, NextLevel, TypeOK, Handshake, Token, Numbering
  <2>4. MailboxCredit'
    BY <1>3 DEF SendPacket, MailboxCredit, Token, netVars, mailVars, workerVars
  <2> QED
    BY <2>1, <2>2, <2>3, <2>4
<1>4. CASE AwaitIsr
  <2>1. TypeOK'
    BY <1>4 DEF AwaitIsr, CanTake, Taken, MoreIrqs, TypeOK, isrVars, netVars, mailVars, workerVars
  <2>2. Handshake'
    BY <1>4 DEF AwaitIsr, CanTake, Taken, TypeOK, Handshake, Token, isrVars
  <2>3. Numbering'
    BY <1>4 DEF AwaitIsr, CanTake, Taken, TypeOK, Handshake, Token, Numbering, isrVars
  <2>4. MailboxCredit'
    BY <1>4 DEF AwaitIsr, MailboxCredit, Token, netVars, mailVars, workerVars
  <2> QED
    BY <2>1, <2>2, <2>3, <2>4
<1>5. CASE CheckDone
  <2>1. TypeOK'
    BY <1>5, ConstantFacts DEF CheckDone, TypeOK, isrVars, netVars, mailVars, workerVars
  <2>2. Handshake'
    BY <1>5 DEF CheckDone, Handshake, Token, isrVars
  <2>3. Numbering'
    BY <1>5 DEF CheckDone, Numbering, isrVars
  <2>4. MailboxCredit'
    BY <1>5 DEF CheckDone, MailboxCredit, Token, netVars, mailVars, workerVars
  <2> QED
    BY <2>1, <2>2, <2>3, <2>4
<1>6. CASE PrintRow
  <2>1. TypeOK'
    <3>1. /\ Len(report) \in Nat /\ Len(report) < TRACE_PACKET_COUNT
          /\ report \in Seq(Result) /\ results \in [Seqno -> Result]
      BY <1>6 DEF PrintRow, TypeOK
    <3>2. results[Len(report)] \in Result
      BY <3>1, ConstantFacts DEF Seqno
    <3>3. report' \in Seq(Result) /\ Len(report') = Len(report) + 1
      BY <1>6, <3>1, <3>2, AppendProperties DEF PrintRow
    <3> QED
      BY <1>6, <3>1, <3>3 DEF PrintRow, TypeOK, isrVars, netVars, mailVars, workerVars
  <2>2. Handshake'
    BY <1>6 DEF PrintRow, Handshake, Token, isrVars
  <2>3. Numbering'
    BY <1>6 DEF PrintRow, Numbering, isrVars
  <2>4. MailboxCredit'
    BY <1>6 DEF PrintRow, MailboxCredit, Token, netVars, mailVars, workerVars
  <2> QED
    BY <2>1, <2>2, <2>3, <2>4
<1>7. CASE Sleep
  BY <1>7 DEF Sleep, vars, trafficVars, isrVars, netVars, mailVars, workerVars,
              TypeOK, Handshake, Token, Numbering, MailboxCredit
<1> QED
  BY <1>1, <1>2, <1>3, <1>4, <1>5, <1>6, <1>7 DEF TrafficStep

LEMMA IsrInv == IInv /\ IsrStep => IInv'
<1> SUFFICES ASSUME IInv, IsrStep PROVE IInv'
  OBVIOUS
<1> USE DEF IInv
<1>1. CASE IsrEnter
  <2>1. TypeOK'
    BY <1>1 DEF IsrEnter, TypeOK, trafficVars, netVars, mailVars, workerVars
  <2>2. Handshake'
    BY <1>1 DEF IsrEnter, TypeOK, Handshake, Token, NotRunning, trafficVars
  <2>3. Numbering'
    BY <1>1 DEF IsrEnter, TypeOK, Handshake, Token, Numbering, NotRunning, trafficVars
  <2>4. MailboxCredit'
    BY <1>1 DEF IsrEnter, MailboxCredit, Token, netVars, mailVars, workerVars
  <2> QED
    BY <2>1, <2>2, <2>3, <2>4
<1>2. CASE IsrCopy
  \* The ISR runs, so the trace reader waits and `shared` is interrupt i's.
  <2>1. /\ tpc = "wait" /\ ~irq /\ notified = 0 /\ i \in 1 .. Len(Trace)
        /\ isr \in Nat /\ isr < shared.count
    <3>1. isr \in Nat /\ isr # NotRunning /\ isr < shared.count
      BY <1>2 DEF IsrCopy, TypeOK
    <3>2. tpc = "wait" /\ ~irq /\ notified = 0
      BY <3>1 DEF TypeOK, Handshake, Token
    <3> QED
      BY <3>1, <3>2 DEF TypeOK
  <2>2. /\ shared.seq = Start[i] + isr /\ shared.seq \in Seqno
        /\ shared.port = Trace[i].port /\ shared.port \in Port
    <3>1. /\ shared.seq = Start[i] + isr /\ shared.count = Trace[i].count
          /\ shared.port = Trace[i].port
      BY <2>1 DEF Numbering, NotRunning
    <3> QED
      <4>1. /\ Start[i] \in Nat /\ Trace[i].count \in Nat /\ Trace[i].port \in Port
            /\ Start[i] + Trace[i].count <= TRACE_PACKET_COUNT
        BY <2>1, ConstantFacts
      <4> QED
        <5>1. /\ isr \in Nat /\ isr < Trace[i].count
              /\ shared.seq = Start[i] + isr /\ shared.port = Trace[i].port
          BY <2>1, <3>1
        <5> QED
          BY <3>1, <4>1, <5>1, ConstantsAssumption DEF Seqno
  <2>3. [seq |-> shared.seq, port |-> shared.port] \in Packet
    BY <2>2 DEF Packet
  <2>4. packet_queue' \in Seq(Packet) /\ Len(packet_queue') <= NET_QUEUE_SIZE
    <3>1. /\ packet_queue \in Seq(Packet) /\ Len(packet_queue) \in Nat
          /\ Len(packet_queue) <= NET_QUEUE_SIZE
      BY DEF TypeOK
    <3>2. packet_queue' = Sent(packet_queue, [seq |-> shared.seq, port |-> shared.port])
      BY <1>2 DEF IsrCopy
    <3> QED
      BY <2>3, <3>1, <3>2, AppendProperties, ConstantFacts DEF Sent
  <2>5. /\ shared' \in [seq : Nat, port : Nat, count : Nat]
        /\ shared'.seq = shared.seq + 1
        /\ shared'.port = shared.port /\ shared'.count = shared.count
    <3>1. shared \in [seq : Nat, port : Nat, count : Nat] /\ shared.seq + 1 \in Nat
      BY DEF TypeOK
    <3> QED
      BY <1>2, <3>1, Zenon DEF IsrCopy, NextSeq
  <2>6. TypeOK'
    <3>1. /\ UNCHANGED <<trafficVars, notified, irq, netVars, mailVars, workerVars, results>>
          /\ isr' = isr + 1
      BY <1>2 DEF IsrCopy
    <3> QED
      BY <2>1, <2>4, <2>5, <3>1 DEF TypeOK, trafficVars, netVars, mailVars, workerVars
  <2>7. Handshake'
    BY <1>2, <2>1 DEF IsrCopy, Handshake, Token, NotRunning, trafficVars
  <2>8. Numbering'
    <3>1. isr' = isr + 1 /\ tpc' = tpc /\ i' = i /\ ~irq' /\ notified' = 0
      BY <1>2, <2>1 DEF IsrCopy, trafficVars
    <3>2. shared.count = Trace[i].count
      BY <2>1 DEF Numbering
    <3> QED
      <4>1. isr' <= shared'.count /\ shared'.seq = Start[i'] + isr'
        <5>1. Start[i] \in Nat /\ shared.count \in Nat
          BY <2>1, ConstantFacts DEF TypeOK
        <5> QED
          BY <2>1, <2>2, <2>5, <3>1, <5>1
      <4>2. shared'.port = Trace[i'].port /\ shared'.count = Trace[i'].count
        BY <2>2, <2>5, <3>1, <3>2
      <4> QED
        BY <2>1, <3>1, <4>1, <4>2 DEF Numbering
  <2>9. MailboxCredit'
    BY <1>2 DEF IsrCopy, MailboxCredit, Token, netVars, mailVars, workerVars
  <2> QED
    BY <2>6, <2>7, <2>8, <2>9
<1>3. CASE IsrExit
  <2>1. TypeOK'
    BY <1>3 DEF IsrExit, TypeOK, trafficVars, netVars, mailVars, workerVars
  <2>2. Handshake'
    BY <1>3 DEF IsrExit, TypeOK, Handshake, Token, NotRunning, trafficVars
  <2>3. Numbering'
    <3>1. /\ isr \in Nat /\ isr # NotRunning /\ isr >= shared.count
          /\ shared.count \in Nat /\ notified \in Nat
      BY <1>3 DEF IsrExit, TypeOK
    <3>2. /\ tpc = "wait" /\ ~irq /\ isr <= shared.count /\ shared.seq = Start[i] + isr
          /\ shared.port = Trace[i].port /\ shared.count = Trace[i].count
      BY <3>1 DEF Handshake, Token, Numbering
    <3>3. i \in 1 .. Len(Trace)
      BY <3>2 DEF TypeOK
    <3>4. shared.seq = Start[i + 1]
      <4>1. isr = Trace[i].count
        BY <3>1, <3>2
      <4>2. Start[i + 1] = Start[i] + Trace[i].count
        BY <3>3, ConstantFacts
      <4> QED
        BY <3>2, <4>1, <4>2
    <3>5. /\ UNCHANGED <<tpc, i, shared, irq>> /\ isr' = NotRunning
      BY <1>3 DEF IsrExit, trafficVars
    <3> QED
      BY <3>2, <3>4, <3>5 DEF Numbering
  <2>4. MailboxCredit'
    BY <1>3 DEF IsrExit, MailboxCredit, Token, netVars, mailVars, workerVars
  <2> QED
    BY <2>1, <2>2, <2>3, <2>4
<1> QED
  BY <1>1, <1>2, <1>3 DEF IsrStep

LEMMA NetInv == IInv /\ NetStep => IInv'
<1> SUFFICES ASSUME IInv, NetStep PROVE IInv'
  OBVIOUS
<1> USE DEF IInv
<1>1. CASE NetReceive
  <2>1. packet_queue # << >>
    BY <1>1 DEF NetReceive, NetRuns, NetReady
  <2>2. /\ packet' \in Packet /\ packet_queue' \in Seq(Packet)
        /\ Len(packet_queue') <= NET_QUEUE_SIZE
    <3>1. packet_queue \in Seq(Packet) /\ Len(packet_queue) <= NET_QUEUE_SIZE
      BY DEF TypeOK
    <3>2. packet' = Head(packet_queue) /\ packet_queue' = Tail(packet_queue)
      BY <1>1 DEF NetReceive
    <3> QED
      BY <2>1, <3>1, <3>2, HeadTailProperties, ConstantFacts
  <2>3. TypeOK'
    BY <1>1, <2>2 DEF NetReceive, TypeOK, trafficVars, isrVars, mailVars, workerVars
  <2>4. Handshake'
    BY <1>1 DEF NetReceive, Handshake, Token, trafficVars, isrVars
  <2>5. Numbering'
    BY <1>1 DEF NetReceive, Numbering, trafficVars, isrVars
  <2>6. MailboxCredit'
    BY <1>1 DEF NetReceive, MailboxCredit, Token, mailVars, workerVars
  <2> QED
    BY <2>3, <2>4, <2>5, <2>6
<1>2. CASE NetDispatch
  <2> DEFINE sock      == port_map[packet.port]
             delivered == sock > 0 /\ Len(in_queue[sock]) < NET_QUEUE_SIZE
  <2>1. packet \in Packet /\ sock \in Nat /\ sock <= WORKER_COUNT
    BY <1>2, ConstantFacts DEF NetDispatch, TypeOK, Packet
  <2>2. UNCHANGED <<trafficVars, notified, shared, isrVars, packet_queue, packet,
                    notify, workerVars, results>>
    BY <1>2 DEF NetDispatch
  <2>3. Handshake'
    BY <2>2 DEF Handshake, Token, trafficVars, isrVars
  <2>4. Numbering'
    BY <2>2 DEF Numbering, trafficVars, isrVars
  <2>5. CASE delivered
    <3>1. sock \in Worker /\ Len(in_queue[sock]) < NET_QUEUE_SIZE
      BY <2>1, <2>5 DEF Worker
    <3>2. /\ in_queue' = [in_queue EXCEPT ![sock] = Append(@, packet)]
          /\ npc = "process" /\ npc' = "give"
      BY <1>2, <2>5 DEF NetDispatch, AfterDispatch
    <3>3. /\ Append(in_queue[sock], packet) \in Seq(Packet)
          /\ Len(Append(in_queue[sock], packet)) = Len(in_queue[sock]) + 1
      BY <2>1, <3>1, AppendProperties DEF TypeOK
    <3>4. /\ in_queue' \in [Worker -> Seq(Packet)]
          /\ \A w \in Worker : Len(in_queue'[w]) = Len(in_queue[w]) + Token(w = sock)
      <4>1. in_queue \in [Worker -> Seq(Packet)]
        BY DEF TypeOK
      <4>2. \A w \in Worker : in_queue'[w] = IF w = sock THEN Append(in_queue[sock], packet)
                                                    ELSE in_queue[w]
        BY <3>1, <3>2, <4>1, Zenon
      <4>3. \A w \in Worker : Len(in_queue[w]) \in Nat
        BY <4>1
      <4> QED
        BY <3>1, <3>2, <3>3, <4>1, <4>2, <4>3 DEF Token
    <3>5. TypeOK'
      <4>1. \A w \in Worker : Len(in_queue'[w]) <= NET_QUEUE_SIZE
        <5>1. \A w \in Worker : Len(in_queue[w]) \in Nat /\ Len(in_queue[w]) <= NET_QUEUE_SIZE
          BY DEF TypeOK
        <5> QED
          <6>1. \A w \in Worker : w # sock => in_queue'[w] = in_queue[w]
            BY <3>1, <3>2 DEF TypeOK
          <6>2. Len(in_queue'[sock]) = Len(in_queue[sock]) + 1
            BY <3>1, <3>2, <3>3 DEF TypeOK
          <6> QED
            BY <3>1, <5>1, <6>1, <6>2, ConstantFacts
      <4> QED
        BY <2>1, <2>2, <3>2, <3>4, <4>1 DEF TypeOK, trafficVars, isrVars, workerVars
    <3>6. MailboxCredit'
      <4> SUFFICES ASSUME NEW w \in Worker
                   PROVE  Len(in_queue'[w]) = notify[w] + Token(wpc[w] = "callback")
                                              + Token(sock = w)
        BY <2>2, <3>2 DEF MailboxCredit, workerVars
      <4>1. /\ Len(in_queue[w]) = notify[w] + Token(wpc[w] = "callback")
            /\ notify[w] \in Nat
        BY <3>2 DEF MailboxCredit, Token, TypeOK
      <4> QED
        BY <3>4, <4>1 DEF Token
    <3> QED
      BY <2>3, <2>4, <3>5, <3>6
  <2>6. CASE ~delivered
    <3>1. in_queue' = in_queue /\ npc = "process" /\ npc' = "recv"
      BY <1>2, <2>6 DEF NetDispatch, AfterDispatch
    <3>2. TypeOK'
      BY <2>2, <3>1 DEF TypeOK, trafficVars, isrVars, workerVars
    <3>3. MailboxCredit'
      BY <2>2, <3>1 DEF MailboxCredit, Token, workerVars
    <3> QED
      BY <2>3, <2>4, <3>2, <3>3
  <2> QED
    BY <2>5, <2>6
<1>3. CASE NetGive
  <2> DEFINE sock == port_map[packet.port]
  <2>1. /\ npc = "give" /\ npc' = "recv"
        /\ packet \in Packet /\ sock \in Nat /\ sock <= WORKER_COUNT
    BY <1>3, ConstantFacts DEF NetGive, TypeOK, Packet
  <2>2. /\ notify' \in [Worker -> Nat]
        /\ \A w \in Worker : notify'[w] = notify[w] + Token(sock = w)
    <3>1. notify \in [Worker -> Nat] /\ notify' = [notify EXCEPT ![sock] = @ + 1]
      BY <1>3 DEF NetGive, TypeOK
    <3> QED
      <4>1. \A w \in Worker : notify'[w] = IF w = sock THEN notify[w] + 1 ELSE notify[w]
        BY <3>1, Zenon
      <4>2. \A w \in Worker : notify'[w] = notify[w] + Token(sock = w)
        BY <3>1, <4>1 DEF Token
      <4>3. DOMAIN notify' = Worker /\ notify' = [w \in Worker |-> notify'[w]]
        BY <3>1
      <4>4. \A w \in Worker : notify'[w] \in Nat
        <5>1. \A w \in Worker : notify[w] \in Nat /\ notify[w] + 1 \in Nat
          BY <3>1
        <5> QED
          BY <4>1, <5>1
      <4>5. notify' \in [Worker -> Nat]
        BY <4>3, <4>4, Zenon
      <4> QED
        BY <4>2, <4>5
  <2>3. TypeOK'
    BY <1>3, <2>1, <2>2 DEF NetGive, TypeOK, trafficVars, isrVars, workerVars
  <2>4. Handshake'
    BY <1>3 DEF NetGive, Handshake, Token, trafficVars, isrVars
  <2>5. Numbering'
    BY <1>3 DEF NetGive, Numbering, trafficVars, isrVars
  <2>6. MailboxCredit'
    <3> SUFFICES ASSUME NEW w \in Worker
                 PROVE  Len(in_queue'[w])
                          = notify'[w] + Token(wpc'[w] = "callback")
                            + Token(npc' = "give" /\ port_map[packet'.port] = w)
      BY DEF MailboxCredit, Token
    <3>1. Len(in_queue[w]) = notify[w] + Token(wpc[w] = "callback") + Token(sock = w)
      BY <2>1 DEF MailboxCredit, Token
    <3>2. in_queue' = in_queue /\ wpc' = wpc
      BY <1>3 DEF NetGive, workerVars
    <3>3. Token(npc' = "give" /\ port_map[packet'.port] = w) = 0
      BY <2>1 DEF Token
    <3>4. notify[w] \in Nat /\ Token(sock = w) \in Nat /\ Token(wpc[w] = "callback") \in Nat
      BY DEF TypeOK, Token
    <3> QED
      BY <2>2, <3>1, <3>2, <3>3, <3>4
  <2> QED
    BY <2>3, <2>4, <2>5, <2>6
<1> QED
  BY <1>1, <1>2, <1>3 DEF NetStep

LEMMA WorkerInv == ASSUME NEW w \in Worker PROVE IInv /\ WorkerStep(w) => IInv'
<1> SUFFICES ASSUME IInv, WorkerStep(w) PROVE IInv'
  OBVIOUS
<1> USE DEF IInv
<1>1. CASE RecvTake(w)
  <2>1. notify[w] \in Nat /\ notify[w] > 0 /\ wpc[w] = "take"
    BY <1>1 DEF RecvTake, CanTake, TypeOK
  <2>2. /\ notify' = [notify EXCEPT ![w] = notify[w] - 1]
        /\ wpc' = [wpc EXCEPT ![w] = "callback"]
    BY <1>1, <2>1 DEF RecvTake, Taken
  <2>3. notify' \in [Worker -> Nat]
    BY <2>1, <2>2 DEF TypeOK
  <2>4. TypeOK'
    BY <1>1, <2>2, <2>3 DEF RecvTake, TypeOK, trafficVars, isrVars, netVars
  <2>5. Handshake'
    BY <1>1 DEF RecvTake, Handshake, Token, trafficVars, isrVars
  <2>6. Numbering'
    BY <1>1 DEF RecvTake, Numbering, trafficVars, isrVars
  <2>7. MailboxCredit'
    <3> SUFFICES ASSUME NEW v \in Worker
                 PROVE  Len(in_queue'[v])
                          = notify'[v] + Token(wpc'[v] = "callback")
                            + Token(npc' = "give" /\ port_map[packet'.port] = v)
      BY DEF MailboxCredit
    <3>1. in_queue' = in_queue /\ npc' = npc /\ packet' = packet
      BY <1>1 DEF RecvTake, netVars
    <3>2. /\ notify'[v] = notify[v] - Token(v = w)
          /\ Token(wpc'[v] = "callback") = Token(wpc[v] = "callback") + Token(v = w)
      BY <2>1, <2>2 DEF TypeOK, Token
    <3>3. Len(in_queue[v]) = notify[v] + Token(wpc[v] = "callback")
                             + Token(npc = "give" /\ port_map[packet.port] = v)
      BY DEF MailboxCredit
    <3>4. /\ notify[v] \in Nat /\ Token(v = w) \in Nat
          /\ Token(wpc[v] = "callback") \in Nat
          /\ Token(npc = "give" /\ port_map[packet.port] = v) \in Nat
      BY DEF TypeOK, Token
    <3> QED
      BY <3>1, <3>2, <3>3, <3>4
  <2> QED
    BY <2>4, <2>5, <2>6, <2>7
<1>2. CASE RecvCallback(w)
  \* The notification taken stands for a packet in the mailbox.
  <2>1. in_queue[w] # << >> /\ wpc[w] = "callback"
    <3>1. wpc[w] = "callback" /\ Len(in_queue[w]) > 0
      <4>1. wpc[w] = "callback" /\ notify[w] \in Nat
        BY <1>2 DEF RecvCallback, TypeOK
      <4>2. Len(in_queue[w]) = notify[w] + 1
                               + Token(npc = "give" /\ port_map[packet.port] = w)
        BY <4>1 DEF MailboxCredit, Token
      <4> QED
        BY <4>1, <4>2 DEF Token
    <3> QED
      BY <3>1, EmptySeq
  <2>2. /\ buf' = [buf EXCEPT ![w] = Head(in_queue[w])]
        /\ in_queue' = [in_queue EXCEPT ![w] = Tail(in_queue[w])]
        /\ wpc' = [wpc EXCEPT ![w] = "received"]
    BY <1>2, <2>1 DEF RecvCallback
  <2>3. /\ Head(in_queue[w]) \in Packet /\ Tail(in_queue[w]) \in Seq(Packet)
        /\ Len(Tail(in_queue[w])) = Len(in_queue[w]) - 1
    BY <2>1, HeadTailProperties DEF TypeOK
  <2>4. TypeOK'
    <3>1. in_queue' \in [Worker -> Seq(Packet)] /\ buf' \in [Worker -> Packet \cup {NoPacket}]
      BY <2>2, <2>3 DEF TypeOK
    <3>2. \A v \in Worker : Len(in_queue'[v]) <= NET_QUEUE_SIZE
      <4>1. \A v \in Worker : Len(in_queue[v]) \in Nat /\ Len(in_queue[v]) <= NET_QUEUE_SIZE
        BY DEF TypeOK
      <4> QED
        BY <2>2, <2>3, <4>1, ConstantFacts DEF TypeOK
    <3>3. \A v \in Worker : wpc'[v] \in {"received", "load"} => buf'[v] \in Packet
      BY <2>2, <2>3 DEF TypeOK
    <3> QED
      BY <1>2, <2>2, <3>1, <3>2, <3>3
      DEF RecvCallback, TypeOK, trafficVars, isrVars, netVars
  <2>5. Handshake'
    BY <1>2 DEF RecvCallback, Handshake, Token, trafficVars, isrVars
  <2>6. Numbering'
    BY <1>2 DEF RecvCallback, Numbering, trafficVars, isrVars
  <2>7. MailboxCredit'
    <3> SUFFICES ASSUME NEW v \in Worker
                 PROVE  Len(in_queue'[v])
                          = notify'[v] + Token(wpc'[v] = "callback")
                            + Token(npc' = "give" /\ port_map[packet'.port] = v)
      BY DEF MailboxCredit
    <3>1. notify' = notify /\ npc' = npc /\ packet' = packet
      BY <1>2 DEF RecvCallback, netVars
    <3>2. /\ Len(in_queue'[v]) = Len(in_queue[v]) - Token(v = w)
          /\ Token(wpc'[v] = "callback") = Token(wpc[v] = "callback") - Token(v = w)
      BY <2>1, <2>2, <2>3 DEF TypeOK, Token
    <3>3. Len(in_queue[v]) = notify[v] + Token(wpc[v] = "callback")
                             + Token(npc = "give" /\ port_map[packet.port] = v)
      BY DEF MailboxCredit
    <3>4. /\ notify[v] \in Nat /\ Token(v = w) \in Nat
          /\ Token(wpc[v] = "callback") \in Nat
          /\ Token(npc = "give" /\ port_map[packet.port] = v) \in Nat
      BY DEF TypeOK, Token
    <3> QED
      BY <3>1, <3>2, <3>3, <3>4
  <2> QED
    BY <2>4, <2>5, <2>6, <2>7
<1>3. CASE StampReceived(w)
  <2>1. buf[w] \in Packet /\ buf[w].seq \in Seqno /\ wpc[w] = "received"
    BY <1>3 DEF StampReceived, TypeOK, Packet
  <2>2. log' \in [Worker -> Seq(Seqno)]
    BY <1>3, <2>1, AppendProperties DEF StampReceived, TypeOK
  <2>3. results' \in [Seqno -> Result]
    <3>1. results' = [results EXCEPT ![buf[w].seq] =
                        [results[buf[w].seq] EXCEPT !.received = "time"]]
      BY <1>3 DEF StampReceived
    <3> QED
      BY <2>1, <3>1, ResultUpdate, Zenon DEF TypeOK
  <2>4. TypeOK'
    BY <1>3, <2>1, <2>2, <2>3
    DEF StampReceived, TypeOK, trafficVars, isrVars, netVars, mailVars
  <2>5. Handshake'
    BY <1>3 DEF StampReceived, Handshake, Token, trafficVars, isrVars
  <2>6. Numbering'
    BY <1>3 DEF StampReceived, Numbering, trafficVars, isrVars
  <2>7. MailboxCredit'
    BY <1>3, <2>1 DEF StampReceived, TypeOK, MailboxCredit, Token, netVars, mailVars
  <2> QED
    BY <2>4, <2>5, <2>6, <2>7
<1>4. CASE StampRuntime(w)
  <2>1. buf[w] \in Packet /\ buf[w].seq \in Seqno /\ wpc[w] = "load"
    BY <1>4 DEF StampRuntime, TypeOK, Packet
  <2>2. results' \in [Seqno -> Result]
    <3>1. results' = [results EXCEPT ![buf[w].seq] =
                        [results[buf[w].seq] EXCEPT !.runtime = TRUE]]
      BY <1>4 DEF StampRuntime
    <3> QED
      BY <2>1, <3>1, ResultUpdate, Zenon DEF TypeOK
  <2>3. TypeOK'
    BY <1>4, <2>1, <2>2
    DEF StampRuntime, TypeOK, trafficVars, isrVars, netVars, mailVars
  <2>4. Handshake'
    BY <1>4 DEF StampRuntime, Handshake, Token, trafficVars, isrVars
  <2>5. Numbering'
    BY <1>4 DEF StampRuntime, Numbering, trafficVars, isrVars
  <2>6. MailboxCredit'
    BY <1>4, <2>1 DEF StampRuntime, TypeOK, MailboxCredit, Token, netVars, mailVars
  <2> QED
    BY <2>3, <2>4, <2>5, <2>6
<1> QED
  BY <1>1, <1>2, <1>3, <1>4 DEF WorkerStep

LEMMA NextInv == IInv /\ [Next]_vars => IInv'
<1> SUFFICES ASSUME IInv, [Next]_vars PROVE IInv'
  OBVIOUS
<1>1. CASE UNCHANGED vars
  BY <1>1 DEF vars, trafficVars, isrVars, netVars, mailVars, workerVars,
              IInv, TypeOK, Handshake, Token, Numbering, MailboxCredit
<1>2. CASE TrafficStep
  BY <1>2, TrafficInv
<1>3. CASE IsrStep
  BY <1>3, IsrInv
<1>4. CASE NetStep
  BY <1>4, NetInv
<1>5. CASE \E w \in Worker : WorkerStep(w)
  BY <1>5, WorkerInv
<1> QED
  BY <1>1, <1>2, <1>3, <1>4, <1>5 DEF Next

LEMMA Invariance == Spec => []IInv
<1>1. Init => IInv
  BY InitInv
<1>2. IInv /\ [Next]_vars => IInv'
  BY NextInv
<1> QED
  BY <1>1, <1>2, PTL DEF Spec

-----------------------------------------------------------------------------
\* Every variable keeps its type; in particular no queue exceeds its length and
\* no task uses results[] outside its bounds.
THEOREM TypeCorrect == Spec => []TypeOK
<1>1. IInv => TypeOK
  BY DEF IInv
<1> QED
  BY <1>1, Invariance, PTL

\* The toggled pin, the ISR and the task notification pass `shared` to and fro:
\* the cores never use it at once, and no edge is merged with another.
THEOREM HandshakeHolds == Spec => []Handshake
<1>1. IInv => Handshake
  BY DEF IInv
<1> QED
  BY <1>1, Invariance, PTL

\* The numbers that traffic.c stamps are those the ISR gives out.
THEOREM NumberingHolds == Spec => []Numbering
<1>1. IInv => Numbering
  BY DEF IInv
<1> QED
  BY <1>1, Invariance, PTL

\* There is one notification on its way, pending or in use for every packet in a
\* mailbox.
THEOREM MailboxCreditHolds == Spec => []MailboxCredit
<1>1. IInv => MailboxCredit
  BY DEF IInv
<1> QED
  BY <1>1, Invariance, PTL

=============================================================================
