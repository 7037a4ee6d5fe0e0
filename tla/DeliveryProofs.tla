--------------------------- MODULE DeliveryProofs ---------------------------
(***************************************************************************)
(* The packets of NetDriver stay in order and on their path (Pipeline),    *)
(* and so the application implements PacketDelivery, for every trace, port *)
(* map, number of workers and queue size, whatever the queues lose.        *)
(***************************************************************************)
EXTENDS NetDriverProofs

-----------------------------------------------------------------------------
(* Queues of packets.                                                      *)

LEMMA AppendQueue ==
  ASSUME NEW q \in Seq(Packet), NEW p \in Packet
  PROVE  /\ Numbers(Append(q, p)) = Numbers(q) \cup {p.seq}
         /\ Ascending(q) /\ Precede(Numbers(q), {p.seq}) => Ascending(Append(q, p))
         /\ \A n \in DOMAIN Append(q, p) :
              Append(q, p)[n] = p \/ \E m \in DOMAIN q : Append(q, p)[n] = q[m]
<1> DEFINE r == Append(q, p)
<1>1. /\ Len(q) \in Nat /\ DOMAIN q = 1 .. Len(q)
      /\ DOMAIN r = 1 .. Len(q) + 1
      /\ r[Len(q) + 1] = p
      /\ \A n \in 1 .. Len(q) : r[n] = q[n]
  BY AppendProperties
<1> HIDE DEF r
<1>2. \A n \in DOMAIN r : n \in DOMAIN q \/ n = Len(q) + 1
  BY <1>1
<1>3. Numbers(r) = Numbers(q) \cup {p.seq}
  <2>1. Numbers(r) \subseteq Numbers(q) \cup {p.seq}
    BY <1>1, <1>2 DEF Numbers
  <2>2. p.seq \in Numbers(r)
    BY <1>1 DEF Numbers
  <2>3. Numbers(q) \subseteq Numbers(r)
    BY <1>1 DEF Numbers
  <2> QED
    BY <2>1, <2>2, <2>3
<1>4. ASSUME Ascending(q), Precede(Numbers(q), {p.seq}) PROVE Ascending(r)
  <2> SUFFICES ASSUME NEW m \in DOMAIN r, NEW n \in DOMAIN r, m < n
               PROVE  r[m].seq < r[n].seq
    BY DEF Ascending
  <2>1. m \in DOMAIN q /\ r[m] = q[m]
    BY <1>1
  <2>2. CASE n = Len(q) + 1
    BY <1>1, <1>4, <2>1, <2>2 DEF Precede, Numbers
  <2>3. CASE n \in DOMAIN q
    BY <1>1, <1>4, <2>1, <2>3 DEF Ascending
  <2> QED
    BY <1>2, <2>2, <2>3
<1>5. \A n \in DOMAIN r : r[n] = p \/ \E m \in DOMAIN q : r[n] = q[m]
  BY <1>1, <1>2
<1> QED
  BY <1>3, <1>4, <1>5 DEF r

LEMMA TailQueue ==
  ASSUME NEW q \in Seq(Packet), q # << >>
  PROVE  /\ Head(q).seq \in Numbers(q) /\ Numbers(Tail(q)) \subseteq Numbers(q)
         /\ Ascending(q) => /\ Ascending(Tail(q))
                            /\ Precede({Head(q).seq}, Numbers(Tail(q)))
         /\ \E m \in DOMAIN q : Head(q) = q[m]
         /\ \A n \in DOMAIN Tail(q) : \E m \in DOMAIN q : Tail(q)[n] = q[m]
<1> DEFINE r == Tail(q)
<1>1. /\ Len(q) \in Nat /\ Len(q) > 0 /\ DOMAIN q = 1 .. Len(q)
      /\ DOMAIN r = 1 .. Len(q) - 1
      /\ Head(q) = q[1] /\ 1 \in DOMAIN q
      /\ \A n \in DOMAIN r : r[n] = q[n + 1] /\ n \in Nat /\ n > 0 /\ n + 1 \in DOMAIN q
  <2>1. Len(q) \in Nat /\ Len(q) > 0 /\ DOMAIN q = 1 .. Len(q)
    BY EmptySeq
  <2>2. r \in Seq(Packet) /\ Len(r) = Len(q) - 1
    BY HeadTailProperties
  <2>3. \A n \in 1 .. Len(q) - 1 : r[n] = q[n + 1]
    BY <2>1
  <2>4. DOMAIN r = 1 .. Len(q) - 1
    BY <2>2
  <2> HIDE DEF r
  <2> QED
    BY <2>1, <2>3, <2>4
<1> HIDE DEF r
<1>2. Head(q).seq \in Numbers(q) /\ Numbers(r) \subseteq Numbers(q)
  BY <1>1 DEF Numbers
<1>3. ASSUME Ascending(q)
      PROVE  Ascending(r) /\ Precede({Head(q).seq}, Numbers(r))
  <2>1. Ascending(r)
    <3> SUFFICES ASSUME NEW m \in DOMAIN r, NEW n \in DOMAIN r, m < n
                 PROVE  r[m].seq < r[n].seq
      BY DEF Ascending
    <3>1. /\ r[m] = q[m + 1] /\ r[n] = q[n + 1] /\ m + 1 < n + 1
          /\ m + 1 \in DOMAIN q /\ n + 1 \in DOMAIN q
      BY <1>1
    <3> QED
      BY <1>3, <3>1 DEF Ascending
  <2>2. Precede({Head(q).seq}, Numbers(r))
    <3> SUFFICES ASSUME NEW n \in DOMAIN r PROVE q[1].seq < r[n].seq
      BY <1>1 DEF Precede, Numbers
    <3>1. r[n] = q[n + 1] /\ 1 < n + 1 /\ n + 1 \in DOMAIN q /\ 1 \in DOMAIN q
      BY <1>1
    <3> QED
      BY <1>3, <3>1 DEF Ascending
  <2> QED
    BY <2>1, <2>2
<1>4. \E m \in DOMAIN q : Head(q) = q[m]
  BY <1>1
<1>5. \A n \in DOMAIN r : \E m \in DOMAIN q : r[n] = q[m]
  BY <1>1
<1> QED
  BY <1>2, <1>3, <1>4, <1>5 DEF r

\* The same for the sequence numbers a worker has handled.
LEMMA AppendLog ==
  ASSUME NEW q \in Seq(Seqno), NEW s \in Seqno, NEW r, r = Append(q, s)
  PROVE  /\ {r[n] : n \in DOMAIN r} = {q[n] : n \in DOMAIN q} \cup {s}
         /\ \A n \in DOMAIN r : r[n] = s \/ \E m \in DOMAIN q : r[n] = q[m]
         /\ (\A m, n \in DOMAIN q : m < n => q[m] < q[n]) /\ (\A n \in DOMAIN q : q[n] < s)
              => \A m, n \in DOMAIN r : m < n => r[m] < r[n]
<1>1. /\ Len(q) \in Nat /\ DOMAIN q = 1 .. Len(q)
      /\ DOMAIN r = 1 .. Len(q) + 1
      /\ r[Len(q) + 1] = s
      /\ \A n \in 1 .. Len(q) : r[n] = q[n]
  BY AppendProperties
<1>2. \A n \in DOMAIN r : r[n] = s \/ \E m \in DOMAIN q : r[n] = q[m]
  BY <1>1
<1>3. {r[n] : n \in DOMAIN r} = {q[n] : n \in DOMAIN q} \cup {s}
  <2>1. Len(q) + 1 \in DOMAIN r /\ DOMAIN q \subseteq DOMAIN r
    BY <1>1
  <2> QED
    BY <1>1, <1>2, <2>1
<1>4. ASSUME \A m, n \in DOMAIN q : m < n => q[m] < q[n], \A n \in DOMAIN q : q[n] < s,
             NEW m \in DOMAIN r, NEW n \in DOMAIN r, m < n
      PROVE  r[m] < r[n]
  <2>1. m \in DOMAIN q /\ r[m] = q[m]
    BY <1>1, <1>4
  <2>2. (n \in DOMAIN q /\ r[n] = q[n]) \/ r[n] = s
    BY <1>1
  <2> QED
    BY <1>4, <2>1, <2>2
<1> QED
  BY <1>2, <1>3, <1>4

-----------------------------------------------------------------------------
(* What a step may do to the packets.                                      *)

\* The trace reader only goes forward, and so does the counter of the ISR.
Advances ==
  /\ Announced \in Nat /\ Announced' \in Nat /\ Announced <= Announced'
  /\ shared.seq \in Nat /\ shared'.seq \in Nat /\ shared.seq <= shared'.seq

LEMMA AnnouncedType ==
  ASSUME TypeOK PROVE Announced \in 0 .. Len(Trace) /\ shared.seq \in Nat
BY ConstantFacts DEF TypeOK, Announced

\* The packets of an interrupt have a row in results[].
LEMMA BatchInSeqno ==
  ASSUME NEW k \in 1 .. Len(Trace) PROVE Start[k] .. Start[k + 1] - 1 \subseteq Seqno
<1>1. /\ Start[k] \in Nat /\ Trace[k].count \in Nat /\ TRACE_PACKET_COUNT \in Nat
      /\ Start[k + 1] = Start[k] + Trace[k].count /\ Start[k + 1] <= TRACE_PACKET_COUNT
  BY ConstantFacts
<1> QED
  BY <1>1 DEF Seqno

\* A packet that comes from the trace still does after a step.
LEMMA Kept ==
  ASSUME Advances, NEW p \in Packet, FromTrace(p) PROVE FromTrace(p)'
<1>1. p.seq \in Nat
  BY ConstantFacts DEF Packet, Seqno
<1>2. PICK k \in 1 .. Announced : /\ Start[k] <= p.seq /\ p.seq < Start[k + 1]
                                  /\ p.seq < shared.seq /\ p.port = Trace[k].port
  BY DEF FromTrace, Reached
<1>3. k \in 1 .. Announced' /\ p.seq < shared'.seq
  BY <1>1, <1>2 DEF Advances
<1> QED
  BY <1>2, <1>3 DEF FromTrace, Reached

LEMMA HandledType ==
  ASSUME TypeOK, NEW w \in Worker PROVE Handled(w) \subseteq Nat
<1>1. log[w] \in Seq(Seqno)
  BY DEF TypeOK
<1>2. \A n \in DOMAIN log[w] : log[w][n] \in Seqno
  BY <1>1
<1> QED
  BY <1>2, ConstantFacts DEF Handled, Seqno

\* What a worker has in its mailbox and its buffer stays its own.
LEMMA MailboxFrame ==
  ASSUME TypeOK, Provenance, Advances, UNCHANGED <<in_queue, buf>>,
         NEW w \in Worker, wpc'[w] = "received" => wpc[w] = "received"
  PROVE  /\ \A n \in DOMAIN in_queue'[w] :
              FromTrace(in_queue[w][n])' /\ port_map[in_queue'[w][n].port] = w
         /\ wpc'[w] = "received" => FromTrace(buf[w])' /\ port_map[buf'[w].port] = w
<1>1. ASSUME NEW n \in DOMAIN in_queue[w]
      PROVE  /\ in_queue[w][n] \in Packet /\ FromTrace(in_queue[w][n])
             /\ port_map[in_queue[w][n].port] = w
  <2>1. in_queue[w] \in Seq(Packet)
    BY DEF TypeOK
  <2> QED
    BY <2>1 DEF Provenance
<1>2. wpc[w] = "received" => /\ buf[w] \in Packet /\ FromTrace(buf[w])
                             /\ port_map[buf[w].port] = w
  BY DEF Provenance, TypeOK
<1> QED
  BY <1>1, <1>2, Kept

LEMMA ProvenanceFrame ==
  ASSUME TypeOK, Provenance, Advances, UNCHANGED <<packet_queue, packet, in_queue, buf>>,
         npc' # "recv" => npc # "recv",
         \A w \in Worker : wpc'[w] = "received" => wpc[w] = "received"
  PROVE  Provenance'
<1>1. \A n \in DOMAIN packet_queue' : FromTrace(packet_queue[n])'
  BY Kept DEF Provenance, TypeOK
<1>2. npc' # "recv" => FromTrace(packet)'
  BY Kept DEF Provenance, TypeOK
<1>3. ASSUME NEW w \in Worker
      PROVE  /\ \A n \in DOMAIN in_queue'[w] :
                  FromTrace(in_queue[w][n])' /\ port_map[in_queue'[w][n].port] = w
             /\ wpc'[w] = "received" => FromTrace(buf[w])' /\ port_map[buf'[w].port] = w
  BY MailboxFrame
<1> QED
  BY <1>1, <1>2, <1>3 DEF Provenance

LEMMA OrderFrame ==
  ASSUME TypeOK, Order, Advances, UNCHANGED <<packet_queue, in_queue, log>>,
         Dispatched' = Dispatched, \A w \in Worker : Held(w)' = Held(w)
  PROVE  Order'
<1>1. \A w \in Worker : Handled(w)' = Handled(w)
  BY DEF Handled
<1>2. Ascending(packet_queue)' /\ Precede(Dispatched, Numbers(packet_queue))'
  BY DEF Order
<1>3. ASSUME NEW w \in Worker
      PROVE  /\ Ascending(in_queue[w])'
             /\ Precede(Handled(w), Held(w))'
             /\ Precede(Handled(w) \cup Held(w), Numbers(in_queue[w]))'
             /\ Precede(Handled(w) \cup Held(w) \cup Numbers(in_queue[w]),
                        Dispatched \cup Numbers(packet_queue))'
  BY <1>1 DEF Order
<1>4. ASSUME NEW w \in Worker, NEW s \in Handled(w)' PROVE s < shared'.seq
  <2>1. s \in Handled(w) /\ s < shared.seq
    BY <1>1, <1>4 DEF Order
  <2>2. s \in Nat
    BY <2>1, HandledType
  <2> QED
    BY <2>1, <2>2 DEF Advances
<1> QED
  BY <1>2, <1>3, <1>4 DEF Order

LEMMA StampedFrame ==
  ASSUME TypeOK, Stamped, Announced' = Announced,
         \A s \in Seqno : results[s].sent => results'[s].sent
  PROVE  Stamped'
<1> SUFFICES ASSUME NEW k \in 1 .. Announced, NEW s \in Start[k] .. Start[k + 1] - 1
             PROVE  results'[s].sent
  BY DEF Stamped
<1>1. results[s].sent
  BY DEF Stamped
<1>2. k \in 1 .. Len(Trace)
  BY AnnouncedType
<1>3. s \in Seqno
  BY <1>2, BatchInSeqno
<1> QED
  BY <1>1, <1>3

-----------------------------------------------------------------------------
(* Each step keeps the packets in order and on their path.                 *)

\* The trace reader touches no packet; it announces an interrupt when it has
\* stamped the send times.
LEMMA TrafficAnnounces ==
  ASSUME IInv, TrafficStep
  PROVE  /\ UNCHANGED <<packet_queue, npc, packet, in_queue, wpc, buf, log>>
         /\ shared'.seq = shared.seq
         /\ Announced' = IF StampSent THEN Announced + 1 ELSE Announced
         /\ ~StampSent => results' = results
<1>1. TypeOK
  BY DEF IInv
<1>2. CASE LoadBatch
  <2>1. shared'.seq = shared.seq
    <3>1. shared \in [seq : Nat, port : Nat, count : Nat]
      BY <1>1 DEF TypeOK
    <3> QED
      BY <1>2, <3>1, Zenon DEF LoadBatch
  <2> QED
    BY <1>2, <2>1 DEF LoadBatch, StampSent, Announced, netVars, mailVars, workerVars
<1>3. CASE StampSent
  BY <1>1, <1>3 DEF StampSent, Announced, TypeOK, netVars, mailVars, workerVars
<1>4. CASE SendPacket
  BY <1>4 DEF SendPacket, StampSent, Announced, netVars, mailVars, workerVars
<1>5. CASE AwaitIsr
  <2>1. i \in Nat /\ tpc = "wait" /\ tpc' \in {"load", "check"} /\ i' = i + 1
    BY <1>1, <1>5 DEF AwaitIsr, TypeOK
  <2> QED
    BY <1>5, <2>1 DEF AwaitIsr, StampSent, Announced, netVars, mailVars, workerVars
<1>6. CASE CheckDone
  BY <1>6 DEF CheckDone, StampSent, Announced, netVars, mailVars, workerVars
<1>7. CASE PrintRow
  BY <1>7 DEF PrintRow, StampSent, Announced, netVars, mailVars, workerVars
<1>8. CASE Sleep
  BY <1>8 DEF Sleep, StampSent, Announced, vars, trafficVars, netVars, mailVars, workerVars
<1> QED
  BY <1>2, <1>3, <1>4, <1>5, <1>6, <1>7, <1>8 DEF TrafficStep

LEMMA BatchStamps ==
  ASSUME TypeOK, StampSent, NEW s \in Seqno
  PROVE  /\ results'[s].sent = (results[s].sent \/ s \in BatchSeqs)
         /\ results'[s].received = results[s].received
<1>1. results' = [r \in Seqno |-> [results[r] EXCEPT !.sent = @ \/ r \in BatchSeqs]]
  BY DEF StampSent
<1>2. results[s] \in Result
  BY DEF TypeOK
<1> QED
  BY <1>1, <1>2, Zenon DEF Result

LEMMA TrafficPipeline == IInv /\ Pipeline /\ TrafficStep => Pipeline'
<1> SUFFICES ASSUME IInv, Pipeline, TrafficStep PROVE Pipeline'
  OBVIOUS
<1>1. TypeOK /\ TypeOK'
  BY TrafficInv DEF IInv
<1>2. Advances
  BY <1>1, AnnouncedType, TrafficAnnounces DEF Advances
<1>3. Provenance'
  BY <1>1, <1>2, TrafficAnnounces, ProvenanceFrame DEF Pipeline
<1>4. Order'
  BY <1>1, <1>2, TrafficAnnounces, OrderFrame DEF Pipeline, Dispatched, Held
<1>5. Stamped'
  <2>1. CASE ~StampSent
    BY <1>1, <2>1, TrafficAnnounces, StampedFrame DEF Pipeline
  <2>2. CASE StampSent
    \* The batch of interrupt i begins at the number the counter has.
    <3>1. /\ i \in 1 .. Len(Trace) /\ Announced = i - 1 /\ Announced' = i
          /\ shared.seq = Start[i] /\ shared.count = Trace[i].count
      BY <1>1, <2>2, TrafficAnnounces DEF IInv, StampSent, TypeOK, Numbering, Announced
    <3>2. BatchSeqs = Start[i] .. Start[i + 1] - 1
      <4>1. /\ shared.seq \in Nat /\ shared.count \in Nat
            /\ Start[i + 1] = shared.seq + shared.count
        BY <1>1, <3>1, ConstantFacts DEF TypeOK
      <4>2. BatchSeqs = shared.seq .. Start[i + 1] - 1
        BY <4>1 DEF BatchSeqs
      <4> QED
        BY <3>1, <4>2
    <3>3. \A s \in Seqno : results'[s].sent = (results[s].sent \/ s \in BatchSeqs)
      BY <1>1, <2>2, BatchStamps
    <3> SUFFICES ASSUME NEW k \in 1 .. i, NEW s \in Start[k] .. Start[k + 1] - 1
                 PROVE  results'[s].sent
      BY <3>1 DEF Stamped
    <3>4. s \in Seqno
      BY <3>1, BatchInSeqno
    <3>5. k \in 1 .. i - 1 \/ k = i
      BY <3>1
    <3>6. results[s].sent \/ s \in BatchSeqs
      BY <3>1, <3>2, <3>5 DEF Pipeline, Stamped
    <3> QED
      BY <3>3, <3>4, <3>6
  <2> QED
    BY <2>1, <2>2
<1> QED
  BY <1>3, <1>4, <1>5 DEF Pipeline

\* Whatever is on its way or has been handled is older than the next packet.
LEMMA Older ==
  ASSUME Provenance, Order
  PROVE  /\ Precede(Dispatched \cup Numbers(packet_queue), {shared.seq})
         /\ \A w \in Worker :
              Precede(Handled(w) \cup Held(w) \cup Numbers(in_queue[w]), {shared.seq})
<1>1. \A p : FromTrace(p) => p.seq < shared.seq
  BY DEF FromTrace, Reached
<1>2. \A s \in Dispatched \cup Numbers(packet_queue) : s < shared.seq
  BY <1>1 DEF Provenance, Dispatched, Numbers
<1>3. ASSUME NEW w \in Worker
      PROVE  \A s \in Handled(w) \cup Held(w) \cup Numbers(in_queue[w]) : s < shared.seq
  <2>1. \A s \in Handled(w) : s < shared.seq
    BY DEF Order
  <2>2. \A s \in Held(w) \cup Numbers(in_queue[w]) : s < shared.seq
    BY <1>1 DEF Provenance, Held, Numbers
  <2> QED
    BY <2>1, <2>2
<1> QED
  BY <1>2, <1>3 DEF Precede

\* The packet the ISR copies is the next one of the announced interrupt.
LEMMA CopiedPacket ==
  ASSUME IInv, IsrCopy
  PROVE  LET p == [seq |-> shared.seq, port |-> shared.port] IN
         /\ p \in Packet /\ Reached(p, Announced', shared'.seq)
         /\ Announced' = Announced /\ shared'.seq = shared.seq + 1
<1> DEFINE p == [seq |-> shared.seq, port |-> shared.port]
<1>1. TypeOK /\ isr \in Nat /\ isr # NotRunning /\ isr < shared.count
  BY DEF IInv, TypeOK, IsrCopy
<1>2. /\ tpc = "wait" /\ i \in 1 .. Len(Trace) /\ Announced = i
      /\ shared.seq = Start[i] + isr
      /\ shared.port = Trace[i].port /\ shared.count = Trace[i].count
  BY <1>1 DEF IInv, TypeOK, Handshake, Token, Numbering, Announced
<1>3. /\ Start[i] \in Nat /\ Trace[i].count \in Nat /\ Trace[i].port \in Port
      /\ Start[i + 1] = Start[i] + Trace[i].count /\ Start[i + 1] <= TRACE_PACKET_COUNT
      /\ TRACE_PACKET_COUNT \in Nat
  BY <1>2, ConstantFacts
<1>4. /\ shared.seq \in Nat /\ Start[i] <= shared.seq /\ shared.seq < Start[i + 1]
  BY <1>1, <1>2, <1>3
<1>5. Announced' = Announced
  BY DEF IsrCopy, trafficVars, Announced
<1>6. shared'.seq = shared.seq + 1
  <2>1. shared \in [seq : Nat, port : Nat, count : Nat]
    BY <1>1 DEF TypeOK
  <2> QED
    BY <2>1, Zenon DEF IsrCopy, NextSeq
<1>7. p \in Packet
  BY <1>2, <1>3, <1>4 DEF Packet, Seqno
<1>8. Reached(p, Announced', shared'.seq)
  BY <1>2, <1>4, <1>5, <1>6 DEF Reached
<1> QED
  BY <1>5, <1>6, <1>7, <1>8

LEMMA IsrPipeline == IInv /\ Pipeline /\ IsrStep => Pipeline'
<1> SUFFICES ASSUME IInv, Pipeline, IsrStep PROVE Pipeline'
  OBVIOUS
<1>1. TypeOK /\ TypeOK'
  BY IsrInv DEF IInv
<1>2. UNCHANGED <<trafficVars, npc, packet, in_queue, wpc, buf, log, results>>
  BY DEF IsrStep, IsrEnter, IsrCopy, IsrExit, netVars, mailVars, workerVars
<1>3. Announced' = Announced
  BY <1>2 DEF trafficVars, Announced
<1>4. Stamped'
  BY <1>1, <1>2, <1>3, StampedFrame DEF Pipeline
<1>5. CASE IsrEnter \/ IsrExit
  <2>1. shared' = shared /\ packet_queue' = packet_queue
    BY <1>5 DEF IsrEnter, IsrExit
  <2>2. Advances
    BY <1>1, <1>3, <2>1, AnnouncedType DEF Advances
  <2>3. Provenance'
    BY <1>1, <1>2, <2>1, <2>2, ProvenanceFrame DEF Pipeline
  <2>4. Order'
    BY <1>1, <1>2, <2>1, <2>2, OrderFrame DEF Pipeline, Dispatched, Held
  <2> QED
    BY <1>4, <2>3, <2>4 DEF Pipeline
<1>6. CASE IsrCopy
  <2> DEFINE p == [seq |-> shared.seq, port |-> shared.port]
  <2>1. /\ p \in Packet /\ p.seq = shared.seq /\ shared'.seq = shared.seq + 1
        /\ Reached(p, Announced', shared'.seq)
    BY <1>6, CopiedPacket
  <2>2. packet_queue' = packet_queue \/ packet_queue' = Append(packet_queue, p)
    BY <1>6 DEF IsrCopy, Sent
  <2>3. Advances
    BY <1>1, <1>3, <2>1, AnnouncedType DEF Advances
  <2>4. Provenance /\ Order /\ packet_queue \in Seq(Packet)
    BY <1>1 DEF Pipeline, TypeOK
  <2> HIDE DEF p
  <2>5. \A n \in DOMAIN packet_queue' :
          packet_queue'[n] = p \/ \E m \in DOMAIN packet_queue : packet_queue'[n] = packet_queue[m]
    BY <2>1, <2>2, <2>4, AppendQueue
  <2>6. Provenance'
    <3>1. \A n \in DOMAIN packet_queue' : FromTrace(packet_queue[n])'
      <4>1. \A m \in DOMAIN packet_queue : FromTrace(packet_queue[m]) /\ packet_queue[m] \in Packet
        BY <2>4 DEF Provenance
      <4>2. \A q \in Packet : FromTrace(q) => Reached(q, Announced', shared'.seq)
        BY <2>3, Kept DEF FromTrace
      <4> QED
        BY <2>1, <2>5, <4>1, <4>2 DEF FromTrace
    <3>2. npc' # "recv" => FromTrace(packet)'
      BY <1>1, <1>2, <2>3, <2>4, Kept DEF Provenance, TypeOK
    <3>3. ASSUME NEW w \in Worker
          PROVE  /\ \A n \in DOMAIN in_queue'[w] :
                      FromTrace(in_queue[w][n])' /\ port_map[in_queue'[w][n].port] = w
                 /\ wpc'[w] = "received" => FromTrace(buf[w])' /\ port_map[buf'[w].port] = w
      BY <1>1, <1>2, <2>3, <2>4, MailboxFrame
    <3> QED
      BY <3>1, <3>2, <3>3 DEF Provenance
  <2>7. Order'
    <3>1. /\ Numbers(packet_queue)' \subseteq Numbers(packet_queue) \cup {shared.seq}
          /\ Ascending(packet_queue)'
      <4>1. Ascending(packet_queue) /\ Precede(Numbers(packet_queue), {p.seq})
        BY <2>1, <2>4, Older DEF Order, Precede
      <4> QED
        BY <2>1, <2>2, <2>4, <4>1, AppendQueue
    <3>2. /\ Dispatched' = Dispatched
          /\ \A w \in Worker : Held(w)' = Held(w) /\ Handled(w)' = Handled(w)
      BY <1>2 DEF Dispatched, Held, Handled
    <3>3. Precede(Dispatched, Numbers(packet_queue))'
      BY <2>4, <3>1, <3>2, Older DEF Order, Precede
    <3>4. ASSUME NEW w \in Worker
          PROVE  /\ Ascending(in_queue[w])'
                 /\ Precede(Handled(w), Held(w))'
                 /\ Precede(Handled(w) \cup Held(w), Numbers(in_queue[w]))'
      BY <1>2, <2>4, <3>2 DEF Order
    <3>5. ASSUME NEW w \in Worker
          PROVE  Precede(Handled(w) \cup Held(w) \cup Numbers(in_queue[w]),
                         Dispatched \cup Numbers(packet_queue))'
      BY <1>2, <2>4, <3>1, <3>2, Older DEF Order, Precede
    <3>6. ASSUME NEW w \in Worker, NEW s \in Handled(w)' PROVE s < shared'.seq
      <4>1. s \in Nat /\ s < shared.seq
        BY <1>1, <2>4, <3>2, <3>6, HandledType DEF Order
      <4> QED
        BY <2>1, <2>3, <4>1 DEF Advances
    <3> QED
      BY <3>1, <3>3, <3>4, <3>5, <3>6 DEF Order
  <2> QED
    BY <1>4, <2>6, <2>7 DEF Pipeline
<1> QED
  BY <1>5, <1>6 DEF IsrStep

LEMMA NetPipeline == IInv /\ Pipeline /\ NetStep => Pipeline'
<1> SUFFICES ASSUME IInv, Pipeline, NetStep PROVE Pipeline'
  OBVIOUS
<1>1. TypeOK /\ TypeOK' /\ Provenance /\ Order
  BY NetInv DEF IInv, Pipeline
<1>2. UNCHANGED <<trafficVars, shared, wpc, buf, log, results>>
  BY DEF NetStep, NetReceive, NetDispatch, NetGive, mailVars, workerVars
<1>3. Announced' = Announced
  BY <1>2 DEF trafficVars, Announced
<1>4. Stamped'
  BY <1>1, <1>2, <1>3, StampedFrame DEF Pipeline
<1>5. Advances
  BY <1>1, <1>2, <1>3, AnnouncedType DEF Advances
<1>6. \A w \in Worker : Held(w)' = Held(w) /\ Handled(w)' = Handled(w)
  BY <1>2 DEF Held, Handled
<1>7. \A w \in Worker : \A s \in Handled(w)' : s < shared'.seq
  BY <1>1, <1>2, <1>6 DEF Order
<1>8. CASE NetReceive
  <2>1. /\ npc = "recv" /\ npc' = "process" /\ in_queue' = in_queue
        /\ packet' = Head(packet_queue) /\ packet_queue' = Tail(packet_queue)
        /\ packet_queue \in Seq(Packet) /\ packet_queue # << >>
    BY <1>1, <1>8 DEF NetReceive, NetRuns, NetReady, mailVars, TypeOK
  <2>2. Provenance'
    <3>1. \A m \in DOMAIN packet_queue :
            Reached(packet_queue[m], Announced', shared'.seq)
      BY <1>1, <1>2, <1>3 DEF Provenance, FromTrace
    <3>2. Reached(packet', Announced', shared'.seq)
      BY <2>1, <3>1, TailQueue
    <3>3. \A n \in DOMAIN packet_queue' : Reached(packet_queue'[n], Announced', shared'.seq)
      BY <2>1, <3>1, TailQueue
    <3>4. ASSUME NEW w \in Worker
          PROVE  /\ \A n \in DOMAIN in_queue'[w] :
                      FromTrace(in_queue[w][n])' /\ port_map[in_queue'[w][n].port] = w
                 /\ wpc'[w] = "received" => FromTrace(buf[w])' /\ port_map[buf'[w].port] = w
      BY <1>1, <1>2, <1>5, <2>1, MailboxFrame
    <3> QED
      BY <3>2, <3>3, <3>4 DEF Provenance, FromTrace
  <2>3. Order'
    <3>1. /\ Numbers(packet_queue)' \subseteq Numbers(packet_queue)
          /\ Dispatched' \subseteq Numbers(packet_queue)
          /\ Ascending(packet_queue)' /\ Precede(Dispatched, Numbers(packet_queue))'
      BY <1>1, <2>1, TailQueue DEF Order, Dispatched
    <3>2. ASSUME NEW w \in Worker
          PROVE  /\ Ascending(in_queue[w])'
                 /\ Precede(Handled(w), Held(w))'
                 /\ Precede(Handled(w) \cup Held(w), Numbers(in_queue[w]))'
      BY <1>1, <1>6, <2>1 DEF Order
    <3>3. ASSUME NEW w \in Worker
          PROVE  Precede(Handled(w) \cup Held(w) \cup Numbers(in_queue[w]),
                         Dispatched \cup Numbers(packet_queue))'
      BY <1>1, <1>6, <2>1, <3>1 DEF Order, Precede
    <3> QED
      BY <1>7, <3>1, <3>2, <3>3 DEF Order
  <2> QED
    BY <1>4, <2>2, <2>3 DEF Pipeline
<1>9. CASE NetDispatch
  <2> DEFINE sock == port_map[packet.port]
  <2>1. /\ npc = "process" /\ packet_queue' = packet_queue /\ packet' = packet
        /\ packet \in Packet /\ FromTrace(packet) /\ in_queue \in [Worker -> Seq(Packet)]
    BY <1>1, <1>9 DEF NetDispatch, TypeOK, Provenance
  <2>2. ASSUME NEW w \in Worker
        PROVE  in_queue'[w] = in_queue[w] \/ (in_queue'[w] = Append(in_queue[w], packet) /\ sock = w)
    BY <1>9, <2>1 DEF NetDispatch
  <2>3. Dispatched = {packet.seq} /\ Dispatched' = {}
    BY <1>9, <2>1 DEF NetDispatch, AfterDispatch, Dispatched
  <2>4. Provenance'
    <3>1. \A n \in DOMAIN packet_queue' : FromTrace(packet_queue[n])'
      BY <1>1, <1>2, <1>3, <2>1 DEF Provenance, FromTrace
    <3>2. FromTrace(packet)'
      BY <1>2, <1>3, <2>1 DEF FromTrace
    <3>3. ASSUME NEW w \in Worker, NEW n \in DOMAIN in_queue'[w]
          PROVE  FromTrace(in_queue[w][n])' /\ port_map[in_queue'[w][n].port] = w
      <4>1. \A m \in DOMAIN in_queue[w] :
              /\ Reached(in_queue[w][m], Announced', shared'.seq)
              /\ port_map[in_queue[w][m].port] = w
        BY <1>1, <1>2, <1>3 DEF Provenance, FromTrace
      <4>2. Reached(packet, Announced', shared'.seq)
        BY <1>2, <1>3, <2>1 DEF FromTrace
      <4>3. CASE in_queue'[w] = in_queue[w]
        BY <3>3, <4>1, <4>3 DEF FromTrace
      <4>4. CASE in_queue'[w] = Append(in_queue[w], packet) /\ sock = w
        <5>1. in_queue'[w][n] = packet \/ \E m \in DOMAIN in_queue[w] : in_queue'[w][n] = in_queue[w][m]
          BY <2>1, <3>3, <4>4, AppendQueue
        <5> QED
          BY <4>1, <4>2, <4>4, <5>1 DEF FromTrace
      <4> QED
        BY <2>2, <4>3, <4>4
    <3>4. ASSUME NEW w \in Worker
          PROVE  wpc'[w] = "received" => FromTrace(buf[w])' /\ port_map[buf'[w].port] = w
      BY <1>1, <1>2, <1>3 DEF Provenance, FromTrace
    <3> QED
      BY <3>1, <3>2, <3>3, <3>4 DEF Provenance
  <2>5. Order'
    <3>1. ASSUME NEW w \in Worker
          PROVE  /\ Numbers(in_queue[w])' \subseteq Numbers(in_queue[w]) \cup {packet.seq}
                 /\ Ascending(in_queue[w])'
      <4>1. Ascending(in_queue[w]) /\ Precede(Numbers(in_queue[w]), {packet.seq})
        BY <1>1, <2>3 DEF Order, Precede
      <4>2. Numbers(Append(in_queue[w], packet)) = Numbers(in_queue[w]) \cup {packet.seq}
            /\ Ascending(Append(in_queue[w], packet))
        BY <2>1, <4>1, AppendQueue
      <4>3. CASE in_queue'[w] = in_queue[w]
        BY <4>1, <4>3
      <4>4. CASE in_queue'[w] = Append(in_queue[w], packet)
        BY <4>2, <4>4
      <4> QED
        BY <2>2, <4>3, <4>4
    <3>2. Ascending(packet_queue)' /\ Precede(Dispatched, Numbers(packet_queue))'
      BY <1>1, <2>1, <2>3 DEF Order, Precede
    <3>3. ASSUME NEW w \in Worker
          PROVE  /\ Precede(Handled(w), Held(w))'
                 /\ Precede(Handled(w) \cup Held(w), Numbers(in_queue[w]))'
                 /\ Precede(Handled(w) \cup Held(w) \cup Numbers(in_queue[w]),
                            Dispatched \cup Numbers(packet_queue))'
      <4>1. /\ Precede(Handled(w), Held(w))
            /\ Precede(Handled(w) \cup Held(w), Numbers(in_queue[w]))
            /\ Precede(Handled(w) \cup Held(w) \cup Numbers(in_queue[w]),
                       {packet.seq} \cup Numbers(packet_queue))
            /\ Precede({packet.seq}, Numbers(packet_queue))
        BY <1>1, <2>3 DEF Order
      <4>2. Precede(Handled(w) \cup Held(w), Numbers(in_queue[w]) \cup {packet.seq})
        BY <4>1 DEF Precede
      <4>3. Precede(Handled(w) \cup Held(w) \cup Numbers(in_queue[w]) \cup {packet.seq},
                    Numbers(packet_queue))
        BY <4>1 DEF Precede
      <4>4. Precede(Handled(w) \cup Held(w), Numbers(in_queue[w]))'
        BY <1>6, <3>1, <4>2 DEF Precede
      <4>5. Precede(Handled(w) \cup Held(w) \cup Numbers(in_queue[w]),
                    Dispatched \cup Numbers(packet_queue))'
        BY <1>6, <2>1, <2>3, <3>1, <4>3 DEF Precede
      <4> QED
        BY <1>6, <4>1, <4>4, <4>5
    <3> QED
      BY <1>7, <3>1, <3>2, <3>3 DEF Order
  <2> QED
    BY <1>4, <2>4, <2>5 DEF Pipeline
<1>10. CASE NetGive
  <2>1. /\ UNCHANGED <<packet_queue, packet, in_queue>>
        /\ npc = "give" /\ npc' = "recv"
    BY <1>10 DEF NetGive
  <2>2. Provenance'
    BY <1>1, <1>2, <1>5, <2>1, ProvenanceFrame
  <2>3. Order'
    BY <1>1, <1>2, <1>5, <1>6, <2>1, OrderFrame DEF Dispatched
  <2> QED
    BY <1>4, <2>2, <2>3 DEF Pipeline
<1> QED
  BY <1>8, <1>9, <1>10 DEF NetStep

\* StampReceived and StampRuntime each write one field of the packet's row.
LEMMA WorkerStamps ==
  ASSUME TypeOK, NEW w \in Worker, StampReceived(w) \/ StampRuntime(w)
  PROVE  /\ buf[w] \in Packet /\ buf[w].seq \in Seqno
         /\ \A s \in Seqno :
              /\ results'[s].sent = results[s].sent
              /\ results'[s].received = IF StampReceived(w) /\ s = buf[w].seq
                                          THEN "time" ELSE results[s].received
<1>1. buf[w] \in Packet /\ buf[w].seq \in Seqno /\ results \in [Seqno -> Result]
  BY DEF StampReceived, StampRuntime, TypeOK, Packet
<1>2. ASSUME NEW s \in Seqno
      PROVE  results[s] \in Result
  BY <1>1
<1>3. CASE StampReceived(w)
  <2>1. results' = [results EXCEPT ![buf[w].seq] =
                      [results[buf[w].seq] EXCEPT !.received = "time"]]
    BY <1>3 DEF StampReceived
  <2>2. ASSUME NEW s \in Seqno
        PROVE  /\ results'[s].sent = results[s].sent
               /\ results'[s].received = IF s = buf[w].seq THEN "time" ELSE results[s].received
    BY <1>1, <1>2, <2>1, Zenon DEF Result
  <2> QED
    BY <1>1, <1>3, <2>2
<1>4. CASE StampRuntime(w)
  <2>1. results' = [results EXCEPT ![buf[w].seq] =
                      [results[buf[w].seq] EXCEPT !.runtime = TRUE]]
    BY <1>4 DEF StampRuntime
  <2>2. ASSUME NEW s \in Seqno
        PROVE  results'[s].sent = results[s].sent /\ results'[s].received = results[s].received
    BY <1>1, <1>2, <2>1, Zenon DEF Result
  <2>3. ~StampReceived(w)
    BY <1>4 DEF StampReceived, StampRuntime
  <2> QED
    BY <1>1, <2>2, <2>3
<1> QED
  BY <1>3, <1>4

LEMMA WorkerPipeline ==
  ASSUME NEW w \in Worker PROVE IInv /\ Pipeline /\ WorkerStep(w) => Pipeline'
<1> SUFFICES ASSUME IInv, Pipeline, WorkerStep(w) PROVE Pipeline'
  OBVIOUS
<1>1. TypeOK /\ TypeOK' /\ Provenance /\ Order
  BY WorkerInv DEF IInv, Pipeline
<1>2. UNCHANGED <<trafficVars, shared, packet_queue, npc, packet>>
  BY DEF WorkerStep, RecvTake, RecvCallback, StampReceived, StampRuntime, netVars
<1>3. Announced' = Announced /\ Dispatched' = Dispatched
  BY <1>2 DEF trafficVars, Announced, Dispatched
<1>4. Advances
  BY <1>1, <1>2, <1>3, AnnouncedType DEF Advances
<1>5. CASE RecvTake(w)
  <2>1. /\ UNCHANGED <<in_queue, buf, log, results>>
        /\ wpc[w] = "take" /\ wpc' = [wpc EXCEPT ![w] = "callback"]
    BY <1>5 DEF RecvTake
  <2>2. \A v \in Worker : wpc'[v] = "received" <=> wpc[v] = "received"
    BY <1>1, <2>1 DEF TypeOK
  <2>3. Provenance'
    BY <1>1, <1>2, <1>4, <2>1, <2>2, ProvenanceFrame
  <2>4. Order'
    BY <1>1, <1>2, <1>3, <1>4, <2>1, <2>2, OrderFrame DEF Held
  <2>5. Stamped'
    BY <1>1, <1>3, <2>1, StampedFrame DEF Pipeline
  <2> QED
    BY <2>3, <2>4, <2>5 DEF Pipeline
<1>6. CASE RecvCallback(w)
  \* The notification taken stands for a packet in the mailbox.
  <2>1. in_queue[w] # << >> /\ in_queue[w] \in Seq(Packet) /\ wpc[w] = "callback"
    <3>1. wpc[w] = "callback" /\ notify[w] \in Nat /\ in_queue[w] \in Seq(Packet)
      BY <1>1, <1>6 DEF RecvCallback, TypeOK
    <3>2. Len(in_queue[w]) = notify[w] + 1 + Token(npc = "give" /\ port_map[packet.port] = w)
      BY <3>1 DEF IInv, MailboxCredit, Token
    <3>3. Len(in_queue[w]) > 0
      BY <3>1, <3>2 DEF Token
    <3> QED
      BY <3>1, <3>3, EmptySeq
  <2>2. /\ buf' = [buf EXCEPT ![w] = Head(in_queue[w])]
        /\ in_queue' = [in_queue EXCEPT ![w] = Tail(in_queue[w])]
        /\ wpc' = [wpc EXCEPT ![w] = "received"]
        /\ log' = log /\ results' = results
    BY <1>6, <2>1 DEF RecvCallback
  <2>3. ASSUME NEW v \in Worker, v # w
        PROVE  buf'[v] = buf[v] /\ in_queue'[v] = in_queue[v] /\ wpc'[v] = wpc[v]
    BY <1>1, <2>2, <2>3 DEF TypeOK
  <2>4. /\ buf'[w] = Head(in_queue[w]) /\ in_queue'[w] = Tail(in_queue[w])
        /\ wpc'[w] = "received"
    BY <1>1, <2>2 DEF TypeOK
  <2>5. Provenance'
    <3>1. \A n \in DOMAIN packet_queue' : FromTrace(packet_queue[n])'
      BY <1>1, <1>2, <1>3 DEF Provenance, FromTrace
    <3>2. npc' # "recv" => FromTrace(packet)'
      BY <1>1, <1>2, <1>3 DEF Provenance, FromTrace
    <3>3. ASSUME NEW v \in Worker
          PROVE  /\ \A n \in DOMAIN in_queue'[v] :
                      FromTrace(in_queue[v][n])' /\ port_map[in_queue'[v][n].port] = v
                 /\ wpc'[v] = "received" => FromTrace(buf[v])' /\ port_map[buf'[v].port] = v
      <4>1. /\ \A m \in DOMAIN in_queue[v] : /\ Reached(in_queue[v][m], Announced', shared'.seq)
                                             /\ port_map[in_queue[v][m].port] = v
            /\ wpc[v] = "received" => /\ Reached(buf[v], Announced', shared'.seq)
                                      /\ port_map[buf[v].port] = v
        BY <1>1, <1>2, <1>3 DEF Provenance, FromTrace
      <4>2. CASE v # w
        BY <2>3, <4>1, <4>2 DEF FromTrace
      <4>3. CASE v = w
        <5>1. \E m \in DOMAIN in_queue[w] : buf'[w] = in_queue[w][m]
          BY <2>1, <2>4, TailQueue
        <5>2. \A n \in DOMAIN in_queue'[w] : \E m \in DOMAIN in_queue[w] :
                in_queue'[w][n] = in_queue[w][m]
          BY <2>1, <2>4, TailQueue
        <5> QED
          BY <4>1, <4>3, <5>1, <5>2 DEF FromTrace
      <4> QED
        BY <4>2, <4>3
    <3> QED
      BY <3>1, <3>2, <3>3 DEF Provenance
  <2>6. Order'
    <3>1. ASSUME NEW v \in Worker
          PROVE  /\ Ascending(in_queue[v])'
                 /\ Precede(Handled(v), Held(v))'
                 /\ Precede(Handled(v) \cup Held(v), Numbers(in_queue[v]))'
                 /\ Precede(Handled(v) \cup Held(v) \cup Numbers(in_queue[v]),
                            Dispatched \cup Numbers(packet_queue))'
                 /\ \A s \in Handled(v)' : s < shared'.seq
      <4>1. Handled(v)' = Handled(v)
        BY <2>2 DEF Handled
      <4>2. CASE v # w
        <5>1. Held(v)' = Held(v) /\ in_queue'[v] = in_queue[v]
          BY <2>3, <4>2 DEF Held
        <5> QED
          BY <1>1, <1>2, <1>3, <4>1, <5>1 DEF Order
      <4>3. CASE v = w
        <5>1. Held(w) = {} /\ Held(w)' = {Head(in_queue[w]).seq}
          BY <2>1, <2>4 DEF Held
        <5>2. /\ Held(w)' \subseteq Numbers(in_queue[w])
              /\ Numbers(in_queue[w])' \subseteq Numbers(in_queue[w])
              /\ Ascending(in_queue[w])'
              /\ Precede(Held(w), Numbers(in_queue[w]))'
          <6>1. Ascending(in_queue[w])
            BY <1>1 DEF Order
          <6>2. /\ Head(in_queue[w]).seq \in Numbers(in_queue[w])
                /\ Numbers(Tail(in_queue[w])) \subseteq Numbers(in_queue[w])
                /\ Ascending(Tail(in_queue[w]))
                /\ Precede({Head(in_queue[w]).seq}, Numbers(Tail(in_queue[w])))
            BY <2>1, <6>1, TailQueue
          <6> QED
            BY <2>4, <5>1, <6>2
        <5>3. /\ Precede(Handled(w), Numbers(in_queue[w]))
              /\ Precede(Handled(w) \cup Numbers(in_queue[w]),
                         Dispatched \cup Numbers(packet_queue))
              /\ \A s \in Handled(w) : s < shared.seq
          BY <1>1, <5>1 DEF Order, Precede
        <5>4. Precede(Handled(w), Held(w))'
          BY <4>1, <4>3, <5>2, <5>3 DEF Precede
        <5>5. Precede(Handled(w) \cup Held(w), Numbers(in_queue[w]))'
          BY <4>1, <4>3, <5>2, <5>3 DEF Precede
        <5>6. Precede(Handled(w) \cup Held(w) \cup Numbers(in_queue[w]),
                      Dispatched \cup Numbers(packet_queue))'
          BY <1>2, <1>3, <4>1, <4>3, <5>2, <5>3 DEF Precede
        <5> QED
          BY <1>2, <4>1, <4>3, <5>2, <5>3, <5>4, <5>5, <5>6
      <4> QED
        BY <4>2, <4>3
    <3>2. Ascending(packet_queue)' /\ Precede(Dispatched, Numbers(packet_queue))'
      BY <1>1, <1>2, <1>3 DEF Order
    <3> QED
      BY <3>1, <3>2 DEF Order
  <2>7. Stamped'
    BY <1>1, <1>3, <2>2, StampedFrame DEF Pipeline
  <2> QED
    BY <2>5, <2>6, <2>7 DEF Pipeline
<1>7. CASE StampReceived(w)
  <2>1. /\ UNCHANGED <<in_queue, buf>>
        /\ wpc[w] = "received" /\ wpc' = [wpc EXCEPT ![w] = "load"]
        /\ log' = [log EXCEPT ![w] = Append(log[w], buf[w].seq)]
        /\ log[w] \in Seq(Seqno) /\ buf[w].seq \in Seqno
    BY <1>1, <1>7, WorkerStamps DEF StampReceived, mailVars, TypeOK
  <2>2. wpc'[w] = "load" /\ \A v \in Worker : v # w => wpc'[v] = wpc[v] /\ log'[v] = log[v]
    BY <1>1, <2>1 DEF TypeOK
  <2>3. log'[w] = Append(log[w], buf[w].seq)
    BY <1>1, <2>1 DEF TypeOK
  <2>4. Provenance'
    BY <1>1, <1>2, <1>4, <2>1, <2>2, ProvenanceFrame
  <2>5. Order'
    <3>1. Ascending(packet_queue)' /\ Precede(Dispatched, Numbers(packet_queue))'
      BY <1>1, <1>2, <1>3 DEF Order
    <3>2. ASSUME NEW v \in Worker
          PROVE  /\ Ascending(in_queue[v])'
                 /\ Precede(Handled(v), Held(v))'
                 /\ Precede(Handled(v) \cup Held(v), Numbers(in_queue[v]))'
                 /\ Precede(Handled(v) \cup Held(v) \cup Numbers(in_queue[v]),
                            Dispatched \cup Numbers(packet_queue))'
                 /\ \A s \in Handled(v)' : s < shared'.seq
      <4>1. CASE v # w
        <5>1. Held(v)' = Held(v) /\ Handled(v)' = Handled(v)
          BY <2>1, <2>2, <4>1 DEF Held, Handled
        <5> QED
          BY <1>1, <1>2, <1>3, <2>1, <5>1 DEF Order
      <4>2. CASE v = w
        <5>1. Held(v) = {buf[w].seq} /\ Held(v)' = {}
          BY <2>1, <2>2, <4>2 DEF Held
        <5>2. Handled(v)' = Handled(v) \cup Held(v)
          BY <2>1, <2>3, <4>2, <5>1, AppendLog DEF Handled
        <5>3. \A s \in Handled(v) \cup Held(v) : s < shared.seq
          BY <1>1, Older DEF Precede
        <5>4. Precede(Handled(v), Held(v))'
          BY <5>1 DEF Precede
        <5>5. Precede(Handled(v) \cup Held(v), Numbers(in_queue[v]))'
          BY <1>1, <2>1, <5>1, <5>2 DEF Order, Precede
        <5>6. Precede(Handled(v) \cup Held(v) \cup Numbers(in_queue[v]),
                      Dispatched \cup Numbers(packet_queue))'
          BY <1>1, <1>2, <1>3, <2>1, <5>1, <5>2 DEF Order, Precede
        <5> QED
          BY <1>1, <1>2, <2>1, <5>2, <5>3, <5>4, <5>5, <5>6 DEF Order
      <4> QED
        BY <4>1, <4>2
    <3> QED
      BY <3>1, <3>2 DEF Order
  <2>6. Stamped'
    BY <1>1, <1>3, <1>7, WorkerStamps, StampedFrame DEF Pipeline
  <2> QED
    BY <2>4, <2>5, <2>6 DEF Pipeline
<1>8. CASE StampRuntime(w)
  <2>1. /\ UNCHANGED <<in_queue, buf, log>>
        /\ wpc[w] = "load" /\ wpc' = [wpc EXCEPT ![w] = "take"]
    BY <1>8 DEF StampRuntime, mailVars
  <2>2. \A v \in Worker : wpc'[v] = "received" <=> wpc[v] = "received"
    BY <1>1, <2>1 DEF TypeOK
  <2>3. Provenance'
    BY <1>1, <1>2, <1>4, <2>1, <2>2, ProvenanceFrame
  <2>4. Order'
    BY <1>1, <1>2, <1>3, <1>4, <2>1, <2>2, OrderFrame DEF Held
  <2>5. Stamped'
    BY <1>1, <1>3, <1>8, WorkerStamps, StampedFrame DEF Pipeline
  <2> QED
    BY <2>3, <2>4, <2>5 DEF Pipeline
<1> QED
  BY <1>5, <1>6, <1>7, <1>8 DEF WorkerStep

-----------------------------------------------------------------------------
(* The packets that are handled.                                           *)

\* The packet a worker handles has been announced for it, and its send time is
\* in results[]; it is newer than all the worker has handled.
LEMMA HandledPacket ==
  ASSUME IInv, Pipeline, NEW w \in Worker, StampReceived(w)
  PROVE  LET s == buf[w].seq IN
         /\ s \in Seqno /\ log[w] \in Seq(Seqno)
         /\ \E k \in 1 .. Len(Trace) : /\ k <= Announced /\ Start[k] <= s /\ s < Start[k + 1]
                                       /\ port_map[Trace[k].port] = w
         /\ results[s].sent
         /\ \A n \in DOMAIN log[w] : log[w][n] < s
         /\ log' = [log EXCEPT ![w] = Append(log[w], s)]
<1> DEFINE s == buf[w].seq
<1>1. TypeOK /\ Provenance /\ Order /\ Stamped /\ wpc[w] = "received"
  BY DEF IInv, Pipeline, StampReceived
<1>2. buf[w] \in Packet /\ s \in Seqno /\ s \in Nat /\ log[w] \in Seq(Seqno)
  <2>1. buf[w] \in Packet /\ log[w] \in Seq(Seqno)
    BY <1>1 DEF TypeOK
  <2> QED
    BY <2>1, ConstantFacts DEF Packet, Seqno
<1>3. PICK k \in 1 .. Announced : /\ Start[k] <= s /\ s < Start[k + 1]
                                  /\ port_map[Trace[k].port] = w
  BY <1>1 DEF Provenance, FromTrace, Reached
<1>4. k \in 1 .. Len(Trace) /\ k <= Announced
  BY <1>1, <1>3, AnnouncedType
<1>5. results[s].sent
  <2>1. /\ Start[k] \in Nat /\ Trace[k].count \in Nat
        /\ Start[k + 1] = Start[k] + Trace[k].count
    BY <1>4, ConstantFacts
  <2>2. s \in Start[k] .. Start[k + 1] - 1
    BY <1>2, <1>3, <2>1
  <2> QED
    BY <1>1, <1>3, <2>2 DEF Stamped
<1>6. \A n \in DOMAIN log[w] : log[w][n] < s
  BY <1>1 DEF Order, Precede, Handled, Held
<1>7. log' = [log EXCEPT ![w] = Append(log[w], s)]
  BY DEF StampReceived
<1> QED
  BY <1>2, <1>3, <1>4, <1>5, <1>6, <1>7

\* No other step changes log or a receive time.
LEMMA OtherSteps ==
  ASSUME IInv, Next, \A w \in Worker : ~StampReceived(w)
  PROVE  /\ log' = log
         /\ \A s \in Seqno : /\ results'[s].received = results[s].received
                             /\ results[s].sent => results'[s].sent
<1>1. TypeOK
  BY DEF IInv
<1>2. CASE TrafficStep
  <2>1. log' = log /\ (~StampSent => results' = results)
    BY <1>2, TrafficAnnounces
  <2> QED
    BY <1>1, <2>1, BatchStamps
<1>3. CASE IsrStep \/ NetStep
  BY <1>3 DEF IsrStep, IsrEnter, IsrCopy, IsrExit, NetStep, NetReceive, NetDispatch,
              NetGive, workerVars
<1>4. ASSUME NEW w \in Worker, WorkerStep(w)
      PROVE  /\ log' = log
             /\ \A s \in Seqno : /\ results'[s].received = results[s].received
                                 /\ results[s].sent => results'[s].sent
  <2>1. CASE RecvTake(w) \/ RecvCallback(w)
    BY <2>1 DEF RecvTake, RecvCallback
  <2>2. CASE StampRuntime(w)
    <3>1. log' = log
      BY <2>2 DEF StampRuntime
    <3> QED
      BY <1>1, <2>2, <3>1, WorkerStamps
  <2> QED
    BY <1>4, <2>1, <2>2 DEF WorkerStep
<1> QED
  BY <1>2, <1>3, <1>4 DEF Next

Delivered == InOrder /\ RightWorker /\ SentBeforeReceived

LEMMA NextDelivered == IInv /\ Pipeline /\ Delivered /\ Next => Delivered'
<1> SUFFICES ASSUME IInv, Pipeline, Delivered, Next PROVE Delivered'
  OBVIOUS
<1>1. CASE \A w \in Worker : ~StampReceived(w)
  <2>1. log' = log
    BY <1>1, OtherSteps
  <2>2. SentBeforeReceived'
    BY <1>1, OtherSteps DEF Delivered, SentBeforeReceived
  <2> QED
    BY <2>1, <2>2 DEF Delivered, InOrder, RightWorker
<1>2. ASSUME NEW w \in Worker, StampReceived(w) PROVE Delivered'
  <2> DEFINE s == buf[w].seq
  <2>1. /\ s \in Seqno /\ log[w] \in Seq(Seqno) /\ results[s].sent
        /\ \A n \in DOMAIN log[w] : log[w][n] < s
        /\ Addressed(s, w)
        /\ log' = [log EXCEPT ![w] = Append(log[w], s)]
    BY <1>2, HandledPacket DEF Addressed
  <2> HIDE DEF s
  <2>2. log'[w] = Append(log[w], s) /\ \A v \in Worker : v # w => log'[v] = log[v]
    <3>1. log \in [Worker -> Seq(Seqno)]
      BY DEF IInv, TypeOK
    <3> QED
      BY <2>1, <3>1
  <2>3. InOrder'
    <3> SUFFICES ASSUME NEW v \in Worker
                 PROVE  \A m, n \in DOMAIN log'[v] : m < n => log'[v][m] < log'[v][n]
      BY DEF InOrder
    <3>1. \A m, n \in DOMAIN log[v] : m < n => log[v][m] < log[v][n]
      BY DEF Delivered, InOrder
    <3>2. CASE v = w
      BY <2>1, <2>2, <3>1, <3>2, AppendLog
    <3>3. CASE v # w
      BY <2>2, <3>1, <3>3
    <3> QED
      BY <3>2, <3>3
  <2>4. RightWorker'
    <3> SUFFICES ASSUME NEW v \in Worker, NEW n \in DOMAIN log'[v]
                 PROVE  Addressed(log'[v][n], v)
      BY DEF RightWorker, Addressed
    <3>1. \A m \in DOMAIN log[v] : Addressed(log[v][m], v)
      BY DEF Delivered, RightWorker
    <3>2. CASE v = w
      BY <2>1, <2>2, <3>1, <3>2, AppendLog
    <3>3. CASE v # w
      BY <2>2, <3>1, <3>3
    <3> QED
      BY <3>2, <3>3
  <2>5. SentBeforeReceived'
    <3>1. TypeOK
      BY DEF IInv
    <3> QED
      BY <1>2, <2>1, <3>1, WorkerStamps DEF Delivered, SentBeforeReceived, s
  <2> QED
    BY <2>3, <2>4, <2>5 DEF Delivered
<1> QED
  BY <1>1, <1>2

-----------------------------------------------------------------------------
DInv == IInv /\ Pipeline /\ Delivered

LEMMA InitDelivered == Init => DInv
<1> SUFFICES ASSUME Init PROVE DInv
  OBVIOUS
<1>1. IInv /\ TypeOK
  BY InitInv DEF IInv
<1>2. /\ Announced = 0 /\ npc = "recv" /\ packet_queue = << >>
      /\ \A w \in Worker : in_queue[w] = << >> /\ wpc[w] = "take" /\ log[w] = << >>
  BY DEF Init, Announced
<1>3. /\ Dispatched = {} /\ Numbers(packet_queue) = {}
      /\ \A w \in Worker : Held(w) = {} /\ Handled(w) = {} /\ Numbers(in_queue[w]) = {}
  BY <1>2 DEF Dispatched, Numbers, Held, Handled
<1>4. Provenance
  BY <1>2 DEF Provenance
<1>5. Order
  BY <1>2, <1>3 DEF Order, Precede, Ascending
<1>6. Stamped
  BY <1>2 DEF Stamped
<1>7. InOrder /\ RightWorker
  BY <1>2 DEF InOrder, RightWorker
<1>8. SentBeforeReceived
  <2>1. results \in [Seqno -> [sent : {FALSE}, received : HeapWord, runtime : {FALSE}]]
    BY DEF Init
  <2>2. \A s \in Seqno : results[s].received \in HeapWord
    BY <2>1
  <2>3. "time" \notin HeapWord
    BY ConstantsAssumption
  <2> QED
    BY <2>2, <2>3 DEF SentBeforeReceived
<1> QED
  BY <1>1, <1>4, <1>5, <1>6, <1>7, <1>8 DEF DInv, Pipeline, Delivered

LEMMA NextDInv == DInv /\ [Next]_vars => DInv'
<1> SUFFICES ASSUME DInv, [Next]_vars PROVE DInv'
  OBVIOUS
<1>1. IInv'
  BY NextInv DEF DInv
<1>2. CASE Next
  <2>1. Pipeline'
    BY <1>2, TrafficPipeline, IsrPipeline, NetPipeline, WorkerPipeline DEF DInv, Next
  <2> QED
    BY <1>1, <1>2, <2>1, NextDelivered DEF DInv
<1>3. CASE UNCHANGED vars
  <2>1. UNCHANGED <<tpc, i, shared, packet_queue, npc, packet, in_queue, wpc, buf, log, results>>
    BY <1>3 DEF vars, trafficVars, isrVars, netVars, mailVars, workerVars
  <2>2. /\ Announced' = Announced /\ Dispatched' = Dispatched
        /\ \A w \in Worker : Held(w)' = Held(w)
    BY <2>1 DEF Announced, Dispatched, Held
  <2>3. TypeOK /\ Advances
    BY <1>1, <2>1, <2>2, AnnouncedType DEF DInv, IInv, Advances
  <2>4. Pipeline'
    BY <2>1, <2>2, <2>3, ProvenanceFrame, OrderFrame, StampedFrame DEF DInv, Pipeline
  <2>5. Delivered'
    BY <2>1 DEF DInv, Delivered, InOrder, RightWorker, SentBeforeReceived
  <2> QED
    BY <1>1, <2>4, <2>5 DEF DInv
<1> QED
  BY <1>2, <1>3

LEMMA DeliveryInvariance == Spec => []DInv
<1>1. Init => DInv
  BY InitDelivered
<1>2. DInv /\ [Next]_vars => DInv'
  BY NextDInv
<1> QED
  BY <1>1, <1>2, PTL DEF Spec

-----------------------------------------------------------------------------
\* Between the ISR and the workers, packets stay in the order and on the path of
\* their interrupts, through three queues and whatever these lose.
THEOREM PipelineHolds == Spec => []Pipeline
<1>1. DInv => Pipeline
  BY DEF DInv
<1> QED
  BY <1>1, DeliveryInvariance, PTL

\* worker_main handles its packets in the order of their arrival, none twice.
THEOREM InOrderHolds == Spec => []InOrder
<1>1. DInv => InOrder
  BY DEF DInv, Delivered
<1> QED
  BY <1>1, DeliveryInvariance, PTL

\* worker_main handles only packets of interrupts for the port it has bound.
THEOREM RightWorkerHolds == Spec => []RightWorker
<1>1. DInv => RightWorker
  BY DEF DInv, Delivered
<1> QED
  BY <1>1, DeliveryInvariance, PTL

\* traffic.c has stamped the send time of every packet that worker.c stamps.
THEOREM SentBeforeReceivedHolds == Spec => []SentBeforeReceived
<1>1. DInv => SentBeforeReceived
  BY DEF DInv, Delivered
<1> QED
  BY <1>1, DeliveryInvariance, PTL

\* The application implements the delivery of packets: the trace reader announces
\* an interrupt when it has stamped its packets, a worker handles a packet when it
\* stamps it, and every other step is invisible.
THEOREM DeliveryImplemented == Spec => Delivers
<1> DEFINE Batch    == [k \in 1 .. Len(Trace) |-> Start[k] .. Start[k + 1] - 1]
           Receiver == [k \in 1 .. Len(Trace) |-> port_map[Trace[k].port]]
<1>1. Init => Delivery!Init
  BY DEF Init, Announced, Delivery!Init
<1>2. DInv /\ [Next]_vars => [Delivery!Next]_<<Announced, log>>
  <2> SUFFICES ASSUME DInv, [Next]_vars PROVE [Delivery!Next]_<<Announced, log>>
    OBVIOUS
  <2>1. CASE UNCHANGED vars
    BY <2>1 DEF vars, trafficVars, workerVars, Announced
  <2>2. CASE StampSent
    <3>1. log' = log /\ Announced' = Announced + 1
      BY <2>2, TrafficAnnounces DEF DInv, TrafficStep
    <3>2. Announced + 1 \in 1 .. Len(Trace)
      BY <2>2 DEF DInv, IInv, TypeOK, StampSent, Announced
    <3>3. Delivery!Announce
      BY <3>1, <3>2 DEF Delivery!Announce
    <3> QED
      BY <3>3 DEF Delivery!Next
  <2>3. ASSUME NEW w \in Worker, StampReceived(w) PROVE Delivery!Next
    <3> DEFINE s == buf[w].seq
    <3>1. /\ s \in Seqno /\ \A n \in DOMAIN log[w] : log[w][n] < s
          /\ log' = [log EXCEPT ![w] = Append(log[w], s)]
          /\ \E k \in 1 .. Len(Trace) : /\ k <= Announced /\ Start[k] <= s /\ s < Start[k + 1]
                                        /\ port_map[Trace[k].port] = w
      BY <2>3, HandledPacket DEF DInv
    <3>2. PICK k \in 1 .. Len(Trace) : /\ k <= Announced /\ Start[k] <= s /\ s < Start[k + 1]
                                       /\ port_map[Trace[k].port] = w
      BY <3>1
    <3>3. s \in Batch[k] /\ Receiver[k] = w
      <4>1. s \in Nat /\ Start[k] \in Nat /\ Trace[k].count \in Nat
            /\ Start[k + 1] = Start[k] + Trace[k].count
        BY <3>1, ConstantFacts DEF Seqno
      <4> QED
        BY <3>2, <4>1
    <3>4. Announced' = Announced
      BY <2>3 DEF StampReceived, trafficVars, Announced
    <3> HIDE DEF s
    <3>5. Delivery!Handle(w)
      BY <3>1, <3>2, <3>3, <3>4 DEF Delivery!Handle
    <3> QED
      BY <3>5 DEF Delivery!Next
  <2>4. CASE Next /\ ~StampSent /\ \A w \in Worker : ~StampReceived(w)
    <3>1. log' = log
      BY <2>4, OtherSteps DEF DInv
    <3>2. Announced' = Announced
      <4>1. CASE TrafficStep
        BY <2>4, <4>1, TrafficAnnounces DEF DInv
      <4>2. CASE IsrStep \/ NetStep \/ \E w \in Worker : WorkerStep(w)
        BY <4>2 DEF IsrStep, IsrEnter, IsrCopy, IsrExit, NetStep, NetReceive, NetDispatch,
                    NetGive, WorkerStep, RecvTake, RecvCallback, StampReceived, StampRuntime,
                    trafficVars, Announced
      <4> QED
        BY <2>4, <4>1, <4>2 DEF Next
    <3> QED
      BY <3>1, <3>2
  <2> QED
    BY <2>1, <2>2, <2>3, <2>4
<1> QED
  BY <1>1, <1>2, DeliveryInvariance, PTL DEF Spec, Delivers, Delivery!Spec
=============================================================================
