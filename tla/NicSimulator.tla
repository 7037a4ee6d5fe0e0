---------------------------- MODULE NicSimulator ----------------------------
(***************************************************************************)
(* nic_simulator/main.py: packets of a trace arrive at the NIC, which      *)
(* raises an interrupt for a pass-through flow at once and otherwise keeps *)
(* the packet in the moderation buffer of its flow, until the buffer's     *)
(* packet limit, its packet timer or its absolute timer flushes it.        *)
(*                                                                         *)
(* The processes are SimPy coroutines.  `agenda` is SimPy's event queue,   *)
(* ordered by time and, among equal times, by the number `eid` that an     *)
(* event gets when it is scheduled.  Events of urgent priority (starting a *)
(* process, interrupting one) precede every other event of their instant,  *)
(* so they are part of the step that causes them: the cancelled timeout    *)
(* leaves the agenda and the new one is numbered after whatever the same   *)
(* callback has scheduled before.                                          *)
(***************************************************************************)
EXTENDS Integers, Sequences, SequencesExt

CONSTANTS
  Buffer,        \* the names of the configured buffers
  BufferOrder,   \* config["buffers"]: Buffer in the order of the file
  Config,        \* per buffer: its limits, as read from the configuration
  Mapping,       \* ip_buffer_mapping: flow -> a buffer or PassThrough
  Flow,          \* the flows of the trace; those outside DOMAIN Mapping are unknown
  PassThrough, None,
  RUNTIME,       \* end of the simulation
  MaxPackets,    \* bound on the length of the packet trace
  MaxGap         \* bound on the time between two packets

Limit == (Nat \ {0}) \cup {None}

ASSUME ConfigAssumption ==
  /\ None \notin Nat \cup Buffer \cup {"packet_limit", "packet_timer", "absolute_timer"}
  /\ PassThrough \notin Buffer /\ DOMAIN Mapping \subseteq Flow
  /\ Mapping \in [DOMAIN Mapping -> Buffer \cup {PassThrough}]
  /\ BufferOrder \in Seq(Buffer) /\ Buffer = ToSet(BufferOrder)
  /\ \A j, k \in DOMAIN BufferOrder : BufferOrder[j] = BufferOrder[k] => j = k
  /\ Config \in [Buffer -> [packet_limit : Limit, packet_time_limit : Limit,
                            absolute_time_limit : Limit, offset : Nat,
                            capacity : Nat \ {0}]]
  /\ \A b \in Buffer : Config[b].offset # 0 => Config[b].absolute_time_limit # None
  /\ {RUNTIME, MaxPackets, MaxGap} \subseteq Nat /\ MaxPackets > 0

VARIABLES
  now,          \* env.now
  agenda,       \* pending events: [at, eid, what, of]
  eid,          \* number of the next event
  items,        \* per buffer: packets the store holds
  put_queue,    \* per buffer: packets waiting for room in the store
  packet_timer, \* per buffer: state of the process in self.packet_timer
  packets,      \* seqout_trace: [flow, arrival_time, irq_time]
  interrupts,   \* interrupt_trace: [at, batch, reason]
  status        \* "running", "crashed" (an exception), "written" (the csv files)

bufferVars == <<items, put_queue, packet_timer>>
vars == <<now, agenda, eid, bufferVars, packets, interrupts, status>>

Event(at, number, what, of) == [at |-> at, eid |-> number, what |-> what, of |-> of]

Precedes(e, f) == e.at < f.at \/ (e.at = f.at /\ e.eid < f.eid)

\* Process.interrupt() detaches the packet timer from its timeout.
Cancelled_Never(events, b) == events
Cancelled(events, b)       == {e \in events : ~(e.what = "packet" /\ e.of = b)}

\* nic() sleeps until the next packet of the trace, which may have ended.
NextArrival ==
  {{}} \cup (IF Len(packets') < MaxPackets
               THEN {{Event(now' + gap, eid, "arrival", None)} : gap \in 0 .. MaxGap}
               ELSE {})

\* The processes of the buffers start in their order, then the one of nic().
Init ==
  /\ now = 0
  /\ \E first \in 0 .. MaxGap :
       agenda = {Event(Config[BufferOrder[k]].offset, k, "offset", BufferOrder[k]) :
                   k \in {j \in DOMAIN BufferOrder :
                            Config[BufferOrder[j]].absolute_time_limit # None}}
                  \cup {Event(first, Len(BufferOrder) + 1, "arrival", None)}
  /\ eid = Len(BufferOrder) + 2
  /\ items = [b \in Buffer |-> << >>]
  /\ put_queue = [b \in Buffer |-> << >>]
  /\ packet_timer = [b \in Buffer |-> "none"]
  /\ packets = << >>
  /\ interrupts = << >>
  /\ status = "running"

\* The simulation takes the next event, unless it lies beyond RUNTIME.
Happens(e, what) ==
  /\ status = "running" /\ e \in agenda
  /\ \A f \in agenda \ {e} : Precedes(e, f)
  /\ e.what = what /\ e.at < RUNTIME
  /\ now' = e.at

\* flush(): one interrupt for the whole batch.
Raise(batch, reason) ==
  interrupts' = Append(interrupts, [at |-> now', batch |-> batch, reason |-> reason])
Stamped_First(list, batch) ==
  IF batch = << >> THEN list ELSE [list EXCEPT ![Head(batch)].irq_time = now']
Stamped(list, batch) ==
  [n \in DOMAIN list |-> IF n \in ToSet(batch)
                           THEN [list[n] EXCEPT !.irq_time = now'] ELSE list[n]]

-----------------------------------------------------------------------------
(* nic(): one packet arrives.  Packets are numbered from 1.                *)

Arrived(flow) == Append(packets, [flow |-> flow, arrival_time |-> now', irq_time |-> None])

DropUnknown(e, flow) ==
  /\ Happens(e, "arrival") /\ flow \notin DOMAIN Mapping
  /\ packets' = Arrived(flow)
  /\ \E next \in NextArrival : agenda' = (agenda \ {e}) \cup next
  /\ eid' = eid + 1
  /\ UNCHANGED <<bufferVars, interrupts, status>>

PassOn(e, flow) ==
  /\ Happens(e, "arrival") /\ flow \in DOMAIN Mapping /\ Mapping[flow] = PassThrough
  /\ LET batch == <<Len(packets) + 1>> IN
     /\ Raise(batch, None)
     /\ packets' = Stamped(Arrived(flow), batch)
  /\ \E next \in NextArrival : agenda' = (agenda \ {e}) \cup next
  /\ eid' = eid + 1
  /\ UNCHANGED <<bufferVars, status>>

\* _reset_packet_timer() raises a RuntimeError when the timer process has
\* returned and its own termination event is still in the agenda.
ResetFails(b) == packet_timer[b] = "ended"

LimitReached_Late(b, content) ==
  Config[b].packet_limit # None /\ Len(content) > Config[b].packet_limit
LimitReached(b, content) ==
  Config[b].packet_limit # None /\ Len(content) >= Config[b].packet_limit

HasRoom(b) == Len(items[b]) < Config[b].capacity

Admitted_Newest(waiting) == Last(waiting)
Admitted(waiting)        == Head(waiting)

StillWaiting_None(b, waiting) == IF HasRoom(b) THEN << >> ELSE waiting
StillWaiting(b, waiting)      == IF HasRoom(b) THEN Tail(waiting) ELSE waiting

\* Buffer.put().  SimPy's Store.put admits at most one waiting packet, the
\* oldest, and flush() admits none.
Put(e, flow) ==
  /\ Happens(e, "arrival") /\ flow \in DOMAIN Mapping /\ Mapping[flow] \in Buffer
  /\ LET b       == Mapping[flow]
         limit   == Config[b].packet_time_limit
         waiting == Append(put_queue[b], Len(packets) + 1)
         content == IF HasRoom(b) THEN Append(items[b], Admitted(waiting)) ELSE items[b]
         flushes == LimitReached(b, content)
     IN
     /\ limit # None => ~ResetFails(b)
     /\ put_queue' = [put_queue EXCEPT ![b] = StillWaiting(b, waiting)]
     /\ items' = [items EXCEPT ![b] = IF flushes THEN << >> ELSE content]
     /\ packets' = IF flushes THEN Stamped(Arrived(flow), content) ELSE Arrived(flow)
     /\ IF flushes THEN Raise(content, "packet_limit") ELSE UNCHANGED interrupts
     /\ \E next \in NextArrival :
          agenda' = IF limit = None THEN (agenda \ {e}) \cup next
                    ELSE Cancelled(agenda \ {e}, b) \cup next
                           \cup {Event(now' + limit, eid + 1, "packet", b)}
     /\ packet_timer' = IF limit = None THEN packet_timer
                                        ELSE [packet_timer EXCEPT ![b] = "armed"]
  /\ eid' = eid + 2
  /\ UNCHANGED status

PutCrashes(e, flow) ==
  /\ Happens(e, "arrival") /\ flow \in DOMAIN Mapping /\ Mapping[flow] \in Buffer
  /\ Config[Mapping[flow]].packet_time_limit # None /\ ResetFails(Mapping[flow])
  /\ status' = "crashed"
  /\ UNCHANGED <<agenda, eid, bufferVars, packets, interrupts>>

-----------------------------------------------------------------------------
(* The timers of a buffer.                                                 *)

Emptied_Not(b) == items
Emptied(b)     == [items EXCEPT ![b] = << >>]

Period_WithOffset(b) == Config[b].absolute_time_limit + Config[b].offset
Period(b)            == Config[b].absolute_time_limit

FlushesAtPeriod_Always(b) == TRUE
FlushesAtPeriod(b)        == items[b] # << >>

OffsetElapsed(e) ==
  /\ Happens(e, "offset")
  /\ agenda' = (agenda \ {e}) \cup {Event(now' + Period(e.of), eid, "absolute", e.of)}
  /\ eid' = eid + 1
  /\ UNCHANGED <<bufferVars, packets, interrupts, status>>

AbsoluteTimer(e) ==
  /\ Happens(e, "absolute")
  /\ LET b == e.of IN
     /\ ~ResetFails(b)
     /\ agenda' = Cancelled(agenda \ {e}, b)
                    \cup {Event(now' + Period(b), eid, "absolute", b)}
     /\ packet_timer' = [packet_timer EXCEPT ![b] = IF @ = "armed" THEN "none" ELSE @]
     /\ items' = Emptied(b)
     /\ packets' = Stamped(packets, items[b])
     /\ IF FlushesAtPeriod(b) THEN Raise(items[b], "absolute_timer")
                              ELSE UNCHANGED interrupts
  /\ eid' = eid + 1
  /\ UNCHANGED <<put_queue, status>>

AbsoluteTimerCrashes(e) ==
  /\ Happens(e, "absolute") /\ ResetFails(e.of)
  /\ status' = "crashed"
  /\ UNCHANGED <<agenda, eid, bufferVars, packets, interrupts>>

\* The timer process flushes, even an empty buffer, and returns.
PacketTimer(e) ==
  /\ Happens(e, "packet")
  /\ LET b == e.of IN
     /\ agenda' = (agenda \ {e}) \cup {Event(now', eid, "ended", b)}
     /\ packet_timer' = [packet_timer EXCEPT ![b] = "ended"]
     /\ items' = Emptied(b)
     /\ packets' = Stamped(packets, items[b])
     /\ Raise(items[b], "packet_timer")
  /\ eid' = eid + 1
  /\ UNCHANGED <<put_queue, status>>

PacketTimerProcessed(e) ==
  /\ Happens(e, "ended")
  /\ agenda' = agenda \ {e}
  /\ packet_timer' = [packet_timer EXCEPT ![e.of] = "processed"]
  /\ UNCHANGED <<eid, items, put_queue, packets, interrupts, status>>

-----------------------------------------------------------------------------
\* The end of env.run(until=RUNTIME): both traces are written.
Finish ==
  /\ status = "running"
  /\ \A e \in agenda : e.at >= RUNTIME
  /\ now' = RUNTIME
  /\ status' = "written"
  /\ UNCHANGED <<agenda, eid, bufferVars, packets, interrupts>>

Stopped == status # "running" /\ UNCHANGED vars

Arrival(e, flow) == \/ DropUnknown(e, flow) \/ PassOn(e, flow)
                    \/ Put(e, flow) \/ PutCrashes(e, flow)
Timers(e)        == \/ OffsetElapsed(e) \/ AbsoluteTimer(e) \/ AbsoluteTimerCrashes(e)
                    \/ PacketTimer(e) \/ PacketTimerProcessed(e)

Next == \/ \E e \in agenda : Timers(e) \/ \E flow \in Flow : Arrival(e, flow)
        \/ Finish \/ Stopped

Spec == Init /\ [][Next]_vars

\* write_seqout_trace(): "if packet.irq_time" is false for None and for 0.
SequenceRows == {n \in DOMAIN packets : packets[n].irq_time \notin {None, 0}}

-----------------------------------------------------------------------------
(* Properties                                                              *)

EventType == [at : Nat, eid : Nat, of : Buffer \cup {None},
              what : {"arrival", "offset", "absolute", "packet", "ended"}]

TimerEvents(b) == {e \in agenda : e.of = b /\ e.what \in {"packet", "ended"}}

\* Types; the store never exceeds its capacity, and the packet timer a buffer
\* refers to has exactly one event on the agenda while it is armed or ended.
SimulatorTypeOK ==
  /\ now \in 0 .. RUNTIME
  /\ agenda \subseteq EventType /\ eid \in Nat
  /\ \A b \in Buffer :
       /\ items[b] \in Seq(1 .. MaxPackets) /\ Len(items[b]) <= Config[b].capacity
       /\ put_queue[b] \in Seq(1 .. MaxPackets)
       /\ packet_timer[b] \in {"none", "armed", "ended", "processed"}
       /\ IF packet_timer[b] \in {"armed", "ended"}
            THEN \E e \in agenda : /\ TimerEvents(b) = {e}
                                   /\ e.what = "packet" <=> packet_timer[b] = "armed"
            ELSE TimerEvents(b) = {}
  /\ packets \in Seq([flow : Flow, arrival_time : Nat, irq_time : Nat \cup {None}])
  /\ interrupts \in Seq([at : Nat, batch : Seq(1 .. MaxPackets),
                         reason : {None, "packet_limit", "packet_timer", "absolute_timer"}])
  /\ status \in {"running", "crashed", "written"}

Destination(n) ==
  IF packets[n].flow \in DOMAIN Mapping THEN Mapping[packets[n].flow] ELSE None

\* Where the packets of buffer b are: in the batches of the interrupts, then in the
\* store, then waiting for room in it.
Place(b) ==
  [k \in 1 .. Len(interrupts) + 2 |->
     IF k <= Len(interrupts) THEN interrupts[k].batch
     ELSE IF k = Len(interrupts) + 1 THEN items[b] ELSE put_queue[b]]

\* The packets of a buffer leave it in their order of arrival, each in exactly
\* one interrupt; the others are still in the store or waiting for room in it.
InOrderOnce ==
  \A b \in Buffer : LET place == Place(b) IN
    /\ \A n \in DOMAIN packets :
         Destination(n) = b => \E k \in DOMAIN place : n \in ToSet(place[k])
    /\ \A k, l \in DOMAIN place : \A i \in DOMAIN place[k], j \in DOMAIN place[l] :
         /\ Destination(place[k][i]) = b /\ Destination(place[l][j]) = b
         /\ k < l \/ (k = l /\ i < j)
         => place[k][i] < place[l][j]

\* The two traces agree: a packet has the time of the one interrupt that lists it,
\* and no time when no interrupt does.
IrqTimesAgree ==
  \A n \in DOMAIN packets :
    LET listed == {k \in DOMAIN interrupts : n \in ToSet(interrupts[k].batch)} IN
    {interrupts[k].at : k \in listed} = {packets[n].irq_time} \ {None}

\* Unless the buffer has overflowed, no packet stays in the NIC beyond the absolute
\* timer's next period, nor longer than the packet timer allows after the buffer's
\* latest packet.
Held(b) == ToSet(items[b]) \cup ToSet(put_queue[b])
LatencyBound ==
  \A b \in Buffer : status = "running" /\ put_queue[b] = << >> /\ Held(b) # {} =>
    LET absolute == Config[b].absolute_time_limit
        idle     == Config[b].packet_time_limit
    IN
    /\ absolute # None =>
         \A n \in Held(b) : now <= Max({packets[n].arrival_time, Config[b].offset}) + absolute
    /\ idle # None => now <= packets[Max(Held(b))].arrival_time + idle

\* Packet n is the last one for buffer b that arrived before time t.
LastBefore(n, b, t) ==
  /\ Destination(n) = b /\ packets[n].arrival_time < t
  /\ \A m \in n + 1 .. Len(packets) : Destination(m) = b => packets[m].arrival_time >= t

\* Timers are not early: the packet timer flushes exactly its limit after the
\* latest packet for its buffer, in the store or waiting for room (a superseded
\* timer never fires), the absolute timer only at multiples of its period after
\* its offset.  Other interrupts come at once.
Punctual ==
  \A k \in DOMAIN interrupts :
    LET batch == interrupts[k].batch
        at    == interrupts[k].at
        b     == Destination(Last(batch))
    IN  batch # << >> =>
        CASE interrupts[k].reason = "packet_timer" ->
               \E n \in Last(batch) .. Len(packets) :
                 /\ LastBefore(n, b, at)
                 /\ at = packets[n].arrival_time + Config[b].packet_time_limit
          [] interrupts[k].reason = "absolute_timer" ->
               at > Config[b].offset
                 /\ (at - Config[b].offset) % Config[b].absolute_time_limit = 0
          [] OTHER -> at = packets[Last(batch)].arrival_time

\* packet_limit is the "Maximum number of packets the buffer can hold before
\* flushing", whatever flushes it.
BatchWithinLimit ==
  \A k \in DOMAIN interrupts : \A b \in Buffer :
    /\ interrupts[k].batch # << >> /\ Destination(Head(interrupts[k].batch)) = b
    /\ Config[b].packet_limit # None
    => Len(interrupts[k].batch) <= Config[b].packet_limit

\* An overflow is for good: flush() empties the store without admitting what waits
\* for room, and each later packet admits one and joins the others.  So the delay
\* of a buffer never recovers from a burst beyond its capacity.
OverflowPersists ==
  [][\A b \in Buffer : Len(put_queue'[b]) >= Len(put_queue[b])]_vars

\* An interrupt lists the packets "that triggered the interrupt".  An interrupt
\* without packets comes only from a packet timer that put() has armed right after
\* the packet limit flushed the buffer.
EmptyOnlyAfterLimit ==
  \A k \in DOMAIN interrupts : interrupts[k].batch = << >> =>
    /\ interrupts[k].reason = "packet_timer"
    /\ \E j \in 1 .. k - 1 :
         /\ interrupts[j].reason = "packet_limit"
         /\ interrupts[k].at = interrupts[j].at
              + Config[Destination(Head(interrupts[j].batch))].packet_time_limit

\* README.md: "A simulator, generating an interrupt trace from a received
\* network trace": every trace leads to output.
NeverCrashes == status # "crashed"

=============================================================================
