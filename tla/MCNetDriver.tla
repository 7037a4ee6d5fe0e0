----------------------------- MODULE MCNetDriver -----------------------------
(* Instances of NetDriver for TLC: two workers on ports 0 and 1, nothing     *)
(* bound to port 2 (as port 0x63 of main/trace.h).                           *)
EXTENDS NetDriver, TLC

MC_port_map == 0 :> 1 @@ 1 :> 2 @@ 2 :> 0

Irq(p, n) == [port |-> p, count |-> n]

\* Bursts longer than a queue of 2, an unbound port, an empty interrupt, and
\* both workers addressed twice.
MixedTrace == <<Irq(1, 3), Irq(0, 2), Irq(2, 1), Irq(1, 0), Irq(0, 1), Irq(1, 1)>>

\* Only bound ports, and few enough packets for queues of their length.
BoundTrace == <<Irq(1, 2), Irq(0, 2), Irq(1, 1), Irq(0, 1)>>

\* Start and TRACE_PACKET_COUNT as trace2blob derives them from the interrupts.
StartOf(trace) ==
  LET before[k \in 1 .. Len(trace) + 1] ==
        IF k = 1 THEN 0 ELSE before[k - 1] + trace[k - 1].count
  IN  before
CountOf(trace) == StartOf(trace)[Len(trace) + 1]

MixedStart == StartOf(MixedTrace)
MixedCount == CountOf(MixedTrace)
BoundStart == StartOf(BoundTrace)
BoundCount == CountOf(BoundTrace)
=============================================================================
