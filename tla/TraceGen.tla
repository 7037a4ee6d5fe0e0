------------------------------ MODULE TraceGen ------------------------------
(***************************************************************************)
(* net_trace_generator/main.py: flows of constant load and flows read from *)
(* a recording are generated one after the other, joined, and sorted by    *)
(* time into the packet trace that the NIC simulator replays.              *)
(***************************************************************************)
EXTENDS Integers, Sequences, FiniteSets, SequencesExt

CONSTANTS
  TIME_RESOLUTION,  \* ticks of a second
  DURATION,         \* seconds
  Flows,            \* sets of flows a user may define, as sequences
  MaxRows           \* bound on the rows generated, never reached

NR_TICKS == DURATION * TIME_RESOLUTION

\* "time resolution is maximum packets per second"; the times of a recording
\* never decrease, but can repeat, as in traces/modbus_queryflood_1min.csv.
ConstantFlow == [load : {"CONSTANT"}, offset : Nat, frequency : 1 .. TIME_RESOLUTION]
IsRecorded(f) ==
  /\ f.load = "TRACE" /\ f.offset \in Nat /\ f.times \in Seq(Nat)
  /\ \A n \in 2 .. Len(f.times) : f.times[n - 1] <= f.times[n]

ASSUME FlowsAssumption ==
  /\ {TIME_RESOLUTION, DURATION, MaxRows} \subseteq Nat \ {0}
  /\ \A flows \in Flows :
       /\ flows \in Seq(ToSet(flows))
       /\ \A k \in DOMAIN flows : flows[k] \in ConstantFlow \/ IsRecorded(flows[k])

VARIABLES
  flows,      \* define_flows()
  pc,         \* "flow" (the next flow begins), "const", "recorded", "sort", "done"
  flow,       \* index of the flow being generated
  t, row, last_time,
  irq_trace,  \* rows of this flow: [time, flow]
  traces      \* rows of the flows before, in the end the sorted trace

vars == <<flows, pc, flow, t, row, last_time, irq_trace, traces>>

Init ==
  /\ flows \in Flows
  /\ pc = "flow" /\ flow = 0 /\ t = 0 /\ row = 1 /\ last_time = -1
  /\ irq_trace = << >> /\ traces = << >>

Packet(time) == [time |-> time, flow |-> flow]

\* IPFlow.__init__
BeginFlow ==
  /\ pc = "flow" /\ flow < Len(flows)
  /\ flow' = flow + 1
  /\ t' = flows[flow + 1].offset /\ row' = 1 /\ last_time' = -1
  /\ irq_trace' = << >>
  /\ traces' = traces \o irq_trace
  /\ pc' = IF flows[flow + 1].load = "CONSTANT" THEN "const" ELSE "recorded"
  /\ UNCHANGED flows

\* int((1 / frequency) * TIME_RESOLUTION); rounding the reciprocal to a double does
\* not change the result for any frequency at the microseconds of the source.
Interval_RoundedUp(f)      == (TIME_RESOLUTION + f - 1) \div f
Interval_WholeReciprocal(f) == (1 \div f) * TIME_RESOLUTION
Interval(f)                == TIME_RESOLUTION \div f

ConstPacket ==
  /\ pc = "const" /\ t <= NR_TICKS /\ Len(irq_trace) < MaxRows
  /\ irq_trace' = Append(irq_trace, Packet(t))
  /\ t' = t + Interval(flows[flow].frequency)
  /\ UNCHANGED <<flows, pc, flow, row, last_time, traces>>

ConstEnds ==
  /\ pc = "const" /\ t > NR_TICKS
  /\ pc' = "flow"
  /\ UNCHANGED <<flows, flow, t, row, last_time, irq_trace, traces>>

\* A recording has one packet per tick: rows that repeat a time are left out.
IsNew(time) == time > last_time

Within_Shifted(time) == time + flows[flow].offset < NR_TICKS
Within(time)         == time < NR_TICKS

RecordedRow ==
  /\ pc = "recorded" /\ row <= Len(flows[flow].times)
  /\ LET time == flows[flow].times[row] IN
     /\ Within(time)
     /\ irq_trace' = IF IsNew(time) THEN Append(irq_trace, Packet(time + flows[flow].offset))
                                    ELSE irq_trace
     /\ last_time' = time
  /\ row' = row + 1
  /\ UNCHANGED <<flows, pc, flow, t, traces>>

RecordedEnds ==
  /\ pc = "recorded"
  /\ row <= Len(flows[flow].times) => ~Within(flows[flow].times[row])
  /\ pc' = "flow"
  /\ UNCHANGED <<flows, flow, t, row, last_time, irq_trace, traces>>

\* join_and_sort(): the key is the time alone, and Python's sort is stable, so the
\* packets of one time stay in the order of their flows.
Place(list, i) ==
  LET Precedes(j) == \/ list[j].time < list[i].time
                     \/ list[j].time = list[i].time /\ j <= i
  IN  Cardinality({j \in DOMAIN list : Precedes(j)})
Sorted_Not(list) == list
Sorted(list)     == [n \in DOMAIN list |-> list[CHOOSE i \in DOMAIN list : Place(list, i) = n]]

JoinAndSort ==
  /\ pc = "flow" /\ flow = Len(flows)
  /\ traces' = Sorted(traces \o irq_trace)
  /\ pc' = "done"
  /\ UNCHANGED <<flows, flow, t, row, last_time, irq_trace>>

Done == pc = "done" /\ UNCHANGED vars

Generate == BeginFlow \/ ConstPacket \/ ConstEnds \/ RecordedRow \/ RecordedEnds \/ JoinAndSort
Next == Generate \/ Done

Spec == Init /\ [][Next]_vars
FairSpec == Spec /\ WF_vars(Generate)

-----------------------------------------------------------------------------
(* Properties                                                              *)

PacketsOf(k) == {n \in DOMAIN traces : traces[n].flow = k}

\* The NIC sleeps for "time - env.now" before each packet: for any offsets and
\* lengths of the flows that is never negative, and zero only for packets of
\* different flows.  So sorting by time alone keeps the order within a flow, and
\* an interrupt of a pass-through flow is one packet.
Replayable ==
  pc = "done" =>
    \A m, n \in DOMAIN traces : m < n =>
      /\ traces[m].time <= traces[n].time
      /\ traces[m].time = traces[n].time => traces[m].flow # traces[n].flow

\* A flow of constant load has at least the packets per second it asks for, in
\* every second of the trace, although the interval is truncated to ticks.
RateReached ==
  pc = "done" =>
    \A k \in DOMAIN flows : flows[k].load = "CONSTANT" =>
      \A from \in flows[k].offset .. NR_TICKS - TIME_RESOLUTION + 1 :
        Cardinality({n \in PacketsOf(k) : traces[n].time \in from .. from + TIME_RESOLUTION - 1})
          >= flows[k].frequency

\* A recorded flow has all times of the recording before NR_TICKS: repetitions are
\* dropped, and the offset, which the code adds to each of them although its
\* documentation says otherwise (OffsetIgnored), shortens nothing.
RecordingKept ==
  pc = "done" =>
    \A k \in DOMAIN flows : flows[k].load = "TRACE" =>
      {traces[n].time : n \in PacketsOf(k)} =
        {time + flows[k].offset : time \in ToSet(flows[k].times) \cap 0 .. NR_TICKS - 1}

\* main.py, of the offset of a flow: "Ignored if load == TRACE."
OffsetIgnored ==
  pc = "done" =>
    \A k \in DOMAIN flows : flows[k].load = "TRACE" =>
      {traces[n].time : n \in PacketsOf(k)} = ToSet(flows[k].times) \cap 0 .. NR_TICKS - 1

\* Every definition of flows leads to a trace.
Terminates == <>(pc = "done")
=============================================================================
