# A verification development for the configurable multiqueue NIC

The repository evaluates interrupt moderation for real-time devices. A generator
makes a packet trace, a simulated NIC turns it into an interrupt trace, a script
turns that into a C array, and an ESP32 application replays the array against a
small network stack and four worker tasks; `run.py` drives all of it. This
directory holds TLA+ models of that code, TLC configurations that check them on
small instances, and TLAPS proofs of theorems about them for every value of the
constants.

## 1. Inventory

| component | source | state | operations | interacts with |
|---|---|---|---|---|
| trace reader (core 1) | `esp_nic_evaluator/main/traffic.c`, `traffic.h` | position in the trace, `__edge`, `results[]`, the record `shared`, `sent`, `notify_delay` | load a batch, pace, stamp `sent`, toggle the pin, await the notification, poll for completion, print | writes `shared`; toggles the GPIO; notified by the ISR; reads `results[]` of the workers |
| GPIO ISR (core 0) | `net.c: net_gpio_isr` | loop counter, latched edge | copy `shared.count` packets, advance `shared.seq`, notify | reads and writes `shared`; fills `packet_queue`; notifies the trace reader |
| network driver task (core 0, priority 17) | `net.c: net_main, net_process_packet` | local packet, `port_map`, `sock_table` | dequeue, look up the socket, put into the mailbox, notify | reads `packet_queue`; fills the mailboxes |
| socket API | `net.c: net_sock, net_bind, net_recv, net_recv_cb`, `net_api.h` | `sock_high`, `sock_table`, `port_map`, `in_queue`, task notifications | create, bind, block and receive | called by the workers |
| boot sequence (core 0) | `main.c`, the `*_init` functions | tasks created so far, heap | create tasks and queues; the workers acquire and bind sockets | preempted by the tasks it creates |
| workers (core 0, priorities 14 to 11) | `worker.c`, `main.c` | receive buffer | receive, stamp `received`, load, stamp `runtime` | write `results[]` |
| NIC simulator | `nic_simulator/main.py` | SimPy event list, one `Buffer` per queue (items, waiting puts, packet timer), the two traces | a packet arrives; packet limit, packet timer and absolute timer flush; write the csv files | packet trace in, interrupt trace and sequence trace out |
| trace2blob | `trace2blob/trace2blob.sh` | last timestamp, process identifier, counters | convert one row | interrupt trace in, `trace.h` out |
| experiment driver | `run.py` | the experiment folders, working directory, firmware project, chip | simulate, convert, copy, build and flash, collect | runs all of the above, over many runs |
| clean-up script | `experiments/clean_experiments.py` | none | remove output files | between two runs of `run.py` |
| trace generator | `net_trace_generator/main.py` | the flows | generate or read flows, join and sort | packet trace out |

What is hard here: two cores that share one record without a lock, ordered only by
a GPIO edge and a task notification; an ISR that preempts everything; bounded
queues whose overflow is ignored; a receive function that counts on a
notification to stand for a packet; sockets handed out without a lock while tasks
start up; clock arithmetic that wraps; a completion check that samples results; in
the simulator, timers, arrivals and timer resets that fall into the same tick; and
in the scripts, steps that fail unnoticed and leave files for the next run.
`PROJECT.json` lists each hazard at its line with the properties aimed at it.

What makes each component correct:

- *trace reader and ISR*: at most one of them uses `shared` at any time; no edge
  is lost; the send times of an interrupt go to the sequence numbers its packets
  get, also when earlier packets were lost; the gaps of the trace are kept; the
  results are printed eventually, unless a packet the check looks at was lost.
- *driver task and sockets*: each worker has a socket of its own; each packet goes
  to the socket bound to its port and to no other; a mailbox holds a packet for
  each notification; a drop at one socket does not hinder the others.
- *workers*: each packet is handled at most once, in order of arrival.
- *NIC simulator*: every buffered packet is in exactly one interrupt, in order; no
  packet waits longer than its timers allow; no timer is early; batches respect
  the packet limit; the output files agree.
- *trace2blob*: counts, identifiers and times of the interrupt trace survive.
- *experiment driver*: results belong to the experiment whose folder they are in;
  what a rerun skips is complete; rerunning gets through all experiments.
- *trace generator*: the trace is sorted, reaches the rates and keeps recordings.

## 2. Modules

| module | models | theorems in | instances in |
|---|---|---|---|
| `PacketDelivery` | what the ESP32 application promises (abstract) | | |
| `NetDriver` | trace reader, ISR, driver task, `net_recv` and workers on the two cores | `NetDriverProofs`, `DeliveryProofs` | `MCNetDriver` |
| `NetSockets` | boot, `net_sock`, `net_bind`, port lookup, crash and reboot | `NetSocketsProofs` | `MCNetSockets` |
| `TrafficPacing` | clock arithmetic of the trace reader and of the results | `TrafficPacingProofs` | `MCTrafficPacing` |
| `NicSimulator` | `nic_simulator/main.py` on SimPy's event list | `NicSimulatorProofs` | `MCNicSimulator`, `MCNicToEsp` |
| `Trace2Blob` | `trace2blob.sh` as a fold over rows | | |
| `NicToEsp` | the interrupt trace of `NicSimulator` piped through `Trace2Blob` | `NicToEspProofs` | `MCNicToEsp` |
| `TraceGen` | `net_trace_generator/main.py` | `TraceGenProofs` | `MCTraceGen` |
| `RunDriver` | `run.py` and `clean_experiments.py` over many runs | `RunDriverProofs` | `MCRunDriver` |

`NetDriver` implements `PacketDelivery` and starts where the boot of `NetSockets`
ends; `TrafficPacing` is its trace reader with time and without the rest.
`NicToEsp` composes the simulator with the script that reads its output.
Definitions named with a suffix (`Interval_RoundedUp` beside `Interval`) are wrong
variants of the definition after them, used to test that a property can fail.

### PacketDelivery

`announced` counts interrupts whose packets have their send time, `handled` lists
what each worker has handled. A packet may be handled if its interrupt was
announced, its port belongs to the worker, and nothing newer was handled by that
worker. Losing a packet needs no action: it is never handled.

### NetDriver

Each task has a control point, and an action is the code between two points at
which another task, the ISR or the other core can observe a difference.

| state | code |
|---|---|
| `tpc`, `i`, `edge` | position in `traffic_trace_reader`, its `i`, `__edge` |
| `report` | rows `traffic_print_results` has printed |
| `notified` | notification count of the traffic task |
| `shared` | the global `shared` (`traffic.h`), without `delta` |
| `irq`, `isr` | pending pin interrupt; the ISR's loop variable, or `NotRunning` |
| `packet_queue`, `npc`, `packet` | `net->packet_queue`; control point and local of `net_main` |
| `in_queue`, `notify` | `sock_table[].in_queue`; notification count of the socket's task |
| `wpc`, `buf` | control point and `buf` of each `worker_main` |
| `results` | `results[]`, each stamp as present or not; `received` starts as any word of `HeapWord`, because `malloc` does not clear it |
| `log` | history: sequence numbers in the order each worker handled them |

Scheduling on core 0 is FreeRTOS's: `NetRuns` and `WorkerRuns` let a task take a
step only while the ISR is not running and no task of higher priority is ready.
The ISR may start between any two steps of core 0, and core 1 runs at any time. A
FreeRTOS call is one step, since it runs in a critical section. `StampSent`
writes the send times of a batch in one step, and `CheckDone` evaluates the whole
check in one step: nobody reads `sent` meanwhile, and a `received` field never
returns to 0, so a check that reads the entries one after the other succeeds
exactly when it would succeed at its last read.

`Announced`, a function of the state, is the number of interrupts whose send times
are written; with `log` it is the refinement mapping to `PacketDelivery`.

The initial state is the one after `vTaskDelay(1000 / portTICK_PERIOD_MS)` in the
trace reader: `app_main` creates the workers in descending priority, each runs at
once and blocks in `net_recv` before the next is created, so worker *w* owns
socket *w*: `NetSockets` derives this state from the boot (`BootMatches`). `port_map` is a constant and may leave ports unbound, as port 0x63 of
the shipped `trace.h` is.

### NetSockets

The tables are memory: `port_map` has `NET_PORT_MAX` entries and the word behind it
is `sock_high`, because that is the member of `net_t` that follows. Port
`NET_PORT_MAX`, which `net_bind` lets pass, is therefore an index of the modelled
`port_map`. A task of core 0 takes a step only when no task of higher priority is
ready (`Runs`), so creating a worker hands core 0 to it until it blocks.
`net_sock` is two steps, since it increments `sock_high` and then reads it again
without a lock. Creating a queue fails when `memory` queues exist. A failed
assertion of FreeRTOS sets `crashed`; `Reboot` starts over from cleared memory.
`Packet(p)` is the lookup in `net_process_packet` for a packet of port `p`. The
order of the two tasks, net task before workers, is that of their priorities.
`TrafficStarts` stands for the end of the trace reader's sleep of one second,
which is far longer than the boot.

### TrafficPacing

`clock` is the 64-bit timer, which never wraps; `sent`, `notify_delay` and
`remaining_delta` are words of `Word` values read as signed numbers, the stamps in
`results[]` are unsigned words (32 bits on the target). The conversions of the
source are `Signed` and `Unsigned`, at the assignments at which C performs them.
`sentAt`, `receivedAt`, `deltas` and `waits` record what happened in unwrapped time.
`Latency` is the time from the stamp to the notification, `Overrun` by how much a
wait lasts longer than asked for.

### NicSimulator

`agenda` is SimPy's event queue, a set of events. Each has a time `at` and the
number `eid` it got when it was scheduled; `Precedes` is the order of the queue, and
`Happens` lets a step take an event only when no other precedes it. Each action has
the event it takes as its parameter. Process starts and interrupts have urgent
priority and happen within the step that causes them, so an arrival that resets the
packet timer removes the old timeout (`Cancelled`) and schedules the new one. The coroutine states are events of the agenda: "arrival"
(`nic` sleeps), "offset" and "absolute" (`_absolute_timer`), "packet" (an armed
`_packet_timer`) and "ended" (the timer process has returned, but its termination
event has not been processed, so `processed` is still false). `put_queue` holds
what `simpy.Store` keeps beyond its capacity: `Store.put` admits at most one
waiting packet, the oldest, and `flush`, which replaces the list of items, admits
none. SimPy is external and modelled from these uses. Configured limits are
positive, as in every configuration of the repository; the packet trace is every
trace with at most `MaxPackets` packets and gaps up to `MaxGap`.

A step of the trace that finds the packet timer in state "ended" crashes:
`Process.interrupt` raises a RuntimeError for a terminated process.

### Trace2Blob and NicToEsp

`Script` folds `ReadLine` over the rows; the fields wrap at `ByteSize` and
`DeltaSize`. A row without packets keeps the identifier of the row before; the
first row always has packets, since no timer of the NIC flushes before the first
put. `NicToEsp` states what must survive from the interrupt trace of any run of
`NicSimulator` to the array that the trace reader indexes.

### TraceGen

`pc` is the position in the generators and `flow` the flow being generated;
`irq_trace` holds the rows of that flow and `traces` those of the flows before, as
in the source. A row's place in the sorted trace (`Place`) is the number of rows that
are earlier, or of the same time and not after it in the joined list: the stable
sort by time of Python. Recordings never decrease but may repeat a time, as the
recordings in `net_trace_generator/traces` do. Wave and burst loads are named in
comments of the source but have no code.

### RunDriver

`pc` is the step of `run.py`; `e` is the experiment `os.walk` is at; `simulate` and
`build` are the options `-s` and `-b`. The files of each experiment are `irq_trace`,
`header` and `rx`, those of the firmware project `main_h` and `firmware`; `chip` is how
much of its output the chip has printed. Each external command is an `os.system` call
whose result is ignored, so each may fail in the model, whatever the folder: the
simulator, `cat ... | trace2blob.sh`, `cp` and `make flash`. A command may also be killed
half-way, since a Ctrl-C during `os.system` reaches the command only and the script goes
on. A failed command leaves what was there before, or half of its output:

- the interrupt trace is "missing", "cut" or "whole"; the header is "missing", "cut" (of
  no bytes, which the shell creates before it fails to find the script, or ending too
  early to compile), "short" (made from a missing or cut interrupt trace) or "full";
- after a failed `cp` the project keeps the `trace.h` of an earlier experiment, which
  builds and flashes without an error, or has a part of the new one;
- after a failed `make flash` the chip keeps its firmware, or has none that prints. A
  new or short firmware may also print nothing after the boot (the completion check
  never succeeds), which leaves the script waiting (`Hung`).

Besides, lines are garbled, the script itself ends at any step (a Ctrl-C outside of a
command, a pulled cable), and the user cleans up; all of these are at most `MaxFaults`
times. Two histories are about the latest attempt at an experiment, and start over when
`run.py` selects it again: `misflashed`, that its `cp` or `make flash` failed, and
`disturbed`, that a line was garbled or the script ended while its rows were read. For
such an attempt the code promises nothing, and a rerun does not repeat it. What the
properties claim is that nothing else matters: no failure at another step, in another
run or of another experiment. `rm -r build` has no effect of its own, since `make`
builds what has changed. The chip replays its whole trace before it prints the first
row, so no row is printed before the serial line is opened. `trace2blob.sh` lacks the
"!" in its first line; `sh` is assumed to be compatible with bash.

## 3. Runs

Runs that pass:

- `driver_safety`: six interrupts (bursts longer than the queues of two packets, an
  unbound port, an empty interrupt, each worker addressed twice). Every overflow
  and drop path happens. Besides the invariants: everything in the queues is
  worked off (`Drains`), a packet that reaches a mailbox gets its three time stamps
  (`AcceptedCompletes`), the application implements `PacketDelivery` (`Delivers`),
  and the results are printed unless a packet the check looks at was lost
  (`ReportsUnlessLost`). `results[]` starts cleared (`HeapWord`): other words only
  let the completion check succeed earlier.
- `sockets_boot`: three workers on any three ports of four, with memory for none,
  one, all but one or all of the queues, from reset to the packets of the trace,
  over any number of crashes and reboots.
- `pacing`: three interrupts with words of four bits and clocks that pass the
  greatest signed and the greatest unsigned word on the way, an ISR that takes up to
  half the range of a word, packets received at any later time. It stops after
  its three interrupts, so deadlock is not checked.
- `nic_to_esp`: buffer `b1` with both timers, as the buffers of
  `experiments/no_dos/setting_2`; `b2` with packet limit, packet timer and an absolute
  timer with offset, which raises empty interrupts; `b3`, a store of one packet, which
  overflows, with a packet timer longer than the absolute timer's period (so that
  `AbsoluteTimerCrashes` happens); one flow for each, a pass-through and an unknown
  flow; four packets in nine ticks. The periods 3 and 4 and the idle limits 2 and 5
  make all timers meet arrivals and each other in one tick, in both orders. The crash
  described below is reachable here, and the invariants hold up to it. What is written
  is piped through trace2blob with bytes of four values. Waiting packets keep their
  order and never get fewer (`OverflowPersists`), an interrupt is empty only when the
  packet limit has just emptied the buffer (`EmptyOnlyAfterLimit`), and the blob is
  right also then.
- `trace_gen`: all pairs of a recorded and a constant flow, and of two recorded
  flows, of all frequencies and several offsets, with recordings of up to three
  rows within and beyond the end of the trace.
- `experiments`: three experiments, absolute path, two faults of any kind at any
  step, over any number of runs with any choice of `-s` and `-b`.

Runs that show a disagreement between the code and what a comment or document
says, each with its finding in `PROJECT.json`:

- `driver_done_check`: `traffic_check_done` succeeds while the last packet is in the
  ingress queue and a worker in its load: of two workers' last two packets, it looks
  at the first only.
- `sockets_last_port`: a worker bound to port 255 gets 0 from `net_bind`, but its
  packets go to another worker's socket.
- `nic_crash`: an arrival in the tick in which the packet timer fired ends the
  simulation with an exception.
- `nic_to_esp_mixed`: two flows in one buffer, as in `buffer2` of
  `example_config.json`: a batch of both is replayed through the port of its last packet,
  because an entry of the blob has one identifier, and `sequence.csv` names another port
  for the other packet. `PortsKept` in `nic_to_esp` is about the interrupts whose packets
  have one process.
- `trace_offset`: the offset of a recorded flow is documented as ignored, but it is
  added to each of its times (`RecordingKept` states what the code does).
- `experiments_relative`: with a relative path, which the default is, no experiment
  ever has results.

Observations that have no run of their own:

- A lost packet is printed with whatever `malloc` left in its row, and when it is
  among those the completion check looks at, the trace reader may poll forever
  (the exception in `ReportsUnlessLost`; the 0x63 packets of the shipped trace are
  lost in this way).
- `malloc` in `traffic_init` is not checked; the shipped trace needs 12 bytes for each of
  79637 packets.
- Packets that had to wait for room in a NIC buffer are out of reach of its timers,
  and later overflows only add to them (`OverflowPersists`).
- `write_seqout_trace` leaves out packets whose interrupt is raised at time 0, because it
  takes their time for no time; `src/README.md` says that the file lists each packet.
  (`SequenceRows` is that file; `IrqTimesAgree` is about the recorded times and says
  nothing of the file.)
- A batch of 256 packets would not fit the count byte; stores hold at most 128.
- `-s 1` and `-b 1` on the command line of `run.py` are strings, never equal to the
  number 1, so they switch the step off; the default path names a folder the
  repository does not have.
- The rate of a constant flow is exceeded when its interval is not a whole number of
  ticks. A frequency above the ticks of a second would give an interval of 0 and a loop
  without end; the source rules it out ("time resolution is maximum packets per
  second"), and so does `FlowsAssumption`.
- An attempt whose `cp` or `make flash` failed can collect the rows of another
  experiment, and one that ends while its rows are read leaves a part of them; both
  count as done in every later run (the exceptions in `OwnRows` and `DoneIsComplete`).
- A header made from a cut interrupt trace builds, and its experiment counts as done
  with the rows of a part of the trace (`DoneIsComplete` is about whole headers).

Bounds. Two workers are the least with different priorities; a queue of two has
the empty, partly filled and full cases, and the traces overflow it at both
places. Three workers in `sockets_boot` are the least with a first, an inner and a
last one. A word of four bits has the same sign changes and wraps as one of 32;
deltas stay below half a word (35 minutes), and so does the ISR's latency, or
equals it. In the simulator and the generator the interesting events are
coincidences within one tick, and small periods produce them all; `MaxPackets` and
`MaxGap` bound the packet trace, `RUNTIME` ends it, and `MaxRows` is never reached
(reaching it would be a deadlock, which is checked). `MaxFaults` of two lets a fault hit
the recovery from another. The histories have no bounds of their own. The theorems
below hold for every value of these bounds.

Fairness. `FairSpec` of `NetDriver` assumes weak fairness of each task and of the
ISR: each core runs the task its scheduler selects, a pending interrupt is taken,
and `load()` terminates. No strong fairness is needed, because no step that is
enabled again and again is disabled by another one forever: the trace is finite.
`NetSockets` assumes the same of the tasks of core 0, and that the sleep of the trace
reader ends; `Reboot` and the packets need none, since nothing promised depends on
them. In `RunDriver` the script runs on until it ends or hangs, the user starts it
again, and does not skip build and run with `-b` for ever; the last is strong fairness of
starting with the build, which is enabled again and again, but not while a run lasts. `TraceGen` is one sequential program that is not stopped. `NicSimulator`
and `TrafficPacing` have only safety properties and assume nothing.

## 4. Proofs

All theorems hold for every value of the constants that satisfies the named
assumption of the component. Each is `Spec => []Inv` (or an action property, or
the refinement) from an inductive invariant, with one lemma per action or group of
actions; the temporal step at the end is PTL.

*`NetDriverProofs`* (`ConstantsAssumption`, `TraceAssumption`): `TypeCorrect`,
`HandshakeHolds`, `NumberingHolds`, `MailboxCreditHolds`. The inductive invariant `IInv` is
the conjunction of the four, and none is inductive alone. The type of
`packet_queue` needs the ISR's sequence number to be below `TRACE_PACKET_COUNT`, which
is what `Numbering` says; `Numbering` needs `Handshake`, because otherwise the trace
reader could replace `shared` under the ISR; and the type of `buf` needs
`MailboxCredit`, because `net_recv_cb` leaves `buf` as it was when the mailbox is
empty. `TraceAssumption` states what trace2blob guarantees (`BlobReplayable` in
`NicToEspProofs`), that the counts of the interrupts add up to at most
`TRACE_PACKET_COUNT`, through the running sums `Start`; the sums are a constant, so
that these proofs need no induction over the trace.

*`DeliveryProofs`* (the same): `PipelineHolds`, `InOrderHolds`, `RightWorkerHolds`,
`SentBeforeReceivedHolds`, and `DeliveryImplemented`, that every behaviour of
`NetDriver` is one of `PacketDelivery`. `InOrder` says something about what has been
handled; it stays true because of what is on its way: `Pipeline` says that every
packet in the two queues, the two locals and the ISR comes from an announced
interrupt for the right worker, and that each stage only holds packets older than
the stages before it. The invariant is `IInv`, `Pipeline` and `Delivered`, the same for
what the workers have logged. The refinement follows step by step: `StampSent` is
`Announce`, `StampReceived` is `Handle`, everything else stutters.

*`NetSocketsProofs`* (`SocketsAssumption`, and `PortsInside`: no port is 255):
`OwnSocketHolds`, `BootMatchesHolds`, `NeverMisdeliversHolds`,
`CrashesOnlyForMemoryHolds`. The reason that the unlocked `net_sock` is right is
`OneByOne`: when a worker exists, all before it have blocked. `BootInv` adds that
`sock_high` counts the workers that have passed the increment and that sockets are
numbered like workers; `HeapInv` on top of it counts the queues. Without
`PortsInside` the theorems are false, as `sockets_last_port` shows.

*`TrafficPacingProofs`* (`PacingAssumption`: any even word, deltas below half a word,
latencies up to half a word): `NotEarlyHolds`, `CompensatedHolds`, `TxDelayTrueHolds`. The
lemmas are about remainders: a signed or unsigned word differs from the number by a
multiple of `Word`, so differences of stamps are right modulo `Word`, and the
remaining delay is the true difference because that fits into a word. `PacingInv` says
that every gap so far is paced and that the locals hold what the next gap needs.

*`NicSimulatorProofs`* (`ConfigAssumption`): every invariant the runs check
(`TypeOKHolds` for `SimulatorTypeOK`, `InOrderOnceHolds`, `IrqTimesAgreeHolds`, `LatencyBoundHolds`,
`PunctualHolds`, `EmptyOnlyAfterLimitHolds`, `BatchWithinLimitHolds`) and the action
property `OverflowPersistsHolds`, for any buffers, limits, mapping and trace. The
inductive invariant `NicInv` has two halves.

The first says where every packet is. `StoreInv` follows the two traces and, for each
buffer, the packets in its store and those that wait for room: what has left is older
than what is stored, and that is older than what waits; each packet is in exactly one
of the three; and a row of the sequence trace has a time exactly if an interrupt lists
its packet. `InOrderOnce` alone would not survive a flush, which puts the store behind
what has left. `StoreInv` is stated about values, not variables, so that each of the
three things the code does with a store (enqueue a packet, admit a waiting one, flush)
is a lemma about values, and the handlers, which do them one after the other, put the
lemmas together.

The second says what each pending event of the agenda stands for. `Clock`: none lies
in the past. `Arrivals`: there is at most one arrival, since `nic()` waits for one
packet at a time. `PacketTimers`: a buffer has an event of its packet timer exactly
while the timer is armed or has just ended; a store with packets has it armed; it
elapses its limit after the buffer's latest packet; and if it is armed while the
store is empty, the packet limit has emptied the store in the tick in which the timer
was armed, which is all that `EmptyOnlyAfterLimit` allows. `AbsoluteTimers`: the timer
never stops, and its next period comes in time for every packet in the store, as long
as none waits for room; packets that do wait are the exception in `LatencyBound`, and
`OverflowPersists` shows that it is not a temporary one. `Capacities` says that `put()`
has flushed a store that reached its packet limit, and `Irqs` keeps for each interrupt
that its cause was right at its time, which later packets and interrupts cannot change.

*`NicToEspProofs`* (`ConfigAssumption`, `SizeAssumption`, `LastByteAssumption`):
`TimesRestoredHolds`, `CountsAddUpHolds` and `PortsKeptHolds`. The first two are each under
a named condition that the property needs:

- `DeltasFit`, that `RUNTIME` fits the delta field: 10^9 microseconds of 2^32;
- `CountsFit`, that no store holds as many packets as a byte has values: at most 128 of
  256 in the configurations of the repository.

`PortsKept` has its condition in its statement, interrupt by interrupt
(`OneProcess`): it holds for every mapping of flows to buffers, and batches of several
processes do not disturb those of one. For the batches of several it would be false, as
`nic_to_esp_mixed` shows.

The invariant is `NicInv` and `Batches`: interrupts are in the order of their times,
and the batch of each is one packet or comes from the store of one buffer. From there
on the proof is about the script: `Iteration` and `ScriptStates` show the states its
fold runs through, `BlobOf` what each entry holds of its row, and `DeltaSums` and
`CountSums` what the sums in the properties run through. The folds are recursive
functions, and that such a function exists is a fact to prove (`FoldExists`), by
induction. `BlobReplayable` is the link to the firmware: the blob of every simulation
satisfies what `NetDriverProofs` assumes of its trace (`TraceAssumption`; that the
trace has an interrupt at all is left to the user).

*`TraceGenProofs`* (`FlowsAssumption`): `ReplayableHolds`, `RateReachedHolds`,
`RecordingKeptHolds`, for any flows. `GenInv` says of the rows joined so far that the
times of each flow ascend strictly (`Ascending`), that a flow that has ended is
`Complete`, and how far the flow under way is (`ConstantSoFar`, `RecordedSoFar`). That
a repeated row of a recording may be left out needs `last_time` to be the row before,
and that a recording may be left at its first row beyond the end needs that it never
decreases. `SortArranges` shows that the sort is a permutation, since two rows never
have the same place, and that rows of one time keep their order; so two packets of
one time and flow would have been out of order before the sort. `RateReached` counts:
from the first packet of a second on, as many as the frequency says fit into it,
because `frequency * Interval(frequency) <= TIME_RESOLUTION`. The interval is the
exact quotient; a double that falls below it would only add packets.

*`RunDriverProofs`* (`RunAssumption`): `OwnRowsHolds`, `DoneIsCompleteHolds`, for any
number of experiments, rows, runs and faults. `RunInv` follows an attempt in which
neither `cp` nor `make flash` has failed: the project, then the firmware, has the header
of this very experiment, whatever was there before (`Prepared`), and while its rows are
read the file has exactly those the chip has printed (`Reading`). That the histories may
start over when an experiment is selected needs `Fresh`: it has no file then, and none
until `open`, and no rows without a file, so that nothing is promised of it that a
failure of the attempt before could break; and a header changes only while its
experiment has no file. That `line` is of no other experiment needs that a run gets as far as
reading only once (`Lines`), because `os.chdir` is never undone.

Induction. The library's theorems about induction and recursive definitions have an
operator as a parameter, which no installed prover instantiates. `LeastNumber` and
`Induction` are derived instead from `WFMin`, which is about a set: to show something
of every number, collect the numbers of which it holds in a set.

Every invariant and every action property of the passing runs, and the refinement, is
a theorem. Only model-checked:

- everything about fairness (`Drains`, `AcceptedCompletes`,
  `ReportsUnlessLost`, `Boots`, `Progress`, `Terminates`), which is out of the prover's reach;
- the disagreements shown by the six runs that end in a violation, which are
  counterexamples and need no proof.

## 5. Not modelled

- The observed task (`obs_init`, `observed_main`), which `app_main` does not start.
- What `load()` and `binom()` compute: the results are unused, they only take time,
  and a worker may stay there arbitrarily long.
- Recorded traces and the two generated `trace.h`, which are data: 7040 of the 8106
  lines of C in the repository are array entries. A model can take such an array as a
  constant, as `NetDriver` does, but there is nothing in its lines to translate. Measured
  over all C lines the models therefore cover a small share, although every
  function of the firmware that changes state is modelled.
- Build and board configuration; FreeRTOS, SimPy and `esptool` themselves, which are
  modelled from their uses.
- Wave and burst loads of the trace generator, which are announced in the source
  but have no code; the csv formats.
- Failures of `malloc` for `results[]`: a single unconditional crash at the start.

## 6. Plan

Every component whose code changes state is modelled, and every safety property that
a run checks is proved. What remains worthwhile:

1. That `NetDriver` starts in the state in which the boot of `NetSockets` ends, as a
   theorem about both modules; `BootMatches` states it in the terms of one of them.
2. A composition of `TraceGen` with `NicSimulator`, instead of every short trace, once
   a configuration with many flows makes the difference visible. `Replayable` is what
   the NIC needs from the generator.
3. If the firmware gets a recovery from lost packets (a timeout in
   `traffic_check_done`), `ReportsUnlessLost` loses its exception.
