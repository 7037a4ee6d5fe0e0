------------------------------ MODULE NicToEsp ------------------------------
(***************************************************************************)
(* The tool chain of run.py up to the firmware: the interrupt trace of     *)
(* NicSimulator, once written, is piped through Trace2Blob.  What the      *)
(* trace reader of the ESP32 sees of a packet is its interrupt's entry.    *)
(***************************************************************************)
EXTENDS NicSimulator, Trace2Blob

CONSTANT LastByte     \* last byte of the IP address of a flow

ASSUME LastByteAssumption == LastByte \in [Flow -> 0 .. ByteSize - 1]

Procs(batch) == [n \in DOMAIN batch |-> LastByte[packets[batch[n]].flow]]

\* write_interrupt_trace(): one line per interrupt, with the IPs of its batch.
InterruptRows ==
  [k \in DOMAIN interrupts |-> [at |-> interrupts[k].at, procs |-> Procs(interrupts[k].batch)]]

Written == status = "written"

\* Every packet of the header's TRACE_PACKET_COUNT is announced by some entry:
\* the firmware's results[] has a row for each packet it will send, and only
\* rows that some interrupt fills ("Trace consists of %d packets in %d irqs").
\* This needs stores whose capacity is below the number of values of a byte.
CountsAddUp ==
  Written =>
    LET blob == Blob(InterruptRows) IN
    /\ IrqCount(InterruptRows) = Len(interrupts)
    /\ PacketCount(InterruptRows)
         = FoldLeft(LAMBDA sum, entry : sum + entry.count, 0, blob)

\* An entry has room for a single identifier ("Use last byte of ip as process
\* identifier").  Where the packets of an interrupt have one process, they are
\* replayed to it: no identifier of another row, batch or buffer stays behind.
OneProcess(k) ==
  LET procs == Procs(interrupts[k].batch) IN
  \A m, n \in DOMAIN procs : procs[m] = procs[n]

PortsKept ==
  Written =>
    LET blob == Blob(InterruptRows) IN
    \A k \in DOMAIN interrupts : OneProcess(k) =>
      \A n \in DOMAIN interrupts[k].batch : blob[k].port = Procs(interrupts[k].batch)[n]

\* README.md: sequence.csv has of each packet "the port number it was received
\* through", which is the one in the entry of its interrupt.
SequencePorts ==
  Written =>
    LET blob == Blob(InterruptRows) IN
    \A n \in SequenceRows : \A k \in DOMAIN interrupts :
      n \in ToSet(interrupts[k].batch) => LastByte[packets[n].flow] = blob[k].port

\* Replaying the deltas restores the time of every interrupt: the events of the
\* simulation are in order, also across flows, and each delta fits its field.
TimesRestored ==
  Written =>
    LET blob == Blob(InterruptRows) IN
    \A k \in DOMAIN interrupts :
      FoldLeft(LAMBDA sum, entry : sum + entry.delta, 0, SubSeq(blob, 1, k))
        = interrupts[k].at
=============================================================================
