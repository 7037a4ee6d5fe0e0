----------------------------- MODULE Trace2Blob -----------------------------
(***************************************************************************)
(* trace2blob/trace2blob.sh: the interrupt trace becomes the C array that  *)
(* the ESP32 replays, six bytes per interrupt.  A row is the time of an    *)
(* interrupt and the process identifiers (last byte of the IP) of its      *)
(* packets; an entry of the blob has one identifier and a count.           *)
(***************************************************************************)
EXTENDS Integers, Sequences, SequencesExt

CONSTANTS
  ByteSize,   \* values of the one-byte fields: 256
  DeltaSize   \* values of the four-byte time delta: 2^32

ASSUME SizeAssumption == {ByteSize, DeltaSize} \subseteq Nat \ {0}

\* proc_id is a shell variable: a row without packets leaves the previous one.
\* The first row has packets: no timer of the NIC flushes before the first put.
ProcId_Stale(previous, procs) == previous
ProcId(previous, procs)       == IF procs = << >> THEN previous ELSE Last(procs)

LastTimestamp_Kept(last, row) == last
LastTimestamp(last, row)      == row.at

PacketsCounted_PerRow(total, row) == total + 1
PacketsCounted(total, row)        == total + Len(row.procs)

\* One iteration of "while read line": the state is the script's variables.
ReadLine(state, row) ==
  LET proc == ProcId(state.proc_id, row.procs) IN
  [last_timestamp |-> LastTimestamp(state.last_timestamp, row),
   proc_id        |-> proc,
   overall_packet_count |-> PacketsCounted(state.overall_packet_count, row),
   storage        |-> Append(state.storage,
                        [delta |-> (row.at - state.last_timestamp) % DeltaSize,
                         port  |-> proc % ByteSize,
                         count |-> Len(row.procs) % ByteSize])]

Script(rows) ==
  FoldLeft(ReadLine,
           [last_timestamp |-> 0, proc_id |-> 0, overall_packet_count |-> 0,
            storage |-> << >>],
           rows)

\* The blob, TRACE_IRQ_COUNT and TRACE_PACKET_COUNT of the generated header.
Blob(rows)        == Script(rows).storage
IrqCount(rows)    == Len(Blob(rows))
PacketCount(rows) == Script(rows).overall_packet_count
=============================================================================
