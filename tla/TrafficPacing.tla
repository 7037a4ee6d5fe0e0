---------------------------- MODULE TrafficPacing ----------------------------
(***************************************************************************)
(* The clock arithmetic of the evaluator: traffic_trace_reader waits out   *)
(* what is left of an interrupt's delta once the previous ISR has notified *)
(* it, and the time stamps of a packet are subtracted when the results are *)
(* printed.  esp_timer_get_time() has 64 bits, but `sent`, `notify_delay`  *)
(* and `remaining_delta` are long, delta and the stamps unsigned int, all  *)
(* of one word on the target.  NetDriver has the same task without time.   *)
(***************************************************************************)
EXTENDS Integers, Sequences

CONSTANTS
  Word,       \* number of values of a machine word
  Delta,      \* deltas the trace may contain
  IrqCount,   \* number of interrupts replayed
  Latency,    \* times from the stamp to the notification by the ISR
  Overrun,    \* times by which a wait may last longer than asked for
  StartTime   \* clock values at which the first interrupt is loaded

ASSUME PacingAssumption ==
  /\ Word \in Nat \ {0} /\ Word % 2 = 0 /\ IrqCount \in Nat
  /\ Delta \subseteq 0 .. Word \div 2 - 1
  /\ Latency \subseteq 0 .. Word \div 2
  /\ Overrun \subseteq Nat /\ StartTime \subseteq Nat

Unsigned(n) == n % Word
Signed(n)   == IF Unsigned(n) < Word \div 2 THEN Unsigned(n) ELSE Unsigned(n) - Word

VARIABLES
  clock,                             \* esp_timer_get_time(), never wrapped
  tpc,                               \* "load", "delay", "stamp" or "wait"
  sent, notify_delay, remaining_delta,
  stamps,                            \* per interrupt: its result_t
  sentAt, receivedAt, deltas, waits  \* history, in true time; waits: latencies

locals  == <<sent, notify_delay, remaining_delta>>
history == <<sentAt, receivedAt, deltas, waits>>
vars    == <<clock, tpc, locals, stamps, history>>

NotYet == -1

Init ==
  /\ clock \in StartTime /\ tpc = "load"
  /\ sent = 0 /\ notify_delay = 0 /\ remaining_delta = 0
  /\ stamps = << >>
  /\ sentAt = << >> /\ receivedAt = << >> /\ deltas = << >> /\ waits = << >>

\* The subtraction is one of unsigned words, its result is taken as a long.
Remaining_Uncompensated(d) == Signed(d)
Remaining(d)               == Signed(Unsigned(d) - Unsigned(notify_delay))

Load ==
  /\ tpc = "load" /\ Len(sentAt) < IrqCount
  /\ \E d \in Delta :
       /\ remaining_delta' = Remaining(d)
       /\ deltas' = Append(deltas, d)
  /\ tpc' = "delay"
  /\ UNCHANGED <<clock, sent, notify_delay, stamps, sentAt, receivedAt, waits>>

Delay ==
  /\ tpc = "delay"
  /\ \E late \in Overrun :
       clock' = clock + late + (IF remaining_delta > 0 THEN remaining_delta ELSE 0)
  /\ tpc' = "stamp"
  /\ UNCHANGED <<locals, stamps, history>>

StampSent ==
  /\ tpc = "stamp"
  /\ sent' = Signed(clock)
  /\ stamps' = Append(stamps, [sent |-> Unsigned(clock), received |-> 0])
  /\ sentAt' = Append(sentAt, clock) /\ receivedAt' = Append(receivedAt, NotYet)
  /\ tpc' = "wait"
  /\ UNCHANGED <<clock, notify_delay, remaining_delta, deltas, waits>>

\* The ISR notifies the trace reader, which looks at the clock.
NotifyDelay_SinceBoot(now) == Signed(now)
NotifyDelay(now)           == Signed(now - sent)

Notified ==
  /\ tpc = "wait"
  /\ \E l \in Latency :
       /\ clock' = clock + l
       /\ notify_delay' = NotifyDelay(clock + l)
       /\ waits' = Append(waits, l)
  /\ tpc' = "load"
  /\ UNCHANGED <<sent, remaining_delta, stamps, sentAt, receivedAt, deltas>>

\* A worker on core 0 gets the packet of interrupt k, now or much later.
Receive(k) ==
  /\ receivedAt[k] = NotYet
  /\ receivedAt' = [receivedAt EXCEPT ![k] = clock]
  /\ stamps' = [stamps EXCEPT ![k].received = Unsigned(Signed(clock))]
  /\ UNCHANGED <<clock, tpc, locals, sentAt, deltas, waits>>

Next == Load \/ Delay \/ StampSent \/ Notified \/ \E k \in DOMAIN receivedAt : Receive(k)

Spec == Init /\ [][Next]_vars

\* traffic_print_results: an unsigned difference.
TxDelay_Saturated(k) ==
  IF stamps[k].received >= stamps[k].sent THEN stamps[k].received - stamps[k].sent ELSE 0
TxDelay(k) == Unsigned(stamps[k].received - stamps[k].sent)

-----------------------------------------------------------------------------
(* Properties                                                              *)

Gap(n) == sentAt[n + 1] - sentAt[n]

\* However the clock wraps and however late the ISR was, an interrupt never
\* comes earlier after its predecessor than the trace says.
NotEarly == \A n \in 1 .. Len(sentAt) - 1 : Gap(n) >= deltas[n + 1]

\* The time the ISR took counts as waited: the gap is the greater one of delta
\* and that time, but for the overrun of the wait itself.  An ISR that returns
\* within the next delta does not shift the rest of the trace.
Compensated ==
  \A n \in 1 .. Len(sentAt) - 1 :
    \E least \in {deltas[n + 1], waits[n]} :
      /\ least >= deltas[n + 1] /\ least >= waits[n]
      /\ Gap(n) - least \in Overrun

\* The tx_delay printed is the time that passed, although both stamps wrap.
TxDelayTrue ==
  \A k \in DOMAIN sentAt :
    receivedAt[k] # NotYet => TxDelay(k) = (receivedAt[k] - sentAt[k]) % Word
=============================================================================
