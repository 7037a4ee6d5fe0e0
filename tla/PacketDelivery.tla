--------------------------- MODULE PacketDelivery ---------------------------
(***************************************************************************)
(* What the ESP32 application promises of the packets it simulates: an     *)
(* interrupt announces its packets, each packet is afterwards handled at   *)
(* most once, by the worker its port belongs to, in the order of arrival.  *)
(* A packet may be lost at any point, so handling is never an obligation.  *)
(***************************************************************************)
EXTENDS Naturals, Sequences

CONSTANTS
  Worker,
  Interrupt,  \* the numbers of the interrupts, 1 .. n
  Batch,      \* per interrupt: the sequence numbers of its packets
  Receiver    \* per interrupt: the worker of its port, if there is one

VARIABLES
  announced,  \* number of interrupts announced so far
  handled     \* per worker: the sequence numbers it has handled

Init == announced = 0 /\ handled = [w \in Worker |-> << >>]

\* The packets of the next interrupt get their send time.
Announce ==
  /\ announced + 1 \in Interrupt
  /\ announced' = announced + 1
  /\ UNCHANGED handled

\* A packet reaches its worker, later packets can no longer be overtaken by it.
Handle(w) ==
  /\ \E k \in Interrupt : \E s \in Batch[k] :
       /\ k <= announced /\ Receiver[k] = w
       /\ \A n \in DOMAIN handled[w] : handled[w][n] < s
       /\ handled' = [handled EXCEPT ![w] = Append(@, s)]
  /\ UNCHANGED announced

Next == Announce \/ \E w \in Worker : Handle(w)

Spec == Init /\ [][Next]_<<announced, handled>>
=============================================================================
