------------------------- MODULE TrafficPacingProofs -------------------------
(***************************************************************************)
(* Theorems about TrafficPacing: the arithmetic of wrapped clocks is right *)
(* for words of any even size, any trace and any number of interrupts.     *)
(***************************************************************************)
EXTENDS TrafficPacing, TLAPS

-----------------------------------------------------------------------------
(* Words.  Both representations of a number differ from it by a multiple   *)
(* of Word, and a multiple of Word makes no difference to a remainder.     *)

LEMMA Division ==
  ASSUME NEW m \in Nat \ {0}, NEW n \in Int
  PROVE  n = m * (n \div m) + (n % m) /\ n \div m \in Int /\ n % m \in 0 .. m - 1
OBVIOUS

LEMMA NoMultiple ==
  ASSUME NEW m \in Nat \ {0}, NEW q \in Int, m * q < m, m * q > -m PROVE q = 0
OBVIOUS

LEMMA OneRemainder ==
  ASSUME NEW m \in Nat \ {0}, NEW q \in Int, NEW p \in Int,
         NEW r \in 0 .. m - 1, NEW s \in 0 .. m - 1, m * q + r = m * p + s
  PROVE  r = s
<1>1. m * (q - p) = s - r
  OBVIOUS
<1>2. q - p = 0
  BY <1>1, NoMultiple
<1> QED
  BY <1>2

LEMMA ShiftedRemainder ==
  ASSUME NEW m \in Nat \ {0}, NEW n \in Int, NEW k \in Int
  PROVE  (n + m * k) % m = n % m
<1>1. PICK j \in Int : j = n + m * k
  OBVIOUS
<1>2. j = m * (j \div m) + (j % m) /\ j \div m \in Int /\ j % m \in 0 .. m - 1
  BY Division
<1>3. n = m * (n \div m) + (n % m) /\ n \div m \in Int /\ n % m \in 0 .. m - 1
  BY Division
<1>4. j = m * (n \div m + k) + (n % m) /\ n \div m + k \in Int
  BY <1>1, <1>3
<1>5. j % m = n % m
  BY <1>2, <1>3, <1>4, OneRemainder
<1> QED
  BY <1>1, <1>5

Half == Word \div 2

LEMMA WordFacts == Word \in Nat \ {0} /\ Half \in Nat /\ Word = Half + Half /\ Half > 0
BY PacingAssumption DEF Half

LEMMA Negated ==
  ASSUME NEW m \in Nat, NEW q \in Int, NEW r \in Int, NEW n \in Int, n = m * q + r
  PROVE  r = n + m * (0 - q)
OBVIOUS

\* The value of n as a word, as a difference that is easy to reason about.
LEMMA UnsignedShift ==
  ASSUME NEW n \in Int PROVE \E k \in Int : Unsigned(n) = n + Word * k
<1>1. /\ n = Word * (n \div Word) + Unsigned(n)
      /\ n \div Word \in Int /\ Unsigned(n) \in 0 .. Word - 1
  BY WordFacts, Division DEF Unsigned
<1>2. Unsigned(n) = n + Word * (0 - (n \div Word))
  BY <1>1, WordFacts, Negated
<1> QED
  BY <1>1, <1>2

LEMMA UnsignedFacts ==
  ASSUME NEW n \in Int
  PROVE  /\ Unsigned(n) \in 0 .. Word - 1
         /\ \A k \in Int : Unsigned(n + Word * k) = Unsigned(n)
         /\ n \in 0 .. Word - 1 => Unsigned(n) = n
         /\ n \in -Word .. -1 => Unsigned(n) = n + Word
<1>1. Unsigned(n) \in 0 .. Word - 1
  BY WordFacts, Division DEF Unsigned
<1>2. \A k \in Int : Unsigned(n + Word * k) = Unsigned(n)
  BY WordFacts, ShiftedRemainder DEF Unsigned
<1>3. n \in 0 .. Word - 1 => Unsigned(n) = n
  BY WordFacts DEF Unsigned
<1>4. n \in -Word .. -1 => Unsigned(n) = n + Word
  BY WordFacts DEF Unsigned
<1> QED
  BY <1>1, <1>2, <1>3, <1>4

LEMMA SignedFacts ==
  ASSUME NEW n \in Int
  PROVE  /\ \E k \in Int : Signed(n) = n + Word * k
         /\ Signed(n) \in Int
         /\ Unsigned(Signed(n)) = Unsigned(n)
         /\ n \in -Half .. Half - 1 => Signed(n) = n
<1>1. PICK j \in Int : Unsigned(n) = n + Word * j
  BY UnsignedShift
<1>2. PICK k \in Int : Signed(n) = n + Word * k
  <2>1. CASE Signed(n) = Unsigned(n)
    BY <1>1, <2>1
  <2>2. CASE Signed(n) = Unsigned(n) - Word
    <3>1. Signed(n) = n + Word * (j - 1)
      BY <1>1, <2>2, WordFacts
    <3> QED
      BY <1>1, <3>1
  <2> QED
    BY <2>1, <2>2 DEF Signed
<1>3. Signed(n) \in Int
  BY UnsignedFacts, WordFacts DEF Signed
<1>4. Unsigned(Signed(n)) = Unsigned(n)
  BY <1>2, UnsignedFacts
<1>5. ASSUME n \in -Half .. Half - 1 PROVE Signed(n) = n
  <2>1. Unsigned(n) = IF n < 0 THEN n + Word ELSE n
    BY <1>5, UnsignedFacts, WordFacts
  <2> QED
    BY <1>5, <2>1, WordFacts DEF Signed, Half
<1> QED
  BY <1>2, <1>3, <1>4, <1>5

\* notify_delay, read as an unsigned word, is the time the ISR took.
LEMMA DelayMeasured ==
  ASSUME NEW c \in Nat, NEW l \in 0 .. Half
  PROVE  Unsigned(Signed((c + l) - Signed(c))) = l
<1>1. PICK k \in Int : Signed(c) = c + Word * k
  BY SignedFacts
<1>2. (c + l) - Signed(c) = l + Word * (0 - k)
  BY <1>1, WordFacts
<1>3. (c + l) - Signed(c) \in Int /\ Unsigned((c + l) - Signed(c)) = Unsigned(l)
  BY <1>2, UnsignedFacts, SignedFacts
<1>4. l \in 0 .. Word - 1
  BY WordFacts
<1> QED
  BY <1>3, <1>4, UnsignedFacts, SignedFacts

\* remaining_delta is the difference of the true times, negative if the ISR took
\* longer than delta.
LEMMA RemainingIsDifference ==
  ASSUME NEW d \in 0 .. Half - 1, NEW l \in 0 .. Half, NEW u \in Int, Unsigned(u) = l
  PROVE  Signed(Unsigned(d) - Unsigned(u)) = d - l
<1>1. Unsigned(d) = d /\ d - l \in -Half .. Half - 1
  BY WordFacts, UnsignedFacts
<1> QED
  BY <1>1, SignedFacts

LEMMA DifferenceOfStamps ==
  ASSUME NEW a \in Nat, NEW b \in Nat
  PROVE  Unsigned(Unsigned(Signed(a)) - Unsigned(b)) = (a - b) % Word
<1>1. PICK j \in Int : Unsigned(Signed(a)) = a + Word * j
  BY SignedFacts, UnsignedShift
<1>2. PICK k \in Int : Unsigned(b) = b + Word * k
  BY UnsignedShift
<1>3. Unsigned(Signed(a)) - Unsigned(b) = (a - b) + Word * (j - k)
  BY <1>1, <1>2, WordFacts
<1> QED
  BY <1>3, UnsignedFacts DEF Unsigned

-----------------------------------------------------------------------------
(* The inductive invariant                                                 *)

Last  == Len(sentAt)
Stamp == [sent : Int, received : Int]

\* Lengths and ranges of the history at each control point.
Types ==
  /\ clock \in Nat /\ tpc \in {"load", "delay", "stamp", "wait"}
  /\ sent \in Int /\ notify_delay \in Int /\ remaining_delta \in Int
  /\ sentAt \in Seq(Nat) /\ deltas \in Seq(Delta) /\ waits \in Seq(Latency)
  /\ receivedAt \in Seq(Int) /\ stamps \in Seq(Stamp)
  /\ Len(receivedAt) = Last /\ Len(stamps) = Last
  /\ Len(deltas) = IF tpc \in {"delay", "stamp"} THEN Last + 1 ELSE Last
  /\ tpc = "wait" => Last > 0
  /\ Len(waits) = IF tpc = "wait" THEN Last - 1 ELSE Last

\* What is left of a delta when the ISR has taken time l.
Left(d, l) == IF d - l > 0 THEN d - l ELSE 0

\* The interrupt after number n is sent at this time.
Paced(n, time) ==
  \E late \in Overrun : time = sentAt[n] + waits[n] + late + Left(deltas[n + 1], waits[n])

LastWait == IF Last = 0 THEN 0 ELSE waits[Last]

\* The truncated local variables stand for the true times.
Locals ==
  /\ tpc \in {"load", "delay"} =>
       Unsigned(notify_delay) = LastWait /\ (Last > 0 => clock = sentAt[Last] + waits[Last])
  /\ tpc = "delay" => remaining_delta = deltas[Last + 1] - LastWait
  /\ tpc = "stamp" /\ Last > 0 => Paced(Last, clock)
  /\ tpc = "wait" => sent = Signed(clock) /\ sentAt[Last] = clock

\* So far every interrupt was sent at its time.
AllPaced == \A n \in 1 .. Last - 1 : Paced(n, sentAt[n + 1])

Stamps ==
  \A k \in 1 .. Last :
    /\ stamps[k].sent = Unsigned(sentAt[k])
    /\ receivedAt[k] # NotYet =>
         receivedAt[k] \in Nat /\ stamps[k].received = Unsigned(Signed(receivedAt[k]))

PacingInv == Types /\ Locals /\ AllPaced /\ Stamps

LEMMA RangeFacts ==
  /\ Delta \subseteq 0 .. Half - 1 /\ Latency \subseteq 0 .. Half
  /\ Overrun \subseteq Nat /\ StartTime \subseteq Nat
BY PacingAssumption DEF Half

LEMMA InitPacing == Init => PacingInv
<1> SUFFICES ASSUME Init PROVE PacingInv
  OBVIOUS
<1>1. Unsigned(0) = 0
  BY UnsignedFacts, WordFacts
<1>2. Types
  BY RangeFacts DEF Init, Types, Last
<1>3. Locals
  BY <1>1 DEF Init, Locals, Last, LastWait
<1>4. AllPaced /\ Stamps
  BY DEF Init, AllPaced, Stamps, Last
<1> QED
  BY <1>2, <1>3, <1>4 DEF PacingInv

LEMMA LoadPacing == PacingInv /\ Load => PacingInv'
<1> SUFFICES ASSUME PacingInv, Load PROVE PacingInv'
  OBVIOUS
<1>1. PICK d \in Delta : remaining_delta' = Remaining(d) /\ deltas' = Append(deltas, d)
  BY DEF Load
<1>2. /\ tpc = "load" /\ tpc' = "delay"
      /\ UNCHANGED <<clock, sent, notify_delay, stamps, sentAt, receivedAt, waits>>
      /\ Types /\ Len(deltas) = Last /\ Last \in Nat
  BY DEF Load, PacingInv, Types, Last
<1>3. /\ deltas' \in Seq(Delta) /\ Len(deltas') = Last + 1 /\ deltas'[Last + 1] = d
      /\ \A n \in 1 .. Last : deltas'[n] = deltas[n]
  <2>1. deltas \in Seq(Delta)
    BY <1>2 DEF Types
  <2> QED
    BY <1>1, <1>2, <2>1
<1>4. d \in 0 .. Half - 1 /\ LastWait \in 0 .. Half /\ LastWait' = LastWait
  <2>1. Last > 0 => waits[Last] \in Latency
    BY <1>2 DEF Types
  <2>2. LastWait = 0 \/ LastWait \in Latency
    BY <1>2, <2>1 DEF LastWait
  <2>3. LastWait' = LastWait
    BY <1>2 DEF LastWait, Last
  <2>4. d \in 0 .. Half - 1
    BY RangeFacts
  <2>5. 0 \in 0 .. Half
    BY WordFacts
  <2>6. LastWait \in 0 .. Half
    BY <2>2, <2>5, RangeFacts
  <2> QED
    BY <2>3, <2>4, <2>6
<1>5. remaining_delta' = d - LastWait
  BY <1>1, <1>2, <1>4, RemainingIsDifference DEF Remaining, PacingInv, Locals, Types
<1>6. Types'
  <2>1. remaining_delta' \in Int
    BY <1>4, <1>5
  <2> QED
    BY <1>2, <1>3, <2>1 DEF Types, Last
<1>7. Locals'
  BY <1>2, <1>3, <1>4, <1>5 DEF PacingInv, Locals, Last
<1>8. AllPaced'
  BY <1>2, <1>3 DEF PacingInv, AllPaced, Paced, Last
<1>9. Stamps'
  BY <1>2 DEF PacingInv, Stamps, Last
<1> QED
  BY <1>6, <1>7, <1>8, <1>9 DEF PacingInv

LEMMA DelayPacing == PacingInv /\ Delay => PacingInv'
<1> SUFFICES ASSUME PacingInv, Delay PROVE PacingInv'
  OBVIOUS
<1>1. PICK late \in Overrun :
        clock' = clock + late + (IF remaining_delta > 0 THEN remaining_delta ELSE 0)
  BY DEF Delay
<1>2. /\ tpc = "delay" /\ tpc' = "stamp"
      /\ UNCHANGED <<locals, stamps, sentAt, receivedAt, deltas, waits>>
      /\ Types /\ Last \in Nat /\ late \in Nat
  BY RangeFacts DEF Delay, PacingInv, Types, Last, history
<1>3. clock' \in Nat
  BY <1>1, <1>2 DEF Types
<1>4. Types'
  BY <1>2, <1>3 DEF Types, Last, locals
<1>5. Last > 0 => Paced(Last, clock')
  BY <1>1, <1>2 DEF PacingInv, Locals, Paced, Left, LastWait
<1>6. Locals'
  BY <1>2, <1>5 DEF Locals, Paced, Last
<1>7. AllPaced' /\ Stamps'
  BY <1>2 DEF PacingInv, AllPaced, Paced, Stamps, Last
<1> QED
  BY <1>4, <1>6, <1>7 DEF PacingInv

LEMMA StampPacing == PacingInv /\ StampSent => PacingInv'
<1> SUFFICES ASSUME PacingInv, StampSent PROVE PacingInv'
  OBVIOUS
<1>1. /\ tpc = "stamp" /\ tpc' = "wait" /\ sent' = Signed(clock)
      /\ stamps' = Append(stamps, [sent |-> Unsigned(clock), received |-> 0])
      /\ sentAt' = Append(sentAt, clock) /\ receivedAt' = Append(receivedAt, NotYet)
      /\ UNCHANGED <<clock, notify_delay, remaining_delta, deltas, waits>>
      /\ Types /\ Last \in Nat /\ clock \in Nat
  BY DEF StampSent, PacingInv, Types, Last
<1>2. /\ sentAt' \in Seq(Nat) /\ Last \in Nat /\ Last' = Last + 1
      /\ sentAt'[Last + 1] = clock
      /\ \A n \in 1 .. Last : sentAt'[n] = sentAt[n]
  BY <1>1 DEF Types, Last
<1>3. /\ receivedAt' \in Seq(Int) /\ Len(receivedAt') = Last + 1
      /\ receivedAt'[Last + 1] = NotYet
      /\ \A n \in 1 .. Last : receivedAt'[n] = receivedAt[n]
  BY <1>1 DEF Types, Last, NotYet
<1>4. Unsigned(clock) \in Int /\ Signed(clock) \in Int
  BY <1>1, UnsignedFacts, SignedFacts
<1>5. /\ stamps' \in Seq(Stamp) /\ Len(stamps') = Last + 1
      /\ stamps'[Last + 1].sent = Unsigned(clock)
      /\ \A n \in 1 .. Last : stamps'[n] = stamps[n]
  BY <1>1, <1>4 DEF Types, Last, Stamp
<1>6. Types'
  BY <1>1, <1>2, <1>3, <1>4, <1>5 DEF Types, Last
<1>7. Locals'
  BY <1>1, <1>2 DEF Locals
<1>8. AllPaced'
  <2>1. ASSUME NEW n \in 1 .. Last PROVE Paced(n, sentAt[n + 1])'
    <3>1. sentAt'[n] = sentAt[n] /\ n \in Nat /\ n > 0 /\ n <= Last
      BY <1>2
    <3>2. CASE n = Last
      BY <1>1, <1>2, <3>1, <3>2 DEF PacingInv, Locals, Paced
    <3>3. CASE n < Last
      <4>1. n \in 1 .. Last - 1 /\ n + 1 \in 1 .. Last
        BY <1>2, <3>1, <3>3
      <4>2. sentAt'[n + 1] = sentAt[n + 1]
        BY <1>2, <4>1
      <4>3. Paced(n, sentAt[n + 1])
        BY <4>1 DEF PacingInv, AllPaced
      <4> QED
        BY <1>1, <3>1, <4>2, <4>3 DEF Paced
    <3> QED
      BY <1>2, <3>1, <3>2, <3>3
  <2>2. Last' - 1 = Last
    BY <1>2
  <2> QED
    BY <2>1, <2>2 DEF AllPaced
<1>9. Stamps'
  <2> SUFFICES ASSUME NEW k \in 1 .. Last + 1
               PROVE  /\ stamps'[k].sent = Unsigned(sentAt'[k])
                      /\ receivedAt'[k] # NotYet =>
                           /\ receivedAt'[k] \in Nat
                           /\ stamps'[k].received = Unsigned(Signed(receivedAt'[k]))
    BY <1>2 DEF Stamps, Unsigned, Signed
  <2>1. CASE k = Last + 1
    BY <1>2, <1>3, <1>5, <2>1
  <2>2. CASE k # Last + 1
    <3>1. k \in 1 .. Last
      BY <1>2, <2>2
    <3> QED
      BY <1>2, <1>3, <1>5, <3>1 DEF PacingInv, Stamps
  <2> QED
    BY <2>1, <2>2
<1> QED
  BY <1>6, <1>7, <1>8, <1>9 DEF PacingInv

LEMMA NotifiedPacing == PacingInv /\ Notified => PacingInv'
<1> SUFFICES ASSUME PacingInv, Notified PROVE PacingInv'
  OBVIOUS
<1>1. PICK l \in Latency :
        clock' = clock + l /\ notify_delay' = NotifyDelay(clock + l) /\ waits' = Append(waits, l)
  BY DEF Notified
<1>2. /\ tpc = "wait" /\ tpc' = "load"
      /\ UNCHANGED <<sent, remaining_delta, stamps, sentAt, receivedAt, deltas>>
      /\ Types /\ Last \in Nat /\ Last > 0 /\ clock \in Nat /\ l \in 0 .. Half
  BY RangeFacts DEF Notified, PacingInv, Types, Last
<1>3. /\ waits' \in Seq(Latency) /\ Len(waits') = Last /\ waits'[Last] = l
      /\ \A n \in 1 .. Last - 1 : waits'[n] = waits[n]
  BY <1>1, <1>2 DEF Types, Last
<1>4. sent = Signed(clock) /\ sentAt[Last] = clock
  BY <1>2 DEF PacingInv, Locals
<1>5. Unsigned(notify_delay') = l
  BY <1>1, <1>2, <1>4, DelayMeasured DEF NotifyDelay
<1>6. notify_delay' \in Int
  <2>1. (clock + l) - sent \in Int
    BY <1>2 DEF Types
  <2> QED
    BY <1>1, <2>1, SignedFacts DEF NotifyDelay
<1>7. Types'
  BY <1>1, <1>2, <1>3, <1>6 DEF Types, Last
<1>8. Locals'
  BY <1>1, <1>2, <1>3, <1>4, <1>5 DEF Locals, LastWait, Last
<1>9. AllPaced'
  BY <1>2, <1>3 DEF PacingInv, AllPaced, Paced, Last
<1>10. Stamps'
  BY <1>2 DEF PacingInv, Stamps, Last
<1> QED
  BY <1>7, <1>8, <1>9, <1>10 DEF PacingInv

LEMMA ReceivePacing ==
  ASSUME NEW k \in DOMAIN receivedAt PROVE PacingInv /\ Receive(k) => PacingInv'
<1> SUFFICES ASSUME PacingInv, Receive(k) PROVE PacingInv'
  OBVIOUS
<1>1. /\ receivedAt' = [receivedAt EXCEPT ![k] = clock]
      /\ stamps' = [stamps EXCEPT ![k].received = Unsigned(Signed(clock))]
      /\ UNCHANGED <<clock, tpc, sent, notify_delay, remaining_delta, sentAt, deltas, waits>>
      /\ Types /\ clock \in Nat
  BY DEF Receive, locals, PacingInv, Types
<1>0. Last \in Nat /\ k \in 1 .. Last
  <2>1. sentAt \in Seq(Nat) /\ receivedAt \in Seq(Int) /\ Len(receivedAt) = Len(sentAt)
    BY <1>1 DEF Types, Last
  <2>2. Len(sentAt) \in Nat /\ DOMAIN receivedAt = 1 .. Len(sentAt)
    BY <2>1
  <2> QED
    BY <2>2 DEF Last
<1>2. Unsigned(Signed(clock)) \in Int
  BY <1>1, UnsignedFacts, SignedFacts
<1>3. /\ receivedAt' \in Seq(Int) /\ Len(receivedAt') = Last
      /\ receivedAt'[k] = clock
      /\ \A n \in 1 .. Last : n # k => receivedAt'[n] = receivedAt[n]
  BY <1>0, <1>1 DEF Types, Last
<1>4. /\ stamps' \in Seq(Stamp) /\ Len(stamps') = Last
      /\ stamps'[k].received = Unsigned(Signed(clock)) /\ stamps'[k].sent = stamps[k].sent
      /\ \A n \in 1 .. Last : n # k => stamps'[n] = stamps[n]
  <2>1. stamps \in Seq(Stamp) /\ Len(stamps) = Last
    BY <1>1 DEF Types
  <2>2. k \in DOMAIN stamps
    BY <1>0, <2>1
  <2>3. stamps[k] \in Stamp
    BY <2>1, <2>2
  <2>4. PICK row : row = [stamps[k] EXCEPT !.received = Unsigned(Signed(clock))]
    OBVIOUS
  <2>5. row \in Stamp /\ row.received = Unsigned(Signed(clock)) /\ row.sent = stamps[k].sent
    BY <1>2, <2>3, <2>4 DEF Stamp
  <2>6. stamps' = [stamps EXCEPT ![k] = row]
    BY <1>1, <2>4
  <2> QED
    BY <1>0, <2>1, <2>2, <2>5, <2>6
<1>5. Types'
  BY <1>0, <1>1, <1>3, <1>4 DEF Types, Last
<1>6. Locals' /\ AllPaced'
  BY <1>1 DEF PacingInv, Locals, AllPaced, Paced, LastWait, Last
<1>7. Stamps'
  BY <1>0, <1>1, <1>3, <1>4 DEF PacingInv, Stamps, Last
<1> QED
  BY <1>5, <1>6, <1>7 DEF PacingInv

-----------------------------------------------------------------------------
(* The theorems                                                            *)

LEMMA PacingInvariance == Spec => []PacingInv
<1>1. Init => PacingInv
  BY InitPacing
<1>2. PacingInv /\ [Next]_vars => PacingInv'
  <2> SUFFICES ASSUME PacingInv, [Next]_vars PROVE PacingInv'
    OBVIOUS
  <2>1. CASE UNCHANGED vars
    BY <2>1 DEF vars, locals, history, PacingInv, Types, Locals, AllPaced, Paced, Stamps,
                LastWait, Last
  <2>2. CASE Load \/ Delay \/ StampSent \/ Notified
    BY <2>2, LoadPacing, DelayPacing, StampPacing, NotifiedPacing
  <2>3. CASE \E k \in DOMAIN receivedAt : Receive(k)
    BY <2>3, ReceivePacing
  <2> QED
    BY <2>1, <2>2, <2>3 DEF Next
<1> QED
  BY <1>1, <1>2, PTL DEF Spec

\* The gap after interrupt n, when it was paced.
LEMMA PacedGap ==
  ASSUME PacingInv, NEW n \in 1 .. Len(sentAt) - 1
  PROVE  /\ deltas[n + 1] \in Nat /\ waits[n] \in Nat
         /\ \E late \in Overrun : Gap(n) = waits[n] + late + Left(deltas[n + 1], waits[n])
<1>1. /\ sentAt \in Seq(Nat) /\ n \in DOMAIN sentAt /\ n + 1 \in DOMAIN deltas
      /\ n \in DOMAIN waits /\ deltas \in Seq(Delta) /\ waits \in Seq(Latency)
  <2>1. /\ Types /\ sentAt \in Seq(Nat) /\ deltas \in Seq(Delta) /\ waits \in Seq(Latency)
        /\ Len(sentAt) \in Nat /\ Len(deltas) \in Nat /\ Len(waits) \in Nat
    BY DEF PacingInv, Types
  <2>2. Len(deltas) >= Len(sentAt) /\ Len(waits) >= Len(sentAt) - 1
    BY <2>1 DEF Types, Last
  <2>3. n \in Nat /\ n > 0 /\ n < Len(sentAt)
    BY <2>1
  <2>4. n \in 1 .. Len(sentAt) /\ n + 1 \in 1 .. Len(deltas) /\ n \in 1 .. Len(waits)
    BY <2>1, <2>2, <2>3
  <2> QED
    BY <2>1, <2>4
<1>2. sentAt[n] \in Nat /\ deltas[n + 1] \in Nat /\ waits[n] \in Nat
  <2>1. Delta \subseteq Nat /\ Latency \subseteq Nat
    BY RangeFacts, WordFacts
  <2>2. sentAt[n] \in Nat /\ deltas[n + 1] \in Delta /\ waits[n] \in Latency
    BY <1>1
  <2> QED
    BY <2>1, <2>2
<1>3. PICK late \in Overrun :
        sentAt[n + 1] = sentAt[n] + waits[n] + late + Left(deltas[n + 1], waits[n])
  BY DEF PacingInv, AllPaced, Paced, Last
<1> QED
  BY <1>2, <1>3, RangeFacts DEF Gap, Left

\* traffic_trace_reader never sends an interrupt early, whatever the clock reads
\* and however long the ISR takes, up to half the range of a word.
THEOREM NotEarlyHolds == Spec => []NotEarly
<1>1. PacingInv => NotEarly
  <2> SUFFICES ASSUME PacingInv, NEW n \in 1 .. Len(sentAt) - 1 PROVE Gap(n) >= deltas[n + 1]
    BY DEF NotEarly
  <2>1. /\ deltas[n + 1] \in Nat /\ waits[n] \in Nat
        /\ \E late \in Nat : Gap(n) = waits[n] + late + Left(deltas[n + 1], waits[n])
    BY PacedGap, RangeFacts
  <2> QED
    BY <2>1 DEF Left
<1> QED
  BY <1>1, PacingInvariance, PTL

\* traffic_trace_reader counts the time of the ISR as part of the next delta.
THEOREM CompensatedHolds == Spec => []Compensated
<1>1. PacingInv => Compensated
  <2> SUFFICES ASSUME PacingInv, NEW n \in 1 .. Len(sentAt) - 1
               PROVE  \E least \in {deltas[n + 1], waits[n]} :
                        /\ least >= deltas[n + 1] /\ least >= waits[n]
                        /\ Gap(n) - least \in Overrun
    BY DEF Compensated
  <2>1. /\ deltas[n + 1] \in Nat /\ waits[n] \in Nat
        /\ \E late \in Overrun : Gap(n) = waits[n] + late + Left(deltas[n + 1], waits[n])
    BY PacedGap
  <2>2. PICK late \in Overrun :
          late \in Nat /\ Gap(n) = waits[n] + late + Left(deltas[n + 1], waits[n])
    BY <2>1, RangeFacts
  <2>3. CASE deltas[n + 1] >= waits[n]
    BY <2>1, <2>2, <2>3 DEF Left
  <2>4. CASE deltas[n + 1] < waits[n]
    BY <2>1, <2>2, <2>4 DEF Left
  <2> QED
    BY <2>1, <2>3, <2>4
<1> QED
  BY <1>1, PacingInvariance, PTL

\* The tx_delay that traffic_print_results prints is the time that passed between
\* the stamps of traffic.c and worker.c, up to a whole turn of the clock.
THEOREM TxDelayTrueHolds == Spec => []TxDelayTrue
<1>1. PacingInv => TxDelayTrue
  <2> SUFFICES ASSUME PacingInv, NEW k \in DOMAIN sentAt, receivedAt[k] # NotYet
               PROVE  TxDelay(k) = (receivedAt[k] - sentAt[k]) % Word
    BY DEF TxDelayTrue
  <2>0. sentAt \in Seq(Nat)
    BY DEF PacingInv, Types
  <2>1. k \in 1 .. Last /\ sentAt[k] \in Nat
    BY <2>0 DEF Last
  <2>2. /\ stamps[k].sent = Unsigned(sentAt[k]) /\ receivedAt[k] \in Nat
        /\ stamps[k].received = Unsigned(Signed(receivedAt[k]))
    BY <2>1 DEF PacingInv, Stamps
  <2> QED
    BY <2>1, <2>2, DifferenceOfStamps DEF TxDelay
<1> QED
  BY <1>1, PacingInvariance, PTL

==============================================================================
