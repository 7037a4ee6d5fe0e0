------------------------- MODULE NicSimulatorProofs -------------------------
(***************************************************************************)
(* Theorems about NicSimulator.  The inductive invariant has two halves:   *)
(* where every packet of the trace is (in a batch, in the store, waiting), *)
(* and what each pending timer of the agenda stands for.  The first half   *)
(* is stated about values, so that a handler can be followed through its   *)
(* intermediate states: enqueue, admit, flush.                             *)
(***************************************************************************)
EXTENDS NicSimulator, TLAPS

-----------------------------------------------------------------------------
(* The packets: P is the trace, I the interrupts, It the stores, Q the     *)
(* packets waiting for room, t the time.                                   *)

Row    == [flow : Flow, arrival_time : Nat, irq_time : Nat \cup {None}]
Reason == {None, "packet_limit", "packet_timer", "absolute_timer"}
Irq    == [at : Nat, batch : Seq(Nat), reason : Reason]

To(P, n)         == IF P[n].flow \in DOMAIN Mapping THEN Mapping[P[n].flow] ELSE None
Below(S, T)      == \A x \in S, y \in T : x < y
Ascending(s)     == \A i, j \in DOMAIN s : i < j => s[i] < s[j]
Inside(It, Q, b) == ToSet(It[b]) \cup ToSet(Q[b])
Listed(I, k)     == ToSet(I[k].batch)

TypesIn(P, I, It, Q, t) ==
  /\ P \in Seq(Row) /\ I \in Seq(Irq) /\ t \in Nat
  /\ It \in [Buffer -> Seq(Nat)] /\ Q \in [Buffer -> Seq(Nat)]

\* A buffer holds packets of its own flows, and interrupts list packets.
RoutedIn(P, I, It, Q) ==
  /\ \A b \in Buffer : \A n \in Inside(It, Q, b) : n \in 1 .. Len(P) /\ To(P, n) = b
  /\ \A k \in DOMAIN I : Listed(I, k) \subseteq 1 .. Len(P)

\* Per buffer: what interrupts have listed precedes what it holds.
OrderIn(P, I, It, Q) ==
  /\ \A k \in DOMAIN I : Ascending(I[k].batch)
  /\ \A k, l \in DOMAIN I : k < l =>
       \A x \in Listed(I, k), y \in Listed(I, l) :
         To(P, x) = To(P, y) /\ To(P, x) \in Buffer => x < y
  /\ \A b \in Buffer :
       /\ Ascending(It[b]) /\ Ascending(Q[b]) /\ Below(ToSet(It[b]), ToSet(Q[b]))
       /\ \A k \in DOMAIN I : \A x \in Listed(I, k) :
            To(P, x) = b => Below({x}, Inside(It, Q, b))
       /\ \A n \in 1 .. Len(P) : To(P, n) = b =>
            n \in Inside(It, Q, b) \/ \E k \in DOMAIN I : n \in Listed(I, k)

\* A packet has the time of the interrupts that list it, and no other.
AgreeIn(P, I, It, Q) ==
  /\ \A n \in 1 .. Len(P) :
       /\ \A k \in DOMAIN I : n \in Listed(I, k) => I[k].at = P[n].irq_time
       /\ P[n].irq_time # None => \E k \in DOMAIN I : n \in Listed(I, k)
  /\ \A b \in Buffer : \A n \in Inside(It, Q, b) : P[n].irq_time = None

PastIn(P, I, t) ==
  /\ \A n \in 1 .. Len(P) : P[n].arrival_time <= t
  /\ \A k \in DOMAIN I : I[k].at <= t

StoreInv(P, I, It, Q, t) ==
  /\ TypesIn(P, I, It, Q, t) /\ RoutedIn(P, I, It, Q) /\ OrderIn(P, I, It, Q)
  /\ AgreeIn(P, I, It, Q) /\ PastIn(P, I, t)

\* What happens to the traces: packets arrive, are stamped, and keep their flow.
Grows(P, P2) ==
  /\ Len(P) <= Len(P2)
  /\ \A n \in 1 .. Len(P) : /\ P2[n].flow = P[n].flow
                            /\ P2[n].arrival_time = P[n].arrival_time

Extends(I, I2) ==
  /\ Len(I) <= Len(I2)
  /\ \A k \in DOMAIN I : k \in DOMAIN I2 /\ I2[k] = I[k]

Packet(flow, t) == [flow |-> flow, arrival_time |-> t, irq_time |-> None]
Arrives(P, P2, flow, t) == P2 = Append(P, Packet(flow, t))

StampedBy(P, P2, S, t) ==
  /\ P2 \in Seq(Row) /\ Len(P2) = Len(P)
  /\ \A n \in 1 .. Len(P) : /\ P2[n].flow = P[n].flow
                            /\ P2[n].arrival_time = P[n].arrival_time
                            /\ P2[n].irq_time = IF n \in S THEN t ELSE P[n].irq_time

Interrupt(t, batch, reason) == [at |-> t, batch |-> batch, reason |-> reason]

Raises(I, I2, t, batch, reason) == I2 = Append(I, Interrupt(t, batch, reason))

-----------------------------------------------------------------------------
(* Sequences                                                               *)

LEMMA Elements ==
  ASSUME NEW s \in Seq(Nat)
  PROVE  /\ ToSet(s) \subseteq Nat
         /\ \A i \in DOMAIN s : s[i] \in ToSet(s)
         /\ \A x \in ToSet(s) : \E i \in DOMAIN s : s[i] = x
         /\ s = << >> <=> ToSet(s) = {}
         /\ s # << >> => Head(s) \in ToSet(s) /\ Last(s) \in ToSet(s)
<1>1. s # << >> => 1 \in DOMAIN s /\ Len(s) \in DOMAIN s /\ Head(s) = s[1]
  OBVIOUS
<1> QED
  BY <1>1 DEF ToSet, Last

LEMMA NoElements == ToSet(<< >>) = {} /\ Ascending(<< >>) /\ << >> \in Seq(Nat)
BY DEF ToSet, Ascending

LEMMA Appended ==
  ASSUME NEW s \in Seq(Nat), NEW x \in Nat, NEW s2, s2 = Append(s, x)
  PROVE  /\ s2 \in Seq(Nat) /\ ToSet(s2) = ToSet(s) \cup {x} /\ Last(s2) = x
         /\ s2 # << >> /\ Len(s2) = Len(s) + 1
         /\ Ascending(s) /\ Below(ToSet(s), {x}) => Ascending(s2)
<1>1. /\ s2 \in Seq(Nat) /\ Len(s2) = Len(s) + 1 /\ Len(s) \in Nat
      /\ DOMAIN s2 = 1 .. Len(s) + 1 /\ DOMAIN s = 1 .. Len(s)
      /\ s2[Len(s) + 1] = x /\ \A i \in 1 .. Len(s) : s2[i] = s[i]
  OBVIOUS
<1>2. ToSet(s2) = ToSet(s) \cup {x}
  BY <1>1 DEF ToSet
<1>3. ASSUME Ascending(s), Below(ToSet(s), {x})
      PROVE  Ascending(s2)
  <2>1. \A i \in 1 .. Len(s) : s[i] < x /\ s[i] \in Nat
    BY <1>1, <1>3 DEF Below, ToSet
  <2> QED
    BY <1>1, <1>3, <2>1 DEF Ascending
<1> QED
  BY <1>1, <1>2, <1>3 DEF Last

LEMMA Shifted ==
  ASSUME NEW s \in Seq(Nat), s # << >>
  PROVE  /\ Tail(s) \in Seq(Nat) /\ Head(s) \in Nat
         /\ ToSet(s) = {Head(s)} \cup ToSet(Tail(s))
         /\ Ascending(s) => Ascending(Tail(s)) /\ Below({Head(s)}, ToSet(Tail(s)))
<1>1. /\ Tail(s) \in Seq(Nat) /\ Len(Tail(s)) = Len(s) - 1 /\ Len(s) \in Nat \ {0}
      /\ DOMAIN Tail(s) = 1 .. Len(s) - 1 /\ DOMAIN s = 1 .. Len(s) /\ Head(s) = s[1]
      /\ \A i \in 1 .. Len(s) - 1 : Tail(s)[i] = s[i + 1]
      /\ \A i \in DOMAIN s : s[i] \in Nat
  OBVIOUS
<1>2. ToSet(s) = {Head(s)} \cup ToSet(Tail(s))
  <2>1. \A i \in DOMAIN s : i = 1 \/ (i - 1 \in DOMAIN Tail(s) /\ Tail(s)[i - 1] = s[i])
    BY <1>1
  <2>2. ASSUME NEW i \in DOMAIN s PROVE s[i] \in {Head(s)} \cup ToSet(Tail(s))
    BY <1>1, <2>1 DEF ToSet
  <2>3. \A i \in DOMAIN Tail(s) : i + 1 \in DOMAIN s /\ Tail(s)[i] = s[i + 1]
    BY <1>1
  <2>4. ASSUME NEW i \in DOMAIN Tail(s) PROVE Tail(s)[i] \in ToSet(s)
    BY <2>3 DEF ToSet
  <2>5. Head(s) \in ToSet(s)
    BY <1>1 DEF ToSet
  <2> QED
    BY <2>2, <2>4, <2>5 DEF ToSet
<1>3. ASSUME Ascending(s)
      PROVE  Ascending(Tail(s)) /\ Below({Head(s)}, ToSet(Tail(s)))
  <2>1. \A i, j \in DOMAIN s : i < j => s[i] < s[j]
    BY <1>3 DEF Ascending
  <2>2. \A i \in DOMAIN Tail(s) : i + 1 \in DOMAIN s /\ 1 < i + 1 /\ Tail(s)[i] = s[i + 1]
    BY <1>1
  <2>3. ASSUME NEW i \in DOMAIN Tail(s), NEW j \in DOMAIN Tail(s), i < j
        PROVE  Tail(s)[i] < Tail(s)[j]
    <3>1. i + 1 < j + 1 /\ i + 1 \in DOMAIN s /\ j + 1 \in DOMAIN s
      BY <1>1, <2>2, <2>3
    <3> QED
      BY <2>1, <2>2, <3>1
  <2>4. \A i \in DOMAIN Tail(s) : Head(s) < Tail(s)[i]
    BY <1>1, <2>1, <2>2
  <2> QED
    BY <2>3, <2>4 DEF Ascending, Below, ToSet
<1> QED
  BY <1>1, <1>2, <1>3

-----------------------------------------------------------------------------
(* The steps that handlers are made of                                     *)

LEMMA Times ==
  ASSUME NEW P, NEW I, NEW It, NEW Q, NEW t, StoreInv(P, I, It, Q, t)
  PROVE  /\ \A n \in 1 .. Len(P) : P[n].arrival_time \in Nat /\ P[n].arrival_time <= t
         /\ \A k \in DOMAIN I : I[k].at \in Nat /\ I[k].at <= t
         /\ \A k \in DOMAIN I : I[k].batch \in Seq(Nat)
         /\ t \in Nat
<1>1. \A n \in 1 .. Len(P) : P[n] \in Row
  BY DEF StoreInv, TypesIn
<1>2. \A n \in 1 .. Len(P) : P[n].arrival_time \in Nat
  BY <1>1 DEF Row
<1>3. \A k \in DOMAIN I : I[k] \in Irq
  BY DEF StoreInv, TypesIn
<1>4. \A k \in DOMAIN I : I[k].at \in Nat /\ I[k].batch \in Seq(Nat)
  BY <1>3 DEF Irq
<1> QED
  BY <1>2, <1>4 DEF StoreInv, PastIn, TypesIn

\* A packet of flow f arrives at time t2.
LEMMA Arriving ==
  ASSUME NEW P \in Seq(Row), NEW f \in Flow, NEW t2 \in Nat,
         NEW P2, Arrives(P, P2, f, t2)
  PROVE  /\ P2 \in Seq(Row) /\ Len(P) \in Nat /\ Len(P2) = Len(P) + 1 /\ Grows(P, P2)
         /\ \A n \in 1 .. Len(P) : P2[n] = P[n] /\ To(P2, n) = To(P, n)
         /\ P2[Len(P2)] = Packet(f, t2)
         /\ f \in DOMAIN Mapping => To(P2, Len(P2)) = Mapping[f]
         /\ f \notin DOMAIN Mapping => To(P2, Len(P2)) = None
<1>1. Packet(f, t2) \in Row /\ Packet(f, t2).flow = f
  BY DEF Packet, Row
<1>2. PICK row : row = Packet(f, t2)
  OBVIOUS
<1>3. /\ P2 \in Seq(Row) /\ Len(P) \in Nat /\ Len(P2) = Len(P) + 1
      /\ P2[Len(P2)] = row /\ \A n \in 1 .. Len(P) : P2[n] = P[n]
  <2>1. P2 = Append(P, row) /\ row \in Row
    BY <1>1, <1>2 DEF Arrives
  <2> QED
    BY <2>1
<1> QED
  BY <1>1, <1>2, <1>3 DEF Grows, To

\* Where the traces only grow by a packet, the other parts are about old packets.
LEMMA ArrivedElsewhere ==
  ASSUME NEW P, NEW I, NEW It, NEW Q, NEW t, StoreInv(P, I, It, Q, t),
         NEW t2 \in Nat, t <= t2, NEW f \in Flow,
         NEW P2, Arrives(P, P2, f, t2),
         f \in DOMAIN Mapping => Mapping[f] \notin Buffer
  PROVE  StoreInv(P2, I, It, Q, t2)
<1>1. TypesIn(P, I, It, Q, t)
  BY DEF StoreInv
<1>2. /\ P2 \in Seq(Row) /\ Len(P) \in Nat /\ Len(P2) = Len(P) + 1
      /\ \A n \in 1 .. Len(P) : P2[n] = P[n] /\ To(P2, n) = To(P, n)
      /\ P2[Len(P2)] = Packet(f, t2) /\ To(P2, Len(P2)) \notin Buffer
  <2>1. P \in Seq(Row) /\ None \notin Buffer
    BY <1>1, ConfigAssumption DEF TypesIn
  <2>2. /\ P2 \in Seq(Row) /\ Len(P) \in Nat /\ Len(P2) = Len(P) + 1
        /\ \A n \in 1 .. Len(P) : P2[n] = P[n] /\ To(P2, n) = To(P, n)
    BY <2>1, Arriving
  <2>3. P2[Len(P2)] = Packet(f, t2)
    BY <2>1, Arriving
  <2>4. To(P2, Len(P2)) \notin Buffer
    BY <2>1, Arriving
  <2> QED
    BY <2>2, <2>3, <2>4
<1>3. TypesIn(P2, I, It, Q, t2)
  BY <1>1, <1>2 DEF TypesIn
<1>4. RoutedIn(P2, I, It, Q)
  BY <1>2 DEF StoreInv, RoutedIn
<1>5. /\ \A b \in Buffer : \A n \in Inside(It, Q, b) : n \in 1 .. Len(P) /\ To(P, n) = b
      /\ \A k \in DOMAIN I : Listed(I, k) \subseteq 1 .. Len(P)
  BY DEF StoreInv, RoutedIn
<1>6. OrderIn(P2, I, It, Q)
  <2>1. \A k, l \in DOMAIN I : k < l =>
          \A x \in Listed(I, k), y \in Listed(I, l) :
            To(P2, x) = To(P2, y) /\ To(P2, x) \in Buffer => x < y
    BY <1>2, <1>5 DEF StoreInv, OrderIn
  <2>2. ASSUME NEW b \in Buffer
        PROVE  /\ Ascending(It[b]) /\ Ascending(Q[b]) /\ Below(ToSet(It[b]), ToSet(Q[b]))
               /\ \A k \in DOMAIN I : \A x \in Listed(I, k) :
                    To(P2, x) = b => Below({x}, Inside(It, Q, b))
    BY <1>2, <1>5 DEF StoreInv, OrderIn
  <2>3. ASSUME NEW b \in Buffer, NEW n \in 1 .. Len(P2), To(P2, n) = b
        PROVE  n \in Inside(It, Q, b) \/ \E k \in DOMAIN I : n \in Listed(I, k)
    BY <1>2, <2>3 DEF StoreInv, OrderIn
  <2> QED
    BY <2>1, <2>2, <2>3 DEF StoreInv, OrderIn
<1>7. AgreeIn(P2, I, It, Q)
  <2>1. Packet(f, t2).irq_time = None
    BY DEF Packet
  <2> QED
    BY <1>2, <1>5, <2>1 DEF StoreInv, AgreeIn
<1>8. PastIn(P2, I, t2)
  <2>1. Packet(f, t2).arrival_time = t2
    BY DEF Packet
  <2>2. /\ \A n \in 1 .. Len(P) : P[n].arrival_time \in Nat /\ P[n].arrival_time <= t
        /\ \A k \in DOMAIN I : I[k].at \in Nat /\ I[k].at <= t
        /\ t \in Nat
    BY <1>1, Times
  <2>3. ASSUME NEW n \in 1 .. Len(P2) PROVE P2[n].arrival_time <= t2
    <3>1. CASE n \in 1 .. Len(P)
      <4>1. P[n].arrival_time \in Nat /\ P[n].arrival_time <= t
        BY <2>2, <3>1
      <4> QED
        BY <1>2, <2>2, <3>1, <4>1
    <3> QED
      BY <1>2, <2>1, <3>1
  <2>4. \A k \in DOMAIN I : I[k].at <= t2
    BY <2>2
  <2> QED
    BY <2>3, <2>4 DEF PastIn
<1> QED
  BY <1>3, <1>4, <1>6, <1>7, <1>8 DEF StoreInv

\* ... and joins the packets that wait for room in the store of buffer b.
LEMMA Enqueued ==
  ASSUME NEW P, NEW I, NEW It, NEW Q, NEW t, StoreInv(P, I, It, Q, t),
         NEW t2 \in Nat, t <= t2, NEW f \in Flow,
         NEW P2, Arrives(P, P2, f, t2),
         NEW b \in Buffer, f \in DOMAIN Mapping, Mapping[f] = b,
         NEW Q2, Q2 = [Q EXCEPT ![b] = Append(Q[b], Len(P) + 1)]
  PROVE  StoreInv(P2, I, It, Q2, t2)
<1>1. TypesIn(P, I, It, Q, t)
  BY DEF StoreInv
<1>2. /\ P2 \in Seq(Row) /\ Len(P) \in Nat /\ Len(P2) = Len(P) + 1
      /\ \A n \in 1 .. Len(P) : P2[n] = P[n] /\ To(P2, n) = To(P, n)
      /\ P2[Len(P2)] = Packet(f, t2) /\ To(P2, Len(P2)) = b
  <2>1. P \in Seq(Row)
    BY <1>1 DEF TypesIn
  <2>2. /\ P2 \in Seq(Row) /\ Len(P) \in Nat /\ Len(P2) = Len(P) + 1
        /\ \A n \in 1 .. Len(P) : P2[n] = P[n] /\ To(P2, n) = To(P, n)
    BY <2>1, Arriving
  <2>3. P2[Len(P2)] = Packet(f, t2)
    BY <2>1, Arriving
  <2>4. To(P2, Len(P2)) = b
    BY <2>1, Arriving
  <2> QED
    BY <2>2, <2>3, <2>4
<1>3. /\ \A c \in Buffer : \A n \in Inside(It, Q, c) : n \in 1 .. Len(P) /\ To(P, n) = c
      /\ \A k \in DOMAIN I : Listed(I, k) \subseteq 1 .. Len(P)
  BY DEF StoreInv, RoutedIn
<1>4. /\ Q2[b] \in Seq(Nat) /\ ToSet(Q2[b]) = ToSet(Q[b]) \cup {Len(P2)}
      /\ Ascending(Q2[b]) /\ Q2 \in [Buffer -> Seq(Nat)]
      /\ \A c \in Buffer \ {b} : Q2[c] = Q[c]
  <2>1. Q[b] \in Seq(Nat) /\ Q2[b] = Append(Q[b], Len(P2))
    BY <1>1, <1>2 DEF TypesIn
  <2>2. Ascending(Q[b]) /\ Below(ToSet(Q[b]), {Len(P2)})
    <3>1. \A x \in ToSet(Q[b]) : x \in 1 .. Len(P)
      BY <1>3 DEF Inside
    <3> QED
      BY <1>2, <3>1 DEF Below, StoreInv, OrderIn
  <2>3. Len(P2) \in Nat
    BY <1>2
  <2>4. Q2[b] \in Seq(Nat) /\ ToSet(Q2[b]) = ToSet(Q[b]) \cup {Len(P2)} /\ Ascending(Q2[b])
    BY <2>1, <2>2, <2>3, Appended
  <2> QED
    BY <1>1, <2>4 DEF TypesIn
<1>5. \A c \in Buffer : /\ c # b => Inside(It, Q2, c) = Inside(It, Q, c)
                        /\ c = b => Inside(It, Q2, c) = Inside(It, Q, c) \cup {Len(P2)}
  BY <1>4 DEF Inside
<1>6. TypesIn(P2, I, It, Q2, t2)
  BY <1>1, <1>2, <1>4 DEF TypesIn
<1>7. RoutedIn(P2, I, It, Q2)
  <2>1. ASSUME NEW c \in Buffer, NEW n \in Inside(It, Q2, c)
        PROVE  n \in 1 .. Len(P2) /\ To(P2, n) = c
    <3>1. CASE n \in Inside(It, Q, c)
      BY <1>2, <1>3, <3>1
    <3>2. CASE c = b /\ n = Len(P2)
      BY <1>2, <3>2
    <3> QED
      BY <1>5, <2>1, <3>1, <3>2
  <2>2. \A k \in DOMAIN I : Listed(I, k) \subseteq 1 .. Len(P2)
    BY <1>2, <1>3
  <2> QED
    BY <2>1, <2>2 DEF RoutedIn
<1>8. OrderIn(P2, I, It, Q2)
  <2>1. \A k, l \in DOMAIN I : k < l =>
          \A x \in Listed(I, k), y \in Listed(I, l) :
            To(P2, x) = To(P2, y) /\ To(P2, x) \in Buffer => x < y
    BY <1>2, <1>3 DEF StoreInv, OrderIn
  <2>2. ASSUME NEW c \in Buffer
        PROVE  Ascending(It[c]) /\ Ascending(Q2[c]) /\ Below(ToSet(It[c]), ToSet(Q2[c]))
    <3>1. Ascending(It[c]) /\ Ascending(Q[c]) /\ Below(ToSet(It[c]), ToSet(Q[c]))
      BY DEF StoreInv, OrderIn
    <3>2. \A x \in ToSet(It[c]) : x \in 1 .. Len(P)
      BY <1>3 DEF Inside
    <3> QED
      BY <1>2, <1>4, <3>1, <3>2 DEF Below
  <2>3. ASSUME NEW c \in Buffer, NEW k \in DOMAIN I, NEW x \in Listed(I, k), To(P2, x) = c
        PROVE  Below({x}, Inside(It, Q2, c))
    <3>1. x \in 1 .. Len(P) /\ To(P, x) = c
      BY <1>2, <1>3, <2>3
    <3>2. Below({x}, Inside(It, Q, c))
      BY <3>1 DEF StoreInv, OrderIn
    <3>3. ASSUME NEW y \in Inside(It, Q2, c) PROVE x < y
      <4>1. y \in Inside(It, Q, c) \/ y = Len(P2)
        BY <1>5
      <4> QED
        BY <1>2, <3>1, <3>2, <4>1 DEF Below
    <3> QED
      BY <3>3 DEF Below
  <2>4. ASSUME NEW c \in Buffer, NEW n \in 1 .. Len(P2), To(P2, n) = c
        PROVE  n \in Inside(It, Q2, c) \/ \E k \in DOMAIN I : n \in Listed(I, k)
    <3>1. CASE n \in 1 .. Len(P)
      <4>1. n \in Inside(It, Q, c) \/ \E k \in DOMAIN I : n \in Listed(I, k)
        BY <1>2, <2>4, <3>1 DEF StoreInv, OrderIn
      <4>2. Inside(It, Q, c) \subseteq Inside(It, Q2, c)
        BY <1>5
      <4> QED
        BY <4>1, <4>2
    <3>2. CASE n = Len(P2)
      BY <1>2, <1>5, <2>4, <3>2
    <3> QED
      BY <1>2, <3>1, <3>2
  <2> QED
    BY <2>1, <2>2, <2>3, <2>4 DEF StoreInv, OrderIn
<1>9. AgreeIn(P2, I, It, Q2)
  <2>1. Packet(f, t2).irq_time = None
    BY DEF Packet
  <2>2. ASSUME NEW n \in 1 .. Len(P2)
        PROVE  /\ \A k \in DOMAIN I : n \in Listed(I, k) => I[k].at = P2[n].irq_time
               /\ P2[n].irq_time # None => \E k \in DOMAIN I : n \in Listed(I, k)
    BY <1>2, <1>3, <2>1 DEF StoreInv, AgreeIn
  <2>3. ASSUME NEW c \in Buffer, NEW n \in Inside(It, Q2, c)
        PROVE  P2[n].irq_time = None
    <3>1. CASE n \in Inside(It, Q, c)
      BY <1>2, <1>3, <3>1 DEF StoreInv, AgreeIn
    <3> QED
      BY <1>2, <1>5, <2>1, <3>1
  <2> QED
    BY <2>2, <2>3 DEF AgreeIn
<1>10. PastIn(P2, I, t2)
  <2>1. Packet(f, t2).arrival_time = t2
    BY DEF Packet
  <2>2. /\ \A n \in 1 .. Len(P) : P[n].arrival_time \in Nat /\ P[n].arrival_time <= t
        /\ \A k \in DOMAIN I : I[k].at \in Nat /\ I[k].at <= t
        /\ t \in Nat
    BY <1>1, Times
  <2>3. ASSUME NEW n \in 1 .. Len(P2) PROVE P2[n].arrival_time <= t2
    <3>1. CASE n \in 1 .. Len(P)
      <4>1. P[n].arrival_time \in Nat /\ P[n].arrival_time <= t
        BY <2>2, <3>1
      <4> QED
        BY <1>2, <2>2, <3>1, <4>1
    <3> QED
      BY <1>2, <2>1, <3>1
  <2>4. \A k \in DOMAIN I : I[k].at <= t2
    BY <2>2
  <2> QED
    BY <2>3, <2>4 DEF PastIn
<1> QED
  BY <1>6, <1>7, <1>8, <1>9, <1>10 DEF StoreInv

\* Store.put admits the oldest of the packets that wait for room.
LEMMA Admits ==
  ASSUME NEW P, NEW I, NEW It, NEW Q, NEW t, StoreInv(P, I, It, Q, t),
         NEW b \in Buffer, Q[b] # << >>,
         NEW It2, It2 = [It EXCEPT ![b] = Append(It[b], Head(Q[b]))],
         NEW Q2, Q2 = [Q EXCEPT ![b] = Tail(Q[b])]
  PROVE  StoreInv(P, I, It2, Q2, t)
<1>1. TypesIn(P, I, It, Q, t)
  BY DEF StoreInv
<1>2. It[b] \in Seq(Nat) /\ Q[b] \in Seq(Nat)
  BY <1>1 DEF TypesIn
<1>3. /\ Tail(Q[b]) \in Seq(Nat) /\ Head(Q[b]) \in Nat
      /\ ToSet(Q[b]) = {Head(Q[b])} \cup ToSet(Tail(Q[b]))
      /\ Ascending(Q[b]) => Ascending(Tail(Q[b])) /\ Below({Head(Q[b])}, ToSet(Tail(Q[b])))
  BY <1>2, Shifted
<1>4. Ascending(It[b]) /\ Ascending(Q[b]) /\ Below(ToSet(It[b]), ToSet(Q[b]))
  BY DEF StoreInv, OrderIn
<1>5. Below(ToSet(It[b]), {Head(Q[b])})
  BY <1>3, <1>4 DEF Below
<1>6. PICK more : more = Append(It[b], Head(Q[b]))
  OBVIOUS
<1>7. more \in Seq(Nat) /\ ToSet(more) = ToSet(It[b]) \cup {Head(Q[b])} /\ Ascending(more)
  <2> DEFINE s == It[b]
             x == Head(Q[b])
  <2>1. s \in Seq(Nat) /\ x \in Nat /\ more = Append(s, x)
    BY <1>2, <1>3, <1>6
  <2> HIDE DEF s, x
  <2>2. /\ more \in Seq(Nat) /\ ToSet(more) = ToSet(s) \cup {x}
        /\ Ascending(s) /\ Below(ToSet(s), {x}) => Ascending(more)
    BY <2>1, Appended
  <2> USE DEF s, x
  <2> QED
    BY <1>4, <1>5, <2>2
<1>8. /\ It2 \in [Buffer -> Seq(Nat)] /\ Q2 \in [Buffer -> Seq(Nat)]
      /\ It2[b] = more /\ Q2[b] = Tail(Q[b])
      /\ \A c \in Buffer \ {b} : It2[c] = It[c] /\ Q2[c] = Q[c]
  BY <1>1, <1>3, <1>6, <1>7 DEF TypesIn
<1>9. \A c \in Buffer : Inside(It2, Q2, c) = Inside(It, Q, c)
  BY <1>3, <1>7, <1>8 DEF Inside
<1>10. Below(ToSet(more), ToSet(Tail(Q[b])))
  BY <1>3, <1>4, <1>7 DEF Below
<1>11. ASSUME NEW c \in Buffer
       PROVE  Ascending(It2[c]) /\ Ascending(Q2[c]) /\ Below(ToSet(It2[c]), ToSet(Q2[c]))
  <2>1. CASE c = b
    BY <1>3, <1>4, <1>7, <1>8, <1>10, <2>1
  <2>2. CASE c # b
    BY <1>8, <2>2 DEF StoreInv, OrderIn
  <2> QED
    BY <2>1, <2>2
<1>12. OrderIn(P, I, It2, Q2)
  BY <1>9, <1>11 DEF StoreInv, OrderIn
<1>13. TypesIn(P, I, It2, Q2, t)
  BY <1>1, <1>8 DEF TypesIn
<1>14. RoutedIn(P, I, It2, Q2) /\ AgreeIn(P, I, It2, Q2)
  BY <1>9 DEF StoreInv, RoutedIn, AgreeIn
<1> QED
  BY <1>12, <1>13, <1>14 DEF StoreInv

LEMMA Raising ==
  ASSUME NEW I \in Seq(Irq), NEW t \in Nat, NEW batch \in Seq(Nat), NEW reason \in Reason,
         NEW I2, Raises(I, I2, t, batch, reason)
  PROVE  /\ I2 \in Seq(Irq) /\ Len(I) \in Nat /\ Len(I2) = Len(I) + 1 /\ Extends(I, I2)
         /\ DOMAIN I = 1 .. Len(I) /\ DOMAIN I2 = 1 .. Len(I2)
         /\ \A k \in DOMAIN I : k \in DOMAIN I2 /\ I2[k] = I[k] /\ Listed(I2, k) = Listed(I, k)
         /\ I2[Len(I2)].at = t /\ I2[Len(I2)].batch = batch /\ I2[Len(I2)].reason = reason
         /\ Listed(I2, Len(I2)) = ToSet(batch)
<1>1. PICK irq : irq = Interrupt(t, batch, reason)
  OBVIOUS
<1>2. irq \in Irq /\ irq.at = t /\ irq.batch = batch /\ irq.reason = reason
  BY <1>1 DEF Interrupt, Irq
<1>3. I2 = Append(I, irq)
  BY <1>1 DEF Raises
<1>4. /\ I2 \in Seq(Irq) /\ Len(I) \in Nat /\ Len(I2) = Len(I) + 1
      /\ DOMAIN I = 1 .. Len(I) /\ DOMAIN I2 = 1 .. Len(I2)
      /\ I2[Len(I2)] = irq /\ \A k \in DOMAIN I : k \in DOMAIN I2 /\ I2[k] = I[k]
  BY <1>2, <1>3
<1> QED
  BY <1>2, <1>4 DEF Extends, Listed

Unlisted(P, batch) == \A n \in ToSet(batch) : n \in 1 .. Len(P) /\ P[n].irq_time = None

\* An interrupt is raised for packets that no interrupt has listed.
LEMMA Listing ==
  ASSUME NEW P, NEW I, NEW It, NEW Q, NEW t, StoreInv(P, I, It, Q, t),
         NEW batch \in Seq(Nat), NEW reason \in Reason,
         Unlisted(P, batch),
         NEW P2, StampedBy(P, P2, ToSet(batch), t),
         NEW I2, Raises(I, I2, t, batch, reason)
  PROVE  /\ P2 \in Seq(Row) /\ I2 \in Seq(Irq) /\ t \in Nat /\ PastIn(P2, I2, t)
         /\ \A n \in 1 .. Len(P) : To(P2, n) = To(P, n)
         /\ \A k \in DOMAIN I2 : Listed(I2, k) \subseteq 1 .. Len(P)
         /\ \A n \in 1 .. Len(P) :
              /\ \A k \in DOMAIN I2 : n \in Listed(I2, k) => I2[k].at = P2[n].irq_time
              /\ P2[n].irq_time # None => \E k \in DOMAIN I2 : n \in Listed(I2, k)
<1>1. t \in Nat /\ I \in Seq(Irq) /\ None \notin Nat
  BY ConfigAssumption DEF StoreInv, TypesIn
<1>2. /\ I2 \in Seq(Irq) /\ Len(I) \in Nat /\ Len(I2) = Len(I) + 1
      /\ DOMAIN I = 1 .. Len(I) /\ DOMAIN I2 = 1 .. Len(I2)
      /\ \A k \in DOMAIN I : k \in DOMAIN I2 /\ I2[k] = I[k] /\ Listed(I2, k) = Listed(I, k)
      /\ I2[Len(I2)].at = t /\ Listed(I2, Len(I2)) = ToSet(batch)
  BY <1>1, Raising
<1>3. \A k \in DOMAIN I2 : k \in DOMAIN I \/ k = Len(I2)
  BY <1>2
<1>4. /\ P2 \in Seq(Row) /\ Len(P2) = Len(P)
      /\ \A n \in 1 .. Len(P) : To(P2, n) = To(P, n)
      /\ \A n \in 1 .. Len(P) : P2[n].arrival_time = P[n].arrival_time
      /\ \A n \in ToSet(batch) : P2[n].irq_time = t /\ P[n].irq_time = None
      /\ \A n \in 1 .. Len(P) : n \notin ToSet(batch) => P2[n].irq_time = P[n].irq_time
  BY DEF StampedBy, To, Unlisted
<1>5. PastIn(P2, I2, t)
  <2>1. \A n \in 1 .. Len(P) : P[n].arrival_time <= t
    BY DEF StoreInv, PastIn
  <2>2. \A k \in DOMAIN I : I[k].at <= t
    BY DEF StoreInv, PastIn
  <2> QED
    <3>1. \A n \in 1 .. Len(P2) : P2[n].arrival_time <= t
      BY <1>4, <2>1
    <3>2. ASSUME NEW k \in DOMAIN I2 PROVE I2[k].at <= t
      BY <1>1, <1>2, <1>3, <2>2
    <3> QED
      BY <3>1, <3>2 DEF PastIn
<1>6. \A k \in DOMAIN I2 : Listed(I2, k) \subseteq 1 .. Len(P)
  BY <1>2, <1>3 DEF StoreInv, RoutedIn, Unlisted
<1>7. \A n \in 1 .. Len(P) :
        /\ \A k \in DOMAIN I : n \in Listed(I, k) => I[k].at = P[n].irq_time
        /\ P[n].irq_time # None => \E k \in DOMAIN I : n \in Listed(I, k)
  BY DEF StoreInv, AgreeIn
<1>8. \A k \in DOMAIN I : I[k].at # None
  BY <1>1, Times
<1>9. ASSUME NEW n \in 1 .. Len(P), NEW k \in DOMAIN I2, n \in Listed(I2, k)
      PROVE  I2[k].at = P2[n].irq_time
  <2>1. CASE k = Len(I2)
    BY <1>2, <1>4, <1>9, <2>1
  <2>2. CASE k \in DOMAIN I
    BY <1>2, <1>4, <1>7, <1>8, <1>9, <2>2
  <2> QED
    BY <1>3, <2>1, <2>2
<1>10. ASSUME NEW n \in 1 .. Len(P), P2[n].irq_time # None
       PROVE  \E k \in DOMAIN I2 : n \in Listed(I2, k)
  <2>1. CASE n \in ToSet(batch)
    BY <1>2, <2>1
  <2>2. CASE n \notin ToSet(batch)
    BY <1>2, <1>4, <1>7, <1>10, <2>2
  <2> QED
    BY <2>1, <2>2
<1> QED
  BY <1>1, <1>2, <1>4, <1>5, <1>6, <1>9, <1>10

\* flush() of buffer b.
LEMMA Flushed ==
  ASSUME NEW P, NEW I, NEW It, NEW Q, NEW t, StoreInv(P, I, It, Q, t),
         NEW b \in Buffer, NEW reason \in Reason,
         NEW P2, StampedBy(P, P2, ToSet(It[b]), t),
         NEW I2, Raises(I, I2, t, It[b], reason),
         NEW It2, It2 = [It EXCEPT ![b] = << >>]
  PROVE  StoreInv(P2, I2, It2, Q, t)
<1>1. TypesIn(P, I, It, Q, t) /\ It[b] \in Seq(Nat)
  BY DEF StoreInv, TypesIn
<1>2. /\ It2 \in [Buffer -> Seq(Nat)] /\ ToSet(It2[b]) = {} /\ Ascending(It2[b])
      /\ \A c \in Buffer \ {b} : It2[c] = It[c]
  BY <1>1, NoElements DEF TypesIn
<1>3. /\ \A c \in Buffer : Inside(It2, Q, c) \subseteq Inside(It, Q, c)
      /\ \A c \in Buffer : Inside(It, Q, c) \subseteq Inside(It2, Q, c) \cup
                                    (IF c = b THEN ToSet(It[b]) ELSE {})
      /\ Inside(It2, Q, b) = ToSet(Q[b])
  BY <1>2 DEF Inside
<1>4. /\ \A c \in Buffer : \A n \in Inside(It, Q, c) : n \in 1 .. Len(P) /\ To(P, n) = c
      /\ \A k \in DOMAIN I : Listed(I, k) \subseteq 1 .. Len(P)
      /\ \A c \in Buffer : \A n \in Inside(It, Q, c) : P[n].irq_time = None
  BY DEF StoreInv, RoutedIn, AgreeIn
<1>5. \A n \in ToSet(It[b]) : n \in 1 .. Len(P) /\ To(P, n) = b /\ P[n].irq_time = None
  BY <1>4 DEF Inside
<1>6. /\ P2 \in Seq(Row) /\ I2 \in Seq(Irq) /\ t \in Nat /\ PastIn(P2, I2, t)
      /\ \A n \in 1 .. Len(P) : To(P2, n) = To(P, n)
      /\ \A k \in DOMAIN I2 : Listed(I2, k) \subseteq 1 .. Len(P)
      /\ \A n \in 1 .. Len(P) :
           /\ \A k \in DOMAIN I2 : n \in Listed(I2, k) => I2[k].at = P2[n].irq_time
           /\ P2[n].irq_time # None => \E k \in DOMAIN I2 : n \in Listed(I2, k)
  <2>1. Unlisted(P, It[b])
    BY <1>5 DEF Unlisted
  <2>2. PICK batch : batch = It[b]
    OBVIOUS
  <2> QED
    BY <1>1, <2>1, <2>2, Listing
<1>7. /\ Len(P2) = Len(P)
      /\ \A n \in 1 .. Len(P) : n \notin ToSet(It[b]) => P2[n].irq_time = P[n].irq_time
  BY DEF StampedBy
<1>8. /\ Len(I) \in Nat /\ Len(I2) = Len(I) + 1
      /\ DOMAIN I = 1 .. Len(I) /\ DOMAIN I2 = 1 .. Len(I2)
      /\ \A k \in DOMAIN I : k \in DOMAIN I2 /\ I2[k] = I[k] /\ Listed(I2, k) = Listed(I, k)
      /\ I2[Len(I2)].batch = It[b] /\ Listed(I2, Len(I2)) = ToSet(It[b])
  <2>1. I \in Seq(Irq) /\ t \in Nat
    BY <1>1 DEF TypesIn
  <2> QED
    BY <1>1, <2>1, Raising
<1>9. \A k \in DOMAIN I2 : k \in DOMAIN I \/ k = Len(I2)
  BY <1>8
<1>10. TypesIn(P2, I2, It2, Q, t)
  BY <1>1, <1>2, <1>6 DEF TypesIn
<1>11. RoutedIn(P2, I2, It2, Q)
  BY <1>3, <1>4, <1>6, <1>7 DEF RoutedIn
<1>12. AgreeIn(P2, I2, It2, Q)
  <2>1. ASSUME NEW c \in Buffer, NEW n \in Inside(It2, Q, c)
        PROVE  P2[n].irq_time = None
    <3>1. n \in Inside(It, Q, c) /\ n \in 1 .. Len(P) /\ To(P, n) = c /\ P[n].irq_time = None
      BY <1>3, <1>4, <2>1
    <3>2. n \notin ToSet(It[b])
      <4>1. SUFFICES ASSUME n \in ToSet(It[b]) PROVE FALSE
        OBVIOUS
      <4>2. c = b /\ n \in ToSet(Q[b])
        BY <1>3, <1>5, <2>1, <3>1, <4>1
      <4>3. Below(ToSet(It[b]), ToSet(Q[b]))
        BY DEF StoreInv, OrderIn
      <4>4. n < n
        BY <4>1, <4>2, <4>3 DEF Below
      <4> QED
        BY <3>1, <4>4
    <3> QED
      BY <1>7, <3>1, <3>2
  <2> QED
    BY <1>6, <1>7, <2>1 DEF AgreeIn
<1>13. OrderIn(P2, I2, It2, Q)
  <2>1. ASSUME NEW k \in DOMAIN I2 PROVE Ascending(I2[k].batch)
    BY <1>8, <1>9 DEF StoreInv, OrderIn
  <2>2. ASSUME NEW k \in DOMAIN I2, NEW l \in DOMAIN I2, k < l,
               NEW x \in Listed(I2, k), NEW y \in Listed(I2, l),
               To(P2, x) = To(P2, y), To(P2, x) \in Buffer
        PROVE  x < y
    <3>1. k \in DOMAIN I /\ x \in Listed(I, k) /\ x \in 1 .. Len(P) /\ y \in 1 .. Len(P)
      BY <1>6, <1>8, <1>9, <2>2
    <3>2. To(P, x) = To(P, y) /\ To(P, x) \in Buffer
      BY <1>6, <2>2, <3>1
    <3>3. CASE l \in DOMAIN I
      BY <1>8, <2>2, <3>1, <3>2, <3>3 DEF StoreInv, OrderIn
    <3>4. CASE l = Len(I2)
      <4>1. y \in ToSet(It[b]) /\ y \in Inside(It, Q, b) /\ To(P, y) = b
        BY <1>5, <1>8, <3>4 DEF Inside
      <4>2. Below({x}, Inside(It, Q, b))
        BY <3>1, <3>2, <4>1 DEF StoreInv, OrderIn
      <4> QED
        BY <4>1, <4>2 DEF Below
    <3> QED
      BY <1>9, <3>3, <3>4
  <2>3. ASSUME NEW c \in Buffer
        PROVE  Ascending(It2[c]) /\ Ascending(Q[c]) /\ Below(ToSet(It2[c]), ToSet(Q[c]))
    <3>1. Ascending(It[c]) /\ Ascending(Q[c]) /\ Below(ToSet(It[c]), ToSet(Q[c]))
      BY DEF StoreInv, OrderIn
    <3> QED
      BY <1>2, <3>1 DEF Below
  <2>4. ASSUME NEW c \in Buffer, NEW k \in DOMAIN I2, NEW x \in Listed(I2, k), To(P2, x) = c
        PROVE  Below({x}, Inside(It2, Q, c))
    <3>1. x \in 1 .. Len(P) /\ To(P, x) = c
      BY <1>6, <2>4
    <3>2. CASE k \in DOMAIN I
      <4>1. x \in Listed(I, k)
        BY <1>8, <3>2
      <4>2. Below({x}, Inside(It, Q, c))
        BY <3>1, <3>2, <4>1 DEF StoreInv, OrderIn
      <4> QED
        BY <1>3, <4>2 DEF Below
    <3>3. CASE k = Len(I2)
      <4>1. x \in ToSet(It[b]) /\ c = b
        BY <1>5, <1>8, <3>1, <3>3
      <4>2. Below(ToSet(It[b]), ToSet(Q[b]))
        BY DEF StoreInv, OrderIn
      <4> QED
        BY <1>3, <4>1, <4>2 DEF Below
    <3> QED
      BY <1>9, <3>2, <3>3
  <2>5. ASSUME NEW c \in Buffer, NEW n \in 1 .. Len(P2), To(P2, n) = c
        PROVE  n \in Inside(It2, Q, c) \/ \E k \in DOMAIN I2 : n \in Listed(I2, k)
    <3>1. n \in Inside(It, Q, c) \/ \E k \in DOMAIN I : n \in Listed(I, k)
      BY <1>6, <1>7, <2>5 DEF StoreInv, OrderIn
    <3>2. n \in Inside(It2, Q, c) \/ n \in Listed(I2, Len(I2)) \/ \E k \in DOMAIN I : n \in Listed(I, k)
      BY <1>3, <1>8, <3>1
    <3> QED
      BY <1>8, <3>2
  <2> QED
    BY <2>1, <2>2, <2>3, <2>4, <2>5 DEF OrderIn
<1> QED
  BY <1>6, <1>10, <1>11, <1>12, <1>13 DEF StoreInv

\* An interrupt for packet n of a pass-through flow alone.
LEMMA Passed ==
  ASSUME NEW P, NEW I, NEW It, NEW Q, NEW t, StoreInv(P, I, It, Q, t),
         NEW n \in 1 .. Len(P), To(P, n) \notin Buffer, P[n].irq_time = None,
         NEW batch \in Seq(Nat), ToSet(batch) = {n}, Ascending(batch), NEW reason \in Reason,
         NEW P2, StampedBy(P, P2, ToSet(batch), t),
         NEW I2, Raises(I, I2, t, batch, reason)
  PROVE  StoreInv(P2, I2, It, Q, t)
<1>1. TypesIn(P, I, It, Q, t)
  BY DEF StoreInv
<1>2. batch \in Seq(Nat) /\ ToSet(batch) = {n} /\ Ascending(batch)
  OBVIOUS
<1>3. /\ \A c \in Buffer : \A m \in Inside(It, Q, c) : m \in 1 .. Len(P) /\ To(P, m) = c
      /\ \A c \in Buffer : \A m \in Inside(It, Q, c) : P[m].irq_time = None
  BY DEF StoreInv, RoutedIn, AgreeIn
<1>4. /\ P2 \in Seq(Row) /\ I2 \in Seq(Irq) /\ t \in Nat /\ PastIn(P2, I2, t)
      /\ \A m \in 1 .. Len(P) : To(P2, m) = To(P, m)
      /\ \A k \in DOMAIN I2 : Listed(I2, k) \subseteq 1 .. Len(P)
      /\ \A m \in 1 .. Len(P) :
           /\ \A k \in DOMAIN I2 : m \in Listed(I2, k) => I2[k].at = P2[m].irq_time
           /\ P2[m].irq_time # None => \E k \in DOMAIN I2 : m \in Listed(I2, k)
  <2>1. Unlisted(P, batch)
    BY <1>2 DEF Unlisted
  <2>2. StampedBy(P, P2, ToSet(batch), t) /\ Raises(I, I2, t, batch, reason)
    OBVIOUS
  <2> QED
    BY ONLY <2>1, <2>2, StoreInv(P, I, It, Q, t), batch \in Seq(Nat), reason \in Reason, Listing
<1>5. /\ Len(P2) = Len(P)
      /\ \A m \in 1 .. Len(P) : m # n => P2[m].irq_time = P[m].irq_time
  BY <1>2 DEF StampedBy
<1>6. /\ Len(I) \in Nat /\ Len(I2) = Len(I) + 1
      /\ DOMAIN I = 1 .. Len(I) /\ DOMAIN I2 = 1 .. Len(I2)
      /\ \A k \in DOMAIN I : k \in DOMAIN I2 /\ I2[k] = I[k] /\ Listed(I2, k) = Listed(I, k)
      /\ I2[Len(I2)].batch = batch /\ Listed(I2, Len(I2)) = {n}
  <2>1. I \in Seq(Irq) /\ t \in Nat
    BY <1>1 DEF TypesIn
  <2> QED
    BY <1>2, <2>1, Raising
<1>7. \A k \in DOMAIN I2 : k \in DOMAIN I \/ k = Len(I2)
  BY <1>6
<1>8. TypesIn(P2, I2, It, Q, t)
  BY <1>1, <1>4 DEF TypesIn
<1>9. RoutedIn(P2, I2, It, Q)
  BY <1>3, <1>4, <1>5 DEF RoutedIn
<1>10. AgreeIn(P2, I2, It, Q)
  <2>1. ASSUME NEW c \in Buffer, NEW m \in Inside(It, Q, c) PROVE P2[m].irq_time = None
    <3>1. m \in 1 .. Len(P) /\ m # n /\ P[m].irq_time = None
      BY <1>3
    <3> QED
      BY <1>5, <3>1
  <2> QED
    BY <1>4, <1>5, <2>1 DEF AgreeIn
<1>11. OrderIn(P2, I2, It, Q)
  <2>1. ASSUME NEW k \in DOMAIN I2 PROVE Ascending(I2[k].batch)
    BY <1>2, <1>6, <1>7 DEF StoreInv, OrderIn
  <2>2. ASSUME NEW k \in DOMAIN I2, NEW l \in DOMAIN I2, k < l,
               NEW x \in Listed(I2, k), NEW y \in Listed(I2, l),
               To(P2, x) = To(P2, y), To(P2, x) \in Buffer
        PROVE  x < y
    <3>1. x \in 1 .. Len(P) /\ y \in 1 .. Len(P)
      BY <1>4
    <3>2. To(P, x) = To(P, y) /\ To(P, x) \in Buffer /\ x # n /\ y # n
      BY <1>4, <2>2, <3>1
    <3>3. k \in DOMAIN I /\ l \in DOMAIN I /\ x \in Listed(I, k) /\ y \in Listed(I, l)
      BY <1>6, <1>7, <3>2
    <3> QED
      BY <2>2, <3>2, <3>3 DEF StoreInv, OrderIn
  <2>3. ASSUME NEW c \in Buffer, NEW k \in DOMAIN I2, NEW x \in Listed(I2, k), To(P2, x) = c
        PROVE  Below({x}, Inside(It, Q, c))
    <3>1. x \in 1 .. Len(P) /\ To(P, x) = c
      BY <1>4, <2>3
    <3>2. k \in DOMAIN I /\ x \in Listed(I, k)
      BY <1>6, <1>7, <3>1
    <3> QED
      BY <3>1, <3>2 DEF StoreInv, OrderIn
  <2>4. ASSUME NEW c \in Buffer, NEW m \in 1 .. Len(P2), To(P2, m) = c
        PROVE  m \in Inside(It, Q, c) \/ \E k \in DOMAIN I2 : m \in Listed(I2, k)
    <3>1. m \in Inside(It, Q, c) \/ \E k \in DOMAIN I : m \in Listed(I, k)
      BY <1>4, <1>5, <2>4 DEF StoreInv, OrderIn
    <3> QED
      BY <1>6, <3>1
  <2>5. \A c \in Buffer : Ascending(It[c]) /\ Ascending(Q[c]) /\ Below(ToSet(It[c]), ToSet(Q[c]))
    BY DEF StoreInv, OrderIn
  <2> QED
    BY <2>1, <2>2, <2>3, <2>4, <2>5 DEF OrderIn
<1> QED
  BY <1>4, <1>8, <1>9, <1>10, <1>11 DEF StoreInv

-----------------------------------------------------------------------------
(* The first half of the invariant, handler by handler                     *)

Kept == StoreInv(packets, interrupts, items, put_queue, now)

\* The traces as the rest of the invariant sees them: rows and interrupts are
\* never removed, and what is new is of this instant.
TracesGrow ==
  /\ Len(packets) \in Nat /\ Grows(packets, packets') /\ Extends(interrupts, interrupts')
  /\ \A n \in 1 .. Len(packets) : To(packets', n) = To(packets, n)
  /\ \A n \in 1 .. Len(packets') :
       n \in 1 .. Len(packets) \/ packets'[n].arrival_time = now'

LEMMA TimePasses ==
  ASSUME NEW P, NEW I, NEW It, NEW Q, NEW t, StoreInv(P, I, It, Q, t),
         NEW t2 \in Nat, t <= t2
  PROVE  StoreInv(P, I, It, Q, t2)
<1>1. /\ \A n \in 1 .. Len(P) : P[n].arrival_time \in Nat /\ P[n].arrival_time <= t
      /\ \A k \in DOMAIN I : I[k].at \in Nat /\ I[k].at <= t
      /\ t \in Nat
  BY Times
<1>2. PastIn(P, I, t2)
  BY <1>1 DEF PastIn
<1>3. TypesIn(P, I, It, Q, t2)
  BY DEF StoreInv, TypesIn
<1> QED
  BY <1>2, <1>3 DEF StoreInv

LEMMA StampedRows ==
  ASSUME NEW list \in Seq(Row), NEW batch, now' \in Nat
  PROVE  StampedBy(list, Stamped(list, batch), ToSet(batch), now')
<1>1. PICK time : time = now'
  OBVIOUS
<1>2. ASSUME NEW row \in Row
      PROVE  /\ [row EXCEPT !.irq_time = time] \in Row
             /\ [row EXCEPT !.irq_time = time].flow = row.flow
             /\ [row EXCEPT !.irq_time = time].arrival_time = row.arrival_time
             /\ [row EXCEPT !.irq_time = time].irq_time = time
  BY <1>1, <1>2 DEF Row
<1> DEFINE new(n) == IF n \in ToSet(batch) THEN [list[n] EXCEPT !.irq_time = time] ELSE list[n]
<1>3. Stamped(list, batch) = [n \in DOMAIN list |-> new(n)]
  BY <1>1 DEF Stamped
<1>4. ASSUME NEW n \in 1 .. Len(list)
      PROVE  /\ new(n) \in Row
             /\ new(n).flow = list[n].flow
             /\ new(n).arrival_time = list[n].arrival_time
             /\ new(n).irq_time = IF n \in ToSet(batch) THEN time ELSE list[n].irq_time
  <2>1. list[n] \in Row
    OBVIOUS
  <2> QED
    BY <1>2, <2>1
<1> HIDE DEF new
<1>5. DOMAIN list = 1 .. Len(list) /\ Len(list) \in Nat
  OBVIOUS
<1>6. /\ Stamped(list, batch) \in Seq(Row)
      /\ Len(Stamped(list, batch)) = Len(list)
      /\ \A n \in 1 .. Len(list) : Stamped(list, batch)[n] = new(n)
  BY <1>3, <1>4, <1>5
<1> QED
  BY <1>1, <1>4, <1>6 DEF StampedBy

LEMMA SameRows ==
  ASSUME NEW list \in Seq(Row) PROVE Stamped(list, << >>) = list
BY NoElements DEF Stamped

LEMMA Stores ==
  ASSUME Kept
  PROVE  /\ packets \in Seq(Row) /\ interrupts \in Seq(Irq) /\ now \in Nat
         /\ items \in [Buffer -> Seq(Nat)] /\ put_queue \in [Buffer -> Seq(Nat)]
         /\ Len(packets) \in Nat
BY DEF Kept, StoreInv, TypesIn

LEMMA QuietKept ==
  ASSUME Kept, now' \in Nat, now <= now',
         UNCHANGED <<items, put_queue, packets, interrupts>>
  PROVE  Kept' /\ TracesGrow
<1>1. StoreInv(packets, interrupts, items, put_queue, now')
  BY TimePasses DEF Kept
<1>2. TracesGrow
  BY Stores DEF TracesGrow, Grows, Extends
<1> QED
  BY <1>1, <1>2 DEF Kept

LEMMA DropKept ==
  ASSUME Kept, now' \in Nat, now <= now', NEW flow \in Flow, NEW e, DropUnknown(e, flow)
  PROVE  Kept' /\ TracesGrow /\ Len(packets') = Len(packets) + 1 /\ To(packets', Len(packets')) \notin Buffer
<1>1. /\ Arrives(packets, packets', flow, now') /\ UNCHANGED <<items, put_queue, interrupts>>
      /\ flow \notin DOMAIN Mapping
  BY DEF DropUnknown, bufferVars, Arrived, Arrives, Packet
<1>2. StoreInv(packets', interrupts, items, put_queue, now')
  BY <1>1, ArrivedElsewhere DEF Kept
<1>3. /\ packets \in Seq(Row) /\ Len(packets) \in Nat
      /\ Len(packets') = Len(packets) + 1 /\ Grows(packets, packets')
      /\ \A n \in 1 .. Len(packets) : packets'[n] = packets[n] /\ To(packets', n) = To(packets, n)
      /\ packets'[Len(packets')] = Packet(flow, now')
      /\ To(packets', Len(packets')) = None
  <2>1. packets \in Seq(Row)
    BY Stores
  <2> QED
    BY <1>1, <2>1, Arriving
<1>4. Packet(flow, now').arrival_time = now'
  BY DEF Packet
<1>5. TracesGrow
  BY <1>1, <1>3, <1>4 DEF TracesGrow, Extends
<1> QED
  BY <1>1, <1>2, <1>3, <1>5, ConfigAssumption DEF Kept

\* A new row, stamped or not.
LEMMA NewRow ==
  ASSUME NEW P \in Seq(Row), NEW f \in Flow, NEW t2 \in Nat,
         NEW P1, Arrives(P, P1, f, t2), NEW S,
         NEW P2, P2 = P1 \/ StampedBy(P1, P2, S, t2)
  PROVE  /\ Len(P) \in Nat /\ Len(P2) = Len(P) + 1 /\ Grows(P, P2)
         /\ \A n \in 1 .. Len(P) : To(P2, n) = To(P, n)
         /\ P2[Len(P2)].arrival_time = t2
         /\ f \in DOMAIN Mapping => To(P2, Len(P2)) = Mapping[f]
<1>1. /\ P1 \in Seq(Row) /\ Len(P) \in Nat /\ Len(P1) = Len(P) + 1 /\ Grows(P, P1)
      /\ \A n \in 1 .. Len(P) : To(P1, n) = To(P, n)
      /\ P1[Len(P1)] = Packet(f, t2)
      /\ f \in DOMAIN Mapping => To(P1, Len(P1)) = Mapping[f]
  BY Arriving
<1>2. Packet(f, t2).arrival_time = t2
  BY DEF Packet
<1>3. /\ Len(P2) = Len(P1)
      /\ \A n \in 1 .. Len(P1) : /\ P2[n].flow = P1[n].flow
                                 /\ P2[n].arrival_time = P1[n].arrival_time
  BY DEF StampedBy
<1>4. \A n \in 1 .. Len(P1) : To(P2, n) = To(P1, n)
  BY <1>3 DEF To
<1> QED
  BY <1>1, <1>2, <1>3, <1>4 DEF Grows

LEMMA PassKept ==
  ASSUME Kept, now' \in Nat, now <= now', NEW flow \in Flow, NEW e, PassOn(e, flow)
  PROVE  /\ Kept' /\ TracesGrow
         /\ Len(packets') = Len(packets) + 1 /\ To(packets', Len(packets')) \notin Buffer
         /\ \E batch \in Seq(Nat) :
              /\ Raises(interrupts, interrupts', now', batch, None)
              /\ batch # << >> /\ ToSet(batch) = {Len(packets')}
<1>1. PICK batch : batch = <<Len(packets) + 1>>
  OBVIOUS
<1>2. PICK P1 : P1 = Arrived(flow)
  OBVIOUS
<1>3. /\ packets' = Stamped(P1, batch) /\ Raise(batch, None) /\ UNCHANGED <<items, put_queue>>
      /\ flow \in DOMAIN Mapping /\ Mapping[flow] \notin Buffer
  BY <1>1, <1>2, ConfigAssumption DEF PassOn, bufferVars
<1>4. /\ Arrives(packets, P1, flow, now') /\ packets \in Seq(Row) /\ interrupts \in Seq(Irq)
      /\ Len(packets) \in Nat
  BY <1>2, Stores DEF Arrived, Arrives, Packet
<1>5. /\ P1 \in Seq(Row) /\ Len(P1) = Len(packets) + 1
      /\ P1[Len(P1)] = Packet(flow, now')
      /\ To(P1, Len(P1)) = Mapping[flow]
  BY <1>3, <1>4, Arriving
<1>6. StoreInv(P1, interrupts, items, put_queue, now')
  BY <1>3, <1>4, ArrivedElsewhere DEF Kept
<1>7. /\ batch \in Seq(Nat) /\ ToSet(batch) = {Len(P1)} /\ Ascending(batch) /\ batch # << >>
  BY <1>1, <1>4, <1>5 DEF ToSet, Ascending
<1>8. /\ Raises(interrupts, interrupts', now', batch, None)
      /\ StampedBy(P1, packets', ToSet(batch), now')
  BY <1>3, <1>5, StampedRows DEF Raise, Raises, Interrupt
<1>9. /\ Len(P1) \in 1 .. Len(P1) /\ To(P1, Len(P1)) \notin Buffer
      /\ P1[Len(P1)].irq_time = None /\ None \in Reason
  BY <1>3, <1>4, <1>5 DEF Packet, Reason
<1>10. StoreInv(packets', interrupts', items, put_queue, now')
  BY ONLY <1>6, <1>7, <1>8, <1>9, Passed
<1>11. /\ Len(packets') = Len(packets) + 1 /\ Grows(packets, packets')
       /\ \A n \in 1 .. Len(packets) : To(packets', n) = To(packets, n)
       /\ packets'[Len(packets')].arrival_time = now'
       /\ To(packets', Len(packets')) = Mapping[flow]
  BY <1>3, <1>4, <1>8, NewRow
<1>12. Extends(interrupts, interrupts')
  BY <1>4, <1>7, <1>8, <1>9, Raising
<1>13. TracesGrow
  BY <1>4, <1>11, <1>12 DEF TracesGrow
<1> QED
  BY <1>3, <1>5, <1>7, <1>8, <1>10, <1>11, <1>13 DEF Kept

\* A timer flushes buffer b.
LEMMA FlushKept ==
  ASSUME Kept, now' \in Nat, now <= now', NEW b \in Buffer, NEW reason \in Reason,
         packets' = Stamped(packets, items[b]), Raise(items[b], reason),
         items' = [items EXCEPT ![b] = << >>], put_queue' = put_queue
  PROVE  /\ Kept' /\ TracesGrow /\ Len(packets') = Len(packets)
         /\ Raises(interrupts, interrupts', now', items[b], reason)
<1>1. /\ packets \in Seq(Row) /\ interrupts \in Seq(Irq) /\ Len(packets) \in Nat
      /\ items[b] \in Seq(Nat)
  BY Stores
<1>2. StoreInv(packets, interrupts, items, put_queue, now')
  BY TimePasses DEF Kept
<1>3. /\ Raises(interrupts, interrupts', now', items[b], reason)
      /\ StampedBy(packets, packets', ToSet(items[b]), now')
  BY <1>1, StampedRows DEF Raise, Raises, Interrupt
<1>4. StoreInv(packets', interrupts', items', put_queue, now')
  BY <1>2, <1>3, Flushed
<1>5. Extends(interrupts, interrupts')
  BY <1>1, <1>3, Raising
<1>6. TracesGrow /\ Len(packets') = Len(packets)
  BY <1>1, <1>3, <1>5 DEF TracesGrow, Grows, StampedBy, To
<1> QED
  BY <1>3, <1>4, <1>6 DEF Kept

LEMMA BufferConfig ==
  ASSUME NEW b \in Buffer
  PROVE  /\ Config[b].capacity \in Nat \ {0} /\ Config[b].offset \in Nat
         /\ Config[b].packet_limit # None => Config[b].packet_limit \in Nat \ {0}
         /\ Config[b].packet_time_limit # None => Config[b].packet_time_limit \in Nat \ {0}
         /\ Config[b].absolute_time_limit # None => Config[b].absolute_time_limit \in Nat \ {0}
         /\ Config[b].offset # 0 => Config[b].absolute_time_limit # None
BY ConfigAssumption DEF Limit

\* What put() leaves: content is the store of b before a flush.
PutLeaves(b, content) ==
  /\ content \in Seq(Nat) /\ content # << >> /\ Last(content) \in 1 .. Len(packets')
  /\ \A n \in ToSet(content) : To(packets', n) = b
  /\ HasRoom(b)  => /\ Len(content) = Len(items[b]) + 1
                     /\ Len(put_queue'[b]) = Len(put_queue[b])
  /\ ~HasRoom(b) => content = items[b] /\ Len(put_queue'[b]) = Len(put_queue[b]) + 1
  /\ HasRoom(b) /\ put_queue[b] = << >> =>
       /\ put_queue'[b] = << >> /\ Last(content) = Len(packets')
       /\ ToSet(content) = ToSet(items[b]) \cup {Len(packets')}
  /\ \A c \in Buffer \ {b} : items'[c] = items[c] /\ put_queue'[c] = put_queue[c]
  /\ IF LimitReached(b, content)
       THEN /\ items'[b] = << >>
            /\ Raises(interrupts, interrupts', now', content, "packet_limit")
       ELSE items'[b] = content /\ interrupts' = interrupts

LEMMA PutKept ==
  ASSUME Kept, now' \in Nat, now <= now', NEW flow \in Flow, NEW e, Put(e, flow),
         NEW b, b = Mapping[flow]
  PROVE  /\ Kept' /\ TracesGrow /\ b \in Buffer
         /\ Len(packets') = Len(packets) + 1 /\ To(packets', Len(packets')) = b
         /\ \E content : PutLeaves(b, content)
<1>1. PICK waiting : waiting = Append(put_queue[b], Len(packets) + 1)
  OBVIOUS
<1>2. PICK content : content = IF HasRoom(b) THEN Append(items[b], Head(waiting)) ELSE items[b]
  OBVIOUS
<1>3. PICK P1 : P1 = Arrived(flow)
  OBVIOUS
<1>4. /\ flow \in DOMAIN Mapping /\ b \in Buffer
      /\ put_queue' = [put_queue EXCEPT ![b] = IF HasRoom(b) THEN Tail(waiting) ELSE waiting]
      /\ items' = [items EXCEPT ![b] = IF LimitReached(b, content) THEN << >> ELSE content]
      /\ packets' = IF LimitReached(b, content) THEN Stamped(P1, content) ELSE P1
      /\ IF LimitReached(b, content) THEN Raise(content, "packet_limit")
                                     ELSE UNCHANGED interrupts
  BY <1>1, <1>2, <1>3 DEF Put, Admitted, StillWaiting
<1>5. /\ Arrives(packets, P1, flow, now') /\ packets \in Seq(Row) /\ interrupts \in Seq(Irq)
      /\ Len(packets) \in Nat
      /\ items \in [Buffer -> Seq(Nat)] /\ put_queue \in [Buffer -> Seq(Nat)]
      /\ items[b] \in Seq(Nat) /\ put_queue[b] \in Seq(Nat)
  BY <1>3, <1>4, Stores DEF Arrived, Arrives, Packet
<1>6. P1 \in Seq(Row) /\ Len(P1) = Len(packets) + 1
  BY <1>5, Arriving
<1>7. /\ waiting \in Seq(Nat) /\ waiting # << >> /\ Len(waiting) = Len(put_queue[b]) + 1
  <2>1. PICK q \in Seq(Nat) : q = put_queue[b]
    BY <1>5
  <2>2. waiting = Append(q, Len(packets) + 1) /\ Len(packets) + 1 \in Nat
    BY <1>1, <1>5, <2>1
  <2> QED
    BY <2>1, <2>2
<1>8. Tail(waiting) \in Seq(Nat) /\ Head(waiting) \in Nat /\ Len(Tail(waiting)) = Len(put_queue[b])
  BY <1>5, <1>7
<1>9. PICK Q1 : Q1 = [put_queue EXCEPT ![b] = waiting]
  OBVIOUS
<1>10. PICK It2 : It2 = [items EXCEPT ![b] = content]
  OBVIOUS
<1>11. StoreInv(P1, interrupts, items, Q1, now')
  <2>1. Q1 = [put_queue EXCEPT ![b] = Append(put_queue[b], Len(packets) + 1)]
    BY <1>1, <1>9
  <2> QED
    BY <1>4, <1>5, <2>1, Enqueued DEF Kept
<1>12. StoreInv(P1, interrupts, It2, put_queue', now')
  <2>1. Q1[b] = waiting
    BY <1>4, <1>5, <1>9
  <2>2. CASE HasRoom(b)
    <3>1. put_queue' = [Q1 EXCEPT ![b] = Tail(Q1[b])]
      BY <1>4, <1>5, <1>9, <2>1, <2>2
    <3>2. It2 = [items EXCEPT ![b] = Append(items[b], Head(Q1[b]))]
      BY <1>2, <1>10, <2>1, <2>2
    <3>3. Q1[b] # << >>
      BY <1>7, <2>1
    <3>4. b \in Buffer
      BY <1>4
    <3> QED
      BY ONLY <1>11, <3>1, <3>2, <3>3, <3>4, Admits
  <2>3. CASE ~HasRoom(b)
    <3>1. put_queue' = Q1
      BY <1>4, <1>9, <2>3
    <3>2. It2 = items
      BY <1>2, <1>5, <1>10, <2>3
    <3> QED
      BY <1>11, <3>1, <3>2
  <2> QED
    BY <2>2, <2>3
<1>13. It2[b] = content /\ content \in Seq(Nat)
  BY <1>2, <1>4, <1>5, <1>8, <1>10
<1>14. LimitReached(b, content) =>
         /\ Raises(interrupts, interrupts', now', content, "packet_limit")
         /\ StampedBy(P1, packets', ToSet(content), now')
  BY <1>4, <1>6, StampedRows DEF Raise, Raises, Interrupt
<1>15. StoreInv(packets', interrupts', items', put_queue', now')
  <2>1. CASE LimitReached(b, content)
    <3>1. items' = [It2 EXCEPT ![b] = << >>] /\ "packet_limit" \in Reason
      BY <1>4, <1>5, <1>10, <2>1 DEF Reason
    <3>2. /\ StampedBy(P1, packets', ToSet(It2[b]), now')
          /\ Raises(interrupts, interrupts', now', It2[b], "packet_limit")
      BY <1>13, <1>14, <2>1
    <3>3. b \in Buffer
      BY <1>4
    <3> QED
      BY ONLY <1>12, <3>1, <3>2, <3>3, Flushed
  <2>2. CASE ~LimitReached(b, content)
    <3>1. items' = It2 /\ interrupts' = interrupts /\ packets' = P1
      BY <1>4, <1>10, <2>2
    <3> QED
      BY <1>12, <3>1
  <2> QED
    BY <2>1, <2>2
<1>16. /\ Len(packets') = Len(packets) + 1 /\ Grows(packets, packets')
       /\ \A n \in 1 .. Len(packets) : To(packets', n) = To(packets, n)
       /\ packets'[Len(packets')].arrival_time = now'
       /\ To(packets', Len(packets')) = b
  <2>1. packets' = P1 \/ StampedBy(P1, packets', ToSet(content), now')
    BY <1>4, <1>14
  <2>2. Arrives(packets, P1, flow, now') /\ packets \in Seq(Row)
    BY <1>5
  <2>3. /\ Len(packets') = Len(packets) + 1 /\ Grows(packets, packets')
        /\ \A n \in 1 .. Len(packets) : To(packets', n) = To(packets, n)
        /\ packets'[Len(packets')].arrival_time = now'
        /\ flow \in DOMAIN Mapping => To(packets', Len(packets')) = Mapping[flow]
    BY ONLY <2>1, <2>2, flow \in Flow, now' \in Nat, NewRow
  <2> QED
    BY <1>4, <2>3
<1>17. Extends(interrupts, interrupts')
  <2>1. CASE LimitReached(b, content)
    <3>1. "packet_limit" \in Reason
      BY DEF Reason
    <3> QED
      BY <1>5, <1>13, <1>14, <2>1, <3>1, Raising
  <2>2. CASE ~LimitReached(b, content)
    BY <1>4, <1>5, <2>2 DEF Extends
  <2> QED
    BY <2>1, <2>2
<1>18. TracesGrow
  BY <1>5, <1>16, <1>17 DEF TracesGrow
<1>19. PutLeaves(b, content)
  <2>1. /\ HasRoom(b) => Len(content) = Len(items[b]) + 1
        /\ ~HasRoom(b) => content = items[b]
        /\ content # << >>
    <3>1. CASE HasRoom(b)
      <4>1. PICK s \in Seq(Nat), x \in Nat : s = items[b] /\ x = Head(waiting)
        BY <1>5, <1>8
      <4>2. content = Append(s, x)
        BY <1>2, <3>1, <4>1
      <4>3. Len(content) = Len(s) + 1 /\ Len(s) \in Nat /\ Len(content) # 0
        BY <4>1, <4>2
      <4>4. content # << >>
        BY <4>3
      <4> QED
        BY <3>1, <4>1, <4>3, <4>4
    <3>2. CASE ~HasRoom(b)
      BY <1>2, <1>4, <1>5, <3>2, BufferConfig DEF HasRoom
    <3> QED
      BY <3>1, <3>2
  <2>2. \A n \in ToSet(content) : n \in 1 .. Len(packets') /\ To(packets', n) = b
    <3>1. \A n \in ToSet(content) : n \in 1 .. Len(P1) /\ To(P1, n) = b
      BY <1>4, <1>12, <1>13 DEF StoreInv, RoutedIn, Inside
    <3>2. \A n \in 1 .. Len(P1) : To(packets', n) = To(P1, n)
      BY <1>4, <1>14 DEF StampedBy, To
    <3> QED
      BY <1>6, <1>16, <3>1, <3>2
  <2>3. Last(content) \in 1 .. Len(packets')
    BY <1>13, <2>1, <2>2, Elements
  <2>4. /\ HasRoom(b) => Len(put_queue'[b]) = Len(put_queue[b])
        /\ ~HasRoom(b) => Len(put_queue'[b]) = Len(put_queue[b]) + 1
    BY <1>4, <1>5, <1>7, <1>8
  <2>5. ASSUME HasRoom(b), put_queue[b] = << >>
        PROVE  /\ put_queue'[b] = << >> /\ Last(content) = Len(packets')
               /\ ToSet(content) = ToSet(items[b]) \cup {Len(packets')}
    <3>1. waiting = <<Len(packets')>>
      BY <1>1, <1>16, <2>5
    <3>2. content = Append(items[b], Len(packets')) /\ Len(packets') \in Nat
      BY <1>2, <1>5, <1>16, <2>5, <3>1
    <3>3. put_queue'[b] = << >>
      BY <1>4, <1>5, <2>5, <3>1
    <3> QED
      BY <1>5, <3>2, <3>3, Appended
  <2>6. \A c \in Buffer \ {b} : items'[c] = items[c] /\ put_queue'[c] = put_queue[c]
    BY <1>4, <1>5
  <2>7. IF LimitReached(b, content)
          THEN /\ items'[b] = << >>
               /\ Raises(interrupts, interrupts', now', content, "packet_limit")
          ELSE items'[b] = content /\ interrupts' = interrupts
    BY <1>4, <1>5, <1>14
  <2> QED
    BY <1>13, <2>1, <2>2, <2>3, <2>4, <2>5, <2>6, <2>7 DEF PutLeaves
<1> QED
  BY <1>4, <1>15, <1>16, <1>18, <1>19 DEF Kept

-----------------------------------------------------------------------------
(* The interrupts that have been raised                                    *)

\* Packet n is the latest one of buffer b, respectively the latest before time t.
Latest(P, n, b) == To(P, n) = b /\ \A m \in n + 1 .. Len(P) : To(P, m) # b
LatestBefore(P, n, b, t) ==
  /\ To(P, n) = b /\ P[n].arrival_time < t
  /\ \A m \in n + 1 .. Len(P) : To(P, m) = b => P[m].arrival_time >= t

Within(P, irq) ==
  \A b \in Buffer :
    /\ irq.batch # << >> /\ To(P, Head(irq.batch)) = b
    /\ Config[b].packet_limit # None
    => Len(irq.batch) <= Config[b].packet_limit

Timely(P, irq) ==
  \A b : irq.batch # << >> /\ b = To(P, Last(irq.batch)) =>
    /\ irq.reason = "packet_timer" =>
         \E n \in Last(irq.batch) .. Len(P) :
           /\ LatestBefore(P, n, b, irq.at)
           /\ irq.at = P[n].arrival_time + Config[b].packet_time_limit
    /\ irq.reason = "absolute_timer" =>
         /\ irq.at > Config[b].offset
         /\ (irq.at - Config[b].offset) % Config[b].absolute_time_limit = 0
    /\ irq.reason \notin {"packet_timer", "absolute_timer"} =>
         irq.at = P[Last(irq.batch)].arrival_time

\* The packet limit has flushed buffer b just when its packet timer was armed.
LimitEmptied(P, I, j, b, at) ==
  /\ I[j].reason = "packet_limit" /\ I[j].batch # << >>
  /\ To(P, Head(I[j].batch)) = b
  /\ at = I[j].at + Config[b].packet_time_limit

Cause(P, I, k) ==
  I[k].batch = << >> =>
    /\ I[k].reason = "packet_timer"
    /\ \E j \in 1 .. k - 1 : \E b \in Buffer : LimitEmptied(P, I, j, b, I[k].at)

Irqs ==
  \A k \in DOMAIN interrupts : /\ Within(packets, interrupts[k])
                               /\ Timely(packets, interrupts[k])
                               /\ Cause(packets, interrupts, k)

LEMMA BatchOf ==
  ASSUME Kept, NEW k \in DOMAIN interrupts
  PROVE  /\ interrupts[k].batch \in Seq(Nat) /\ interrupts[k].at \in Nat
         /\ interrupts[k].at <= now /\ interrupts[k].reason \in Reason
         /\ ToSet(interrupts[k].batch) \subseteq 1 .. Len(packets)
         /\ interrupts[k].batch # << >> =>
              /\ Head(interrupts[k].batch) \in 1 .. Len(packets)
              /\ Last(interrupts[k].batch) \in 1 .. Len(packets)
<1>1. interrupts[k] \in Irq
  BY Stores
<1>2. /\ interrupts[k].batch \in Seq(Nat) /\ interrupts[k].at \in Nat
      /\ interrupts[k].reason \in Reason
  BY <1>1 DEF Irq
<1>3. interrupts[k].at <= now /\ ToSet(interrupts[k].batch) \subseteq 1 .. Len(packets)
  BY DEF Kept, StoreInv, PastIn, RoutedIn, Listed
<1> QED
  BY <1>2, <1>3, Elements

\* An interrupt that was right stays right while the traces grow.
LEMMA IrqsStay ==
  ASSUME Kept, TracesGrow, now <= now', now' \in Nat, Len(packets') \in Nat,
         NEW k \in DOMAIN interrupts
  PROVE  /\ interrupts'[k] = interrupts[k] /\ k \in DOMAIN interrupts'
         /\ Within(packets, interrupts[k]) => Within(packets', interrupts[k])
         /\ Timely(packets, interrupts[k]) => Timely(packets', interrupts[k])
         /\ Cause(packets, interrupts, k) => Cause(packets', interrupts', k)
<1> DEFINE irq == interrupts[k]
<1>1. /\ irq.batch \in Seq(Nat) /\ irq.at \in Nat /\ irq.at <= now
      /\ irq.batch # << >> => /\ Head(irq.batch) \in 1 .. Len(packets)
                              /\ Last(irq.batch) \in 1 .. Len(packets)
  BY BatchOf
<1>2. /\ Len(packets) \in Nat /\ Len(packets) <= Len(packets')
      /\ \A n \in 1 .. Len(packets) : /\ To(packets', n) = To(packets, n)
                                       /\ packets'[n].arrival_time = packets[n].arrival_time
      /\ \A n \in 1 .. Len(packets') :
           n \in 1 .. Len(packets) \/ packets'[n].arrival_time = now'
      /\ \A j \in DOMAIN interrupts : j \in DOMAIN interrupts' /\ interrupts'[j] = interrupts[j]
  BY DEF TracesGrow, Grows, Extends
<1>3. now \in Nat
  BY Stores
<1>4. ASSUME Within(packets, irq) PROVE Within(packets', irq)
  BY <1>1, <1>2, <1>4 DEF Within
<1>5. ASSUME Timely(packets, irq) PROVE Timely(packets', irq)
  <2>1. SUFFICES ASSUME NEW b, irq.batch # << >>, b = To(packets', Last(irq.batch))
                 PROVE  /\ irq.reason = "packet_timer" =>
                             \E n \in Last(irq.batch) .. Len(packets') :
                               /\ LatestBefore(packets', n, b, irq.at)
                               /\ irq.at = packets'[n].arrival_time + Config[b].packet_time_limit
                        /\ irq.reason = "absolute_timer" =>
                             /\ irq.at > Config[b].offset
                             /\ (irq.at - Config[b].offset) % Config[b].absolute_time_limit = 0
                        /\ irq.reason \notin {"packet_timer", "absolute_timer"} =>
                             irq.at = packets'[Last(irq.batch)].arrival_time
    BY DEF Timely
  <2>2. Last(irq.batch) \in 1 .. Len(packets) /\ b = To(packets, Last(irq.batch))
    BY <1>1, <1>2, <2>1
  <2>3. ASSUME irq.reason = "packet_timer"
        PROVE  \E n \in Last(irq.batch) .. Len(packets') :
                 /\ LatestBefore(packets', n, b, irq.at)
                 /\ irq.at = packets'[n].arrival_time + Config[b].packet_time_limit
    <3>1. PICK n \in Last(irq.batch) .. Len(packets) :
                 /\ LatestBefore(packets, n, b, irq.at)
                 /\ irq.at = packets[n].arrival_time + Config[b].packet_time_limit
      BY <1>5, <2>1, <2>2, <2>3 DEF Timely
    <3>2. n \in 1 .. Len(packets) /\ n \in Last(irq.batch) .. Len(packets')
      BY <1>2, <2>2
    <3>3. To(packets', n) = b /\ packets'[n].arrival_time < irq.at
      BY <1>2, <3>1, <3>2 DEF LatestBefore
    <3>4. ASSUME NEW m \in n + 1 .. Len(packets'), To(packets', m) = b
          PROVE  packets'[m].arrival_time >= irq.at
      <4>1. m \in 1 .. Len(packets')
        BY <3>2
      <4>2. CASE m \in 1 .. Len(packets)
        <5>1. m \in n + 1 .. Len(packets) /\ To(packets, m) = b
          BY <1>2, <3>2, <3>4, <4>2
        <5> QED
          BY <1>2, <3>1, <4>2, <5>1 DEF LatestBefore
      <4>3. CASE packets'[m].arrival_time = now'
        BY <1>1, <1>3, <4>3
      <4> QED
        BY <1>2, <4>1, <4>2, <4>3
    <3> QED
      BY <1>2, <3>1, <3>2, <3>3, <3>4 DEF LatestBefore
  <2>4. irq.reason = "absolute_timer" =>
          /\ irq.at > Config[b].offset
          /\ (irq.at - Config[b].offset) % Config[b].absolute_time_limit = 0
    BY <1>5, <2>1, <2>2 DEF Timely
  <2>5. irq.reason \notin {"packet_timer", "absolute_timer"} =>
          irq.at = packets'[Last(irq.batch)].arrival_time
    BY <1>2, <1>5, <2>1, <2>2 DEF Timely
  <2> QED
    BY <2>3, <2>4, <2>5
<1>6. ASSUME Cause(packets, interrupts, k) PROVE Cause(packets', interrupts', k)
  <2>1. SUFFICES ASSUME irq.batch = << >>
                 PROVE  \E j \in 1 .. k - 1 : \E b \in Buffer :
                          LimitEmptied(packets', interrupts', j, b, irq.at)
    BY <1>2, <1>6 DEF Cause
  <2>2. PICK j \in 1 .. k - 1, b \in Buffer : LimitEmptied(packets, interrupts, j, b, irq.at)
    BY <1>6, <2>1 DEF Cause
  <2>3. j \in DOMAIN interrupts
    <3>1. interrupts \in Seq(Irq)
      BY Stores
    <3> QED
      BY <3>1
  <2>4. interrupts[j].batch # << >> => Head(interrupts[j].batch) \in 1 .. Len(packets)
    BY <2>3, BatchOf
  <2> QED
    BY <1>2, <2>2, <2>3, <2>4 DEF LimitEmptied
<1> QED
  BY <1>2, <1>4, <1>5, <1>6

LEMMA IrqsSame ==
  ASSUME Kept, Irqs, TracesGrow, now <= now', now' \in Nat, Len(packets') \in Nat,
         interrupts' = interrupts
  PROVE  Irqs'
<1>1. ASSUME NEW k \in DOMAIN interrupts
      PROVE  /\ Within(packets', interrupts[k])
             /\ Timely(packets', interrupts[k])
             /\ Cause(packets', interrupts', k)
  BY IrqsStay DEF Irqs
<1> QED
  BY <1>1 DEF Irqs

LEMMA IrqsRaised ==
  ASSUME Kept, Irqs, TracesGrow, now <= now', now' \in Nat, Len(packets') \in Nat,
         NEW batch \in Seq(Nat), NEW reason \in Reason,
         Raises(interrupts, interrupts', now', batch, reason),
         NEW irq, irq = Interrupt(now', batch, reason),
         Within(packets', irq), Timely(packets', irq), 
         batch = << >> => Cause(packets', interrupts', Len(interrupts'))
  PROVE  Irqs'
<1>1. /\ Len(interrupts) \in Nat /\ Len(interrupts') = Len(interrupts) + 1
      /\ DOMAIN interrupts = 1 .. Len(interrupts) /\ DOMAIN interrupts' = 1 .. Len(interrupts')
  <2>1. interrupts \in Seq(Irq)
    BY Stores
  <2> QED
    BY <2>1, Raising
<1>2. ASSUME NEW k \in DOMAIN interrupts
      PROVE  /\ Within(packets', interrupts'[k])
             /\ Timely(packets', interrupts'[k])
             /\ Cause(packets', interrupts', k)
  BY IrqsStay DEF Irqs
<1>3. interrupts'[Len(interrupts')] = irq /\ irq.batch = batch
  <2>1. interrupts \in Seq(Irq) /\ interrupts' = Append(interrupts, irq)
    BY Stores DEF Raises
  <2> QED
    BY <1>1, <2>1 DEF Interrupt
<1>4. Cause(packets', interrupts', Len(interrupts'))
  BY <1>3 DEF Cause
<1>5. ASSUME NEW k \in DOMAIN interrupts'
      PROVE  /\ Within(packets', interrupts'[k])
             /\ Timely(packets', interrupts'[k])
             /\ Cause(packets', interrupts', k)
  <2>1. k \in DOMAIN interrupts \/ k = Len(interrupts')
    BY <1>1
  <2> QED
    BY <1>2, <1>3, <1>4, <2>1
<1> QED
  BY <1>5 DEF Irqs

-----------------------------------------------------------------------------
(* The agenda                                                              *)

EventOK(f, t) ==
  /\ f \in EventType /\ t <= f.at
  /\ f.what = "arrival" <=> f.of = None
  /\ f.what \in {"offset", "absolute"} => Config[f.of].absolute_time_limit # None
  /\ f.what \in {"packet", "ended"} => Config[f.of].packet_time_limit # None

\* No event of the agenda lies in the past.
Clock ==
  /\ eid \in Nat /\ now \in 0 .. RUNTIME
  /\ status \in {"running", "crashed", "written"}
  /\ packet_timer \in [Buffer -> {"none", "armed", "ended", "processed"}]
  /\ \A f \in agenda : EventOK(f, now)

\* nic() waits for one packet at a time.
Arrivals ==
  /\ Len(packets) <= MaxPackets
  /\ \A f, g \in agenda : f.what = "arrival" /\ g.what = "arrival" => f = g
  /\ \A f \in agenda : f.what = "arrival" => Len(packets) < MaxPackets

\* put() has flushed the store when it reached the limit, so that a limit within
\* the capacity leaves no packet waiting for room.
Capacities ==
  \A b \in Buffer :
    /\ Len(items[b]) <= Config[b].capacity
    /\ Config[b].packet_limit # None =>
         /\ Len(items[b]) < Config[b].packet_limit
         /\ Config[b].packet_limit <= Config[b].capacity => put_queue[b] = << >>

\* Buffer b has a packet timer on the agenda while it is armed or has just ended; it
\* is armed while the store holds packets; it elapses its limit after the latest
\* packet; and if the store is empty, the packet limit has flushed it since.
PacketTimerIn(b, T, state, store, P, I) ==
  /\ IF state \in {"armed", "ended"}
       THEN \E f \in T : T = {f} /\ (f.what = "packet" <=> state = "armed")
       ELSE T = {}
  /\ store # << >> /\ Config[b].packet_time_limit # None => state = "armed"
  /\ \A f \in T : f.what = "packet" =>
       /\ \E n \in 1 .. Len(P) :
            Latest(P, n, b) /\ f.at = P[n].arrival_time + Config[b].packet_time_limit
       /\ store = << >> => \E j \in DOMAIN I : LimitEmptied(P, I, j, b, f.at)

PacketTimers ==
  \A b \in Buffer :
    PacketTimerIn(b, TimerEvents(b), packet_timer[b], items[b], packets, interrupts)

\* The absolute timer of buffer b never stops; its next period comes in time for
\* every packet of the store, and is the first one or a multiple of it.
PeriodEvents(b) == {f \in agenda : f.of = b /\ f.what \in {"offset", "absolute"}}

InTime(b, f, n, P) ==
  \/ f.at <= P[n].arrival_time + Config[b].absolute_time_limit
  \/ f.at <= Config[b].offset + Config[b].absolute_time_limit

AbsoluteTimerIn(b, A, store, queue, P, t) ==
  Config[b].absolute_time_limit # None =>
    /\ A # {}
    /\ \A f \in A :
         /\ f.what = "offset" => f.at = Config[b].offset
         /\ f.what = "absolute" =>
              /\ f.at > Config[b].offset /\ f.at <= t + Config[b].absolute_time_limit
              /\ (f.at - Config[b].offset) % Config[b].absolute_time_limit = 0
              /\ queue = << >> => \A n \in ToSet(store) : InTime(b, f, n, P)

AbsoluteTimers ==
  \A b \in Buffer :
    AbsoluteTimerIn(b, PeriodEvents(b), items[b], put_queue[b], packets, now)

NicInv ==
  /\ Kept /\ Irqs /\ Clock /\ Arrivals /\ Capacities /\ PacketTimers /\ AbsoluteTimers

LEMMA Happening ==
  ASSUME Clock, NEW e, NEW what, Happens(e, what)
  PROVE  /\ e \in agenda /\ e \in EventType /\ e.what = what /\ e.at = now'
         /\ now \in Nat /\ now' \in Nat /\ now <= now' /\ now' \in 0 .. RUNTIME
         /\ \A f \in agenda : EventOK(f, now')
         /\ status = "running"
<1>1. /\ e \in agenda /\ e.what = what /\ e.at = now' /\ e.at < RUNTIME /\ status = "running"
      /\ \A f \in agenda \ {e} : Precedes(e, f)
  BY DEF Happens
<1>2. e \in EventType /\ now <= e.at /\ now \in Nat
  BY <1>1 DEF Clock, EventOK
<1>3. e.at \in Nat /\ RUNTIME \in Nat
  BY <1>2, ConfigAssumption DEF EventType
<1>4. ASSUME NEW f \in agenda PROVE EventOK(f, now')
  <2>1. EventOK(f, now) /\ f.at \in Nat
    BY DEF Clock, EventOK, EventType
  <2>2. e.at <= f.at
    BY <1>1, <1>3, <2>1 DEF Precedes
  <2> QED
    BY <1>1, <2>1, <2>2 DEF EventOK
<1> QED
  BY <1>1, <1>2, <1>3, <1>4

LEMMA EventFields ==
  ASSUME NEW at, NEW number, NEW what, NEW of
  PROVE  /\ Event(at, number, what, of).at = at
         /\ Event(at, number, what, of).eid = number
         /\ Event(at, number, what, of).what = what
         /\ Event(at, number, what, of).of = of
         /\ at \in Nat /\ number \in Nat /\ of \in Buffer \cup {None}
             /\ what \in {"arrival", "offset", "absolute", "packet", "ended"}
             => Event(at, number, what, of) \in EventType
BY DEF Event, EventType

LEMMA NextArrives ==
  ASSUME Clock, now' \in Nat, Len(packets') \in Nat, NEW next \in NextArrival
  PROVE  /\ \A f \in next : /\ EventOK(f, now') /\ f.what = "arrival" /\ f.of = None
                             /\ Len(packets') < MaxPackets
         /\ \A f, g \in next : f = g
<1>1. CASE next = {}
  BY <1>1
<1>2. CASE Len(packets') < MaxPackets /\ \E gap \in 0 .. MaxGap :
             next = {Event(now' + gap, eid, "arrival", None)}
  <2>1. PICK gap \in 0 .. MaxGap : next = {Event(now' + gap, eid, "arrival", None)}
    BY <1>2
  <2>2. gap \in Nat /\ now' + gap \in Nat /\ eid \in Nat /\ now' <= now' + gap
    BY ConfigAssumption DEF Clock
  <2>3. PICK f : f = Event(now' + gap, eid, "arrival", None)
    OBVIOUS
  <2>4. f.at = now' + gap /\ f.what = "arrival" /\ f.of = None /\ f \in EventType
    BY <2>2, <2>3, EventFields
  <2>5. EventOK(f, now')
    BY <2>2, <2>4 DEF EventOK
  <2> QED
    BY <1>2, <2>1, <2>3, <2>4, <2>5
<1> QED
  BY <1>1, <1>2 DEF NextArrival

\* After an arrival only the next one can be on the agenda; other steps add none.
LEMMA ArrivalsStay ==
  ASSUME Clock, Arrivals, NEW e, Happens(e, "arrival"),
         Len(packets) \in Nat, Len(packets') = Len(packets) + 1, NEW next \in NextArrival,
         \A f \in agenda' : f \in agenda \ {e} \/ f \in next \/ f.what # "arrival"
  PROVE  Arrivals'
<1>1. e \in agenda /\ e.what = "arrival" /\ now' \in Nat
  BY Happening
<1>2. Len(packets') <= MaxPackets
  BY <1>1, ConfigAssumption DEF Arrivals
<1>3. /\ \A f \in next : Len(packets') < MaxPackets
      /\ \A f, g \in next : f = g
  BY <1>1, NextArrives
<1>4. \A f \in agenda' : f.what = "arrival" => f \in next
  BY <1>1 DEF Arrivals
<1> QED
  BY <1>2, <1>3, <1>4 DEF Arrivals

LEMMA ArrivalsSame ==
  ASSUME Arrivals, Len(packets') = Len(packets),
         \A f \in agenda' : f \in agenda \/ f.what # "arrival"
  PROVE  Arrivals'
BY DEF Arrivals

LEMMA LimitEmptiedStays ==
  ASSUME Kept, TracesGrow, NEW j \in DOMAIN interrupts, NEW b \in Buffer, NEW at,
         LimitEmptied(packets, interrupts, j, b, at)
  PROVE  j \in DOMAIN interrupts' /\ LimitEmptied(packets', interrupts', j, b, at)
<1>1. interrupts[j].batch # << >> => Head(interrupts[j].batch) \in 1 .. Len(packets)
  BY BatchOf
<1> QED
  BY <1>1 DEF LimitEmptied, TracesGrow, Extends

\* The timers of a buffer for which no packet arrives.
LEMMA PacketTimerStays ==
  ASSUME Kept, TracesGrow, NEW b \in Buffer, NEW T, NEW state, NEW store,
         PacketTimerIn(b, T, state, store, packets, interrupts), Len(packets') \in Nat,
         \A n \in 1 .. Len(packets') : n \in 1 .. Len(packets) \/ To(packets', n) # b
  PROVE  PacketTimerIn(b, T, state, store, packets', interrupts')
<1>1. /\ Len(packets) \in Nat /\ Len(packets) <= Len(packets')
      /\ \A n \in 1 .. Len(packets) : /\ To(packets', n) = To(packets, n)
                                       /\ packets'[n].arrival_time = packets[n].arrival_time
  BY DEF TracesGrow, Grows
<1>2. ASSUME NEW f \in T, f.what = "packet"
      PROVE  \E n \in 1 .. Len(packets') :
               /\ Latest(packets', n, b)
               /\ f.at = packets'[n].arrival_time + Config[b].packet_time_limit
  <2>1. PICK n \in 1 .. Len(packets) :
          Latest(packets, n, b) /\ f.at = packets[n].arrival_time + Config[b].packet_time_limit
    BY <1>2 DEF PacketTimerIn
  <2>2. ASSUME NEW m \in n + 1 .. Len(packets') PROVE To(packets', m) # b
    <3>1. CASE m \in 1 .. Len(packets)
      <4>1. m \in n + 1 .. Len(packets)
        BY <3>1, <1>1
      <4> QED
        BY <1>1, <2>1, <3>1, <4>1 DEF Latest
    <3>2. m \in 1 .. Len(packets')
      OBVIOUS
    <3> QED
      BY <3>1, <3>2
  <2> QED
    BY <1>1, <2>1, <2>2 DEF Latest
<1>3. ASSUME NEW f \in T, f.what = "packet", store = << >>
      PROVE  \E j \in DOMAIN interrupts' : LimitEmptied(packets', interrupts', j, b, f.at)
  <2>1. PICK j \in DOMAIN interrupts : LimitEmptied(packets, interrupts, j, b, f.at)
    BY <1>3 DEF PacketTimerIn
  <2> QED
    BY <2>1, LimitEmptiedStays
<1> QED
  BY <1>2, <1>3 DEF PacketTimerIn

LEMMA AbsoluteTimerStays ==
  ASSUME Kept, TracesGrow, now \in Nat, now' \in Nat, now <= now', NEW b \in Buffer,
         NEW A, \A f \in A : f.at \in Nat,
         NEW store, NEW queue, AbsoluteTimerIn(b, A, store, queue, packets, now),
         ToSet(store) \subseteq 1 .. Len(packets),
         NEW store2, NEW queue2, queue2 = << >> => queue = << >>,
         \A n \in ToSet(store2) : 
           queue2 = << >> => n \in ToSet(store) \/ packets'[n].arrival_time = now'
  PROVE  AbsoluteTimerIn(b, A, store2, queue2, packets', now')
<1>1. \A n \in 1 .. Len(packets) : packets'[n].arrival_time = packets[n].arrival_time
  BY DEF TracesGrow, Grows
<1> SUFFICES ASSUME Config[b].absolute_time_limit # None
             PROVE  AbsoluteTimerIn(b, A, store2, queue2, packets', now')
  BY DEF AbsoluteTimerIn
<1>2. Config[b].absolute_time_limit \in Nat /\ Config[b].offset \in Nat
  BY BufferConfig
<1>3. ASSUME NEW f \in A, f.what = "absolute"
      PROVE  /\ f.at > Config[b].offset /\ f.at <= now' + Config[b].absolute_time_limit
             /\ (f.at - Config[b].offset) % Config[b].absolute_time_limit = 0
             /\ queue2 = << >> => \A n \in ToSet(store2) : InTime(b, f, n, packets')
  <2>1. /\ f.at > Config[b].offset /\ f.at <= now + Config[b].absolute_time_limit
        /\ (f.at - Config[b].offset) % Config[b].absolute_time_limit = 0
        /\ queue = << >> => \A n \in ToSet(store) : InTime(b, f, n, packets)
    BY <1>3 DEF AbsoluteTimerIn
  <2>2. f.at \in Nat
    OBVIOUS
  <2>3. f.at <= now' + Config[b].absolute_time_limit
    BY <1>2, <2>1, <2>2
  <2>4. ASSUME queue2 = << >>, NEW n \in ToSet(store2) PROVE InTime(b, f, n, packets')
    <3>1. CASE n \in ToSet(store)
      BY <1>1, <2>1, <2>4, <3>1 DEF InTime
    <3>2. CASE packets'[n].arrival_time = now'
      BY <2>3, <3>2 DEF InTime
    <3> QED
      BY <2>4, <3>1, <3>2
  <2> QED
    BY <2>1, <2>3, <2>4
<1> QED
  BY <1>3 DEF AbsoluteTimerIn

LEMMA ClockStays ==
  ASSUME Clock, NEW e, NEW what, Happens(e, what),
         \A f \in agenda' : f \in agenda \/ EventOK(f, now'),
         eid' \in Nat, status' \in {"running", "crashed", "written"},
         packet_timer' \in [Buffer -> {"none", "armed", "ended", "processed"}]
  PROVE  Clock'
<1>1. now' \in 0 .. RUNTIME /\ \A f \in agenda : EventOK(f, now')
  BY Happening
<1> QED
  BY <1>1 DEF Clock, EventOK, EventType

LEMMA BufferFacts ==
  ASSUME NicInv, NEW b \in Buffer
  PROVE  /\ ToSet(items[b]) \subseteq 1 .. Len(packets)
         /\ \A f \in agenda : f \in EventType /\ f.at \in Nat
         /\ items[b] \in Seq(Nat) /\ put_queue[b] \in Seq(Nat)
<1>1. ToSet(items[b]) \subseteq 1 .. Len(packets)
  BY DEF NicInv, Kept, StoreInv, RoutedIn, Inside
<1>2. \A f \in agenda : f \in EventType /\ f.at \in Nat
  BY DEF NicInv, Clock, EventOK, EventType
<1> QED
  BY <1>1, <1>2, Stores DEF NicInv

-----------------------------------------------------------------------------
(* Steps without a packet                                                  *)

\* What does not depend on the agenda, and the timers of an untouched buffer.
LEMMA Untouched ==
  ASSUME NicInv, now' \in Nat, now <= now',
         UNCHANGED <<items, put_queue, packets, interrupts>>
  PROVE  /\ Kept' /\ Irqs' /\ Capacities' /\ TracesGrow
         /\ \A b \in Buffer :
              /\ TimerEvents(b)' = TimerEvents(b) /\ packet_timer'[b] = packet_timer[b]
              => PacketTimerIn(b, TimerEvents(b)', packet_timer'[b], items'[b], packets', interrupts')
         /\ \A b \in Buffer :
              AbsoluteTimerIn(b, PeriodEvents(b), items'[b], put_queue'[b], packets', now')
<1>1. Kept' /\ TracesGrow
  BY QuietKept DEF NicInv
<1>2. Len(packets) \in Nat /\ now \in Nat
  BY Stores DEF NicInv
<1>3. Irqs'
  BY <1>1, <1>2, IrqsSame DEF NicInv
<1>4. Capacities'
  BY DEF NicInv, Capacities
<1>5. ASSUME NEW b \in Buffer,
             TimerEvents(b)' = TimerEvents(b) /\ packet_timer'[b] = packet_timer[b]
      PROVE  PacketTimerIn(b, TimerEvents(b)', packet_timer'[b], items'[b], packets', interrupts')
  BY <1>5 DEF NicInv, PacketTimers
<1>6. ASSUME NEW b \in Buffer
      PROVE  AbsoluteTimerIn(b, PeriodEvents(b), items'[b], put_queue'[b], packets', now')
  <2>1. AbsoluteTimerIn(b, PeriodEvents(b), items[b], put_queue[b], packets, now)
    BY DEF NicInv, AbsoluteTimers
  <2>2. /\ \A f \in PeriodEvents(b) : f.at \in Nat
        /\ ToSet(items[b]) \subseteq 1 .. Len(packets)
    BY BufferFacts DEF PeriodEvents
  <2>3. AbsoluteTimerIn(b, PeriodEvents(b), items[b], put_queue[b], packets', now')
    BY <1>1, <1>2, <2>1, <2>2, AbsoluteTimerStays DEF NicInv
  <2> QED
    BY <2>3
<1> QED
  BY <1>1, <1>3, <1>4, <1>5, <1>6

LEMMA CrashInv ==
  ASSUME NicInv, NEW e, NEW what, Happens(e, what), status' = "crashed",
         UNCHANGED <<agenda, eid, bufferVars, packets, interrupts>>
  PROVE  NicInv'
<1>1. /\ UNCHANGED <<agenda, eid, items, put_queue, packet_timer, packets, interrupts>>
      /\ now' \in Nat /\ now <= now'
  BY Happening DEF NicInv, bufferVars
<1>2. Clock'
  BY <1>1, ClockStays DEF NicInv, Clock
<1>3. Arrivals'
  BY <1>1 DEF NicInv, Arrivals
<1>4. \A b \in Buffer : TimerEvents(b)' = TimerEvents(b) /\ PeriodEvents(b)' = PeriodEvents(b)
  BY <1>1 DEF TimerEvents, PeriodEvents
<1>5. Kept' /\ Irqs' /\ Capacities' /\ PacketTimers' /\ AbsoluteTimers'
  BY <1>1, <1>4, Untouched DEF PacketTimers, AbsoluteTimers
<1> QED
  BY <1>2, <1>3, <1>5 DEF NicInv

LEMMA FinishInv ==
  ASSUME NicInv, Finish
  PROVE  NicInv'
<1>1. /\ UNCHANGED <<agenda, eid, items, put_queue, packet_timer, packets, interrupts>>
      /\ now' = RUNTIME /\ status' = "written"
      /\ \A f \in agenda : f.at >= RUNTIME
  BY DEF Finish, bufferVars
<1>2. now' \in Nat /\ now <= now'
  BY <1>1, ConfigAssumption DEF NicInv, Clock
<1>3. \A f \in agenda : EventOK(f, now')
  BY <1>1 DEF NicInv, Clock, EventOK
<1>4. Clock'
  BY <1>1, <1>2, <1>3 DEF NicInv, Clock, EventOK, EventType
<1>5. Arrivals'
  BY <1>1 DEF NicInv, Arrivals
<1>6. \A b \in Buffer : TimerEvents(b)' = TimerEvents(b) /\ PeriodEvents(b)' = PeriodEvents(b)
  BY <1>1 DEF TimerEvents, PeriodEvents
<1>7. Kept' /\ Irqs' /\ Capacities' /\ PacketTimers' /\ AbsoluteTimers'
  BY <1>1, <1>2, <1>6, Untouched DEF PacketTimers, AbsoluteTimers
<1> QED
  BY <1>4, <1>5, <1>7 DEF NicInv

LEMMA ProcessedInv ==
  ASSUME NicInv, NEW e, PacketTimerProcessed(e)
  PROVE  NicInv'
<1>1. /\ Happens(e, "ended") /\ agenda' = agenda \ {e}
      /\ packet_timer' = [packet_timer EXCEPT ![e.of] = "processed"]
      /\ UNCHANGED <<eid, items, put_queue, packets, interrupts, status>>
  BY DEF PacketTimerProcessed
<1>2. /\ e \in agenda /\ e.what = "ended" /\ e \in EventType /\ e.of # None
      /\ now' \in Nat /\ now <= now' /\ EventOK(e, now')
  <2>1. /\ e \in agenda /\ e.what = "ended" /\ e \in EventType
        /\ now' \in Nat /\ now <= now' /\ EventOK(e, now')
    BY <1>1, Happening DEF NicInv
  <2> QED
    BY <2>1 DEF EventOK
<1>3. PICK b \in Buffer : b = e.of
  BY <1>2 DEF EventType
<1>4. /\ packet_timer \in [Buffer -> {"none", "armed", "ended", "processed"}]
      /\ packet_timer'[b] = "processed" /\ \A c \in Buffer \ {b} : packet_timer'[c] = packet_timer[c]
  BY <1>1, <1>3 DEF NicInv, Clock
<1>5. Clock'
  <2>1. packet_timer' \in [Buffer -> {"none", "armed", "ended", "processed"}]
    BY <1>1, <1>4
  <2> QED
    BY <1>1, <2>1, ClockStays DEF NicInv, Clock
<1>6. Arrivals'
  BY <1>1, ArrivalsSame DEF NicInv
<1>7. /\ \A c \in Buffer : PeriodEvents(c)' = PeriodEvents(c)
      /\ \A c \in Buffer \ {b} : TimerEvents(c)' = TimerEvents(c)
      /\ TimerEvents(b)' = TimerEvents(b) \ {e} /\ e \in TimerEvents(b)
  BY <1>1, <1>2, <1>3 DEF TimerEvents, PeriodEvents
<1>8. Kept' /\ Irqs' /\ Capacities' /\ AbsoluteTimers'
  BY <1>1, <1>2, <1>7, Untouched DEF AbsoluteTimers
<1>9. \A c \in Buffer \ {b} :
        PacketTimerIn(c, TimerEvents(c)', packet_timer'[c], items'[c], packets', interrupts')
  BY <1>1, <1>2, <1>4, <1>7, Untouched
<1>10. PacketTimerIn(b, TimerEvents(b)', packet_timer'[b], items'[b], packets', interrupts')
  <2>1. PacketTimerIn(b, TimerEvents(b), packet_timer[b], items[b], packets, interrupts)
    BY DEF NicInv, PacketTimers
  <2>2. TimerEvents(b) = {e} /\ packet_timer[b] # "armed"
    BY <1>2, <1>7, <2>1 DEF PacketTimerIn
  <2> QED
    BY <1>1, <1>4, <1>7, <2>1, <2>2 DEF PacketTimerIn
<1>11. PacketTimers'
  BY <1>9, <1>10 DEF PacketTimers
<1> QED
  BY <1>5, <1>6, <1>8, <1>11 DEF NicInv

LEMMA OffsetInv ==
  ASSUME NicInv, NEW e, OffsetElapsed(e)
  PROVE  NicInv'
<1>1. /\ Happens(e, "offset")
      /\ agenda' = (agenda \ {e}) \cup {Event(now' + Period(e.of), eid, "absolute", e.of)}
      /\ eid' = eid + 1
      /\ UNCHANGED <<items, put_queue, packet_timer, packets, interrupts, status>>
  BY DEF OffsetElapsed, bufferVars
<1>2. /\ e \in agenda /\ e.what = "offset" /\ e \in EventType /\ e.of # None
      /\ now' \in Nat /\ now <= now' /\ EventOK(e, now') /\ e.at = now'
      /\ Config[e.of].absolute_time_limit # None
  <2>1. /\ e \in agenda /\ e.what = "offset" /\ e \in EventType
        /\ now' \in Nat /\ now <= now' /\ EventOK(e, now') /\ e.at = now'
    BY <1>1, Happening DEF NicInv
  <2> QED
    BY <2>1 DEF EventOK
<1>3. PICK b \in Buffer : b = e.of
  BY <1>2 DEF EventType
<1>4. PICK limit : limit = Config[b].absolute_time_limit
  OBVIOUS
<1>5. limit \in Nat \ {0} /\ limit # None /\ Config[b].offset \in Nat
  BY <1>2, <1>3, <1>4, BufferConfig
<1>6. PICK new : new = Event(now' + limit, eid, "absolute", b)
  OBVIOUS
<1>7. agenda' = (agenda \ {e}) \cup {new} /\ eid \in Nat
  BY <1>1, <1>3, <1>4, <1>6 DEF Period, NicInv, Clock
<1>8. /\ new.at = now' + limit /\ new.what = "absolute" /\ new.of = b /\ new \in EventType
  BY <1>2, <1>5, <1>6, <1>7, EventFields
<1>9. EventOK(new, now')
  BY <1>2, <1>4, <1>5, <1>8, ConfigAssumption DEF EventOK
<1>10. Clock'
  BY <1>1, <1>7, <1>9, ClockStays DEF NicInv, Clock
<1>11. Arrivals'
  BY <1>1, <1>7, <1>8, ArrivalsSame DEF NicInv
<1>12. /\ \A c \in Buffer : TimerEvents(c)' = TimerEvents(c)
       /\ \A c \in Buffer \ {b} : PeriodEvents(c)' = PeriodEvents(c)
       /\ PeriodEvents(b)' = (PeriodEvents(b) \ {e}) \cup {new} /\ e \in PeriodEvents(b)
  BY <1>2, <1>3, <1>7, <1>8 DEF TimerEvents, PeriodEvents
<1>13. Kept' /\ Irqs' /\ Capacities' /\ PacketTimers'
  BY <1>1, <1>2, <1>12, Untouched DEF PacketTimers
<1>14. \A c \in Buffer :
         AbsoluteTimerIn(c, PeriodEvents(c), items'[c], put_queue'[c], packets', now')
  BY <1>1, <1>2, Untouched
<1>15. AbsoluteTimerIn(b, PeriodEvents(b)', items'[b], put_queue'[b], packets', now')
  <2>1. now' = Config[b].offset
    BY <1>2, <1>4, <1>5, <1>12, <1>14 DEF AbsoluteTimerIn
  <2>2. /\ new.at > Config[b].offset /\ new.at <= now' + Config[b].absolute_time_limit
        /\ new.at - Config[b].offset = limit
    BY <1>2, <1>4, <1>5, <1>8, <2>1
  <2>3. limit % limit = 0
    BY <1>5
  <2>4. \A n : InTime(b, new, n, packets')
    BY <1>4, <1>5, <1>8, <2>1 DEF InTime
  <2> QED
    BY <1>4, <1>8, <1>12, <1>14, <2>2, <2>3, <2>4 DEF AbsoluteTimerIn
<1>16. AbsoluteTimers'
  BY <1>12, <1>14, <1>15 DEF AbsoluteTimers
<1> QED
  BY <1>10, <1>11, <1>13, <1>16 DEF NicInv

-----------------------------------------------------------------------------
(* The timers that flush                                                   *)

\* What a flush of buffer b by a timer does to everything but the agenda.
LEMMA FlushedBatch ==
  ASSUME NicInv, TracesGrow, Len(packets') \in Nat, NEW b \in Buffer, NEW reason
  PROVE  /\ items[b] # << >> => /\ Last(items[b]) \in 1 .. Len(packets)
                                /\ To(packets, Last(items[b])) = b
                                /\ To(packets', Last(items[b])) = b
         /\ Within(packets', Interrupt(now', items[b], reason))
<1>1. \A n \in ToSet(items[b]) : n \in 1 .. Len(packets) /\ To(packets, n) = b
  BY DEF NicInv, Kept, StoreInv, RoutedIn, Inside
<1>2. \A n \in ToSet(items[b]) : To(packets', n) = b
  BY <1>1 DEF TracesGrow
<1>3. items[b] \in Seq(Nat)
  BY BufferFacts
<1>4. items[b] # << >> => Head(items[b]) \in ToSet(items[b]) /\ Last(items[b]) \in ToSet(items[b])
  BY <1>3, Elements
<1>5. ASSUME NEW c \in Buffer, items[b] # << >>, To(packets', Head(items[b])) = c,
             Config[c].packet_limit # None
      PROVE  Len(items[b]) <= Config[c].packet_limit
  <2>1. c = b
    BY <1>2, <1>4, <1>5
  <2>2. Len(items[b]) < Config[b].packet_limit /\ Len(items[b]) \in Nat
    BY <1>3, <1>5, <2>1 DEF NicInv, Capacities
  <2>3. Config[b].packet_limit \in Nat
    BY <1>5, <2>1, BufferConfig
  <2> QED
    BY <2>1, <2>2, <2>3
<1> QED
  BY <1>1, <1>2, <1>4, <1>5 DEF Within, Interrupt

LEMMA EmptiedInv ==
  ASSUME NicInv, TracesGrow, NEW b \in Buffer, Len(packets') = Len(packets),
         now' \in Nat, now <= now',
         items' = [items EXCEPT ![b] = << >>], put_queue' = put_queue
  PROVE  /\ Capacities' /\ items'[b] = << >>
         /\ \A c \in Buffer \ {b} :
              TimerEvents(c)' = TimerEvents(c) /\ packet_timer'[c] = packet_timer[c]
              => PacketTimerIn(c, TimerEvents(c)', packet_timer'[c], items'[c], packets', interrupts')
         /\ \A c \in Buffer :
              AbsoluteTimerIn(c, PeriodEvents(c), items'[c], put_queue'[c], packets', now')
<1>1. /\ items'[b] = << >> /\ \A c \in Buffer \ {b} : items'[c] = items[c]
      /\ Len(packets') \in Nat /\ now \in Nat /\ Kept
  BY Stores DEF NicInv
<1>2. Capacities'
  <2>1. ASSUME NEW c \in Buffer
        PROVE  /\ Len(items'[c]) <= Config[c].capacity
               /\ Config[c].packet_limit # None =>
                    /\ Len(items'[c]) < Config[c].packet_limit
                    /\ Config[c].packet_limit <= Config[c].capacity => put_queue'[c] = << >>
    <3>1. CASE c # b
      BY <1>1, <3>1 DEF NicInv, Capacities
    <3>2. CASE c = b
      <4>1. Len(items'[c]) = 0
        BY <1>1, <3>2
      <4> QED
        BY <4>1, BufferConfig DEF NicInv, Capacities
    <3> QED
      BY <3>1, <3>2
  <2> QED
    BY <2>1 DEF Capacities
<1>3. ASSUME NEW c \in Buffer \ {b},
             TimerEvents(c)' = TimerEvents(c), packet_timer'[c] = packet_timer[c]
      PROVE  PacketTimerIn(c, TimerEvents(c)', packet_timer'[c], items'[c], packets', interrupts')
  <2>1. PacketTimerIn(c, TimerEvents(c), packet_timer[c], items[c], packets, interrupts)
    BY DEF NicInv, PacketTimers
  <2>2. PacketTimerIn(c, TimerEvents(c), packet_timer[c], items[c], packets', interrupts')
    BY <1>1, <2>1, PacketTimerStays
  <2> QED
    BY <1>1, <1>3, <2>2
<1>4. ASSUME NEW c \in Buffer
      PROVE  AbsoluteTimerIn(c, PeriodEvents(c), items'[c], put_queue'[c], packets', now')
  <2>1. AbsoluteTimerIn(c, PeriodEvents(c), items[c], put_queue[c], packets, now)
    BY DEF NicInv, AbsoluteTimers
  <2>2. /\ \A f \in PeriodEvents(c) : f.at \in Nat
        /\ ToSet(items[c]) \subseteq 1 .. Len(packets)
    BY BufferFacts DEF PeriodEvents
  <2>3. ToSet(items'[c]) \subseteq ToSet(items[c])
    BY <1>1, NoElements
  <2>4. AbsoluteTimerIn(c, PeriodEvents(c), items'[c], put_queue[c], packets', now')
    BY <1>1, <2>1, <2>2, <2>3, AbsoluteTimerStays
  <2> QED
    BY <2>4
<1> QED
  BY <1>1, <1>2, <1>3, <1>4

LEMMA PacketTimerInv ==
  ASSUME NicInv, NEW e, PacketTimer(e)
  PROVE  NicInv'
<1>1. PICK b : b = e.of
  OBVIOUS
<1>2. /\ Happens(e, "packet")
      /\ agenda' = (agenda \ {e}) \cup {Event(now', eid, "ended", b)}
      /\ packet_timer' = [packet_timer EXCEPT ![b] = "ended"]
      /\ items' = [items EXCEPT ![b] = << >>] /\ put_queue' = put_queue
      /\ packets' = Stamped(packets, items[b]) /\ Raise(items[b], "packet_timer")
      /\ eid' = eid + 1 /\ status' = status
  BY <1>1 DEF PacketTimer, Emptied
<1>3. /\ e \in agenda /\ e.what = "packet" /\ e \in EventType /\ b \in Buffer
      /\ now \in Nat /\ now' \in Nat /\ now <= now' /\ e.at = now'
      /\ Config[b].packet_time_limit # None
  <2>1. /\ e \in agenda /\ e.what = "packet" /\ e \in EventType /\ EventOK(e, now')
        /\ now \in Nat /\ now' \in Nat /\ now <= now' /\ e.at = now'
    BY <1>2, Happening DEF NicInv
  <2>2. e.of # None /\ Config[e.of].packet_time_limit # None /\ e.of \in Buffer \cup {None}
    BY <2>1 DEF EventOK, EventType
  <2> QED
    BY <1>1, <2>1, <2>2
<1>4. Config[b].packet_time_limit \in Nat \ {0}
  BY <1>3, BufferConfig
<1>5. /\ "packet_timer" \in Reason /\ items[b] \in Seq(Nat)
      /\ Len(packets) \in Nat /\ interrupts \in Seq(Irq) /\ Kept
  BY <1>3, BufferFacts, Stores DEF Reason, NicInv
<1>6. /\ Kept' /\ TracesGrow /\ Len(packets') = Len(packets)
      /\ Raises(interrupts, interrupts', now', items[b], "packet_timer")
  BY <1>2, <1>3, <1>5, FlushKept
<1>7. PICK new : new = Event(now', eid, "ended", b)
  OBVIOUS
<1>8. /\ new.what = "ended" /\ new.of = b /\ EventOK(new, now')
      /\ agenda' = (agenda \ {e}) \cup {new} /\ eid \in Nat
  <2>1. eid \in Nat
    BY DEF NicInv, Clock
  <2>2. new.at = now' /\ new.what = "ended" /\ new.of = b /\ new \in EventType
    BY <1>3, <1>7, <2>1, EventFields
  <2> QED
    BY <1>2, <1>3, <1>7, <2>1, <2>2, ConfigAssumption DEF EventOK
<1>9. /\ packet_timer' \in [Buffer -> {"none", "armed", "ended", "processed"}]
      /\ packet_timer'[b] = "ended" /\ \A c \in Buffer \ {b} : packet_timer'[c] = packet_timer[c]
  BY <1>2, <1>3 DEF NicInv, Clock
<1>10. Clock'
  BY <1>2, <1>8, <1>9, ClockStays DEF NicInv, Clock
<1>11. Arrivals'
  BY <1>6, <1>8, ArrivalsSame DEF NicInv
<1>12. /\ \A c \in Buffer : PeriodEvents(c)' = PeriodEvents(c)
       /\ \A c \in Buffer \ {b} : TimerEvents(c)' = TimerEvents(c)
       /\ TimerEvents(b)' = (TimerEvents(b) \ {e}) \cup {new} /\ e \in TimerEvents(b)
  BY <1>1, <1>3, <1>8 DEF TimerEvents, PeriodEvents
<1>13. PacketTimerIn(b, TimerEvents(b), packet_timer[b], items[b], packets, interrupts)
  BY <1>3 DEF NicInv, PacketTimers
<1>14. TimerEvents(b) = {e}
  BY <1>12, <1>13 DEF PacketTimerIn
<1>15. /\ Capacities' /\ items'[b] = << >>
       /\ \A c \in Buffer \ {b} :
            PacketTimerIn(c, TimerEvents(c)', packet_timer'[c], items'[c], packets', interrupts')
       /\ \A c \in Buffer :
            AbsoluteTimerIn(c, PeriodEvents(c), items'[c], put_queue'[c], packets', now')
  BY <1>2, <1>3, <1>6, <1>9, <1>12, EmptiedInv
<1>16. PacketTimerIn(b, TimerEvents(b)', packet_timer'[b], items'[b], packets', interrupts')
  BY <1>8, <1>9, <1>12, <1>14, <1>15 DEF PacketTimerIn
<1>17. PacketTimers' /\ AbsoluteTimers'
  BY <1>12, <1>15, <1>16 DEF PacketTimers, AbsoluteTimers
<1>18. PICK irq : irq = Interrupt(now', items[b], "packet_timer")
  OBVIOUS
<1>19. irq.at = now' /\ irq.batch = items[b] /\ irq.reason = "packet_timer"
  BY <1>18 DEF Interrupt
<1>20. PICK n \in 1 .. Len(packets) :
         Latest(packets, n, b) /\ e.at = packets[n].arrival_time + Config[b].packet_time_limit
  BY <1>3, <1>12, <1>13 DEF PacketTimerIn
<1>21. /\ items[b] # << >> => /\ Last(items[b]) \in 1 .. Len(packets)
                              /\ To(packets, Last(items[b])) = b
                              /\ To(packets', Last(items[b])) = b
       /\ Within(packets', irq)
  BY <1>3, <1>5, <1>6, <1>18, FlushedBatch
<1>22. Timely(packets', irq)
  <2>1. SUFFICES ASSUME items[b] # << >>
                 PROVE  \E m \in Last(items[b]) .. Len(packets') :
                          /\ LatestBefore(packets', m, b, now')
                          /\ now' = packets'[m].arrival_time + Config[b].packet_time_limit
    BY <1>19, <1>21 DEF Timely
  <2>2. \A m \in 1 .. Len(packets) : /\ To(packets', m) = To(packets, m)
                                     /\ packets'[m].arrival_time = packets[m].arrival_time
    BY <1>6 DEF TracesGrow, Grows
  <2>3. packets[n].arrival_time \in Nat
    BY <1>5, Times DEF Kept
  <2>4. Last(items[b]) <= n
    <3>1. \A m \in n + 1 .. Len(packets) : To(packets, m) # b
      BY <1>20 DEF Latest
    <3> QED
      BY <1>5, <1>21, <2>1, <3>1
  <2>5. n \in Last(items[b]) .. Len(packets')
    BY <1>6, <1>21, <2>1, <2>4
  <2>6. LatestBefore(packets', n, b, now')
    BY <1>3, <1>4, <1>6, <1>20, <2>2, <2>3 DEF Latest, LatestBefore
  <2> QED
    BY <1>3, <1>20, <2>2, <2>5, <2>6
<1>23. /\ Len(interrupts) \in Nat /\ Len(interrupts') = Len(interrupts) + 1
       /\ DOMAIN interrupts = 1 .. Len(interrupts)
       /\ interrupts'[Len(interrupts')].batch = items[b]
       /\ interrupts'[Len(interrupts')].at = now'
       /\ interrupts'[Len(interrupts')].reason = "packet_timer"
  BY <1>3, <1>5, <1>6, Raising
<1>24. items[b] = << >> => Cause(packets', interrupts', Len(interrupts'))
  <2>1. SUFFICES ASSUME items[b] = << >>
                 PROVE  \E j \in 1 .. Len(interrupts') - 1 : \E c \in Buffer :
                          LimitEmptied(packets', interrupts', j, c, now')
    BY <1>23 DEF Cause
  <2>2. PICK j \in DOMAIN interrupts : LimitEmptied(packets, interrupts, j, b, now')
    BY <1>3, <1>12, <1>13, <2>1 DEF PacketTimerIn
  <2>3. LimitEmptied(packets', interrupts', j, b, now')
    BY <1>3, <1>5, <1>6, <2>2, LimitEmptiedStays
  <2> QED
    BY <1>3, <1>23, <2>2, <2>3
<1>25. Irqs'
  BY <1>3, <1>5, <1>6, <1>18, <1>21, <1>22, <1>24, IrqsRaised DEF NicInv
<1> QED
  BY <1>6, <1>10, <1>11, <1>15, <1>17, <1>25 DEF NicInv

\* The traces when the absolute timer finds packets in the store, or none.
LEMMA PeriodTraces ==
  ASSUME NicInv, now' \in Nat, now <= now', NEW b \in Buffer, NEW e \in PeriodEvents(b),
         e.what = "absolute", e.at = now', Config[b].absolute_time_limit # None,
         packets' = Stamped(packets, items[b]),
         IF items[b] # << >> THEN Raise(items[b], "absolute_timer") ELSE UNCHANGED interrupts,
         items' = [items EXCEPT ![b] = << >>], put_queue' = put_queue
  PROVE  Kept' /\ TracesGrow /\ Len(packets') = Len(packets) /\ Irqs'
<1>1. /\ Kept /\ items \in [Buffer -> Seq(Nat)] /\ items[b] \in Seq(Nat)
      /\ packets \in Seq(Row) /\ interrupts \in Seq(Irq) /\ Len(packets) \in Nat
  BY Stores DEF NicInv
<1>2. CASE items[b] = << >>
  <2>1. packets' = packets
    BY <1>1, <1>2, SameRows
  <2>2. items' = items
    BY <1>1, <1>2
  <2>3. interrupts' = interrupts
    BY <1>2
  <2> QED
    BY <2>1, <2>2, <2>3, Untouched
<1>3. CASE items[b] # << >>
  <2>1. "absolute_timer" \in Reason
    BY DEF Reason
  <2>2. /\ Kept' /\ TracesGrow /\ Len(packets') = Len(packets)
        /\ Raises(interrupts, interrupts', now', items[b], "absolute_timer")
    BY <1>1, <1>3, <2>1, FlushKept
  <2>3. PICK irq : irq = Interrupt(now', items[b], "absolute_timer")
    OBVIOUS
  <2>4. irq.at = now' /\ irq.batch = items[b] /\ irq.reason = "absolute_timer"
    BY <2>3 DEF Interrupt
  <2>5. To(packets', Last(items[b])) = b /\ Within(packets', irq)
    BY <1>1, <1>3, <2>2, <2>3, FlushedBatch
  <2>6. AbsoluteTimerIn(b, PeriodEvents(b), items[b], put_queue[b], packets, now)
    BY DEF NicInv, AbsoluteTimers
  <2>7. now' > Config[b].offset /\ (now' - Config[b].offset) % Config[b].absolute_time_limit = 0
    BY <2>6 DEF AbsoluteTimerIn
  <2>8. Timely(packets', irq)
    BY <2>4, <2>5, <2>7 DEF Timely
  <2>9. Irqs'
    BY <1>1, <1>3, <2>1, <2>2, <2>3, <2>5, <2>8, IrqsRaised DEF NicInv
  <2> QED
    BY <2>2, <2>9
<1> QED
  BY <1>2, <1>3

LEMMA NextPeriod ==
  ASSUME NEW x \in Nat, NEW p \in Nat \ {0}, x % p = 0
  PROVE  (x + p) % p = 0
<1>0. PICK j \in Int : j = x + p
  OBVIOUS
<1>1. x = p * (x \div p) /\ x \div p \in Int
  <2>1. x = p * (x \div p) + (x % p) /\ x \div p \in Int
    OBVIOUS
  <2> QED
    BY <2>1
<1>2. j = p * (j \div p) + (j % p) /\ j \div p \in Int /\ j % p \in 0 .. p - 1
  OBVIOUS
<1>3. PICK d \in Int : d = (j \div p) - (x \div p) - 1
  <2>1. PICK y \in Int, z \in Int : y = j \div p /\ z = x \div p
    BY <1>1, <1>2
  <2>2. y - z - 1 \in Int
    OBVIOUS
  <2> QED
    BY <2>1, <2>2
<1>4. p * d = 0 - (j % p) /\ j % p \in 0 .. p - 1
  <2>1. p * d = p * (j \div p) - p * (x \div p) - p
    BY <1>1, <1>2, <1>3
  <2> QED
    BY <1>0, <1>1, <1>2, <2>1
<1>5. d = 0
  <2>1. d >= 1 => p * d >= p
    OBVIOUS
  <2>2. d <= -1 => p * d <= -p
    OBVIOUS
  <2> QED
    BY <1>3, <1>4, <2>1, <2>2
<1> QED
  BY <1>0, <1>2, <1>4, <1>5

LEMMA LaterPeriod ==
  ASSUME NEW t \in Nat, NEW off \in Nat, NEW limit \in Nat, t > off,
         NEW at, at = t + limit
  PROVE  at > off /\ at <= t + limit /\ at - off = (t - off) + limit
OBVIOUS

LEMMA AbsoluteTimerInv ==
  ASSUME NicInv, NEW e, AbsoluteTimer(e)
  PROVE  NicInv'
<1>1. PICK b : b = e.of
  OBVIOUS
<1>2. /\ Happens(e, "absolute") /\ ~ResetFails(b)
      /\ agenda' = Cancelled(agenda \ {e}, b) \cup {Event(now' + Period(b), eid, "absolute", b)}
      /\ packet_timer' = [packet_timer EXCEPT ![b] = IF @ = "armed" THEN "none" ELSE @]
      /\ items' = [items EXCEPT ![b] = << >>] /\ put_queue' = put_queue
      /\ packets' = Stamped(packets, items[b])
      /\ IF items[b] # << >> THEN Raise(items[b], "absolute_timer") ELSE UNCHANGED interrupts
      /\ eid' = eid + 1 /\ status' = status
  BY <1>1 DEF AbsoluteTimer, Emptied, FlushesAtPeriod
<1>3. /\ e \in agenda /\ e.what = "absolute" /\ e \in EventType /\ b \in Buffer
      /\ now \in Nat /\ now' \in Nat /\ now <= now' /\ e.at = now'
      /\ Config[b].absolute_time_limit # None
  <2>1. /\ e \in agenda /\ e.what = "absolute" /\ e \in EventType /\ EventOK(e, now')
        /\ now \in Nat /\ now' \in Nat /\ now <= now' /\ e.at = now'
    BY <1>2, Happening DEF NicInv
  <2>2. e.of # None /\ Config[e.of].absolute_time_limit # None /\ e.of \in Buffer \cup {None}
    BY <2>1 DEF EventOK, EventType
  <2> QED
    BY <1>1, <2>1, <2>2
<1>4. PICK limit : limit = Config[b].absolute_time_limit
  OBVIOUS
<1>5. limit \in Nat \ {0} /\ limit # None /\ Config[b].offset \in Nat
  BY <1>3, <1>4, BufferConfig
<1>6. e \in PeriodEvents(b)
  BY <1>1, <1>3 DEF PeriodEvents
<1>7. Kept' /\ TracesGrow /\ Len(packets') = Len(packets) /\ Irqs'
  BY <1>2, <1>3, <1>6, PeriodTraces
<1>8. PICK new : new = Event(now' + limit, eid, "absolute", b)
  OBVIOUS
<1>9. /\ new.at = now' + limit /\ new.what = "absolute" /\ new.of = b /\ EventOK(new, now')
      /\ agenda' = Cancelled(agenda \ {e}, b) \cup {new} /\ eid \in Nat
  <2>1. eid \in Nat
    BY DEF NicInv, Clock
  <2>2. new.at = now' + limit /\ new.what = "absolute" /\ new.of = b /\ new \in EventType
    BY <1>3, <1>5, <1>8, <2>1, EventFields
  <2>3. EventOK(new, now')
    BY <1>3, <1>4, <1>5, <2>2, ConfigAssumption DEF EventOK
  <2> QED
    BY <1>2, <1>4, <1>8, <2>1, <2>2, <2>3 DEF Period
<1>10. \A f : f \in agenda' <=>
         f = new \/ (f \in agenda /\ f # e /\ ~(f.what = "packet" /\ f.of = b))
  BY <1>9 DEF Cancelled
<1>11. /\ packet_timer \in [Buffer -> {"none", "armed", "ended", "processed"}]
       /\ packet_timer' \in [Buffer -> {"none", "armed", "ended", "processed"}]
       /\ packet_timer'[b] \in {"none", "processed"} /\ packet_timer[b] # "ended"
       /\ \A c \in Buffer \ {b} : packet_timer'[c] = packet_timer[c]
  <2>1. packet_timer \in [Buffer -> {"none", "armed", "ended", "processed"}]
    BY DEF NicInv, Clock
  <2>2. packet_timer[b] # "ended"
    BY <1>2 DEF ResetFails
  <2> QED
    BY <1>2, <1>3, <2>1, <2>2
<1>12. Clock'
  <2>1. \A f \in agenda' : f \in agenda \/ EventOK(f, now')
    BY <1>9, <1>10
  <2>2. Clock /\ Happens(e, "absolute")
    BY <1>2 DEF NicInv
  <2>3. eid' \in Nat /\ status' \in {"running", "crashed", "written"}
    BY <1>2, <1>9 DEF NicInv, Clock
  <2> QED
    BY <1>11, <2>1, <2>2, <2>3, ClockStays
<1>13. Arrivals'
  BY <1>7, <1>9, <1>10, ArrivalsSame DEF NicInv
<1>14. PacketTimerIn(b, TimerEvents(b), packet_timer[b], items[b], packets, interrupts)
  BY <1>3 DEF NicInv, PacketTimers
<1>15. \A f \in TimerEvents(b) : f.what = "packet"
  BY <1>11, <1>14 DEF PacketTimerIn
<1>16. /\ \A c \in Buffer \ {b} : PeriodEvents(c)' = PeriodEvents(c)
       /\ PeriodEvents(b)' = (PeriodEvents(b) \ {e}) \cup {new}
       /\ \A c \in Buffer \ {b} : TimerEvents(c)' = TimerEvents(c)
       /\ TimerEvents(b)' = {}
  <2>1. \A c \in Buffer \ {b} : PeriodEvents(c)' = PeriodEvents(c)
    BY <1>1, <1>3, <1>9, <1>10 DEF PeriodEvents
  <2>2. PeriodEvents(b)' = (PeriodEvents(b) \ {e}) \cup {new}
    BY <1>1, <1>3, <1>9, <1>10 DEF PeriodEvents
  <2>3. \A c \in Buffer \ {b} : TimerEvents(c)' = TimerEvents(c)
    BY <1>1, <1>3, <1>9, <1>10 DEF TimerEvents
  <2>4. TimerEvents(b)' = {}
    BY <1>9, <1>10, <1>15 DEF TimerEvents
  <2> QED
    BY <2>1, <2>2, <2>3, <2>4
<1>17. /\ Capacities' /\ items'[b] = << >>
       /\ \A c \in Buffer \ {b} :
            PacketTimerIn(c, TimerEvents(c)', packet_timer'[c], items'[c], packets', interrupts')
       /\ \A c \in Buffer :
            AbsoluteTimerIn(c, PeriodEvents(c), items'[c], put_queue'[c], packets', now')
  BY <1>2, <1>3, <1>7, <1>11, <1>16, EmptiedInv
<1>18. PacketTimerIn(b, TimerEvents(b)', packet_timer'[b], items'[b], packets', interrupts')
  BY <1>11, <1>16, <1>17 DEF PacketTimerIn
<1>19. AbsoluteTimerIn(b, PeriodEvents(b)', items'[b], put_queue'[b], packets', now')
  <2>1. now' > Config[b].offset /\ (now' - Config[b].offset) % limit = 0
    BY <1>3, <1>4, <1>6, <1>17 DEF AbsoluteTimerIn
  <2>2. now' - Config[b].offset \in Nat
    BY <1>3, <1>5, <2>1
  <2>3. ((now' - Config[b].offset) + limit) % limit = 0
    BY <1>5, <2>1, <2>2, NextPeriod
  <2>4. /\ new.at > Config[b].offset /\ new.at <= now' + limit
        /\ new.at - Config[b].offset = (now' - Config[b].offset) + limit
    <3>1. PICK off \in Nat : off = Config[b].offset
      BY <1>5
    <3>2. PICK at : at = new.at
      OBVIOUS
    <3>3. PICK t \in Nat : t = now'
      BY <1>3
    <3>4. t > off /\ limit \in Nat /\ at = t + limit
      BY <1>5, <1>9, <2>1, <3>1, <3>2, <3>3
    <3>5. at > off /\ at <= t + limit /\ at - off = (t - off) + limit
      BY ONLY <3>4, off \in Nat, t \in Nat, LaterPeriod
    <3> QED
      BY <3>1, <3>2, <3>3, <3>5
  <2>5. ToSet(items'[b]) = {}
    BY <1>17, NoElements
  <2> QED
    BY <1>3, <1>4, <1>9, <1>16, <1>17, <2>3, <2>4, <2>5 DEF AbsoluteTimerIn
<1>20. PacketTimers' /\ AbsoluteTimers'
  BY <1>16, <1>17, <1>18, <1>19 DEF PacketTimers, AbsoluteTimers
<1> QED
  BY <1>7, <1>12, <1>13, <1>17, <1>20 DEF NicInv

-----------------------------------------------------------------------------
(* Arrivals                                                                *)

\* A packet that is for no buffer.
LEMMA ElsewhereInv ==
  ASSUME NicInv, NEW e, Happens(e, "arrival"), Kept', TracesGrow,
         Len(packets') = Len(packets) + 1, To(packets', Len(packets')) \notin Buffer,
         NEW next \in NextArrival, agenda' = (agenda \ {e}) \cup next, eid' = eid + 1,
         UNCHANGED <<items, put_queue, packet_timer, status>>
  PROVE  Clock' /\ Arrivals' /\ Capacities' /\ PacketTimers' /\ AbsoluteTimers'
<1>1. /\ e \in agenda /\ e.what = "arrival" /\ now \in Nat /\ now' \in Nat /\ now <= now'
      /\ Kept /\ Len(packets) \in Nat /\ Len(packets') \in Nat /\ eid \in Nat
  BY Happening, Stores DEF NicInv, Clock
<1>2. \A f \in next : EventOK(f, now') /\ f.what = "arrival" /\ f.of = None
  BY <1>1, NextArrives DEF NicInv
<1>3. Clock'
  <2>1. Clock /\ \A f \in agenda' : f \in agenda \/ EventOK(f, now')
    BY <1>2 DEF NicInv
  <2>2. /\ eid' \in Nat /\ status' \in {"running", "crashed", "written"}
        /\ packet_timer' \in [Buffer -> {"none", "armed", "ended", "processed"}]
    BY <1>1 DEF NicInv, Clock
  <2> QED
    BY <2>1, <2>2, ClockStays
<1>4. Arrivals'
  BY <1>1, ArrivalsStay DEF NicInv
<1>5. Capacities'
  BY DEF NicInv, Capacities
<1>6. \A b \in Buffer : TimerEvents(b)' = TimerEvents(b) /\ PeriodEvents(b)' = PeriodEvents(b)
  BY <1>1, <1>2 DEF TimerEvents, PeriodEvents
<1>7. ASSUME NEW b \in Buffer
      PROVE  PacketTimerIn(b, TimerEvents(b)', packet_timer'[b], items'[b], packets', interrupts')
  <2>1. PacketTimerIn(b, TimerEvents(b), packet_timer[b], items[b], packets, interrupts)
    BY DEF NicInv, PacketTimers
  <2>2. \A n \in 1 .. Len(packets') : n \in 1 .. Len(packets) \/ To(packets', n) # b
    BY <1>1
  <2>3. PacketTimerIn(b, TimerEvents(b), packet_timer[b], items[b], packets', interrupts')
    BY <1>1, <2>1, <2>2, PacketTimerStays
  <2> QED
    BY <1>6, <2>3
<1>8. ASSUME NEW b \in Buffer
      PROVE  AbsoluteTimerIn(b, PeriodEvents(b)', items'[b], put_queue'[b], packets', now')
  <2>1. AbsoluteTimerIn(b, PeriodEvents(b), items[b], put_queue[b], packets, now)
    BY DEF NicInv, AbsoluteTimers
  <2>2. /\ \A f \in PeriodEvents(b) : f.at \in Nat
        /\ ToSet(items[b]) \subseteq 1 .. Len(packets)
    BY BufferFacts DEF PeriodEvents
  <2>3. AbsoluteTimerIn(b, PeriodEvents(b), items[b], put_queue[b], packets', now')
    BY <1>1, <2>1, <2>2, AbsoluteTimerStays
  <2> QED
    BY <1>6, <2>3
<1> QED
  BY <1>3, <1>4, <1>5, <1>7, <1>8 DEF PacketTimers, AbsoluteTimers

LEMMA DropInv ==
  ASSUME NicInv, NEW flow \in Flow, NEW e, DropUnknown(e, flow)
  PROVE  NicInv'
<1>1. /\ Happens(e, "arrival") /\ UNCHANGED <<items, put_queue, packet_timer, interrupts, status>>
      /\ eid' = eid + 1 /\ \E next \in NextArrival : agenda' = (agenda \ {e}) \cup next
  BY DEF DropUnknown, bufferVars
<1>2. now \in Nat /\ now' \in Nat /\ now <= now' /\ Kept /\ Len(packets) \in Nat
  BY <1>1, Happening, Stores DEF NicInv
<1>3. /\ Kept' /\ TracesGrow /\ Len(packets') = Len(packets) + 1
      /\ To(packets', Len(packets')) \notin Buffer
  BY <1>2, DropKept
<1>4. Clock' /\ Arrivals' /\ Capacities' /\ PacketTimers' /\ AbsoluteTimers'
  BY <1>1, <1>3, ElsewhereInv
<1>5. Irqs'
  BY <1>1, <1>2, <1>3, IrqsSame DEF NicInv
<1> QED
  BY <1>3, <1>4, <1>5 DEF NicInv

LEMMA PassInv ==
  ASSUME NicInv, NEW flow \in Flow, NEW e, PassOn(e, flow)
  PROVE  NicInv'
<1>1. /\ Happens(e, "arrival") /\ UNCHANGED <<items, put_queue, packet_timer, status>>
      /\ eid' = eid + 1 /\ \E next \in NextArrival : agenda' = (agenda \ {e}) \cup next
  BY DEF PassOn, bufferVars
<1>2. now \in Nat /\ now' \in Nat /\ now <= now' /\ Kept /\ Len(packets) \in Nat
  BY <1>1, Happening, Stores DEF NicInv
<1>3. /\ Kept' /\ TracesGrow /\ Len(packets') = Len(packets) + 1
      /\ To(packets', Len(packets')) \notin Buffer
      /\ \E batch \in Seq(Nat) :
           /\ Raises(interrupts, interrupts', now', batch, None)
           /\ batch # << >> /\ ToSet(batch) = {Len(packets')}
  BY <1>2, PassKept
<1>4. Clock' /\ Arrivals' /\ Capacities' /\ PacketTimers' /\ AbsoluteTimers'
  BY <1>1, <1>3, ElsewhereInv
<1>5. PICK batch \in Seq(Nat) :
           /\ Raises(interrupts, interrupts', now', batch, None)
           /\ batch # << >> /\ ToSet(batch) = {Len(packets')}
  BY <1>3
<1>6. PICK irq : irq = Interrupt(now', batch, None)
  OBVIOUS
<1>7. irq.at = now' /\ irq.batch = batch /\ irq.reason = None
  BY <1>6 DEF Interrupt
<1>8. Head(batch) = Len(packets') /\ Last(batch) = Len(packets')
  BY <1>5, Elements
<1>9. Within(packets', irq)
  BY <1>3, <1>7, <1>8 DEF Within
<1>10. packets'[Len(packets')].arrival_time = now'
  <2>1. Len(packets') \in 1 .. Len(packets') /\ Len(packets') \notin 1 .. Len(packets)
    BY <1>2, <1>3
  <2> QED
    BY <1>3, <2>1 DEF TracesGrow
<1>11. Timely(packets', irq)
  <2>1. None \notin {"packet_timer", "absolute_timer"}
    BY ConfigAssumption
  <2> QED
    BY <1>7, <1>8, <1>10, <2>1 DEF Timely
<1>12. None \in Reason /\ Len(packets') \in Nat
  BY <1>2, <1>3 DEF Reason
<1>13. Irqs'
  BY <1>2, <1>3, <1>5, <1>6, <1>9, <1>11, <1>12, IrqsRaised DEF NicInv
<1> QED
  BY <1>3, <1>4, <1>13 DEF NicInv

\* A flush by the packet limit lists the packet that has just arrived last.
LEMMA LimitFlush ==
  ASSUME NicInv, NEW b \in Buffer, NEW content, PutLeaves(b, content), LimitReached(b, content)
  PROVE  /\ HasRoom(b) /\ put_queue[b] = << >> /\ Last(content) = Len(packets')
         /\ Len(content) = Config[b].packet_limit
<1>1. /\ Config[b].packet_limit # None /\ Len(content) >= Config[b].packet_limit
  BY DEF LimitReached
<1>2. /\ Config[b].packet_limit \in Nat /\ Config[b].capacity \in Nat
      /\ Len(items[b]) \in Nat /\ Len(items[b]) < Config[b].packet_limit
  BY <1>1, BufferConfig, BufferFacts DEF NicInv, Capacities
<1>3. HasRoom(b) /\ Len(content) = Len(items[b]) + 1
  BY <1>1, <1>2 DEF PutLeaves
<1>4. Config[b].packet_limit <= Config[b].capacity
  BY <1>1, <1>2, <1>3 DEF HasRoom
<1>5. put_queue[b] = << >>
  BY <1>1, <1>4 DEF NicInv, Capacities
<1> QED
  BY <1>1, <1>2, <1>3, <1>5 DEF PutLeaves

LEMMA PutIrqs ==
  ASSUME NicInv, now' \in Nat, now <= now', TracesGrow, NEW b \in Buffer,
         Len(packets) \in Nat, Len(packets') = Len(packets) + 1,
         NEW content, PutLeaves(b, content)
  PROVE  /\ Irqs'
         /\ items'[b] = << >> =>
              \E j \in DOMAIN interrupts' :
                \A at : at = now' + Config[b].packet_time_limit
                       => LimitEmptied(packets', interrupts', j, b, at)
<1>1. Kept /\ Len(packets') \in Nat /\ interrupts \in Seq(Irq)
  BY Stores DEF NicInv
<1>2. CASE ~LimitReached(b, content)
  <2>1. interrupts' = interrupts /\ items'[b] # << >>
    BY <1>2 DEF PutLeaves
  <2>2. Irqs'
    BY <1>1, <2>1, IrqsSame DEF NicInv
  <2> QED
    BY <2>1, <2>2
<1>3. CASE LimitReached(b, content)
  <2>1. /\ Raises(interrupts, interrupts', now', content, "packet_limit")
        /\ content \in Seq(Nat) /\ content # << >>
        /\ \A n \in ToSet(content) : To(packets', n) = b
    BY <1>3 DEF PutLeaves
  <2>2. /\ Last(content) = Len(packets') /\ Len(content) = Config[b].packet_limit
    BY <1>3, LimitFlush
  <2>3. Head(content) \in ToSet(content) /\ Last(content) \in ToSet(content)
    BY <2>1, Elements
  <2>4. To(packets', Head(content)) = b /\ To(packets', Last(content)) = b
    BY <2>1, <2>3
  <2>5. packets'[Len(packets')].arrival_time = now'
    <3>1. Len(packets') \in 1 .. Len(packets') /\ Len(packets') \notin 1 .. Len(packets)
      OBVIOUS
    <3> QED
      BY <3>1 DEF TracesGrow
  <2>6. PICK irq : irq = Interrupt(now', content, "packet_limit")
    OBVIOUS
  <2>7. irq.at = now' /\ irq.batch = content /\ irq.reason = "packet_limit"
    BY <2>6 DEF Interrupt
  <2>8. Len(content) \in Nat
    BY <2>1
  <2>9. Within(packets', irq)
    BY <2>2, <2>4, <2>7, <2>8 DEF Within
  <2>10. Timely(packets', irq)
    BY <2>2, <2>5, <2>7 DEF Timely
  <2>11. "packet_limit" \in Reason
    BY DEF Reason
  <2>12. Irqs'
    BY <1>1, <2>1, <2>6, <2>9, <2>10, <2>11, IrqsRaised DEF NicInv
  <2>13. /\ Len(interrupts') \in DOMAIN interrupts'
         /\ interrupts'[Len(interrupts')].at = now'
         /\ interrupts'[Len(interrupts')].batch = content
         /\ interrupts'[Len(interrupts')].reason = "packet_limit"
    <3>1. /\ Len(interrupts) \in Nat /\ Len(interrupts') = Len(interrupts) + 1
          /\ DOMAIN interrupts' = 1 .. Len(interrupts')
          /\ interrupts'[Len(interrupts')].at = now'
          /\ interrupts'[Len(interrupts')].batch = content
          /\ interrupts'[Len(interrupts')].reason = "packet_limit"
      BY <1>1, <2>1, <2>11, Raising
    <3> QED
      BY <3>1
  <2>14. \A at : at = now' + Config[b].packet_time_limit
                => LimitEmptied(packets', interrupts', Len(interrupts'), b, at)
    BY <2>1, <2>4, <2>13 DEF LimitEmptied
  <2> QED
    BY <2>12, <2>13, <2>14
<1> QED
  BY <1>2, <1>3

LEMMA PutCapacities ==
  ASSUME NicInv, NEW b \in Buffer, NEW content, PutLeaves(b, content)
  PROVE  Capacities'
<1>1. ASSUME NEW c \in Buffer, c # b
      PROVE  items'[c] = items[c] /\ put_queue'[c] = put_queue[c]
  BY <1>1 DEF PutLeaves
<1>2. /\ Len(items[b]) \in Nat /\ Config[b].capacity \in Nat \ {0}
      /\ Len(items[b]) <= Config[b].capacity /\ content \in Seq(Nat) /\ Len(content) \in Nat
  <2>1. content \in Seq(Nat)
    BY DEF PutLeaves
  <2> QED
    BY <2>1, BufferFacts, BufferConfig DEF NicInv, Capacities
<1>3. Len(content) <= Config[b].capacity
  <2>1. CASE HasRoom(b)
    BY <1>2, <2>1 DEF HasRoom, PutLeaves
  <2>2. CASE ~HasRoom(b)
    BY <1>2, <2>2 DEF PutLeaves
  <2> QED
    BY <2>1, <2>2
<1>4. items'[b] = << >> \/ (items'[b] = content /\ ~LimitReached(b, content))
  BY DEF PutLeaves
<1>5. Len(items'[b]) <= Config[b].capacity
  BY <1>2, <1>3, <1>4
<1>6. ASSUME Config[b].packet_limit # None
      PROVE  /\ Len(items'[b]) < Config[b].packet_limit
             /\ Config[b].packet_limit <= Config[b].capacity => put_queue'[b] = << >>
  <2>1. Config[b].packet_limit \in Nat \ {0} /\ Len(items[b]) < Config[b].packet_limit
    BY <1>6, BufferConfig DEF NicInv, Capacities
  <2>2. Len(items'[b]) < Config[b].packet_limit
    BY <1>2, <1>4, <1>6, <2>1 DEF LimitReached
  <2>3. ASSUME Config[b].packet_limit <= Config[b].capacity PROVE put_queue'[b] = << >>
    <3>1. put_queue[b] = << >>
      BY <1>6, <2>3 DEF NicInv, Capacities
    <3>2. HasRoom(b)
      BY <1>2, <2>1, <2>3 DEF HasRoom
    <3> QED
      BY <3>1, <3>2 DEF PutLeaves
  <2> QED
    BY <2>2, <2>3
<1>7. ASSUME NEW c \in Buffer
      PROVE  /\ Len(items'[c]) <= Config[c].capacity
             /\ Config[c].packet_limit # None =>
                  /\ Len(items'[c]) < Config[c].packet_limit
                  /\ Config[c].packet_limit <= Config[c].capacity => put_queue'[c] = << >>
  <2>1. CASE c = b
    BY <1>5, <1>6, <2>1
  <2>2. CASE c # b
    BY <1>1, <2>2 DEF NicInv, Capacities
  <2> QED
    BY <2>1, <2>2
<1> QED
  BY <1>7 DEF Capacities

LEMMA PutAbsolute ==
  ASSUME NicInv, now \in Nat, now' \in Nat, now <= now', TracesGrow, NEW b \in Buffer,
         Len(packets) \in Nat, Len(packets') = Len(packets) + 1,
         NEW content, PutLeaves(b, content), NEW c \in Buffer
  PROVE  AbsoluteTimerIn(c, PeriodEvents(c), items'[c], put_queue'[c], packets', now')
<1>1. /\ AbsoluteTimerIn(c, PeriodEvents(c), items[c], put_queue[c], packets, now)
      /\ Kept /\ \A f \in PeriodEvents(c) : f.at \in Nat
      /\ ToSet(items[c]) \subseteq 1 .. Len(packets)
  BY BufferFacts DEF NicInv, AbsoluteTimers, PeriodEvents
<1>2. packets'[Len(packets')].arrival_time = now'
  <2>1. Len(packets') \in 1 .. Len(packets') /\ Len(packets') \notin 1 .. Len(packets)
    OBVIOUS
  <2> QED
    BY <2>1 DEF TracesGrow
<1>3. CASE c # b
  <2>1. items'[c] = items[c] /\ put_queue'[c] = put_queue[c]
    BY <1>3 DEF PutLeaves
  <2>2. AbsoluteTimerIn(c, PeriodEvents(c), items[c], put_queue[c], packets', now')
    BY <1>1, AbsoluteTimerStays
  <2> QED
    BY <2>1, <2>2
<1>4. CASE c = b
  <2>1. ASSUME put_queue'[b] = << >>
        PROVE  HasRoom(b) /\ put_queue[b] = << >>
    <3>1. put_queue[b] \in Seq(Nat) /\ Len(put_queue[b]) \in Nat
      BY BufferFacts
    <3>2. Len(put_queue'[b]) = 0
      BY <2>1
    <3> QED
      BY <3>1, <3>2 DEF PutLeaves
  <2>2. items'[b] = << >> \/ items'[b] = content
    BY DEF PutLeaves
  <2>3. ASSUME NEW n \in ToSet(items'[b]), put_queue'[b] = << >>
        PROVE  n \in ToSet(items[b]) \/ packets'[n].arrival_time = now'
    <3>1. ToSet(content) = ToSet(items[b]) \cup {Len(packets')}
      BY <2>1, <2>3 DEF PutLeaves
    <3>2. n \in ToSet(content)
      BY <2>2, <2>3, NoElements
    <3> QED
      BY <1>2, <3>1, <3>2
  <2>4. PICK store2, queue2 : store2 = items'[b] /\ queue2 = put_queue'[b]
    OBVIOUS
  <2>5. AbsoluteTimerIn(b, PeriodEvents(b), store2, queue2, packets', now')
    BY <1>1, <1>4, <2>1, <2>3, <2>4, AbsoluteTimerStays
  <2> QED
    BY <1>4, <2>4, <2>5
<1> QED
  BY <1>3, <1>4

LEMMA PutInv ==
  ASSUME NicInv, NEW flow \in Flow, NEW e, Put(e, flow)
  PROVE  NicInv'
<1>1. PICK b : b = Mapping[flow]
  OBVIOUS
<1>2. PICK limit : limit = Config[b].packet_time_limit
  OBVIOUS
<1>3. /\ Happens(e, "arrival") /\ eid' = eid + 2 /\ status' = status
      /\ limit # None => ~ResetFails(b)
      /\ \E next \in NextArrival :
           agenda' = IF limit = None THEN (agenda \ {e}) \cup next
                     ELSE Cancelled(agenda \ {e}, b) \cup next
                            \cup {Event(now' + limit, eid + 1, "packet", b)}
      /\ packet_timer' = IF limit = None THEN packet_timer
                                         ELSE [packet_timer EXCEPT ![b] = "armed"]
  BY <1>1, <1>2 DEF Put
<1>4. /\ e \in agenda /\ e.what = "arrival" /\ e.of = None
      /\ now \in Nat /\ now' \in Nat /\ now <= now'
      /\ Kept /\ Len(packets) \in Nat /\ interrupts \in Seq(Irq)
  <2>1. /\ e \in agenda /\ e.what = "arrival" /\ EventOK(e, now')
        /\ now \in Nat /\ now' \in Nat /\ now <= now'
    BY <1>3, Happening DEF NicInv
  <2> QED
    BY <2>1, Stores DEF NicInv, EventOK
<1>5. /\ Kept' /\ TracesGrow /\ b \in Buffer
      /\ Len(packets') = Len(packets) + 1 /\ To(packets', Len(packets')) = b
      /\ \E content : PutLeaves(b, content)
  BY <1>1, <1>4, PutKept
<1>6. PICK content : PutLeaves(b, content)
  BY <1>5
<1>7. /\ Irqs'
      /\ items'[b] = << >> =>
           \E j \in DOMAIN interrupts' :
             \A at : at = now' + Config[b].packet_time_limit
                    => LimitEmptied(packets', interrupts', j, b, at)
  BY <1>4, <1>5, <1>6, PutIrqs
<1>8. Capacities'
  BY <1>5, <1>6, PutCapacities
<1>9. PICK next \in NextArrival :
           agenda' = IF limit = None THEN (agenda \ {e}) \cup next
                     ELSE Cancelled(agenda \ {e}, b) \cup next
                            \cup {Event(now' + limit, eid + 1, "packet", b)}
  BY <1>3
<1>10. \A f \in next : EventOK(f, now') /\ f.what = "arrival" /\ f.of = None
  BY <1>4, <1>5, NextArrives DEF NicInv
<1>11. PICK new : new = Event(now' + limit, eid + 1, "packet", b)
  OBVIOUS
<1>12. eid \in Nat
  BY DEF NicInv, Clock
<1>13. limit # None =>
         /\ limit \in Nat /\ new.at = now' + limit /\ new.what = "packet" /\ new.of = b
         /\ EventOK(new, now')
  <2>1. SUFFICES ASSUME limit # None
                 PROVE  /\ limit \in Nat /\ new.at = now' + limit
                        /\ new.what = "packet" /\ new.of = b /\ EventOK(new, now')
    OBVIOUS
  <2>2. limit \in Nat
    BY <1>2, <1>5, <2>1, BufferConfig
  <2>3. new.at = now' + limit /\ new.what = "packet" /\ new.of = b /\ new \in EventType
    BY <1>4, <1>5, <1>11, <1>12, <2>2, EventFields
  <2> QED
    BY <1>2, <1>4, <1>5, <2>1, <2>2, <2>3, ConfigAssumption DEF EventOK
<1>14. \A f : f \in agenda' <=>
         \/ f \in next
         \/ f \in agenda /\ f # e /\ (limit = None \/ ~(f.what = "packet" /\ f.of = b))
         \/ limit # None /\ f = new
  BY <1>9, <1>11 DEF Cancelled
<1>15. /\ packet_timer' \in [Buffer -> {"none", "armed", "ended", "processed"}]
       /\ packet_timer'[b] = IF limit = None THEN packet_timer[b] ELSE "armed"
       /\ \A c \in Buffer \ {b} : packet_timer'[c] = packet_timer[c]
  BY <1>3, <1>5 DEF NicInv, Clock
<1>16. Clock'
  <2>1. Clock /\ \A f \in agenda' : f \in agenda \/ EventOK(f, now')
    BY <1>10, <1>13, <1>14 DEF NicInv
  <2>2. eid' \in Nat /\ status' \in {"running", "crashed", "written"}
    BY <1>3, <1>12 DEF NicInv, Clock
  <2> QED
    BY <1>3, <1>15, <2>1, <2>2, ClockStays
<1>17. Arrivals'
  <2>1. \A f \in agenda' : f \in agenda \ {e} \/ f \in next \/ f.what # "arrival"
    BY <1>13, <1>14
  <2>2. /\ Clock /\ Arrivals /\ Happens(e, "arrival")
        /\ Len(packets) \in Nat /\ Len(packets') = Len(packets) + 1
    BY <1>3, <1>4, <1>5 DEF NicInv
  <2> QED
    BY ONLY <2>1, <2>2, next \in NextArrival, ArrivalsStay
<1>18. \A c \in Buffer : PeriodEvents(c)' = PeriodEvents(c)
  BY <1>4, <1>10, <1>13, <1>14 DEF PeriodEvents
<1>19. AbsoluteTimers'
  <2>1. \A c \in Buffer :
          AbsoluteTimerIn(c, PeriodEvents(c), items'[c], put_queue'[c], packets', now')
    BY <1>4, <1>5, <1>6, PutAbsolute
  <2> QED
    BY <1>18, <2>1 DEF AbsoluteTimers
<1>20. ASSUME NEW c \in Buffer, c # b
       PROVE  PacketTimerIn(c, TimerEvents(c)', packet_timer'[c], items'[c], packets', interrupts')
  <2>1. PacketTimerIn(c, TimerEvents(c), packet_timer[c], items[c], packets, interrupts)
    BY DEF NicInv, PacketTimers
  <2>2. TimerEvents(c)' = TimerEvents(c)
    BY <1>4, <1>10, <1>13, <1>14, <1>20 DEF TimerEvents
  <2>3. \A n \in 1 .. Len(packets') : n \in 1 .. Len(packets) \/ To(packets', n) # c
    BY <1>4, <1>5, <1>20
  <2>4. Len(packets') \in Nat
    BY <1>4, <1>5
  <2>5. PacketTimerIn(c, TimerEvents(c), packet_timer[c], items[c], packets', interrupts')
    BY <1>4, <1>5, <2>1, <2>3, <2>4, PacketTimerStays
  <2>6. items'[c] = items[c]
    BY <1>6, <1>20 DEF PutLeaves
  <2> QED
    BY <1>15, <1>20, <2>2, <2>5, <2>6
<1>21. PacketTimerIn(b, TimerEvents(b)', packet_timer'[b], items'[b], packets', interrupts')
  <2>1. PacketTimerIn(b, TimerEvents(b), packet_timer[b], items[b], packets, interrupts)
    BY <1>5 DEF NicInv, PacketTimers
  <2>2. CASE limit = None
    <3>1. TimerEvents(b) = {}
      BY <1>2, <2>2 DEF TimerEvents, NicInv, Clock, EventOK
    <3>2. TimerEvents(b)' = {}
      BY <1>2, <1>16, <2>2 DEF TimerEvents, Clock, EventOK
    <3>3. packet_timer'[b] = packet_timer[b]
      BY <1>15, <2>2
    <3> QED
      BY <1>2, <2>1, <2>2, <3>1, <3>2, <3>3 DEF PacketTimerIn
  <2>3. CASE limit # None
    <3>1. packet_timer[b] # "ended" /\ packet_timer'[b] = "armed"
      BY <1>3, <1>15, <2>3 DEF ResetFails
    <3>2. \A f \in TimerEvents(b) : f.what = "packet"
      BY <2>1, <3>1 DEF PacketTimerIn
    <3>3. TimerEvents(b)' = {new}
      BY <1>4, <1>5, <1>10, <1>13, <1>14, <2>3, <3>2, ConfigAssumption DEF TimerEvents
    <3>4. packets'[Len(packets')].arrival_time = now' /\ Len(packets') \in 1 .. Len(packets')
      <4>1. Len(packets') \in 1 .. Len(packets') /\ Len(packets') \notin 1 .. Len(packets)
        BY <1>4, <1>5
      <4> QED
        BY <1>5, <4>1 DEF TracesGrow
    <3>5. Latest(packets', Len(packets'), b)
      BY <1>4, <1>5 DEF Latest
    <3>6. new.at = packets'[Len(packets')].arrival_time + Config[b].packet_time_limit
      BY <1>2, <1>13, <2>3, <3>4
    <3>7. items'[b] = << >> =>
            \E j \in DOMAIN interrupts' : LimitEmptied(packets', interrupts', j, b, new.at)
      BY <1>2, <1>7, <1>13, <2>3
    <3> QED
      BY <1>13, <2>3, <3>1, <3>3, <3>4, <3>5, <3>6, <3>7 DEF PacketTimerIn
  <2> QED
    BY <2>2, <2>3
<1>22. PacketTimers'
  BY <1>20, <1>21 DEF PacketTimers
<1> QED
  BY <1>5, <1>7, <1>8, <1>16, <1>17, <1>19, <1>22 DEF NicInv

-----------------------------------------------------------------------------
(* The whole invariant                                                     *)

LEMMA InitInv ==
  ASSUME Init
  PROVE  NicInv
<1>1. /\ now = 0 /\ eid = Len(BufferOrder) + 2 /\ status = "running"
      /\ items = [b \in Buffer |-> << >>] /\ put_queue = [b \in Buffer |-> << >>]
      /\ packet_timer = [b \in Buffer |-> "none"]
      /\ packets = << >> /\ interrupts = << >>
  BY DEF Init
<1>2. PICK first \in 0 .. MaxGap :
        agenda = {Event(Config[BufferOrder[k]].offset, k, "offset", BufferOrder[k]) :
                    k \in {j \in DOMAIN BufferOrder :
                             Config[BufferOrder[j]].absolute_time_limit # None}}
                   \cup {Event(first, Len(BufferOrder) + 1, "arrival", None)}
  BY DEF Init
<1> DEFINE offset(k) == Event(Config[BufferOrder[k]].offset, k, "offset", BufferOrder[k])
           arrival   == Event(first, Len(BufferOrder) + 1, "arrival", None)
           Timed     == {j \in DOMAIN BufferOrder :
                           Config[BufferOrder[j]].absolute_time_limit # None}
<1>3. /\ Len(BufferOrder) \in Nat /\ first \in Nat /\ RUNTIME \in Nat
      /\ \A k \in DOMAIN BufferOrder : k \in Nat /\ BufferOrder[k] \in Buffer
      /\ \A b \in Buffer : \E k \in DOMAIN BufferOrder : BufferOrder[k] = b
      /\ MaxPackets \in Nat /\ MaxPackets > 0 /\ None \notin Buffer
  BY ConfigAssumption DEF ToSet
<1>4. /\ arrival.at = first /\ arrival.what = "arrival" /\ arrival.of = None
      /\ arrival \in EventType
  BY <1>3, EventFields
<1>5. ASSUME NEW k \in Timed
      PROVE  /\ offset(k).at = Config[BufferOrder[k]].offset /\ offset(k).what = "offset"
             /\ offset(k).of = BufferOrder[k] /\ offset(k) \in EventType
             /\ offset(k).at \in Nat
             /\ BufferOrder[k] \in Buffer
             /\ Config[BufferOrder[k]].absolute_time_limit # None
  <2>1. BufferOrder[k] \in Buffer /\ k \in Nat
    BY <1>3
  <2>2. Config[BufferOrder[k]].offset \in Nat
    BY <2>1, BufferConfig
  <2> QED
    BY <2>1, <2>2, EventFields
<1>6. \A f : f \in agenda <=> f = arrival \/ \E k \in Timed : f = offset(k)
  BY <1>2
<1> HIDE DEF offset, arrival, Timed
<1>7. \A f \in agenda : EventOK(f, now)
  <2>1. EventOK(arrival, now)
    BY <1>1, <1>3, <1>4 DEF EventOK
  <2>2. ASSUME NEW k \in Timed PROVE EventOK(offset(k), now)
    BY <1>1, <1>3, <1>5 DEF EventOK
  <2> QED
    BY <1>6, <2>1, <2>2
<1>8. Clock
  BY <1>1, <1>3, <1>7 DEF Clock
<1>9. Arrivals
  <2>1. Len(packets) = 0
    BY <1>1
  <2>2. \A f \in agenda : f.what = "arrival" => f = arrival
    BY <1>5, <1>6
  <2> QED
    BY <1>3, <2>1, <2>2 DEF Arrivals
<1>10. ASSUME NEW b \in Buffer
       PROVE  items[b] = << >> /\ put_queue[b] = << >> /\ packet_timer[b] = "none"
  BY <1>1
<1>11. Capacities
  <2>1. ASSUME NEW b \in Buffer
        PROVE  /\ Len(items[b]) <= Config[b].capacity
               /\ Config[b].packet_limit # None => Len(items[b]) < Config[b].packet_limit
    <3>1. Len(items[b]) = 0
      BY <1>10
    <3> QED
      BY <3>1, BufferConfig
  <2> QED
    BY <1>10, <2>1 DEF Capacities
<1>12. PacketTimers
  <2>1. ASSUME NEW b \in Buffer PROVE TimerEvents(b) = {}
    BY <1>4, <1>5, <1>6 DEF TimerEvents
  <2> QED
    BY <1>10, <2>1 DEF PacketTimers, PacketTimerIn
<1>13. AbsoluteTimers
  <2>1. ASSUME NEW b \in Buffer, Config[b].absolute_time_limit # None
        PROVE  AbsoluteTimerIn(b, PeriodEvents(b), items[b], put_queue[b], packets, now)
    <3>1. PICK k \in DOMAIN BufferOrder : BufferOrder[k] = b
      BY <1>3
    <3>2. k \in Timed
      BY <2>1, <3>1 DEF Timed
    <3>3. offset(k) \in PeriodEvents(b)
      BY <1>5, <1>6, <3>1, <3>2 DEF PeriodEvents
    <3>4. \A f \in PeriodEvents(b) : f.what = "offset" /\ f.at = Config[b].offset
      BY <1>3, <1>4, <1>5, <1>6 DEF PeriodEvents
    <3> QED
      BY <3>3, <3>4 DEF AbsoluteTimerIn
  <2> QED
    BY <2>1 DEF AbsoluteTimers, AbsoluteTimerIn
<1>14. Irqs
  BY <1>1 DEF Irqs
<1>15. Kept
  <2>1. TypesIn(packets, interrupts, items, put_queue, now)
    BY <1>1 DEF TypesIn
  <2>2. \A b \in Buffer : Inside(items, put_queue, b) = {}
    BY <1>10, NoElements DEF Inside
  <2>3. RoutedIn(packets, interrupts, items, put_queue) /\ PastIn(packets, interrupts, now)
    BY <1>1, <2>2 DEF RoutedIn, PastIn
  <2>4. AgreeIn(packets, interrupts, items, put_queue)
    BY <1>1, <2>2 DEF AgreeIn
  <2>5. OrderIn(packets, interrupts, items, put_queue)
    <3>1. ASSUME NEW b \in Buffer
          PROVE  /\ Ascending(items[b]) /\ Ascending(put_queue[b])
                 /\ Below(ToSet(items[b]), ToSet(put_queue[b]))
      BY <1>10, NoElements DEF Below
    <3> QED
      BY <1>1, <3>1 DEF OrderIn
  <2> QED
    BY <2>1, <2>3, <2>4, <2>5 DEF Kept, StoreInv
<1> QED
  BY <1>8, <1>9, <1>11, <1>12, <1>13, <1>14, <1>15 DEF NicInv

LEMMA StepInv ==
  ASSUME NicInv, [Next]_vars
  PROVE  NicInv'
<1>1. ASSUME NEW e \in agenda, NEW flow \in Flow, Arrival(e, flow) PROVE NicInv'
  <2>1. CASE DropUnknown(e, flow)
    BY <2>1, DropInv
  <2>2. CASE PassOn(e, flow)
    BY <2>2, PassInv
  <2>3. CASE Put(e, flow)
    BY <2>3, PutInv
  <2>4. CASE PutCrashes(e, flow)
    BY <2>4, CrashInv DEF PutCrashes
  <2> QED
    BY <1>1, <2>1, <2>2, <2>3, <2>4 DEF Arrival
<1>2. ASSUME NEW e \in agenda, Timers(e) PROVE NicInv'
  <2>1. CASE OffsetElapsed(e)
    BY <2>1, OffsetInv
  <2>2. CASE AbsoluteTimer(e)
    BY <2>2, AbsoluteTimerInv
  <2>3. CASE AbsoluteTimerCrashes(e)
    BY <2>3, CrashInv DEF AbsoluteTimerCrashes
  <2>4. CASE PacketTimer(e)
    BY <2>4, PacketTimerInv
  <2>5. CASE PacketTimerProcessed(e)
    BY <2>5, ProcessedInv
  <2> QED
    BY <1>2, <2>1, <2>2, <2>3, <2>4, <2>5 DEF Timers
<1>3. ASSUME UNCHANGED vars PROVE NicInv'
  <2>1. /\ UNCHANGED <<now, agenda, eid, status, items, put_queue, packet_timer,
                       packets, interrupts>>
    BY <1>3 DEF vars, bufferVars
  <2>2. Kept' /\ Irqs' /\ Clock' /\ Arrivals' /\ Capacities'
    BY <2>1 DEF NicInv, Kept, Irqs, Clock, Arrivals, Capacities
  <2>3. PacketTimers' /\ AbsoluteTimers'
    BY <2>1 DEF NicInv, PacketTimers, TimerEvents, AbsoluteTimers, PeriodEvents
  <2> QED
    BY <2>2, <2>3 DEF NicInv
<1> QED
  BY <1>1, <1>2, <1>3, FinishInv DEF Next, Stopped

THEOREM InvHolds == Spec => []NicInv
<1>1. Init => NicInv
  BY InitInv
<1>2. NicInv /\ [Next]_vars => NicInv'
  BY StepInv
<1> QED
  BY <1>1, <1>2, PTL DEF Spec

-----------------------------------------------------------------------------
(* What follows from it                                                    *)

LEMMA Destined ==
  \A n : Destination(n) = To(packets, n)
BY DEF Destination, To

LEMMA Retyped ==
  ASSUME NEW s \in Seq(Nat), NEW S, ToSet(s) \subseteq S
  PROVE  s \in Seq(S)
<1>1. \A i \in 1 .. Len(s) : s[i] \in S
  BY Elements
<1> QED
  BY <1>1

LEMMA TypeFollows == NicInv => SimulatorTypeOK
<1> SUFFICES ASSUME NicInv PROVE SimulatorTypeOK
  OBVIOUS
<1>1. /\ Len(packets) \in Nat /\ Len(packets) <= MaxPackets /\ MaxPackets \in Nat
      /\ 1 .. Len(packets) \subseteq 1 .. MaxPackets
  BY Stores, ConfigAssumption DEF NicInv, Arrivals
<1>2. ASSUME NEW b \in Buffer
      PROVE  /\ items[b] \in Seq(1 .. MaxPackets) /\ Len(items[b]) <= Config[b].capacity
             /\ put_queue[b] \in Seq(1 .. MaxPackets)
             /\ packet_timer[b] \in {"none", "armed", "ended", "processed"}
             /\ IF packet_timer[b] \in {"armed", "ended"}
                  THEN \E e \in agenda : /\ TimerEvents(b) = {e}
                                         /\ e.what = "packet" <=> packet_timer[b] = "armed"
                  ELSE TimerEvents(b) = {}
  <2>1. ToSet(items[b]) \subseteq 1 .. Len(packets) /\ ToSet(put_queue[b]) \subseteq 1 .. Len(packets)
    BY DEF NicInv, Kept, StoreInv, RoutedIn, Inside
  <2>2. items[b] \in Seq(Nat) /\ put_queue[b] \in Seq(Nat)
    BY BufferFacts
  <2>3. items[b] \in Seq(1 .. MaxPackets)
    BY <1>1, <2>1, <2>2, Retyped
  <2>4. put_queue[b] \in Seq(1 .. MaxPackets)
    BY <1>1, <2>1, <2>2, Retyped
  <2>5. PacketTimerIn(b, TimerEvents(b), packet_timer[b], items[b], packets, interrupts)
    BY DEF NicInv, PacketTimers
  <2>6. TimerEvents(b) \subseteq agenda
    BY DEF TimerEvents
  <2>7. IF packet_timer[b] \in {"armed", "ended"}
          THEN \E e \in agenda : /\ TimerEvents(b) = {e}
                                 /\ e.what = "packet" <=> packet_timer[b] = "armed"
          ELSE TimerEvents(b) = {}
    BY <2>5, <2>6 DEF PacketTimerIn
  <2> QED
    BY <2>3, <2>4, <2>7 DEF NicInv, Clock, Capacities
<1>3. packets \in Seq([flow : Flow, arrival_time : Nat, irq_time : Nat \cup {None}])
  BY Stores DEF NicInv, Row
<1>4. interrupts \in Seq([at : Nat, batch : Seq(1 .. MaxPackets),
                         reason : {None, "packet_limit", "packet_timer", "absolute_timer"}])
  <2>1. ASSUME NEW k \in 1 .. Len(interrupts)
        PROVE  interrupts[k] \in [at : Nat, batch : Seq(1 .. MaxPackets), reason : Reason]
    <3>1. interrupts \in Seq(Irq)
      BY Stores DEF NicInv
    <3>2. interrupts[k] \in Irq /\ k \in DOMAIN interrupts
      BY <3>1
    <3>3. interrupts[k].batch \in Seq(Nat) /\ ToSet(interrupts[k].batch) \subseteq 1 .. MaxPackets
      BY <1>1, <3>2, BatchOf DEF NicInv
    <3>4. interrupts[k].batch \in Seq(1 .. MaxPackets)
      BY <3>3, Retyped
    <3> QED
      BY <3>2, <3>4 DEF Irq
  <2>2. interrupts \in Seq(Irq)
    BY Stores DEF NicInv
  <2>3. interrupts \in Seq([at : Nat, batch : Seq(1 .. MaxPackets), reason : Reason])
    <3>1. PICK R : R = [at : Nat, batch : Seq(1 .. MaxPackets), reason : Reason]
      OBVIOUS
    <3>2. \A k \in 1 .. Len(interrupts) : interrupts[k] \in R
      BY <2>1, <3>1
    <3>3. interrupts \in Seq(R)
      BY <2>2, <3>2
    <3> QED
      BY <3>1, <3>3
  <2> QED
    BY <2>3 DEF Reason
<1>5. agenda \subseteq EventType /\ eid \in Nat /\ now \in 0 .. RUNTIME
  BY DEF NicInv, Clock, EventOK
<1>6. status \in {"running", "crashed", "written"}
  BY DEF NicInv, Clock
<1> QED
  BY <1>2, <1>3, <1>4, <1>5, <1>6 DEF SimulatorTypeOK

LEMMA OrderFollows == NicInv => InOrderOnce
<1> SUFFICES ASSUME NicInv, NEW b \in Buffer, NEW place, place = Place(b)
             PROVE  /\ \A n \in DOMAIN packets :
                         Destination(n) = b => \E k \in DOMAIN place : n \in ToSet(place[k])
                    /\ \A k, l \in DOMAIN place : \A i \in DOMAIN place[k], j \in DOMAIN place[l] :
                         /\ Destination(place[k][i]) = b /\ Destination(place[l][j]) = b
                         /\ k < l \/ (k = l /\ i < j)
                         => place[k][i] < place[l][j]
  BY DEF InOrderOnce
<1>0. PICK N \in Nat : N = Len(interrupts)
  BY Stores DEF NicInv
<1>1. /\ interrupts \in Seq(Irq) /\ N \in Nat /\ DOMAIN interrupts = 1 .. N
      /\ DOMAIN packets = 1 .. Len(packets)
      /\ items[b] \in Seq(Nat) /\ put_queue[b] \in Seq(Nat)
  BY <1>0, Stores, BufferFacts DEF NicInv
<1>2. /\ DOMAIN place = 1 .. N + 2
      /\ \A k \in 1 .. N : place[k] = interrupts[k].batch
      /\ place[N + 1] = items[b] /\ place[N + 2] = put_queue[b]
  BY <1>0, <1>1 DEF Place
<1>3. \A k \in DOMAIN place : k \in DOMAIN interrupts \/ k = N + 1 \/ k = N + 2
  BY <1>1, <1>2
<1>4. \A k \in DOMAIN interrupts : interrupts[k].batch \in Seq(Nat)
  BY BatchOf DEF NicInv
<1>5. OrderIn(packets, interrupts, items, put_queue)
  BY DEF NicInv, Kept, StoreInv
<1>6. ASSUME NEW n \in DOMAIN packets, Destination(n) = b
      PROVE  \E k \in DOMAIN place : n \in ToSet(place[k])
  <2>1. n \in Inside(items, put_queue, b) \/ \E k \in DOMAIN interrupts : n \in Listed(interrupts, k)
    BY <1>1, <1>5, <1>6, Destined DEF OrderIn
  <2>2. CASE \E k \in DOMAIN interrupts : n \in Listed(interrupts, k)
    BY <1>1, <1>2, <2>2 DEF Listed
  <2>3. CASE n \in ToSet(items[b])
    <3>1. N + 1 \in DOMAIN place /\ n \in ToSet(place[N + 1])
      BY <1>1, <1>2, <2>3
    <3> QED
      BY <3>1
  <2>4. CASE n \in ToSet(put_queue[b])
    <3>1. N + 2 \in DOMAIN place /\ n \in ToSet(place[N + 2])
      BY <1>1, <1>2, <2>4
    <3> QED
      BY <3>1
  <2> QED
    BY <2>1, <2>2, <2>3, <2>4 DEF Inside
<1>7. ASSUME NEW k \in DOMAIN place, NEW l \in DOMAIN place,
             NEW i \in DOMAIN place[k], NEW j \in DOMAIN place[l],
             Destination(place[k][i]) = b, Destination(place[l][j]) = b,
             k < l \/ (k = l /\ i < j)
      PROVE  place[k][i] < place[l][j]
  <2>1. place[k] \in Seq(Nat) /\ place[l] \in Seq(Nat)
    BY <1>1, <1>2, <1>3, <1>4
  <2>2. PICK x, y : /\ x = place[k][i] /\ y = place[l][j]
                    /\ x \in ToSet(place[k]) /\ y \in ToSet(place[l])
                    /\ To(packets, x) = b /\ To(packets, y) = b
    BY <1>7, <2>1, Elements, Destined
  <2>3. Ascending(place[k])
    BY <1>1, <1>2, <1>3, <1>5 DEF OrderIn
  <2>4. CASE k = l
    <3>1. i < j
      BY <1>1, <1>2, <1>7, <2>4
    <3> QED
      BY <2>3, <2>4, <3>1 DEF Ascending
  <2>5. CASE k < l /\ k \in DOMAIN interrupts
    <3>1. x \in Listed(interrupts, k)
      BY <1>1, <1>2, <2>2, <2>5 DEF Listed
    <3>2. CASE l \in DOMAIN interrupts
      <4>1. y \in Listed(interrupts, l)
        BY <1>1, <1>2, <2>2, <3>2 DEF Listed
      <4> QED
        BY <1>5, <2>2, <2>5, <3>1, <3>2, <4>1 DEF OrderIn
    <3>3. CASE l = N + 1 \/ l = N + 2
      <4>1. y \in Inside(items, put_queue, b)
        BY <1>2, <2>2, <3>3 DEF Inside
      <4>2. Below({x}, Inside(items, put_queue, b))
        BY <1>5, <2>2, <2>5, <3>1 DEF OrderIn
      <4> QED
        BY <2>2, <4>1, <4>2 DEF Below
    <3> QED
      BY <1>3, <3>2, <3>3
  <2>6. CASE k < l /\ k \notin DOMAIN interrupts
    <3>1. k = N + 1 /\ l = N + 2
      BY <1>1, <1>2, <1>3, <2>6
    <3>2. x \in ToSet(items[b]) /\ y \in ToSet(put_queue[b])
      BY <1>2, <2>2, <3>1
    <3>3. Below(ToSet(items[b]), ToSet(put_queue[b]))
      BY <1>5 DEF OrderIn
    <3> QED
      BY <2>2, <3>2, <3>3 DEF Below
  <2> QED
    BY <1>7, <2>4, <2>5, <2>6
<1> QED
  BY <1>6, <1>7

LEMMA TimesFollow == NicInv => IrqTimesAgree
<1> SUFFICES ASSUME NicInv, NEW n \in DOMAIN packets, NEW listed,
                    listed = {k \in DOMAIN interrupts : n \in ToSet(interrupts[k].batch)}
             PROVE  {interrupts[k].at : k \in listed} = {packets[n].irq_time} \ {None}
  BY DEF IrqTimesAgree
<1>1. n \in 1 .. Len(packets) /\ None \notin Nat
  BY Stores, ConfigAssumption DEF NicInv
<1>2. /\ \A k \in DOMAIN interrupts : n \in Listed(interrupts, k) => interrupts[k].at = packets[n].irq_time
      /\ packets[n].irq_time # None => \E k \in DOMAIN interrupts : n \in Listed(interrupts, k)
  BY <1>1 DEF NicInv, Kept, StoreInv, AgreeIn
<1>3. \A k \in listed : /\ interrupts[k].at = packets[n].irq_time
                        /\ interrupts[k].at \in Nat /\ interrupts[k].at # None
  <2>1. \A k \in listed : k \in DOMAIN interrupts /\ n \in Listed(interrupts, k)
    BY DEF Listed
  <2> QED
    BY <1>1, <1>2, <2>1, BatchOf DEF NicInv
<1>4. packets[n].irq_time # None => \E k \in listed : TRUE
  BY <1>2 DEF Listed
<1> QED
  BY <1>3, <1>4

LEMMA MaxIs ==
  ASSUME NEW S, S \subseteq Int, NEW x \in S, \A y \in S : x >= y
  PROVE  Max(S) = x
<1>1. PICK m : m = Max(S)
  OBVIOUS
<1>2. m \in S /\ \A y \in S : m >= y
  BY <1>1 DEF Max
<1>3. m >= x /\ x >= m /\ m \in Int /\ x \in Int
  BY <1>2
<1>4. m = x
  BY ONLY <1>3
<1> QED
  BY <1>1, <1>4

LEMMA LatencyFollows == NicInv => LatencyBound
<1> SUFFICES ASSUME NicInv, NEW b \in Buffer, put_queue[b] = << >>, Held(b) # {}
             PROVE  /\ Config[b].absolute_time_limit # None =>
                         \A n \in Held(b) :
                           now <= Max({packets[n].arrival_time, Config[b].offset})
                                    + Config[b].absolute_time_limit
                    /\ Config[b].packet_time_limit # None =>
                         now <= packets[Max(Held(b))].arrival_time + Config[b].packet_time_limit
  BY DEF LatencyBound
<1>1. /\ Held(b) = ToSet(items[b]) /\ items[b] # << >> /\ items[b] \in Seq(Nat)
  BY BufferFacts, NoElements DEF Held
<1>2. /\ \A f \in agenda : f.at \in Nat /\ now <= f.at
      /\ now \in Nat /\ Len(packets) \in Nat
      /\ \A n \in 1 .. Len(packets) : packets[n].arrival_time \in Nat
  BY Times, Stores DEF NicInv, Clock, EventOK, EventType, Kept
<1>3. \A n \in ToSet(items[b]) : n \in 1 .. Len(packets)
  BY BufferFacts
<1>4. ASSUME Config[b].absolute_time_limit # None, NEW n \in Held(b)
      PROVE  now <= Max({packets[n].arrival_time, Config[b].offset}) + Config[b].absolute_time_limit
  <2>1. PICK p \in Nat, o \in Nat, a \in Nat :
          /\ p = packets[n].arrival_time /\ o = Config[b].offset
          /\ a = Config[b].absolute_time_limit
    BY <1>1, <1>2, <1>3, <1>4, BufferConfig
  <2>2. PICK m \in {p, o} : m >= p /\ m >= o
    BY <2>1
  <2>3. Max({p, o}) = m
    <3>1. {p, o} \subseteq Int /\ \A y \in {p, o} : m >= y
      BY <2>1, <2>2
    <3> QED
      BY <2>2, <3>1, MaxIs
  <2>4. AbsoluteTimerIn(b, PeriodEvents(b), items[b], put_queue[b], packets, now)
    BY DEF NicInv, AbsoluteTimers
  <2>5. PICK f \in PeriodEvents(b) : TRUE
    BY <1>4, <2>4 DEF AbsoluteTimerIn
  <2>6. /\ f.what \in {"offset", "absolute"} /\ f.at \in Nat /\ now <= f.at
    BY <1>2 DEF PeriodEvents
  <2>7. CASE f.what = "offset"
    <3>1. f.at = o
      BY <1>4, <2>1, <2>4, <2>7 DEF AbsoluteTimerIn
    <3>2. now <= m + a
      BY <1>2, <2>1, <2>2, <2>6, <3>1
    <3> QED
      BY <2>1, <2>3, <3>2
  <2>8. CASE f.what = "absolute"
    <3>1. InTime(b, f, n, packets)
      BY <1>1, <1>4, <2>4, <2>8 DEF AbsoluteTimerIn
    <3>2. f.at <= p + a \/ f.at <= o + a
      BY <2>1, <3>1 DEF InTime
    <3>3. now \in Nat /\ f.at \in Nat /\ m \in Nat
      BY <1>2, <2>1, <2>2, <2>6
    <3>4. f.at <= m + a
      <4>1. p \in Nat /\ o \in Nat /\ a \in Nat /\ m \in Nat /\ p <= m /\ o <= m
        BY <2>2
      <4>2. p + a <= m + a /\ o + a <= m + a /\ p + a \in Nat /\ o + a \in Nat /\ m + a \in Nat
        BY ONLY <4>1
      <4> QED
        BY <3>2, <3>3, <4>2
    <3>5. now <= m + a
      BY <2>1, <2>6, <3>3, <3>4
    <3> QED
      BY <2>1, <2>3, <3>5
  <2> QED
    BY <2>6, <2>7, <2>8
<1>5. ASSUME Config[b].packet_time_limit # None
      PROVE  now <= packets[Max(Held(b))].arrival_time + Config[b].packet_time_limit
  <2>1. PacketTimerIn(b, TimerEvents(b), packet_timer[b], items[b], packets, interrupts)
    BY DEF NicInv, PacketTimers
  <2>2. packet_timer[b] = "armed"
    BY <1>1, <1>5, <2>1 DEF PacketTimerIn
  <2>3. PICK f \in TimerEvents(b) : f.what = "packet"
    BY <2>1, <2>2 DEF PacketTimerIn
  <2>4. PICK n \in 1 .. Len(packets) :
          Latest(packets, n, b) /\ f.at = packets[n].arrival_time + Config[b].packet_time_limit
    BY <2>1, <2>3 DEF PacketTimerIn
  <2>5. now <= f.at
    BY <1>2 DEF TimerEvents
  <2>6. \A m \in Held(b) : m \in 1 .. Len(packets) /\ m <= n
    <3>1. SUFFICES ASSUME NEW m \in Held(b), m > n PROVE FALSE
      BY <1>1, <1>3
    <3>2. m \in 1 .. Len(packets) /\ To(packets, m) = b
      BY <1>1 DEF NicInv, Kept, StoreInv, RoutedIn, Inside
    <3>3. m \in n + 1 .. Len(packets)
      BY <1>2, <3>1, <3>2
    <3> QED
      BY <2>4, <3>2, <3>3 DEF Latest
  <2>7. n \in Held(b)
    <3>1. SUFFICES ASSUME n \notin Held(b) PROVE FALSE
      OBVIOUS
    <3>2. OrderIn(packets, interrupts, items, put_queue) /\ To(packets, n) = b
      BY <2>4 DEF NicInv, Kept, StoreInv, Latest
    <3>3. PICK k \in DOMAIN interrupts : n \in Listed(interrupts, k)
      BY <3>1, <3>2 DEF OrderIn, Inside, Held
    <3>4. Below({n}, Inside(items, put_queue, b))
      BY <3>2, <3>3 DEF OrderIn
    <3>5. PICK m \in Held(b) : TRUE
      OBVIOUS
    <3>6. n < m
      BY <3>4, <3>5 DEF Below, Inside, Held
    <3> QED
      BY <2>6, <3>5, <3>6
  <2>8. Max(Held(b)) = n
    <3>1. Held(b) \subseteq Int /\ \A m \in Held(b) : n >= m
      BY <2>6
    <3> QED
      BY <2>7, <3>1, MaxIs
  <2> QED
    BY <2>4, <2>5, <2>8
<1> QED
  BY <1>4, <1>5

LEMMA PunctualFollows == NicInv => Punctual
<1> SUFFICES ASSUME NicInv, NEW k \in DOMAIN interrupts, interrupts[k].batch # << >>,
                    NEW b, b = Destination(Last(interrupts[k].batch))
             PROVE  CASE interrupts[k].reason = "packet_timer" ->
                           \E n \in Last(interrupts[k].batch) .. Len(packets) :
                             /\ LastBefore(n, b, interrupts[k].at)
                             /\ interrupts[k].at
                                  = packets[n].arrival_time + Config[b].packet_time_limit
                      [] interrupts[k].reason = "absolute_timer" ->
                           interrupts[k].at > Config[b].offset
                             /\ (interrupts[k].at - Config[b].offset)
                                  % Config[b].absolute_time_limit = 0
                      [] OTHER -> interrupts[k].at = packets[Last(interrupts[k].batch)].arrival_time
  BY DEF Punctual
<1>1. Timely(packets, interrupts[k]) /\ b = To(packets, Last(interrupts[k].batch))
  BY Destined DEF NicInv, Irqs
<1>2. CASE interrupts[k].reason = "packet_timer"
  <2>1. PICK n \in Last(interrupts[k].batch) .. Len(packets) :
          /\ LatestBefore(packets, n, b, interrupts[k].at)
          /\ interrupts[k].at = packets[n].arrival_time + Config[b].packet_time_limit
    BY <1>1, <1>2 DEF Timely
  <2>2. LastBefore(n, b, interrupts[k].at)
    BY <2>1, Destined DEF LatestBefore, LastBefore
  <2> QED
    BY <1>2, <2>1, <2>2
<1>3. CASE interrupts[k].reason = "absolute_timer"
  <2>1. /\ interrupts[k].at > Config[b].offset
        /\ (interrupts[k].at - Config[b].offset) % Config[b].absolute_time_limit = 0
    BY <1>1, <1>3 DEF Timely
  <2> QED
    BY <1>3, <2>1
<1>4. CASE interrupts[k].reason \notin {"packet_timer", "absolute_timer"}
  <2>1. interrupts[k].at = packets[Last(interrupts[k].batch)].arrival_time
    BY <1>1, <1>4 DEF Timely
  <2> QED
    BY <1>4, <2>1
<1> QED
  BY <1>2, <1>3, <1>4

LEMMA WithinFollows == NicInv => BatchWithinLimit
<1> SUFFICES ASSUME NicInv, NEW k \in DOMAIN interrupts, NEW b \in Buffer,
                    interrupts[k].batch # << >>, Destination(Head(interrupts[k].batch)) = b,
                    Config[b].packet_limit # None
             PROVE  Len(interrupts[k].batch) <= Config[b].packet_limit
  BY DEF BatchWithinLimit
<1>1. Within(packets, interrupts[k])
  BY DEF NicInv, Irqs
<1> QED
  BY <1>1, Destined DEF Within

LEMMA CauseFollows == NicInv => EmptyOnlyAfterLimit
<1> SUFFICES ASSUME NicInv, NEW k \in DOMAIN interrupts, interrupts[k].batch = << >>
             PROVE  /\ interrupts[k].reason = "packet_timer"
                    /\ \E j \in 1 .. k - 1 :
                         /\ interrupts[j].reason = "packet_limit"
                         /\ interrupts[k].at = interrupts[j].at
                              + Config[Destination(Head(interrupts[j].batch))].packet_time_limit
  BY DEF EmptyOnlyAfterLimit
<1>1. interrupts[k].reason = "packet_timer"
  BY DEF NicInv, Irqs, Cause
<1>2. PICK j \in 1 .. k - 1, b \in Buffer :
        LimitEmptied(packets, interrupts, j, b, interrupts[k].at)
  BY DEF NicInv, Irqs, Cause
<1>3. /\ interrupts[j].reason = "packet_limit"
      /\ Destination(Head(interrupts[j].batch)) = b
      /\ interrupts[k].at = interrupts[j].at + Config[b].packet_time_limit
  BY <1>2, Destined DEF LimitEmptied
<1> QED
  BY <1>1, <1>2, <1>3

-----------------------------------------------------------------------------
(* The properties, for every configuration, mapping and trace              *)

\* Typing; the store never exceeds its capacity, and SimPy's queue holds exactly one
\* event of a packet timer that is armed or ended, none of any other: _reset_packet_timer()
\* leaves no superseded timer behind.
THEOREM TypeOKHolds == Spec => []SimulatorTypeOK
BY InvHolds, TypeFollows, PTL

\* Packets of one buffer leave in their order of arrival, each in exactly one
\* interrupt, through every mix of flushes and of put()s beyond the capacity.
THEOREM InOrderOnceHolds == Spec => []InOrderOnce
BY InvHolds, OrderFollows, PTL

\* Every packet has the time of the one interrupt that lists it.
THEOREM IrqTimesAgreeHolds == Spec => []IrqTimesAgree
BY InvHolds, TimesFollow, PTL

\* Without overflow, a packet leaves within the absolute timer's period and within
\* the packet timer's limit after the buffer's latest packet.
THEOREM LatencyBoundHolds == Spec => []LatencyBound
BY InvHolds, LatencyFollows, PTL

\* No timer is early, and no superseded packet timer fires.
THEOREM PunctualHolds == Spec => []Punctual
BY InvHolds, PunctualFollows, PTL

\* An interrupt without packets comes only from a packet timer that put() has armed
\* after the packet limit had flushed the buffer.
THEOREM EmptyOnlyAfterLimitHolds == Spec => []EmptyOnlyAfterLimit
BY InvHolds, CauseFollows, PTL

\* No batch exceeds the buffer's packet_limit, whatever flushes it.
THEOREM BatchWithinLimitHolds == Spec => []BatchWithinLimit
BY InvHolds, WithinFollows, PTL

\* The packets waiting for room in a store never become fewer.
THEOREM OverflowPersistsHolds == Spec => OverflowPersists
<1> DEFINE NoFewer == \A b \in Buffer : Len(put_queue'[b]) >= Len(put_queue[b])
<1>1. NicInv /\ [Next]_vars => [NoFewer]_vars
  <2> SUFFICES ASSUME NicInv, Next PROVE NoFewer
    BY DEF vars
  <2>1. \A b \in Buffer : put_queue[b] \in Seq(Nat) /\ Len(put_queue[b]) \in Nat
    BY BufferFacts
  <2>2. CASE put_queue' = put_queue
    BY <2>1, <2>2
  <2>3. ASSUME NEW e, NEW flow, Put(e, flow) PROVE NoFewer
    <3>1. PICK b \in Buffer : b = Mapping[flow]
      BY <2>3 DEF Put
    <3>2. PICK waiting : waiting = Append(put_queue[b], Len(packets) + 1)
      OBVIOUS
    <3>3. put_queue' = [put_queue EXCEPT ![b] = StillWaiting(b, waiting)]
      BY <2>3, <3>1, <3>2 DEF Put
    <3>4. Len(packets) + 1 \in Nat /\ put_queue \in [Buffer -> Seq(Nat)]
      BY Stores DEF NicInv
    <3>5. /\ waiting \in Seq(Nat) /\ Len(put_queue[b]) \in Nat
          /\ Len(waiting) = Len(put_queue[b]) + 1
      BY <2>1, <3>2, <3>4
    <3>6. Len(StillWaiting(b, waiting)) >= Len(put_queue[b])
      BY <3>5 DEF StillWaiting
    <3> QED
      BY <2>1, <3>3, <3>4, <3>6
  <2>4. (\E e, flow : Put(e, flow)) \/ put_queue' = put_queue
    BY DEF Next, Arrival, Timers, DropUnknown, PassOn, PutCrashes, OffsetElapsed, AbsoluteTimer,
           AbsoluteTimerCrashes, PacketTimer, PacketTimerProcessed, Finish, Stopped, vars,
           bufferVars
  <2> QED
    BY <2>2, <2>3, <2>4
<1> QED
  BY <1>1, InvHolds, PTL DEF Spec, OverflowPersists
=============================================================================
