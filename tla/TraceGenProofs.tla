--------------------------- MODULE TraceGenProofs ---------------------------
(***************************************************************************)
(* Proofs about TraceGen, for every definition of flows.  While the flows  *)
(* are generated, the rows so far are ascending in time within each flow,  *)
(* complete for the flows that have ended, and as far as the generator is  *)
(* for the flow under way.  The sort is a permutation that puts the rows   *)
(* in order of time and, within a time, in the order they had before.      *)
(***************************************************************************)
EXTENDS TraceGen, WellFoundedInduction, FunctionTheorems, FiniteSetTheorems, TLAPS

Row == [time : Nat, flow : Nat]

\* The trace as it would be joined now.
Joined == traces \o irq_trace

Ascending(list) ==
  \A m, n \in DOMAIN list :
    m < n /\ list[m].flow = list[n].flow => list[m].time < list[n].time

\* The n-th packet of a flow of constant load.
NthTime(f, n) == f.offset + n * Interval(f.frequency)
Has(list, k, time) == \E n \in DOMAIN list : list[n].flow = k /\ list[n].time = time
\* The times of the first rows of a recording, and all that it has.
From(list, k, f, rows) ==
  /\ \A r \in DOMAIN f.times : r <= rows => Has(list, k, f.times[r] + f.offset)
  /\ \A n \in DOMAIN list : list[n].flow = k =>
       \E r \in DOMAIN f.times : r <= rows /\ list[n].time = f.times[r] + f.offset

\* Flow k has all its packets.
Complete(list, k, f) ==
  /\ f.load = "CONSTANT" => \A n \in Nat : NthTime(f, n) <= NR_TICKS => Has(list, k, NthTime(f, n))
  /\ f.load = "TRACE" =>
       /\ \A r \in DOMAIN f.times : f.times[r] < NR_TICKS => Has(list, k, f.times[r] + f.offset)
       /\ \A n \in DOMAIN list : list[n].flow = k =>
            \E r \in DOMAIN f.times : f.times[r] < NR_TICKS /\ list[n].time = f.times[r] + f.offset

Types ==
  /\ flows \in Flows /\ flow \in Nat /\ flow <= Len(flows)
  /\ pc \in {"flow", "const", "recorded", "done"}
  /\ pc \in {"const", "recorded"} => flow # 0
  /\ pc = "const" => flows[flow].load = "CONSTANT"
  /\ pc = "recorded" => flows[flow].load = "TRACE"
  /\ t \in Nat /\ row \in Nat \ {0}
  /\ irq_trace \in Seq(Row) /\ traces \in Seq(Row)

\* A flow of constant load has the packets before t, which is the time of its next.
ConstantSoFar ==
  pc = "const" =>
    /\ \A n \in DOMAIN Joined : Joined[n].flow = flow => Joined[n].time < t
    /\ \E c \in Nat : /\ t = NthTime(flows[flow], c)
                      /\ \A n \in Nat : n < c => Has(Joined, flow, NthTime(flows[flow], n))

\* A recorded flow has the times of the rows before row, the last of which is last_time.
RecordedSoFar ==
  pc = "recorded" =>
    /\ row <= Len(flows[flow].times) + 1
    /\ last_time = IF row = 1 THEN -1 ELSE flows[flow].times[row - 1]
    /\ \A r \in DOMAIN flows[flow].times : r < row => flows[flow].times[r] < NR_TICKS
    /\ From(Joined, flow, flows[flow], row - 1)

\* The flows before are complete, the flows to come have nothing.
FlowsSoFar ==
  pc # "done" =>
    /\ Ascending(Joined)
    /\ \A n \in DOMAIN Joined : Joined[n].flow \in 1 .. flow
    /\ \A k \in 1 .. flow : k < flow \/ pc = "flow" => Complete(Joined, k, flows[k])

\* The trace that is written.
Ready ==
  pc = "done" =>
    /\ Replayable
    /\ \A k \in DOMAIN flows : Complete(traces, k, flows[k])

GenInv == Types /\ ConstantSoFar /\ RecordedSoFar /\ FlowsSoFar /\ Ready

-----------------------------------------------------------------------------
(* Numbers                                                                 *)

LEMMA LeastNumber ==
  ASSUME NEW T, T \subseteq Nat, T # {}
  PROVE  \E x \in T : \A y \in T : x <= y
<1>1. PICK R : R = OpToRel(<, Nat)
  OBVIOUS
<1>2. IsWellFoundedOn(R, Nat)
  BY <1>1, NatLessThanWellFounded
<1>3. PICK x \in T : \A y \in T : ~ (<<y, x>> \in R)
  BY <1>2, WFMin
<1>4. \A y \in T : y < x => <<y, x>> \in R
  BY <1>1 DEF OpToRel
<1>5. ASSUME NEW y \in T PROVE x <= y
  <2>1. ~ (y < x) /\ x \in Nat /\ y \in Nat
    BY <1>3, <1>4
  <2> QED
    BY ONLY <2>1
<1> QED
  BY <1>3, <1>5

LEMMA Multiples ==
  ASSUME NEW a \in Nat, NEW b \in Nat, NEW i \in Nat
  PROVE  /\ a * i \in Nat /\ b * i \in Nat
         /\ a <= b => a * i <= b * i
         /\ (a + 1) * i = a * i + i
         /\ (a + b) * i = a * i + b * i
<1>1. ASSUME a <= b PROVE a * i <= b * i
  <2>1. PICK d \in Nat : b = a + d
    <3>1. b - a \in Nat /\ b = a + (b - a)
      BY <1>1
    <3> QED
      BY <3>1
  <2>2. d * i \in Nat /\ b * i = a * i + d * i
    BY <2>1
  <2> QED
    BY <2>2
<1> QED
  BY <1>1

LEMMA IntervalFacts ==
  ASSUME NEW f \in 1 .. TIME_RESOLUTION
  PROVE  Interval(f) \in Nat \ {0} /\ f * Interval(f) <= TIME_RESOLUTION
<1>1. TIME_RESOLUTION \in Nat /\ f \in Nat /\ f > 0 /\ f <= TIME_RESOLUTION
  BY FlowsAssumption
<1>2. PICK i : i = TIME_RESOLUTION \div f
  OBVIOUS
<1>3. i \in Nat /\ f * i <= TIME_RESOLUTION /\ i > 0
  BY <1>1, <1>2
<1> QED
  BY <1>2, <1>3 DEF Interval

LEMMA TicksType == NR_TICKS \in Nat /\ TIME_RESOLUTION \in Nat \ {0}
<1>1. DURATION \in Nat /\ TIME_RESOLUTION \in Nat \ {0}
  BY FlowsAssumption
<1> QED
  BY <1>1 DEF NR_TICKS

\* The rows of a recording are in order, not only neighbours.
LEMMA RecordingAscends ==
  ASSUME NEW f, IsRecorded(f), NEW m \in DOMAIN f.times
  PROVE  \A n \in DOMAIN f.times : m <= n => f.times[m] <= f.times[n]
<1>1. PICK times \in Seq(Nat), l \in Nat :
        /\ times = f.times /\ l = Len(times) /\ DOMAIN times = 1 .. l
        /\ \A n \in 2 .. l : times[n - 1] <= times[n]
        /\ \A n \in 1 .. l : times[n] \in Nat
  <2>1. f.times \in Seq(Nat) /\ \A n \in 2 .. Len(f.times) : f.times[n - 1] <= f.times[n]
    BY DEF IsRecorded
  <2>2. PICK times \in Seq(Nat) : times = f.times
    BY <2>1
  <2>3. Len(times) \in Nat /\ DOMAIN times = 1 .. Len(times) /\ \A n \in 1 .. Len(times) : times[n] \in Nat
    OBVIOUS
  <2> QED
    BY <2>1, <2>2, <2>3
<1> DEFINE Bad == {n \in 1 .. l : m <= n /\ ~ (times[m] <= times[n])}
<1>2. SUFFICES ASSUME Bad # {} PROVE FALSE
  BY <1>1
<1>3. PICK n \in Bad : \A k \in Bad : n <= k
  <2>1. Bad \subseteq Nat
    OBVIOUS
  <2> HIDE DEF Bad
  <2> QED
    BY <1>2, <2>1, LeastNumber
<1>4. n \in 2 .. l /\ m <= n - 1 /\ n - 1 \in 1 .. l /\ m \in 1 .. l
  <2>1. n # m
    BY <1>1, <1>3
  <2> QED
    BY <1>1, <1>3, <2>1
<1>5. n - 1 \notin Bad
  BY <1>3, <1>4
<1>6. times[m] <= times[n - 1] /\ times[n - 1] <= times[n]
  BY <1>1, <1>4, <1>5
<1>7. times[m] \in Nat /\ times[n - 1] \in Nat /\ times[n] \in Nat
  BY <1>1, <1>4
<1>8. ~ (times[m] <= times[n])
  BY <1>3
<1> QED
  BY ONLY <1>6, <1>7, <1>8

-----------------------------------------------------------------------------
(* The sort                                                                *)

\* Row i comes not after row j.
UpTo(list, i, j) ==
  \/ list[i].time < list[j].time
  \/ list[i].time = list[j].time /\ i <= j

\* A list holds the rows of another one, each once, in order of time and within
\* a time in the order they had.
Arranged(sorted, list, origin) ==
  /\ DOMAIN sorted = DOMAIN list /\ origin \in [DOMAIN list -> DOMAIN list]
  /\ \A n \in DOMAIN list : sorted[n] = list[origin[n]]
  /\ \A i \in DOMAIN list : \E n \in DOMAIN list : origin[n] = i
  /\ \A m, n \in DOMAIN list : m < n => origin[m] # origin[n] /\ UpTo(list, origin[m], origin[n])

LEMMA SortArranges ==
  ASSUME NEW list \in Seq(Row)
  PROVE  Sorted(list) \in Seq(Row) /\ \E origin : Arranged(Sorted(list), list, origin)
<1>1. PICK l \in Nat : l = Len(list) /\ DOMAIN list = 1 .. l /\ \A i \in 1 .. l : list[i] \in Row
  OBVIOUS
<1>2. \A i \in 1 .. l : list[i].time \in Nat
  BY <1>1 DEF Row
<1>3. PICK upTo : upTo = [i \in 1 .. l |-> {j \in 1 .. l : UpTo(list, j, i)}]
  OBVIOUS
<1>4. PICK place : place = [i \in 1 .. l |-> Cardinality(upTo[i])]
  OBVIOUS
<1>5. IsFiniteSet(1 .. l) /\ Cardinality(1 .. l) = l
  BY FS_Interval
<1>6. ASSUME NEW i \in 1 .. l
      PROVE  upTo[i] \subseteq 1 .. l /\ i \in upTo[i] /\ IsFiniteSet(upTo[i]) /\ place[i] \in 1 .. l
  <2>1. upTo[i] \subseteq 1 .. l /\ i \in upTo[i]
    BY <1>2, <1>3 DEF UpTo
  <2>2. IsFiniteSet(upTo[i]) /\ Cardinality(upTo[i]) <= l
    BY <1>5, <2>1, FS_Subset
  <2>3. Cardinality(upTo[i]) \in Nat /\ Cardinality(upTo[i]) # 0
    BY <2>1, <2>2, FS_CardinalityType, FS_EmptySet
  <2> QED
    BY <1>4, <2>1, <2>2, <2>3
<1>7. ASSUME NEW i \in 1 .. l, NEW j \in 1 .. l, i # j, UpTo(list, i, j)
      PROVE  place[i] < place[j]
  <2>1. upTo[i] \subseteq upTo[j]
    BY <1>2, <1>3, <1>7 DEF UpTo
  <2>2. j \in upTo[j] /\ j \notin upTo[i]
    BY <1>2, <1>3, <1>6, <1>7 DEF UpTo
  <2>3. Cardinality(upTo[i]) <= Cardinality(upTo[j]) /\ Cardinality(upTo[i]) # Cardinality(upTo[j])
    BY <1>6, <2>1, <2>2, FS_Subset
  <2>4. place[i] \in Nat /\ place[j] \in Nat
    BY <1>6
  <2> QED
    BY <1>4, <2>3, <2>4
<1>8. ASSUME NEW i \in 1 .. l, NEW j \in 1 .. l PROVE UpTo(list, i, j) \/ UpTo(list, j, i)
  <2>1. list[i].time \in Nat /\ list[j].time \in Nat
    BY <1>2
  <2> QED
    BY <2>1 DEF UpTo
<1>9. \A i, j \in 1 .. l : place[i] = place[j] => i = j
  <2>1. SUFFICES ASSUME NEW i \in 1 .. l, NEW j \in 1 .. l, i # j PROVE place[i] # place[j]
    OBVIOUS
  <2>2. place[i] < place[j] \/ place[j] < place[i]
    BY <1>7, <1>8, <2>1
  <2>3. place[i] \in Nat /\ place[j] \in Nat
    BY <1>6
  <2> QED
    BY <2>2, <2>3
<1>10. place \in Surjection(1 .. l, 1 .. l)
  <2>1. place \in [1 .. l -> 1 .. l]
    BY <1>4, <1>6
  <2>2. place \in Injection(1 .. l, 1 .. l)
    BY <1>9, <2>1, Fun_IsInj
  <2> QED
    BY <1>5, <2>2, FS_Injection
<1>11. \A n \in 1 .. l : \E i \in 1 .. l : place[i] = n
  BY <1>10, Fun_SurjectionProperties
<1>12. \A i \in 1 .. l : Place(list, i) = place[i]
  BY <1>1, <1>3, <1>4 DEF Place, UpTo
<1>13. PICK origin : origin = [n \in 1 .. l |-> CHOOSE i \in 1 .. l : place[i] = n]
  OBVIOUS
<1>14. \A n \in 1 .. l : origin[n] \in 1 .. l /\ place[origin[n]] = n
  BY <1>11, <1>13
<1>15. PICK sorted : sorted = [n \in 1 .. l |-> list[origin[n]]]
  OBVIOUS
<1>16. Sorted(list) = sorted
  <2>1. \A n \in 1 .. l : (CHOOSE i \in 1 .. l : Place(list, i) = n) = origin[n]
    BY <1>12, <1>13
  <2>2. PICK s : s = [n \in 1 .. l |-> list[CHOOSE i \in 1 .. l : Place(list, i) = n]]
    OBVIOUS
  <2>3. Sorted(list) = s
    BY <1>1, <2>2 DEF Sorted
  <2>4. ASSUME NEW n \in 1 .. l PROVE s[n] = sorted[n]
    <3>1. s[n] = list[CHOOSE i \in 1 .. l : Place(list, i) = n]
      BY <2>2
    <3>2. (CHOOSE i \in 1 .. l : Place(list, i) = n) = origin[n]
      BY <2>1
    <3> QED
      BY <1>15, <3>1, <3>2
  <2>5. s = sorted
    <3>1. s = [n \in 1 .. l |-> s[n]]
      BY <2>2
    <3>2. sorted = [n \in 1 .. l |-> sorted[n]]
      BY <1>15
    <3> QED
      BY <2>4, <3>1, <3>2
  <2> QED
    BY <2>3, <2>5
<1>17. sorted \in Seq(Row)
  <2>1. sorted \in [1 .. l -> Row]
    BY <1>1, <1>14, <1>15
  <2> QED
    BY <2>1
<1>18. ASSUME NEW i \in 1 .. l PROVE \E n \in 1 .. l : origin[n] = i
  <2>1. place[i] \in 1 .. l
    BY <1>6
  <2>2. origin[place[i]] \in 1 .. l /\ place[origin[place[i]]] = place[i]
    BY <1>14, <2>1
  <2> QED
    BY <1>9, <2>1, <2>2
<1>19. ASSUME NEW m \in 1 .. l, NEW n \in 1 .. l, m < n
       PROVE  origin[m] # origin[n] /\ UpTo(list, origin[m], origin[n])
  <2>1. PICK i \in 1 .. l, j \in 1 .. l : i = origin[m] /\ j = origin[n] /\ place[i] = m /\ place[j] = n
    BY <1>14
  <2>2. i # j /\ ~ (place[j] < place[i])
    BY <1>19, <2>1
  <2> QED
    BY <1>7, <1>8, <2>1, <2>2
<1>20. Arranged(sorted, list, origin)
  <2>1. DOMAIN sorted = 1 .. l /\ origin \in [1 .. l -> 1 .. l]
    BY <1>13, <1>14, <1>15
  <2> QED
    BY <1>1, <1>15, <1>18, <1>19, <2>1 DEF Arranged
<1> QED
  BY <1>16, <1>17, <1>20

-----------------------------------------------------------------------------
(* Flows and rows                                                          *)

LEMMA FlowFacts ==
  ASSUME NEW fs \in Flows, NEW k \in DOMAIN fs
  PROVE  /\ fs[k].load \in {"CONSTANT", "TRACE"} /\ fs[k].offset \in Nat
         /\ fs[k].load = "CONSTANT" => fs[k].frequency \in 1 .. TIME_RESOLUTION
         /\ fs[k].load = "TRACE" => IsRecorded(fs[k])
<1>1. fs[k] \in ConstantFlow \/ IsRecorded(fs[k])
  BY FlowsAssumption
<1>2. CASE fs[k] \in ConstantFlow
  BY <1>2 DEF ConstantFlow
<1>3. CASE IsRecorded(fs[k])
  BY <1>3 DEF IsRecorded
<1> QED
  BY <1>1, <1>2, <1>3

LEMMA FlowDomain ==
  ASSUME NEW fs \in Flows
  PROVE  Len(fs) \in Nat /\ DOMAIN fs = 1 .. Len(fs)
<1>1. PICK S : fs \in Seq(S)
  BY FlowsAssumption
<1> QED
  BY <1>1

\* Two lists have the same packets of flow k.
AlsoIn(list, other, k) == \A n \in DOMAIN list : list[n].flow = k => Has(other, k, list[n].time)

LEMMA CompleteAlso ==
  ASSUME NEW list, NEW other, NEW k, NEW f,
         AlsoIn(list, other, k), AlsoIn(other, list, k), Complete(list, k, f)
  PROVE  Complete(other, k, f)
<1>1. ASSUME NEW time, Has(list, k, time) PROVE Has(other, k, time)
  BY <1>1 DEF AlsoIn, Has
<1>2. ASSUME f.load = "CONSTANT", NEW n \in Nat, NthTime(f, n) <= NR_TICKS
      PROVE  Has(other, k, NthTime(f, n))
  <2>1. Has(list, k, NthTime(f, n))
    BY <1>2 DEF Complete
  <2> QED
    BY <1>1, <2>1
<1>3. ASSUME f.load = "TRACE", NEW r \in DOMAIN f.times, f.times[r] < NR_TICKS
      PROVE  Has(other, k, f.times[r] + f.offset)
  <2>1. Has(list, k, f.times[r] + f.offset)
    BY <1>3 DEF Complete
  <2> QED
    BY <1>1, <2>1
<1>4. ASSUME f.load = "TRACE", NEW n \in DOMAIN other, other[n].flow = k
      PROVE  \E r \in DOMAIN f.times : f.times[r] < NR_TICKS /\ other[n].time = f.times[r] + f.offset
  <2>1. PICK m \in DOMAIN list : list[m].flow = k /\ list[m].time = other[n].time
    BY <1>4 DEF AlsoIn, Has
  <2> QED
    BY <1>4, <2>1 DEF Complete
<1> QED
  BY <1>2, <1>3, <1>4 DEF Complete

\* other is list with a further packet.
Grown(list, other, k, time) ==
  \E l \in Nat :
    /\ DOMAIN list = 1 .. l /\ DOMAIN other = 1 .. l + 1
    /\ \A n \in 1 .. l : other[n] = list[n]
    /\ other[l + 1].flow = k /\ other[l + 1].time = time

LEMMA JoinedGrows ==
  ASSUME Types, NEW time \in Nat, traces' = traces,
         irq_trace' = Append(irq_trace, [time |-> time, flow |-> flow])
  PROVE  irq_trace' \in Seq(Row) /\ Grown(Joined, Joined', flow, time)
<1>1. PICK done \in Seq(Row), rows \in Seq(Row), new \in Row :
        /\ done = traces /\ rows = irq_trace /\ new = [time |-> time, flow |-> flow]
  BY DEF Types, Row
<1>2. PICK list, other : list = done \o rows /\ other = done \o Append(rows, new)
  OBVIOUS
<1>3. PICK d \in Nat, r \in Nat : d = Len(done) /\ r = Len(rows)
  OBVIOUS
<1>4. DOMAIN list = 1 .. d + r /\ DOMAIN other = 1 .. d + r + 1
  BY <1>2, <1>3
<1>5. \A n \in 1 .. d + r : other[n] = list[n]
  BY <1>2, <1>3
<1>6. other[d + r + 1] = new
  BY <1>2, <1>3
<1>7. list = Joined /\ other = Joined'
  BY <1>1, <1>2 DEF Joined
<1>8. Append(rows, new) \in Seq(Row)
  OBVIOUS
<1>9. Grown(list, other, flow, time)
  <2>1. PICK l \in Nat : l = d + r
    OBVIOUS
  <2>2. DOMAIN list = 1 .. l /\ DOMAIN other = 1 .. l + 1 /\ \A n \in 1 .. l : other[n] = list[n]
    BY <1>4, <1>5, <2>1
  <2>3. other[l + 1].flow = flow /\ other[l + 1].time = time
    BY <1>1, <1>6, <2>1
  <2> QED
    BY <2>2, <2>3 DEF Grown
<1> QED
  BY <1>1, <1>7, <1>8, <1>9

LEMMA GrownFacts ==
  ASSUME NEW list, NEW other, NEW k, NEW time \in Nat, Grown(list, other, k, time),
         \A n \in DOMAIN list : list[n].flow = k => list[n].time < time
  PROVE  /\ Ascending(list) => Ascending(other)
         /\ \A j : j # k => AlsoIn(list, other, j) /\ AlsoIn(other, list, j)
         /\ \A j, x : Has(list, j, x) => Has(other, j, x)
         /\ Has(other, k, time)
         /\ \A n \in DOMAIN other :
              \/ n \in DOMAIN list /\ other[n] = list[n]
              \/ other[n].flow = k /\ other[n].time = time
<1>1. PICK l \in Nat : /\ DOMAIN list = 1 .. l /\ DOMAIN other = 1 .. l + 1
                       /\ \A n \in 1 .. l : other[n] = list[n]
                       /\ other[l + 1].flow = k /\ other[l + 1].time = time
  BY DEF Grown
<1>2. 1 .. l \subseteq 1 .. l + 1 /\ l + 1 \in 1 .. l + 1 /\ \A n \in 1 .. l + 1 : n \in 1 .. l \/ n = l + 1
  OBVIOUS
<1>3. \A n \in DOMAIN other : \/ n \in DOMAIN list /\ other[n] = list[n]
                              \/ other[n].flow = k /\ other[n].time = time
  BY <1>1, <1>2
<1>4. \A j, x : Has(list, j, x) => Has(other, j, x)
  <2>1. \A n \in DOMAIN list : n \in DOMAIN other /\ other[n] = list[n]
    BY <1>1, <1>2
  <2> QED
    BY <2>1 DEF Has
<1>5. Has(other, k, time)
  BY <1>1, <1>2 DEF Has
<1>6. ASSUME NEW j, j # k PROVE AlsoIn(list, other, j) /\ AlsoIn(other, list, j)
  <2>1. AlsoIn(list, other, j)
    BY <1>4 DEF AlsoIn, Has
  <2>2. AlsoIn(other, list, j)
    BY <1>3, <1>6 DEF AlsoIn, Has
  <2> QED
    BY <2>1, <2>2
<1>7. ASSUME Ascending(list), NEW m \in DOMAIN other, NEW n \in DOMAIN other,
             m < n, other[m].flow = other[n].flow
      PROVE  other[m].time < other[n].time
  <2>1. m \in 1 .. l
    BY <1>1, <1>7
  <2>2. CASE n \in 1 .. l
    BY <1>1, <1>7, <2>1, <2>2 DEF Ascending
  <2>3. CASE n = l + 1
    BY <1>1, <1>7, <2>1, <2>3
  <2> QED
    BY <1>1, <1>2, <2>2, <2>3
<1>8. Ascending(list) => Ascending(other)
  BY <1>7 DEF Ascending
<1> QED
  BY <1>3, <1>4, <1>5, <1>6, <1>8

-----------------------------------------------------------------------------
(* The generators                                                          *)

LEMMA GenInit == ASSUME Init PROVE GenInv
<1>1. Len(flows) \in Nat /\ flows \in Flows
  BY FlowDomain DEF Init
<1>2. Joined = << >>
  BY DEF Init, Joined
<1>3. Types
  BY <1>1 DEF Init, Types
<1>4. FlowsSoFar
  <2>1. DOMAIN Joined = {}
    BY <1>2
  <2>2. flow = 0
    BY DEF Init
  <2> QED
    BY <2>1, <2>2 DEF FlowsSoFar, Ascending
<1> QED
  BY <1>3, <1>4 DEF Init, GenInv, ConstantSoFar, RecordedSoFar, Ready

LEMMA BeginStep == ASSUME GenInv, BeginFlow PROVE GenInv'
<1> DEFINE k == flow + 1
<1>1. Types /\ FlowsSoFar /\ pc = "flow" /\ flow < Len(flows)
  BY DEF GenInv, BeginFlow
<1>2. /\ flows' = flows /\ flow' = k /\ row' = 1 /\ last_time' = -1 /\ irq_trace' = << >>
      /\ traces' = traces \o irq_trace /\ t' = flows[k].offset
      /\ pc' = IF flows[k].load = "CONSTANT" THEN "const" ELSE "recorded"
  BY DEF BeginFlow
<1>3. flow \in Nat /\ k \in Nat /\ k # 0 /\ k <= Len(flows) /\ k \in DOMAIN flows /\ flows \in Flows
  BY <1>1, FlowDomain DEF Types
<1>4. /\ flows[k].load \in {"CONSTANT", "TRACE"} /\ flows[k].offset \in Nat
      /\ flows[k].load = "CONSTANT" => flows[k].frequency \in 1 .. TIME_RESOLUTION
      /\ flows[k].load = "TRACE" => IsRecorded(flows[k])
  BY <1>3, FlowFacts
<1>5. Joined' = Joined /\ traces' \in Seq(Row) /\ irq_trace' \in Seq(Row)
  <2>1. traces' \in Seq(Row) /\ irq_trace' \in Seq(Row)
    BY <1>1, <1>2 DEF Types
  <2>2. traces' \o << >> = traces'
    BY <2>1
  <2> QED
    BY <1>2, <2>1, <2>2 DEF Joined
<1>6. \A n \in DOMAIN Joined : Joined[n].flow \in 1 .. flow
  BY <1>1 DEF FlowsSoFar
<1>7. \A n \in DOMAIN Joined : Joined[n].flow # k
  <2>1. k \notin 1 .. flow
    BY <1>3
  <2> QED
    BY <1>6, <2>1
<1>8. Types'
  BY <1>2, <1>3, <1>4, <1>5 DEF Types
<1>9. ConstantSoFar'
  <2>1. SUFFICES ASSUME pc' = "const"
                 PROVE  \E c \in Nat :
                          /\ t' = NthTime(flows[k], c)
                          /\ \A n \in Nat : n < c => Has(Joined, k, NthTime(flows[k], n))
    BY <1>2, <1>5, <1>7 DEF ConstantSoFar
  <2>2. PICK i \in Nat : i = Interval(flows[k].frequency)
    BY <1>2, <1>4, <2>1, IntervalFacts
  <2>3. t' = NthTime(flows[k], 0)
    BY <1>2, <1>4, <2>2 DEF NthTime
  <2>4. \A n \in Nat : ~ (n < 0)
    OBVIOUS
  <2> QED
    BY <2>3, <2>4
<1>10. RecordedSoFar'
  <2>1. SUFFICES ASSUME pc' = "recorded"
                 PROVE  /\ 1 <= Len(flows[k].times) + 1
                        /\ \A r \in DOMAIN flows[k].times : ~ (r < 1)
                        /\ From(Joined, k, flows[k], 0)
    BY <1>2, <1>5 DEF RecordedSoFar
  <2>2. PICK times \in Seq(Nat) : times = flows[k].times
    BY <1>2, <1>4, <2>1 DEF IsRecorded
  <2>3. Len(times) \in Nat /\ \A r \in DOMAIN times : ~ (r < 1) /\ ~ (r <= 0)
    OBVIOUS
  <2> QED
    BY <1>7, <2>2, <2>3 DEF From
<1>11. FlowsSoFar'
  <2>1. Ascending(Joined) /\ \A n \in DOMAIN Joined : Joined[n].flow \in 1 .. k
    <3>1. 1 .. flow \subseteq 1 .. k
      BY <1>3
    <3> QED
      BY <1>1, <1>6, <3>1 DEF FlowsSoFar
  <2>2. ASSUME NEW j \in 1 .. k, j < k PROVE Complete(Joined, j, flows[j])
    <3>1. j \in 1 .. flow
      BY <1>3, <2>2
    <3> QED
      BY <1>1, <3>1 DEF FlowsSoFar
  <2>3. pc' # "flow"
    BY <1>2
  <2> QED
    BY <1>2, <1>5, <2>1, <2>2, <2>3 DEF FlowsSoFar
<1>12. Ready'
  BY <1>2 DEF Ready
<1> QED
  BY <1>8, <1>9, <1>10, <1>11, <1>12 DEF GenInv

\* A packet of the flow under way, later than those it has, keeps the rest.
LEMMA RowStep ==
  ASSUME GenInv, pc \in {"const", "recorded"}, NEW time \in Nat,
         UNCHANGED <<flows, pc, flow, traces>>,
         irq_trace' = Append(irq_trace, Packet(time)),
         \A n \in DOMAIN Joined : Joined[n].flow = flow => Joined[n].time < time
  PROVE  FlowsSoFar' /\ irq_trace' \in Seq(Row)
<1>1. Types /\ FlowsSoFar /\ pc # "done" /\ pc # "flow" /\ pc' = pc /\ flow' = flow /\ flows' = flows
  BY DEF GenInv
<1>2. irq_trace' \in Seq(Row) /\ Grown(Joined, Joined', flow, time)
  BY <1>1, JoinedGrows DEF Packet
<1>3. PICK list, other : list = Joined /\ other = Joined'
  OBVIOUS
<1>4. /\ Ascending(list) => Ascending(other)
      /\ \A j : j # flow => AlsoIn(list, other, j) /\ AlsoIn(other, list, j)
      /\ \A n \in DOMAIN other : \/ n \in DOMAIN list /\ other[n] = list[n]
                                 \/ other[n].flow = flow /\ other[n].time = time
  BY <1>2, <1>3, GrownFacts
<1>5. /\ Ascending(list) /\ \A n \in DOMAIN list : list[n].flow \in 1 .. flow
      /\ \A k \in 1 .. flow : k < flow => Complete(list, k, flows[k])
  BY <1>1, <1>3 DEF FlowsSoFar
<1>6. flow \in 1 .. flow
  BY <1>1 DEF Types
<1>7. \A n \in DOMAIN other : other[n].flow \in 1 .. flow
  BY <1>4, <1>5, <1>6
<1>8. ASSUME NEW k \in 1 .. flow, k < flow PROVE Complete(other, k, flows[k])
  <2>1. k # flow
    BY <1>6, <1>8
  <2> QED
    BY <1>4, <1>5, <1>8, <2>1, CompleteAlso
<1>9. FlowsSoFar'
  BY <1>1, <1>3, <1>4, <1>5, <1>7, <1>8 DEF FlowsSoFar
<1> QED
  BY <1>2, <1>9

LEMMA ConstStep == ASSUME GenInv, ConstPacket PROVE GenInv'
<1>1. Types /\ ConstantSoFar /\ FlowsSoFar /\ pc = "const"
  BY DEF GenInv, ConstPacket
<1>2. /\ UNCHANGED <<flows, pc, flow, row, last_time, traces>>
      /\ irq_trace' = Append(irq_trace, Packet(t))
      /\ t' = t + Interval(flows[flow].frequency)
  BY DEF ConstPacket
<1>3. PICK f : f = flows[flow]
  OBVIOUS
<1>4. f.offset \in Nat /\ f.frequency \in 1 .. TIME_RESOLUTION
  <2>1. flow \in DOMAIN flows /\ flows \in Flows /\ flows[flow].load = "CONSTANT"
    BY <1>1, FlowDomain DEF Types
  <2> QED
    BY <1>3, <2>1, FlowFacts
<1>5. PICK i \in Nat \ {0} : i = Interval(f.frequency)
  BY <1>4, IntervalFacts
<1>6. t \in Nat /\ t' = t + i /\ t' \in Nat /\ t < t'
  BY <1>1, <1>2, <1>3, <1>5 DEF Types
<1>7. \A n \in DOMAIN Joined : Joined[n].flow = flow => Joined[n].time < t
  BY <1>1 DEF ConstantSoFar
<1>8. FlowsSoFar' /\ irq_trace' \in Seq(Row)
  BY <1>1, <1>2, <1>6, <1>7, RowStep
<1>9. Types'
  BY <1>1, <1>2, <1>6, <1>8 DEF Types
<1>10. PICK list, other : list = Joined /\ other = Joined' /\ Grown(list, other, flow, t)
  BY <1>1, <1>2, <1>6, JoinedGrows DEF Packet
<1>11. /\ \A j, x : Has(list, j, x) => Has(other, j, x)
       /\ Has(other, flow, t)
       /\ \A n \in DOMAIN other : \/ n \in DOMAIN list /\ other[n] = list[n]
                                  \/ other[n].flow = flow /\ other[n].time = t
  BY <1>6, <1>7, <1>10, GrownFacts
<1>12. ASSUME NEW n \in DOMAIN other, other[n].flow = flow PROVE other[n].time < t'
  <2>1. CASE n \in DOMAIN list /\ other[n] = list[n]
    <3>1. list[n].time < t
      BY <1>7, <1>10, <1>12, <2>1
    <3>2. list[n].time \in Nat
      <4>1. Joined \in Seq(Row)
        BY <1>1 DEF Types, Joined
      <4>2. list[n] \in Row
        BY <1>10, <2>1, <4>1
      <4> QED
        BY <4>2 DEF Row
    <3> QED
      BY <1>6, <2>1, <3>1, <3>2
  <2>2. CASE other[n].time = t
    BY <1>6, <2>2
  <2> QED
    BY <1>11, <2>1, <2>2
<1>13. PICK c \in Nat : /\ t = NthTime(f, c)
                        /\ \A n \in Nat : n < c => Has(list, flow, NthTime(f, n))
  BY <1>1, <1>3, <1>10 DEF ConstantSoFar
<1>14. t' = NthTime(f, c + 1)
  <2>1. (c + 1) * i = c * i + i /\ c * i \in Nat
    BY <1>5, Multiples
  <2> QED
    BY <1>4, <1>5, <1>6, <1>13, <2>1 DEF NthTime
<1>15. ASSUME NEW n \in Nat, n < c + 1 PROVE Has(other, flow, NthTime(f, n))
  <2>1. n < c \/ n = c
    BY <1>15
  <2> QED
    BY <1>11, <1>13, <2>1
<1>16. ConstantSoFar'
  <2>1. c + 1 \in Nat
    OBVIOUS
  <2> QED
    BY <1>2, <1>3, <1>10, <1>12, <1>14, <1>15, <2>1 DEF ConstantSoFar
<1> QED
  BY <1>1, <1>2, <1>8, <1>9, <1>16 DEF GenInv, RecordedSoFar, Ready

\* What both ends of a flow share: its packets stay, and complete it.
LEMMA FlowEnds ==
  ASSUME GenInv, pc \in {"const", "recorded"}, pc' = "flow",
         UNCHANGED <<flows, flow, t, row, last_time, irq_trace, traces>>,
         Complete(Joined, flow, flows[flow])
  PROVE  GenInv'
<1>1. Types /\ FlowsSoFar /\ pc # "done" /\ Joined' = Joined
  BY DEF GenInv, Joined
<1>2. Types'
  BY <1>1 DEF Types
<1>3. ASSUME NEW k \in 1 .. flow PROVE Complete(Joined, k, flows[k])
  <2>1. k < flow \/ k = flow
    BY <1>1 DEF Types
  <2> QED
    BY <1>1, <2>1 DEF FlowsSoFar
<1>4. FlowsSoFar'
  BY <1>1, <1>3 DEF FlowsSoFar
<1> QED
  BY <1>2, <1>4 DEF GenInv, ConstantSoFar, RecordedSoFar, Ready

LEMMA ConstEndsStep == ASSUME GenInv, ConstEnds PROVE GenInv'
<1>1. Types /\ ConstantSoFar /\ pc = "const" /\ t > NR_TICKS
  BY DEF GenInv, ConstEnds
<1>2. PICK f : f = flows[flow]
  OBVIOUS
<1>3. f.offset \in Nat /\ f.frequency \in 1 .. TIME_RESOLUTION /\ f.load = "CONSTANT"
  <2>1. flow \in DOMAIN flows /\ flows \in Flows /\ flows[flow].load = "CONSTANT"
    BY <1>1, FlowDomain DEF Types
  <2> QED
    BY <1>2, <2>1, FlowFacts
<1>4. PICK i \in Nat \ {0} : i = Interval(f.frequency)
  BY <1>3, IntervalFacts
<1>5. PICK c \in Nat : /\ t = NthTime(f, c)
                       /\ \A n \in Nat : n < c => Has(Joined, flow, NthTime(f, n))
  BY <1>1, <1>2 DEF ConstantSoFar
<1>6. ASSUME NEW n \in Nat, NthTime(f, n) <= NR_TICKS PROVE n < c
  <2>1. SUFFICES ASSUME c <= n PROVE FALSE
    OBVIOUS
  <2>2. c * i <= n * i /\ c * i \in Nat /\ n * i \in Nat
    BY <1>4, <2>1, Multiples
  <2>3. f.offset + c * i > NR_TICKS /\ f.offset + n * i <= NR_TICKS
    BY <1>1, <1>4, <1>5, <1>6 DEF NthTime
  <2> QED
    BY <1>3, <2>2, <2>3, TicksType
<1>7. Complete(Joined, flow, f)
  BY <1>3, <1>5, <1>6 DEF Complete
<1> QED
  BY <1>1, <1>2, <1>7, FlowEnds DEF ConstEnds

LEMMA RecordedEndsStep == ASSUME GenInv, RecordedEnds PROVE GenInv'
<1>1. Types /\ RecordedSoFar /\ pc = "recorded"
  BY DEF GenInv, RecordedEnds
<1>2. PICK f : f = flows[flow]
  OBVIOUS
<1>3. IsRecorded(f) /\ f.load = "TRACE"
  <2>1. flow \in DOMAIN flows /\ flows \in Flows /\ flows[flow].load = "TRACE"
    BY <1>1, FlowDomain DEF Types
  <2> QED
    BY <1>2, <2>1, FlowFacts
<1>4. PICK times \in Seq(Nat), l \in Nat : times = f.times /\ l = Len(times) /\ DOMAIN times = 1 .. l
  BY <1>3 DEF IsRecorded
<1>5. /\ row \in Nat \ {0} /\ row <= l + 1
      /\ \A r \in 1 .. l : r < row => times[r] < NR_TICKS
      /\ \A r \in 1 .. l : r <= row - 1 => Has(Joined, flow, times[r] + f.offset)
      /\ \A n \in DOMAIN Joined : Joined[n].flow = flow =>
           \E r \in 1 .. l : r <= row - 1 /\ Joined[n].time = times[r] + f.offset
  <2>1. row \in Nat \ {0}
    BY <1>1 DEF Types
  <2>2. row <= l + 1 /\ \A r \in 1 .. l : r < row => times[r] < NR_TICKS
    BY <1>1, <1>2, <1>4 DEF RecordedSoFar
  <2>3. From(Joined, flow, f, row - 1)
    BY <1>1, <1>2 DEF RecordedSoFar
  <2> QED
    BY <1>4, <2>1, <2>2, <2>3 DEF From
<1>6. ASSUME NEW r \in 1 .. l, times[r] < NR_TICKS PROVE r <= row - 1
  <2>1. SUFFICES ASSUME row <= r PROVE FALSE
    BY <1>5
  <2>2. row \in 1 .. l
    BY <1>5, <2>1
  <2>3. ~ (times[row] < NR_TICKS)
    BY <1>2, <1>4, <2>2 DEF RecordedEnds, Within
  <2>4. times[row] <= times[r]
    BY <1>3, <1>4, <2>1, <2>2, RecordingAscends
  <2>5. times[row] \in Nat /\ times[r] \in Nat /\ NR_TICKS \in Nat
    BY <2>2, <1>4, TicksType
  <2> QED
    BY <1>6, <2>3, <2>4, <2>5
<1>7. ASSUME NEW r \in 1 .. l, r <= row - 1 PROVE times[r] < NR_TICKS
  <2>1. r < row
    BY <1>5, <1>7
  <2> QED
    BY <1>5, <2>1
<1>8. Complete(Joined, flow, f)
  <2>1. f.load # "CONSTANT"
    BY <1>3
  <2>2. \A r \in DOMAIN f.times : f.times[r] < NR_TICKS => Has(Joined, flow, f.times[r] + f.offset)
    BY <1>4, <1>5, <1>6
  <2>3. \A n \in DOMAIN Joined : Joined[n].flow = flow =>
          \E r \in DOMAIN f.times : f.times[r] < NR_TICKS /\ Joined[n].time = f.times[r] + f.offset
    BY <1>4, <1>5, <1>7
  <2> QED
    BY <2>1, <2>2, <2>3 DEF Complete
<1> QED
  BY <1>1, <1>2, <1>8, FlowEnds DEF RecordedEnds

\* A row of a recording that repeats the time of the row before adds no packet.
LEMMA RecordedStep == ASSUME GenInv, RecordedRow PROVE GenInv'
<1>1. /\ Types /\ RecordedSoFar /\ FlowsSoFar /\ pc = "recorded"
      /\ row <= Len(flows[flow].times)
  BY DEF GenInv, RecordedRow
<1>2. PICK f : f = flows[flow]
  OBVIOUS
<1>3. IsRecorded(f) /\ f.load = "TRACE" /\ f.offset \in Nat
  <2>1. flow \in DOMAIN flows /\ flows \in Flows /\ flows[flow].load = "TRACE"
    BY <1>1, FlowDomain DEF Types
  <2> QED
    BY <1>2, <2>1, FlowFacts
<1>4. PICK times \in Seq(Nat), l \in Nat :
        /\ times = f.times /\ l = Len(times) /\ DOMAIN times = 1 .. l
        /\ \A n \in 2 .. l : times[n - 1] <= times[n]
        /\ \A n \in 1 .. l : times[n] \in Nat
  <2>1. PICK times \in Seq(Nat) : times = f.times
    BY <1>3 DEF IsRecorded
  <2>2. \A n \in 2 .. Len(times) : times[n - 1] <= times[n]
    BY <1>3, <2>1 DEF IsRecorded
  <2>3. PICK l \in Nat : l = Len(times) /\ DOMAIN times = 1 .. l
    OBVIOUS
  <2>4. \A n \in 1 .. l : times[n] \in Nat
    BY <2>3
  <2> QED
    BY <2>1, <2>2, <2>3, <2>4
<1>5. row \in 1 .. l /\ row \in Nat \ {0}
  BY <1>1, <1>2, <1>4 DEF Types
<1>6. PICK time \in Nat : time = times[row]
  BY <1>4, <1>5
<1>7. /\ time < NR_TICKS /\ last_time' = time /\ row' = row + 1
      /\ irq_trace' = IF IsNew(time) THEN Append(irq_trace, Packet(time + f.offset)) ELSE irq_trace
      /\ UNCHANGED <<flows, pc, flow, t, traces>>
  BY <1>2, <1>4, <1>6 DEF RecordedRow, Within
<1>8. /\ last_time = IF row = 1 THEN -1 ELSE times[row - 1]
      /\ \A r \in 1 .. l : r < row => times[r] < NR_TICKS
      /\ \A r \in 1 .. l : r <= row - 1 => Has(Joined, flow, times[r] + f.offset)
      /\ \A n \in DOMAIN Joined : Joined[n].flow = flow =>
           \E r \in 1 .. l : r <= row - 1 /\ Joined[n].time = times[r] + f.offset
  <2>1. /\ last_time = IF row = 1 THEN -1 ELSE times[row - 1]
        /\ \A r \in 1 .. l : r < row => times[r] < NR_TICKS
    BY <1>1, <1>2, <1>4 DEF RecordedSoFar
  <2>2. From(Joined, flow, f, row - 1)
    BY <1>1, <1>2 DEF RecordedSoFar
  <2> QED
    BY <1>4, <2>1, <2>2 DEF From
<1>9. row # 1 => row - 1 \in 1 .. l /\ row \in 2 .. l /\ times[row - 1] <= time /\ times[row - 1] \in Nat
  BY <1>4, <1>5, <1>6
\* What must hold of the rows after this one.
<1> DEFINE Follows(other) ==
      /\ \A r \in 1 .. l : r <= row => Has(other, flow, times[r] + f.offset)
      /\ \A n \in DOMAIN other : other[n].flow = flow =>
           \E r \in 1 .. l : r <= row /\ other[n].time = times[r] + f.offset
<1>10. \A r \in Nat : (r <= row - 1 <=> r < row) /\ (r <= row <=> r < row \/ r = row)
  BY <1>5
<1>11. ASSUME ~ IsNew(time)
       PROVE  FlowsSoFar' /\ irq_trace' \in Seq(Row) /\ Follows(Joined')
  <2>1. Joined' = Joined /\ irq_trace' = irq_trace
    BY <1>7, <1>11 DEF Joined
  <2>2. FlowsSoFar' /\ irq_trace' \in Seq(Row)
    BY <1>1, <1>7, <2>1 DEF FlowsSoFar, Types
  <2>3. row # 1 /\ times[row - 1] = time
    <3>1. ~ (time > last_time)
      BY <1>11 DEF IsNew
    <3>2. row # 1
      BY <1>6, <1>8, <3>1
    <3> QED
      BY <1>6, <1>8, <1>9, <3>1, <3>2
  <2>4. Has(Joined, flow, times[row] + f.offset)
    <3>1. row - 1 \in 1 .. l /\ row - 1 <= row - 1
      BY <1>9, <2>3
    <3>2. Has(Joined, flow, times[row - 1] + f.offset)
      BY <1>8, <3>1
    <3> QED
      BY <1>6, <2>3, <3>2
  <2>5. Follows(Joined)
    <3>1. \A r \in 1 .. l : r \in Nat
      OBVIOUS
    <3> QED
      BY <1>8, <1>10, <2>4, <3>1
  <2> QED
    BY <2>1, <2>2, <2>5
<1>12. ASSUME IsNew(time)
       PROVE  FlowsSoFar' /\ irq_trace' \in Seq(Row) /\ Follows(Joined')
  <2>1. PICK x \in Nat : x = time + f.offset
    BY <1>3
  <2>2. irq_trace' = Append(irq_trace, Packet(x))
    BY <1>7, <1>12, <2>1
  <2>3. ASSUME NEW n \in DOMAIN Joined, Joined[n].flow = flow PROVE Joined[n].time < x
    <3>1. PICK r \in 1 .. l : r <= row - 1 /\ Joined[n].time = times[r] + f.offset
      BY <1>8, <2>3
    <3>2. row # 1
      BY <1>5, <3>1
    <3>3. times[r] <= times[row - 1]
      BY <1>3, <1>4, <1>9, <3>1, <3>2, RecordingAscends
    <3>4. times[row - 1] < time
      BY <1>8, <1>12, <3>2 DEF IsNew
    <3>5. times[r] \in Nat /\ times[row - 1] \in Nat
      BY <1>4, <1>9, <3>2
    <3>6. times[r] < time
      BY <1>6, <3>3, <3>4, <3>5
    <3>7. times[r] \in Nat /\ time \in Nat /\ f.offset \in Nat
      BY <1>3, <3>5
    <3>8. Joined[n].time = times[r] + f.offset /\ x = time + f.offset
      BY <2>1, <3>1
    <3> QED
      BY ONLY <3>6, <3>7, <3>8
  <2>4. FlowsSoFar' /\ irq_trace' \in Seq(Row)
    BY <1>1, <1>7, <2>2, <2>3, RowStep
  <2>5. PICK list, other : list = Joined /\ other = Joined' /\ Grown(list, other, flow, x)
    BY <1>1, <1>7, <2>2, JoinedGrows DEF Packet
  <2>6. /\ \A j, y : Has(list, j, y) => Has(other, j, y)
        /\ Has(other, flow, x)
        /\ \A n \in DOMAIN other : \/ n \in DOMAIN list /\ other[n] = list[n]
                                   \/ other[n].flow = flow /\ other[n].time = x
    BY <2>3, <2>5, GrownFacts
  <2>7. ASSUME NEW r \in 1 .. l, r <= row PROVE Has(other, flow, times[r] + f.offset)
    <3>1. CASE r <= row - 1
      BY <1>8, <2>5, <2>6, <3>1
    <3>2. CASE r = row
      BY <1>6, <2>1, <2>6, <3>2
    <3> QED
      BY <1>10, <2>7, <3>1, <3>2
  <2>8. ASSUME NEW n \in DOMAIN other, other[n].flow = flow
        PROVE  \E r \in 1 .. l : r <= row /\ other[n].time = times[r] + f.offset
    <3>1. CASE n \in DOMAIN list /\ other[n] = list[n]
      <4>1. PICK r \in 1 .. l : r <= row - 1 /\ list[n].time = times[r] + f.offset
        BY <1>8, <2>5, <2>8, <3>1
      <4>2. r <= row
        BY <1>5, <4>1
      <4> QED
        BY <3>1, <4>1, <4>2
    <3>2. CASE other[n].time = x
      <4>1. row \in 1 .. l /\ row <= row
        BY <1>5
      <4> QED
        BY <1>6, <2>1, <3>2, <4>1
    <3> QED
      BY <2>6, <2>8, <3>1, <3>2
  <2> QED
    BY <2>4, <2>5, <2>7, <2>8
<1>13. FlowsSoFar' /\ irq_trace' \in Seq(Row) /\ Follows(Joined')
  BY <1>11, <1>12
<1>14. Types'
  <2>1. row' \in Nat \ {0}
    BY <1>5, <1>7
  <2> QED
    BY <1>1, <1>7, <1>13, <2>1 DEF Types
<1>15. RecordedSoFar'
  <2>1. row + 1 <= l + 1 /\ row + 1 # 1 /\ (row + 1) - 1 = row
    BY <1>5
  <2>2. \A r \in 1 .. l : r < row + 1 => times[r] < NR_TICKS
    <3>1. \A r \in 1 .. l : r < row + 1 => r < row \/ r = row
      BY <1>5
    <3> QED
      BY <1>6, <1>7, <1>8, <3>1
  <2>3. From(Joined', flow, f, row)
    BY <1>4, <1>13 DEF From
  <2>4. last_time' = times[row]
    BY <1>6, <1>7
  <2> QED
    BY <1>2, <1>4, <1>7, <2>1, <2>2, <2>3, <2>4 DEF RecordedSoFar
<1> QED
  BY <1>1, <1>7, <1>13, <1>14, <1>15 DEF GenInv, ConstantSoFar, Ready

LEMMA JoinStep == ASSUME GenInv, JoinAndSort PROVE GenInv'
<1>1. Types /\ FlowsSoFar /\ pc = "flow" /\ flow = Len(flows)
  BY DEF GenInv, JoinAndSort
<1>2. /\ traces' = Sorted(Joined) /\ pc' = "done"
      /\ UNCHANGED <<flows, flow, t, row, last_time, irq_trace>>
  BY DEF JoinAndSort, Joined
<1>3. PICK list \in Seq(Row) : list = Joined
  <2>1. Joined \in Seq(Row)
    BY <1>1 DEF Types, Joined
  <2> QED
    BY <2>1
<1>4. PICK sorted, origin : sorted \in Seq(Row) /\ sorted = traces' /\ Arranged(sorted, list, origin)
  BY <1>2, <1>3, SortArranges
<1>5. Types'
  BY <1>1, <1>2, <1>4 DEF Types
<1>6. ASSUME NEW m \in DOMAIN sorted, NEW n \in DOMAIN sorted, m < n
      PROVE  /\ sorted[m].time <= sorted[n].time
             /\ sorted[m].time = sorted[n].time => sorted[m].flow # sorted[n].flow
  <2>1. PICK i \in DOMAIN list, j \in DOMAIN list :
          sorted[m] = list[i] /\ sorted[n] = list[j] /\ i # j /\ UpTo(list, i, j)
    BY <1>4, <1>6 DEF Arranged
  <2>2. list[i].time \in Nat /\ list[j].time \in Nat /\ i \in Nat /\ j \in Nat
    <3>1. list[i] \in Row /\ list[j] \in Row
      OBVIOUS
    <3>2. i \in Nat /\ j \in Nat
      OBVIOUS
    <3> QED
      BY <3>1, <3>2 DEF Row
  <2>3. list[i].time = list[j].time => i < j
    BY <2>1, <2>2 DEF UpTo
  <2>4. i < j /\ list[i].flow = list[j].flow => list[i].time < list[j].time
    BY <1>1, <1>3 DEF FlowsSoFar, Ascending
  <2>5. list[i].time = list[j].time => list[i].flow # list[j].flow
    BY <2>2, <2>3, <2>4
  <2>6. list[i].time <= list[j].time
    BY <2>1, <2>2 DEF UpTo
  <2> QED
    BY <2>1, <2>5, <2>6
<1>7. \A k : AlsoIn(list, sorted, k) /\ AlsoIn(sorted, list, k)
  <2>1. \A i \in DOMAIN list : \E n \in DOMAIN sorted : sorted[n] = list[i]
    BY <1>4 DEF Arranged
  <2>2. \A n \in DOMAIN sorted : \E i \in DOMAIN list : sorted[n] = list[i]
    BY <1>4 DEF Arranged
  <2> QED
    BY <2>1, <2>2 DEF AlsoIn, Has
<1>8. ASSUME NEW k \in DOMAIN flows PROVE Complete(sorted, k, flows[k])
  <2>1. k \in 1 .. flow
    BY <1>1, FlowDomain DEF Types
  <2>2. Complete(list, k, flows[k])
    BY <1>1, <1>3, <2>1 DEF FlowsSoFar
  <2> QED
    BY <1>7, <2>2, CompleteAlso
<1>9. Replayable'
  BY <1>4, <1>6 DEF Replayable
<1>10. Ready'
  BY <1>2, <1>4, <1>8, <1>9 DEF Ready
<1> QED
  BY <1>2, <1>5, <1>10 DEF GenInv, ConstantSoFar, RecordedSoFar, FlowsSoFar

LEMMA GenStays == ASSUME GenInv, UNCHANGED vars PROVE GenInv'
BY DEF GenInv, vars, Types, ConstantSoFar, RecordedSoFar, FlowsSoFar, Ready, Joined, Replayable

LEMMA GenHolds == Spec => []GenInv
<1>1. Init => GenInv
  BY GenInit
<1>2. GenInv /\ [Next]_vars => GenInv'
  BY BeginStep, ConstStep, ConstEndsStep, RecordedStep, RecordedEndsStep, JoinStep, GenStays
     DEF Next, Generate, Done
<1> QED
  BY <1>1, <1>2, PTL DEF Spec

-----------------------------------------------------------------------------
(* The properties                                                          *)

\* For every definition of flows, the NIC simulator can replay the trace: it is in
\* order of time, and two packets at a time are of different flows.
THEOREM ReplayableHolds == Spec => []Replayable
<1>1. GenInv => Replayable
  BY DEF GenInv, Ready, Replayable
<1> QED
  BY <1>1, GenHolds, PTL

LEMMA RecordingIsKept == ASSUME GenInv PROVE RecordingKept
<1> SUFFICES ASSUME pc = "done", NEW k \in DOMAIN flows, flows[k].load = "TRACE"
             PROVE  {traces[n].time : n \in PacketsOf(k)} =
                      {time + flows[k].offset : time \in ToSet(flows[k].times) \cap 0 .. NR_TICKS - 1}
  BY DEF RecordingKept
<1>1. PICK f : f = flows[k]
  OBVIOUS
<1>2. Complete(traces, k, f) /\ IsRecorded(f) /\ f.load = "TRACE"
  BY <1>1, FlowFacts DEF GenInv, Types, Ready
<1>3. PICK times \in Seq(Nat) : times = f.times
  BY <1>2 DEF IsRecorded
<1>4. \A r \in DOMAIN times : times[r] \in Nat
  OBVIOUS
<1>5. ASSUME NEW n \in PacketsOf(k)
      PROVE  \E time \in ToSet(times) \cap 0 .. NR_TICKS - 1 : traces[n].time = time + f.offset
  <2>1. n \in DOMAIN traces /\ traces[n].flow = k
    BY <1>5 DEF PacketsOf
  <2>2. PICK r \in DOMAIN times : times[r] < NR_TICKS /\ traces[n].time = times[r] + f.offset
    BY <1>2, <1>3, <2>1 DEF Complete
  <2>3. times[r] \in ToSet(times)
    BY DEF ToSet
  <2>4. times[r] \in 0 .. NR_TICKS - 1
    BY <1>4, <2>2, TicksType
  <2> QED
    BY <2>2, <2>3, <2>4
<1>6. ASSUME NEW time \in ToSet(times) \cap 0 .. NR_TICKS - 1
      PROVE  \E n \in PacketsOf(k) : traces[n].time = time + f.offset
  <2>1. PICK r \in DOMAIN times : times[r] = time
    BY DEF ToSet
  <2>2. time < NR_TICKS
    BY TicksType
  <2>3. Has(traces, k, time + f.offset)
    BY <1>2, <1>3, <2>1, <2>2 DEF Complete
  <2> QED
    BY <2>3 DEF Has, PacketsOf
<1> QED
  BY <1>1, <1>3, <1>5, <1>6

\* For every recording, with any repetitions and any offset, the packets of its flow
\* have exactly the recorded times before the end of the trace, shifted by the offset.
THEOREM RecordingKeptHolds == Spec => []RecordingKept
<1>1. GenInv => RecordingKept
  BY RecordingIsKept
<1> QED
  BY <1>1, GenHolds, PTL

\* The first packet of a window, and as many more as the flow sends in a second.
LEMMA RateIsReached == ASSUME GenInv PROVE RateReached
<1> SUFFICES ASSUME pc = "done", NEW k \in DOMAIN flows, flows[k].load = "CONSTANT",
                    NEW from \in flows[k].offset .. NR_TICKS - TIME_RESOLUTION + 1
             PROVE  Cardinality({n \in PacketsOf(k) : traces[n].time \in from .. from + TIME_RESOLUTION - 1})
                      >= flows[k].frequency
  BY DEF RateReached
<1>1. PICK f : f = flows[k]
  OBVIOUS
<1>2. /\ Complete(traces, k, f) /\ f.load = "CONSTANT" /\ traces \in Seq(Row)
      /\ f.offset \in Nat /\ f.frequency \in 1 .. TIME_RESOLUTION
  BY <1>1, FlowFacts DEF GenInv, Types, Ready
<1>3. PICK o \in Nat, fr \in Nat \ {0}, i \in Nat \ {0}, second \in Nat \ {0} :
        /\ o = f.offset /\ fr = f.frequency /\ i = Interval(fr) /\ second = TIME_RESOLUTION
        /\ fr * i <= second
  <2>1. f.frequency \in Nat \ {0} /\ Interval(f.frequency) \in Nat \ {0}
        /\ f.frequency * Interval(f.frequency) <= TIME_RESOLUTION
    BY <1>2, IntervalFacts, TicksType
  <2> QED
    BY <1>2, <2>1, TicksType
<1>4. from \in Nat /\ o <= from /\ from + second - 1 <= NR_TICKS
  BY <1>1, <1>3, TicksType
<1>5. \A n \in Nat : n * i \in Nat /\ NthTime(f, n) = o + n * i
  <2>1. \A n \in Nat : n * i \in Nat
    BY Multiples
  <2> QED
    BY <1>3, <2>1 DEF NthTime
<1> DEFINE Late == {n \in Nat : from <= o + n * i}
<1>6. Late \subseteq Nat /\ Late # {}
  <2>1. from <= from * i
    <3>1. PICK d \in Nat : i = d + 1
      <4>1. i - 1 \in Nat /\ i = (i - 1) + 1
        OBVIOUS
      <4> QED
        BY <4>1
    <3>2. from * d \in Nat
      BY <1>4, Multiples
    <3>3. from * i = from * d + from
      BY <1>4, <3>1
    <3> QED
      BY <1>4, <3>2, <3>3
  <2>2. from * i \in Nat
    BY <1>4, Multiples
  <2>3. from <= o + from * i
    BY <1>4, <2>1, <2>2
  <2> QED
    BY <1>4, <2>3
<1>7. PICK a \in Late : \A n \in Late : a <= n
  <2> HIDE DEF Late
  <2> QED
    BY <1>6, LeastNumber
<1>8. a \in Nat /\ from <= o + a * i /\ o + a * i <= from + i - 1
  <2>1. a \in Nat /\ from <= o + a * i
    BY <1>7
  <2>2. CASE a = 0
    <3>1. a * i = 0
      BY <2>2
    <3> QED
      BY <1>4, <2>1, <3>1
  <2>3. CASE a # 0
    <3>1. PICK b \in Nat : a = b + 1
      <4>1. a - 1 \in Nat /\ a = (a - 1) + 1
        BY <2>1, <2>3
      <4> QED
        BY <4>1
    <3>2. b \notin Late
      BY <1>7, <3>1
    <3>3. ~ (from <= o + b * i)
      BY <3>2
    <3>4. a * i = b * i + i /\ b * i \in Nat
      BY <3>1, Multiples
    <3> QED
      BY <1>4, <2>1, <3>3, <3>4
  <2> QED
    BY <2>1, <2>2, <2>3
<1> HIDE DEF Late
\* The packets of the window: number a to a + fr - 1.
<1>9. ASSUME NEW j \in 0 .. fr - 1
      PROVE  /\ (a + j) * i = a * i + j * i /\ j * i \in Nat
             /\ NthTime(f, a + j) = o + a * i + j * i
             /\ NthTime(f, a + j) \in from .. from + second - 1
  <2>1. j \in Nat /\ a + j \in Nat /\ j + 1 <= fr
    BY <1>8
  <2>2. (a + j) * i = a * i + j * i /\ j * i \in Nat /\ a * i \in Nat
    BY <1>8, <2>1, Multiples
  <2>3. (j + 1) * i = j * i + i /\ (j + 1) * i <= fr * i /\ (j + 1) * i \in Nat /\ fr * i \in Nat
    BY <2>1, Multiples
  <2>4. NthTime(f, a + j) = o + (a + j) * i
    BY <1>5, <1>8, <2>1
  <2>5. NthTime(f, a + j) = o + a * i + j * i
    BY <2>2, <2>4
  <2>6. from <= o + a * i + j * i /\ o + a * i + j * i <= from + second - 1
    BY <1>3, <1>4, <1>8, <2>2, <2>3
  <2> QED
    BY <1>4, <2>2, <2>5, <2>6
<1>10. ASSUME NEW j \in 0 .. fr - 1
       PROVE  \E n \in DOMAIN traces : traces[n].flow = k /\ traces[n].time = NthTime(f, a + j)
  <2>1. a + j \in Nat /\ NthTime(f, a + j) <= NR_TICKS
    BY <1>4, <1>8, <1>9, TicksType
  <2>2. Has(traces, k, NthTime(f, a + j))
    BY <1>2, <2>1 DEF Complete
  <2> QED
    BY <2>2 DEF Has
<1>11. PICK W : W = {n \in PacketsOf(k) : traces[n].time \in from .. from + second - 1}
  OBVIOUS
<1>12. PICK g : g = [j \in 0 .. fr - 1 |->
                       CHOOSE n \in DOMAIN traces : traces[n].flow = k /\ traces[n].time = NthTime(f, a + j)]
  OBVIOUS
<1>13. ASSUME NEW j \in 0 .. fr - 1 PROVE g[j] \in W /\ traces[g[j]].time = NthTime(f, a + j)
  <2>1. g[j] \in DOMAIN traces /\ traces[g[j]].flow = k /\ traces[g[j]].time = NthTime(f, a + j)
    BY <1>10, <1>12
  <2> QED
    BY <1>9, <1>11, <2>1 DEF PacketsOf
<1>14. ASSUME NEW j \in 0 .. fr - 1, NEW m \in 0 .. fr - 1, g[j] = g[m] PROVE j = m
  <2>1. NthTime(f, a + j) = NthTime(f, a + m)
    BY <1>13, <1>14
  <2>2. o + a * i + j * i = o + a * i + m * i
    BY <1>9, <2>1
  <2>3. j * i = m * i
    <3>1. a * i \in Nat /\ j * i \in Nat /\ m * i \in Nat
      BY <1>8, <1>9, Multiples
    <3> QED
      BY <2>2, <3>1
  <2>4. ~ (j < m) /\ ~ (m < j)
    <3>1. ASSUME NEW x \in Nat, NEW y \in Nat, x < y PROVE x * i # y * i
      <4>1. x + 1 <= y /\ x + 1 \in Nat
        BY <3>1
      <4>2. (x + 1) * i <= y * i /\ (x + 1) * i = x * i + i /\ x * i \in Nat /\ y * i \in Nat
        BY <4>1, Multiples
      <4> QED
        BY <4>2
    <3> QED
      BY <2>3, <3>1
  <2> QED
    BY <2>4
<1>15. IsFiniteSet(W)
  <2>1. IsFiniteSet(1 .. Len(traces)) /\ DOMAIN traces = 1 .. Len(traces)
    <3>1. Len(traces) \in Nat /\ DOMAIN traces = 1 .. Len(traces)
      BY <1>2
    <3>2. 1 \in Int /\ Len(traces) \in Int
      BY <3>1
    <3> QED
      BY <3>1, <3>2, FS_Interval
  <2>2. W \subseteq 1 .. Len(traces)
    BY <1>11, <2>1 DEF PacketsOf
  <2> QED
    BY <2>1, <2>2, FS_Subset
<1>16. Cardinality(0 .. fr - 1) <= Cardinality(W)
  <2>1. g \in [0 .. fr - 1 -> W]
    BY <1>12, <1>13
  <2>2. g \in Injection(0 .. fr - 1, W)
    BY <1>14, <2>1, Fun_IsInj
  <2> QED
    BY <1>15, <2>2, FS_Injection
<1>17. Cardinality(0 .. fr - 1) = fr
  <2>1. 0 \in Int /\ fr - 1 \in Int /\ ~ (0 > fr - 1) /\ (fr - 1) - 0 + 1 = fr
    OBVIOUS
  <2> QED
    BY <2>1, FS_Interval
<1>18. Cardinality(W) \in Nat
  BY <1>15, FS_CardinalityType
<1> QED
  BY <1>1, <1>3, <1>11, <1>16, <1>17, <1>18

\* Every second of the trace has at least the packets that a flow of constant load
\* asks for, for every time resolution and frequency: the truncated interval only
\* adds packets.
THEOREM RateReachedHolds == Spec => []RateReached
<1>1. GenInv => RateReached
  BY RateIsReached
<1> QED
  BY <1>1, GenHolds, PTL
=============================================================================
