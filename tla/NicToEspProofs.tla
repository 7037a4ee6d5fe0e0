--------------------------- MODULE NicToEspProofs ---------------------------
(***************************************************************************)
(* Theorems about NicToEsp: what survives from the interrupt trace of the  *)
(* simulator to the array of the firmware.  The script is a fold over the  *)
(* rows, so the facts about it are proved by induction over the rows, in   *)
(* the form in which the provers can use it: a set of numbers that has 0   *)
(* and with each number the next one has them all.                         *)
(***************************************************************************)
EXTENDS NicToEsp, NicSimulatorProofs, WellFoundedInduction

-----------------------------------------------------------------------------
(* Induction and folds                                                     *)

LEMMA LeastNumber ==
  ASSUME NEW T, T \subseteq Nat, T # {}
  PROVE  \E x \in T : \A y \in T : x <= y
<1>1. PICK R : R = OpToRel(<, Nat)
  OBVIOUS
<1>2. IsWellFoundedOn(R, Nat)
  BY <1>1, NatLessThanWellFounded
<1>3. PICK x \in T : \A y \in T : ~ (<<y, x>> \in R)
  BY <1>2, WFMin
<1>4. \A y \in T : y < x => <<y, x>> \in R
  BY <1>1 DEF OpToRel
<1>5. ASSUME NEW y \in T PROVE x <= y
  <2>1. ~ (y < x) /\ x \in Nat /\ y \in Nat
    BY <1>3, <1>4
  <2> QED
    BY ONLY <2>1
<1> QED
  BY <1>3, <1>5

LEMMA Induction ==
  ASSUME NEW S, 0 \in S, \A n \in Nat : n \in S => n + 1 \in S
  PROVE  Nat \subseteq S
<1> SUFFICES ASSUME Nat \ S # {} PROVE FALSE
  OBVIOUS
<1>1. PICK x \in Nat \ S : \A y \in Nat \ S : x <= y
  BY LeastNumber
<1>2. x # 0 /\ x - 1 \in Nat
  BY <1>1
<1>3. x - 1 \in S
  BY <1>1, <1>2
<1> QED
  BY <1>1, <1>2, <1>3

LEMMA MaxUpTo ==
  ASSUME NEW k \in Nat
  PROVE  /\ k > 0 => Max(1 .. k) = k /\ 1 .. k # {} /\ (1 .. k) \ {k} = 1 .. k - 1
         /\ 1 .. 0 = {}
<1>1. ASSUME k > 0 PROVE Max(1 .. k) = k
  <2>1. 1 .. k \subseteq Int /\ k \in 1 .. k /\ \A y \in 1 .. k : k >= y
    BY <1>1
  <2> QED
    BY <2>1, MaxIs
<1> QED
  BY <1>1

\* A finite set of numbers from 1 on has its maximum.
LEMMA MaxOf ==
  ASSUME NEW n \in Nat, NEW s \in SUBSET (1 .. n), s # {}
  PROVE  Max(s) \in s /\ Max(s) \in 1 .. n
<1>1. PICK T : T = {n - x : x \in s}
  OBVIOUS
<1>2. T \subseteq Nat /\ T # {}
  <2>1. \A x \in s : n - x \in Nat
    OBVIOUS
  <2> QED
    BY <1>1, <2>1
<1>3. PICK z \in T : \A y \in T : z <= y
  BY <1>2, LeastNumber
<1>4. PICK x \in s : z = n - x
  BY <1>1
<1>5. ASSUME NEW y \in s PROVE x >= y
  <2>1. n - x <= n - y /\ x \in 1 .. n /\ y \in 1 .. n
    BY <1>1, <1>3, <1>4
  <2> QED
    BY <2>1
<1>6. Max(s) = x
  <2>1. s \subseteq Int
    OBVIOUS
  <2> QED
    BY <1>5, <2>1, MaxIs
<1> QED
  BY <1>6

\* A fold over n elements with the states S: F[i] is its step for element i, g the
\* function over which it recurs, and f the states it runs through.
StepsOf(F, n, S) == F \in [1 .. n -> [S -> S]]
RecursBy(g, F, n, S, base) ==
  /\ g \in [SUBSET (1 .. n) -> S]
  /\ \A s \in SUBSET (1 .. n) : g[s] = IF s = {} THEN base ELSE F[Max(s)][g[s \ {Max(s)}]]
Computes(h, F, n, S) ==
  \A s \in SUBSET (1 .. n) : s # {} /\ h[s \ {Max(s)}] \in S => h[s] = F[Max(s)][h[s \ {Max(s)}]]
RunsBy(f, F, n, S, base, result) ==
  /\ f \in [0 .. n -> S] /\ f[0] = base /\ f[n] = result
  /\ \A k \in 1 .. n : f[k] = F[k][f[k - 1]]

LEMMA FoldExists ==
  ASSUME NEW n \in Nat, NEW State, NEW base \in State, NEW F, StepsOf(F, n, State)
  PROVE  \E g : RecursBy(g, F, n, State, base)
<1>0. F \in [1 .. n -> [State -> State]]
  BY DEF StepsOf
<1> DEFINE Recurs(g, m) == \A s \in SUBSET (1 .. m) :
             g[s] = IF s = {} THEN base ELSE F[Max(s)][g[s \ {Max(s)}]]
           S == {m \in Nat : m <= n => \E g \in [SUBSET (1 .. m) -> State] : Recurs(g, m)}
<1>1. 0 \in S
  <2>1. PICK g : g = [s \in SUBSET (1 .. 0) |-> base]
    OBVIOUS
  <2>2. \A s \in SUBSET (1 .. 0) : s = {}
    BY MaxUpTo
  <2>3. g \in [SUBSET (1 .. 0) -> State] /\ Recurs(g, 0)
    BY <2>1, <2>2
  <2> QED
    BY <2>3
<1>2. ASSUME NEW m \in Nat, m \in S PROVE m + 1 \in S
  <2>0. SUFFICES ASSUME m + 1 <= n
                 PROVE  \E h \in [SUBSET (1 .. m + 1) -> State] : Recurs(h, m + 1)
    <3>1. m + 1 \in Nat
      OBVIOUS
    <3> HIDE DEF Recurs
    <3> QED
      BY <3>1
  <2>1. PICK g \in [SUBSET (1 .. m) -> State] : Recurs(g, m)
    <3>1. m <= n
      BY <2>0
    <3> HIDE DEF Recurs
    <3> QED
      BY <1>2, <3>1
  <2>2. PICK h : h = [s \in SUBSET (1 .. m + 1) |->
                        IF m + 1 \in s THEN F[m + 1][g[s \ {m + 1}]] ELSE g[s]]
    OBVIOUS
  <2>3. /\ m + 1 \in 1 .. n /\ m + 1 \in Nat /\ m + 1 > 0
        /\ \A s \in SUBSET (1 .. m + 1) : s \ {m + 1} \in SUBSET (1 .. m)
        /\ 1 .. m \subseteq 1 .. m + 1 /\ m + 1 \notin 1 .. m
    <3>1. m \in Nat /\ n \in Nat /\ m + 1 <= n
      BY <2>0
    <3> QED
      BY ONLY <3>1
  <2>4. h \in [SUBSET (1 .. m + 1) -> State]
    <3>1. ASSUME NEW s \in SUBSET (1 .. m + 1) PROVE h[s] \in State
      <4>1. CASE m + 1 \in s
        <5>1. g[s \ {m + 1}] \in State
          BY <2>1, <2>3
        <5>2. F[m + 1] \in [State -> State]
          BY <1>0, <2>3
        <5> QED
          BY <2>2, <4>1, <5>1, <5>2
      <4>2. CASE m + 1 \notin s
        <5>1. s \in SUBSET (1 .. m)
          BY <2>3, <4>2
        <5> QED
          BY <2>1, <2>2, <4>2, <5>1
      <4> QED
        BY <4>1, <4>2
    <3> QED
      BY <2>2, <3>1
  <2>5. ASSUME NEW s \in SUBSET (1 .. m + 1)
        PROVE  h[s] = IF s = {} THEN base ELSE F[Max(s)][h[s \ {Max(s)}]]
    <3>1. CASE m + 1 \in s
      <4>1. Max(s) = m + 1
        <5>1. s \subseteq Int /\ \A y \in s : m + 1 >= y
          OBVIOUS
        <5> QED
          BY <3>1, <5>1, MaxIs
      <4>2. s \ {m + 1} \in SUBSET (1 .. m) /\ s \ {m + 1} \in SUBSET (1 .. m + 1)
        BY <2>3
      <4>3. h[s \ {m + 1}] = g[s \ {m + 1}]
        BY <2>2, <4>2
      <4> QED
        BY <2>2, <3>1, <4>1, <4>3
    <3>2. CASE m + 1 \notin s
      <4>1. s \in SUBSET (1 .. m) /\ s \ {Max(s)} \in SUBSET (1 .. m)
        BY <2>3, <3>2
      <4>2. \A r \in SUBSET (1 .. m) : r \in SUBSET (1 .. m + 1) /\ h[r] = g[r]
        BY <2>2, <2>3
      <4> QED
        BY <2>1, <4>1, <4>2
    <3> QED
      BY <3>1, <3>2
  <2> QED
    BY <2>4, <2>5
<1> HIDE DEF S
<1>3. Nat \subseteq S
  BY <1>1, <1>2, Induction
<1>4. PICK g \in [SUBSET (1 .. n) -> State] : Recurs(g, n)
  <2>1. n \in S /\ n <= n
    BY <1>3
  <2> HIDE DEF Recurs
  <2> QED
    BY <2>1 DEF S
<1> QED
  BY <1>4 DEF RecursBy

\* What such a function computes for the elements from the first on.
LEMMA FoldFrom ==
  ASSUME NEW n \in Nat, NEW State, NEW base \in State, NEW F, StepsOf(F, n, State),
         NEW h, h[{}] = base, Computes(h, F, n, State)
  PROVE  \E f : RunsBy(f, F, n, State, base, h[1 .. n])
<1>1. PICK f : f = [k \in 0 .. n |-> h[1 .. k]]
  OBVIOUS
<1>2. f[0] = base /\ f[n] = h[1 .. n]
  <2>1. 0 \in 0 .. n /\ n \in 0 .. n /\ 1 .. 0 = {}
    OBVIOUS
  <2> QED
    BY <1>1, <2>1
<1>3. ASSUME NEW k \in 1 .. n, f[k - 1] \in State
      PROVE  f[k] = F[k][f[k - 1]] /\ f[k] \in State
  <2>1. /\ k \in 0 .. n /\ k - 1 \in 0 .. n /\ k \in Nat /\ k > 0
        /\ 1 .. k \in SUBSET (1 .. n)
    OBVIOUS
  <2>2. Max(1 .. k) = k /\ 1 .. k # {} /\ (1 .. k) \ {k} = 1 .. k - 1
    BY <2>1, MaxUpTo
  <2>3. f[k] = h[1 .. k] /\ f[k - 1] = h[1 .. k - 1]
    BY <1>1, <2>1
  <2>4. h[1 .. k] = F[k][h[1 .. k - 1]]
    BY <1>3, <2>1, <2>2, <2>3 DEF Computes
  <2>5. F[k] \in [State -> State]
    BY DEF StepsOf
  <2> QED
    BY <1>3, <2>3, <2>4, <2>5
<1> DEFINE S == {k \in Nat : k <= n => f[k] \in State}
<1>4. 0 \in S
  BY <1>2
<1>5. ASSUME NEW m \in Nat, m \in S PROVE m + 1 \in S
  <2> SUFFICES ASSUME m + 1 <= n PROVE f[m + 1] \in State
    OBVIOUS
  <2>1. m + 1 \in 1 .. n /\ (m + 1) - 1 = m /\ m <= n
    OBVIOUS
  <2>2. f[(m + 1) - 1] \in State
    BY <1>5, <2>1
  <2> QED
    BY <1>3, <2>1, <2>2
<1>6. Nat \subseteq S
  <2> HIDE DEF S
  <2> QED
    BY <1>4, <1>5, Induction
<1>7. \A k \in 0 .. n : f[k] \in State
  BY <1>6
<1>8. f \in [0 .. n -> State]
  BY <1>1, <1>7
<1>9. \A k \in 1 .. n : f[k] = F[k][f[k - 1]]
  <2>1. \A k \in 1 .. n : k - 1 \in 0 .. n
    OBVIOUS
  <2> QED
    BY <1>3, <1>7, <2>1
<1> QED
  BY <1>2, <1>8, <1>9 DEF RunsBy

-----------------------------------------------------------------------------
(* The script, row by row                                                  *)

IrqRow == [at : Nat, procs : Seq(Nat)]
Entry  == [delta : 0 .. DeltaSize - 1, port : 0 .. ByteSize - 1, count : 0 .. ByteSize - 1]
State  == [last_timestamp : Nat, proc_id : Nat, overall_packet_count : Nat, storage : Seq(Entry)]
Start  == [last_timestamp |-> 0, proc_id |-> 0, overall_packet_count |-> 0, storage |-> << >>]

\* What an iteration does, without the value of a port that has no packets.
Reads(state, row, next) ==
  /\ next.last_timestamp = row.at
  /\ next.overall_packet_count = state.overall_packet_count + Len(row.procs)
  /\ \E entry \in Entry :
       /\ next.storage = Append(state.storage, entry)
       /\ entry.delta = (row.at - state.last_timestamp) % DeltaSize
       /\ entry.count = Len(row.procs) % ByteSize
       /\ row.procs # << >> => entry.port = Last(row.procs) % ByteSize

LEMMA Iteration ==
  ASSUME NEW state \in State, NEW row \in IrqRow, NEW next, next = ReadLine(state, row)
  PROVE  next \in State /\ Reads(state, row, next)
<1>1. /\ row.at \in Nat /\ row.procs \in Seq(Nat) /\ Len(row.procs) \in Nat
      /\ state.last_timestamp \in Nat /\ state.proc_id \in Nat
      /\ state.overall_packet_count \in Nat /\ state.storage \in Seq(Entry)
  BY DEF IrqRow, State
<1>2. ByteSize \in Nat \ {0} /\ DeltaSize \in Nat \ {0}
  BY SizeAssumption
<1>3. PICK proc \in Nat : /\ proc = ProcId(state.proc_id, row.procs)
                          /\ row.procs # << >> => proc = Last(row.procs)
  <2>1. row.procs # << >> => Last(row.procs) \in Nat
    BY <1>1, Elements
  <2> QED
    BY <1>1, <2>1 DEF ProcId
<1>4. PICK delta \in 0 .. DeltaSize - 1, port \in 0 .. ByteSize - 1, count \in 0 .. ByteSize - 1 :
        /\ delta = (row.at - state.last_timestamp) % DeltaSize
        /\ port = proc % ByteSize /\ count = Len(row.procs) % ByteSize
  <2>1. row.at - state.last_timestamp \in Int
    BY <1>1
  <2>2. \A x \in Int : x % ByteSize \in 0 .. ByteSize - 1 /\ x % DeltaSize \in 0 .. DeltaSize - 1
    BY <1>2
  <2>3. proc \in Int /\ Len(row.procs) \in Int
    BY <1>1
  <2> QED
    BY <2>1, <2>2, <2>3
<1>5. PICK entry \in Entry : entry = [delta |-> delta, port |-> port, count |-> count]
  BY DEF Entry
<1>6. next = [last_timestamp |-> row.at, proc_id |-> proc,
              overall_packet_count |-> state.overall_packet_count + Len(row.procs),
              storage |-> Append(state.storage, entry)]
  BY <1>3, <1>4, <1>5 DEF ReadLine, LastTimestamp, PacketsCounted
<1>7. /\ state.overall_packet_count + Len(row.procs) \in Nat
      /\ Append(state.storage, entry) \in Seq(Entry)
  BY <1>1
<1>8. next \in State
  BY <1>1, <1>6, <1>7 DEF State
<1>9. /\ entry.delta = (row.at - state.last_timestamp) % DeltaSize
      /\ entry.count = Len(row.procs) % ByteSize
      /\ row.procs # << >> => entry.port = Last(row.procs) % ByteSize
  BY <1>3, <1>4, <1>5
<1> QED
  BY <1>6, <1>8, <1>9 DEF Reads

LEMMA Extended ==
  ASSUME NEW S, NEW s \in Seq(S), NEW x \in S, NEW s2, s2 = Append(s, x)
  PROVE  /\ s2 \in Seq(S) /\ Len(s) \in Nat /\ Len(s2) = Len(s) + 1 /\ s2[Len(s) + 1] = x
         /\ \A j \in 1 .. Len(s) : s2[j] = s[j]
OBVIOUS

\* The states of the script: before the first row, and after each.
LEMMA ScriptStates ==
  ASSUME NEW rows \in Seq(IrqRow)
  PROVE  \E f \in [0 .. Len(rows) -> State] :
           /\ f[0] = Start /\ f[Len(rows)] = Script(rows)
           /\ \A k \in 1 .. Len(rows) : f[k] = ReadLine(f[k - 1], rows[k])
<1>1. PICK n \in Nat : n = Len(rows) /\ DOMAIN rows = 1 .. n /\ \A k \in 1 .. n : rows[k] \in IrqRow
  OBVIOUS
<1>2. PICK F : F = [k \in 1 .. n |-> [state \in State |-> ReadLine(state, rows[k])]]
  OBVIOUS
<1>3. StepsOf(F, n, State)
  <2>1. \A k \in 1 .. n : \A state \in State : ReadLine(state, rows[k]) \in State
    BY <1>1, Iteration
  <2> QED
    BY <1>2, <2>1 DEF StepsOf
<1>4. Start \in State
  BY DEF Start, State
<1> DEFINE Recurs(g) == g = [s \in SUBSET DOMAIN rows |->
                               IF s = {} THEN Start ELSE ReadLine(g[s \ {Max(s)}], rows[Max(s)])]
<1>5. \E g : Recurs(g)
  <2>1. PICK g : RecursBy(g, F, n, State, Start)
    BY <1>3, <1>4, FoldExists
  <2>2. ASSUME NEW s \in SUBSET (1 .. n), s # {}
        PROVE  g[s] = ReadLine(g[s \ {Max(s)}], rows[Max(s)])
    <3>1. Max(s) \in 1 .. n /\ g[s \ {Max(s)}] \in State
      BY <2>1, <2>2, MaxOf DEF RecursBy
    <3> QED
      BY <1>2, <2>1, <2>2, <3>1 DEF RecursBy
  <2> QED
    BY <1>1, <2>1, <2>2 DEF RecursBy
<1> DEFINE h == CHOOSE g : Recurs(g)
<1>6. Recurs(h)
  BY <1>5
<1>7. Script(rows) = h[1 .. n]
  <2>1. FoldLeft(ReadLine, Start, rows) = h[DOMAIN rows]
    BY DEF FoldLeft, MapThenFoldSet
  <2> QED
    BY <1>1, <2>1 DEF Script, Start
<1> HIDE DEF h
<1>8. h[{}] = Start
  BY <1>6
<1>9. Computes(h, F, n, State)
  <2>1. ASSUME NEW s \in SUBSET (1 .. n), s # {}, h[s \ {Max(s)}] \in State
        PROVE  h[s] = F[Max(s)][h[s \ {Max(s)}]]
    <3>1. Max(s) \in 1 .. n
      BY <2>1, MaxOf
    <3>2. h[s] = ReadLine(h[s \ {Max(s)}], rows[Max(s)])
      BY <1>1, <1>6, <2>1
    <3> QED
      BY <1>2, <2>1, <3>1, <3>2
  <2> QED
    BY <2>1 DEF Computes
<1>10. PICK f : RunsBy(f, F, n, State, Start, h[1 .. n])
  BY <1>3, <1>4, <1>8, <1>9, FoldFrom
<1>11. ASSUME NEW k \in 1 .. n PROVE f[k] = ReadLine(f[k - 1], rows[k])
  <2>1. f[k - 1] \in State
    <3>1. k - 1 \in 0 .. n
      OBVIOUS
    <3> QED
      BY <1>10, <3>1 DEF RunsBy
  <2> QED
    BY <1>2, <1>10, <2>1 DEF RunsBy
<1> QED
  BY <1>1, <1>7, <1>10, <1>11 DEF RunsBy

-----------------------------------------------------------------------------
(* What the properties fold over the blob                                  *)

\* f[k] is the sum of the first k elements of a list, and sum that of all.
SumsOf(f, list, elements, sum) ==
  /\ f \in [0 .. Len(list) -> Nat] /\ f[0] = 0 /\ f[Len(list)] = sum
  /\ \A k \in 1 .. Len(list) : f[k] = f[k - 1] + elements[k]

\* The packets of the entries.
LEMMA CountSums ==
  ASSUME NEW list \in Seq(Entry)
  PROVE  \E f : SumsOf(f, list, [k \in DOMAIN list |-> list[k].count],
                       FoldLeft(LAMBDA sum, entry : sum + entry.count, 0, list))
<1>1. PICK n \in Nat : n = Len(list) /\ DOMAIN list = 1 .. n /\ \A k \in 1 .. n : list[k].count \in Nat
  <2>1. \A k \in 1 .. Len(list) : list[k] \in Entry
    OBVIOUS
  <2>2. \A k \in 1 .. Len(list) : list[k].count \in Nat
    BY <2>1 DEF Entry
  <2> QED
    BY <2>2
<1>2. PICK F : F = [k \in 1 .. n |-> [sum \in Nat |-> sum + list[k].count]]
  OBVIOUS
<1>3. StepsOf(F, n, Nat)
  <2>1. ASSUME NEW k \in 1 .. n PROVE [sum \in Nat |-> sum + list[k].count] \in [Nat -> Nat]
    <3>1. PICK c \in Nat : c = list[k].count
      BY <1>1
    <3>2. [sum \in Nat |-> sum + c] \in [Nat -> Nat]
      OBVIOUS
    <3> QED
      BY <3>1, <3>2
  <2> QED
    BY <1>2, <2>1 DEF StepsOf
<1> DEFINE Recurs(g) == g = [s \in SUBSET DOMAIN list |->
                               IF s = {} THEN 0 ELSE g[s \ {Max(s)}] + list[Max(s)].count]
<1>4. \E g : Recurs(g)
  <2>1. PICK g : RecursBy(g, F, n, Nat, 0)
    BY <1>3, FoldExists
  <2>2. ASSUME NEW s \in SUBSET (1 .. n), s # {}
        PROVE  g[s] = g[s \ {Max(s)}] + list[Max(s)].count
    <3>1. Max(s) \in 1 .. n /\ g[s \ {Max(s)}] \in Nat
      BY <2>1, <2>2, MaxOf DEF RecursBy
    <3> QED
      BY <1>2, <2>1, <2>2, <3>1 DEF RecursBy
  <2> QED
    BY <1>1, <2>1, <2>2 DEF RecursBy
<1> DEFINE h == CHOOSE g : Recurs(g)
<1>5. Recurs(h)
  BY <1>4
<1>6. FoldLeft(LAMBDA sum, entry : sum + entry.count, 0, list) = h[1 .. n]
  <2>1. FoldLeft(LAMBDA sum, entry : sum + entry.count, 0, list) = h[DOMAIN list]
    BY DEF FoldLeft, MapThenFoldSet
  <2> QED
    BY <1>1, <2>1
<1> HIDE DEF h
<1>7. h[{}] = 0
  BY <1>5
<1>8. Computes(h, F, n, Nat)
  <2>1. ASSUME NEW s \in SUBSET (1 .. n), s # {}, h[s \ {Max(s)}] \in Nat
        PROVE  h[s] = F[Max(s)][h[s \ {Max(s)}]]
    <3>1. Max(s) \in 1 .. n
      BY <2>1, MaxOf
    <3>2. h[s] = h[s \ {Max(s)}] + list[Max(s)].count
      BY <1>1, <1>5, <2>1
    <3> QED
      BY <1>2, <2>1, <3>1, <3>2
  <2> QED
    BY <2>1 DEF Computes
<1>9. PICK f : RunsBy(f, F, n, Nat, 0, h[1 .. n])
  <2>1. 0 \in Nat /\ n \in Nat
    OBVIOUS
  <2> QED
    BY ONLY <1>3, <1>7, <1>8, <2>1, FoldFrom
<1>10. ASSUME NEW k \in 1 .. n PROVE f[k] = f[k - 1] + list[k].count
  <2>1. f[k - 1] \in Nat
    <3>1. k - 1 \in 0 .. n
      OBVIOUS
    <3> QED
      BY <1>9, <3>1 DEF RunsBy
  <2> QED
    BY <1>2, <1>9, <2>1 DEF RunsBy
<1> QED
  BY <1>1, <1>6, <1>9, <1>10 DEF RunsBy, SumsOf

\* The time from the first entry on.
LEMMA DeltaSums ==
  ASSUME NEW list \in Seq(Entry)
  PROVE  \E f : SumsOf(f, list, [k \in DOMAIN list |-> list[k].delta],
                       FoldLeft(LAMBDA sum, entry : sum + entry.delta, 0, list))
<1>1. PICK n \in Nat : n = Len(list) /\ DOMAIN list = 1 .. n /\ \A k \in 1 .. n : list[k].delta \in Nat
  <2>1. \A k \in 1 .. Len(list) : list[k] \in Entry
    OBVIOUS
  <2>2. \A k \in 1 .. Len(list) : list[k].delta \in Nat
    BY <2>1 DEF Entry
  <2> QED
    BY <2>2
<1>2. PICK F : F = [k \in 1 .. n |-> [sum \in Nat |-> sum + list[k].delta]]
  OBVIOUS
<1>3. StepsOf(F, n, Nat)
  <2>1. ASSUME NEW k \in 1 .. n PROVE [sum \in Nat |-> sum + list[k].delta] \in [Nat -> Nat]
    <3>1. PICK c \in Nat : c = list[k].delta
      BY <1>1
    <3>2. [sum \in Nat |-> sum + c] \in [Nat -> Nat]
      OBVIOUS
    <3> QED
      BY <3>1, <3>2
  <2> QED
    BY <1>2, <2>1 DEF StepsOf
<1> DEFINE Recurs(g) == g = [s \in SUBSET DOMAIN list |->
                               IF s = {} THEN 0 ELSE g[s \ {Max(s)}] + list[Max(s)].delta]
<1>4. \E g : Recurs(g)
  <2>1. PICK g : RecursBy(g, F, n, Nat, 0)
    BY <1>3, FoldExists
  <2>2. ASSUME NEW s \in SUBSET (1 .. n), s # {}
        PROVE  g[s] = g[s \ {Max(s)}] + list[Max(s)].delta
    <3>1. Max(s) \in 1 .. n /\ g[s \ {Max(s)}] \in Nat
      BY <2>1, <2>2, MaxOf DEF RecursBy
    <3> QED
      BY <1>2, <2>1, <2>2, <3>1 DEF RecursBy
  <2> QED
    BY <1>1, <2>1, <2>2 DEF RecursBy
<1> DEFINE h == CHOOSE g : Recurs(g)
<1>5. Recurs(h)
  BY <1>4
<1>6. FoldLeft(LAMBDA sum, entry : sum + entry.delta, 0, list) = h[1 .. n]
  <2>1. FoldLeft(LAMBDA sum, entry : sum + entry.delta, 0, list) = h[DOMAIN list]
    BY DEF FoldLeft, MapThenFoldSet
  <2> QED
    BY <1>1, <2>1
<1> HIDE DEF h
<1>7. h[{}] = 0
  BY <1>5
<1>8. Computes(h, F, n, Nat)
  <2>1. ASSUME NEW s \in SUBSET (1 .. n), s # {}, h[s \ {Max(s)}] \in Nat
        PROVE  h[s] = F[Max(s)][h[s \ {Max(s)}]]
    <3>1. Max(s) \in 1 .. n
      BY <2>1, MaxOf
    <3>2. h[s] = h[s \ {Max(s)}] + list[Max(s)].delta
      BY <1>1, <1>5, <2>1
    <3> QED
      BY <1>2, <2>1, <3>1, <3>2
  <2> QED
    BY <2>1 DEF Computes
<1>9. PICK f : RunsBy(f, F, n, Nat, 0, h[1 .. n])
  <2>1. 0 \in Nat /\ n \in Nat
    OBVIOUS
  <2> QED
    BY ONLY <1>3, <1>7, <1>8, <2>1, FoldFrom
<1>10. ASSUME NEW k \in 1 .. n PROVE f[k] = f[k - 1] + list[k].delta
  <2>1. f[k - 1] \in Nat
    <3>1. k - 1 \in 0 .. n
      OBVIOUS
    <3> QED
      BY <1>9, <3>1 DEF RunsBy
  <2> QED
    BY <1>2, <1>9, <2>1 DEF RunsBy
<1> QED
  BY <1>1, <1>6, <1>9, <1>10 DEF RunsBy, SumsOf

\* The blob of a list of rows, and the count of packets in its header.
EntryOf(blob, rows, k) ==
  /\ blob[k].delta = (rows[k].at - (IF k = 1 THEN 0 ELSE rows[k - 1].at)) % DeltaSize
  /\ blob[k].count = Len(rows[k].procs) % ByteSize
  /\ rows[k].procs # << >> => blob[k].port = Last(rows[k].procs) % ByteSize

LEMMA BlobOf ==
  ASSUME NEW rows \in Seq(IrqRow)
  PROVE  /\ Blob(rows) \in Seq(Entry) /\ Len(Blob(rows)) = Len(rows)
         /\ \A k \in 1 .. Len(rows) : EntryOf(Blob(rows), rows, k)
         /\ \E f : SumsOf(f, rows, [k \in DOMAIN rows |-> Len(rows[k].procs)], PacketCount(rows))
<1>1. PICK n \in Nat : n = Len(rows) /\ DOMAIN rows = 1 .. n
  OBVIOUS
<1>2. \A k \in 1 .. n : rows[k] \in IrqRow
  BY <1>1
<1>3. PICK f \in [0 .. n -> State] :
        /\ f[0] = Start /\ f[n] = Script(rows)
        /\ \A k \in 1 .. n : f[k] = ReadLine(f[k - 1], rows[k])
  BY <1>1, ScriptStates
<1>4. ASSUME NEW k \in 1 .. n
      PROVE  f[k] \in State /\ Reads(f[k - 1], rows[k], f[k])
  <2>1. k - 1 \in 0 .. n /\ k \in 0 .. n
    OBVIOUS
  <2>2. f[k - 1] \in State /\ rows[k] \in IrqRow /\ f[k] = ReadLine(f[k - 1], rows[k])
    BY <1>2, <1>3, <2>1
  <2>3. PICK state, row, next :
          state \in State /\ row \in IrqRow /\ state = f[k - 1] /\ row = rows[k] /\ next = f[k] /\ next = ReadLine(state, row)
    BY <2>2
  <2> QED
    BY <2>2, <2>3, Iteration
<1> DEFINE Good(k) == /\ f[k].storage \in Seq(Entry) /\ Len(f[k].storage) = k
                      /\ f[k].last_timestamp = IF k = 0 THEN 0 ELSE rows[k].at
                      /\ \A j \in 1 .. k : EntryOf(f[k].storage, rows, j)
           S == {k \in Nat : k <= n => Good(k)}
<1>5. 0 \in S
  <2>1. f[0].storage = << >> /\ f[0].last_timestamp = 0
    BY <1>3 DEF Start
  <2>2. 1 .. 0 = {}
    OBVIOUS
  <2>3. Good(0)
    BY <2>1, <2>2
  <2> HIDE DEF Good
  <2> QED
    BY <2>3
<1>6. ASSUME NEW m \in Nat, m \in S PROVE m + 1 \in S
  <2>1. SUFFICES ASSUME m + 1 <= n PROVE Good(m + 1)
    OBVIOUS
  <2>2. PICK k \in 1 .. n : k = m + 1 /\ k - 1 = m /\ m <= n
    BY <2>1
  <2>3. Good(m)
    BY <1>6, <2>2
  <2>4. PICK entry \in Entry :
          /\ f[k].storage = Append(f[m].storage, entry)
          /\ entry.delta = (rows[k].at - f[m].last_timestamp) % DeltaSize
          /\ entry.count = Len(rows[k].procs) % ByteSize
          /\ rows[k].procs # << >> => entry.port = Last(rows[k].procs) % ByteSize
    BY <1>4, <2>2 DEF Reads
  <2>5. PICK old \in Seq(Entry) : old = f[m].storage /\ Len(old) = m
    BY <2>3
  <2>6. PICK new \in Seq(Entry) : /\ new = f[k].storage /\ Len(new) = k
                                  /\ new[k] = entry /\ \A j \in 1 .. m : new[j] = old[j]
    <3>1. PICK new : new = Append(old, entry)
      OBVIOUS
    <3>2. new \in Seq(Entry)
      BY <3>1
    <3>3. /\ Len(new) = m + 1 /\ new[m + 1] = entry
          /\ \A j \in 1 .. m : new[j] = old[j]
      <4>1. old \in Seq(Entry) /\ entry \in Entry /\ Len(old) = m
        BY <2>5
      <4> QED
        BY ONLY <3>1, <4>1, Extended
    <3>4. new = f[k].storage
      BY <2>4, <2>5, <3>1
    <3> QED
      BY <2>2, <3>2, <3>3, <3>4
  <2>7. EntryOf(new, rows, k)
    <3>1. f[m].last_timestamp = IF k = 1 THEN 0 ELSE rows[k - 1].at
      BY <2>2, <2>3
    <3> QED
      BY <2>4, <2>6, <3>1 DEF EntryOf
  <2>8. \A j \in 1 .. m : EntryOf(new, rows, j)
    BY <2>3, <2>5, <2>6 DEF EntryOf
  <2>9. \A j \in 1 .. k : EntryOf(new, rows, j)
    <3>1. \A j \in 1 .. k : j \in 1 .. m \/ j = k
      BY <2>2
    <3> QED
      BY <2>7, <2>8, <3>1
  <2>10. f[k].last_timestamp = rows[k].at /\ k # 0
    <3>1. Reads(f[k - 1], rows[k], f[k])
      BY <1>4
    <3> QED
      BY <3>1 DEF Reads
  <2> QED
    BY <2>2, <2>6, <2>9, <2>10
<1>7. Nat \subseteq S
  <2> HIDE DEF S
  <2> QED
    BY <1>5, <1>6, Induction
<1>8. Good(n)
  <2>1. n \in S /\ n <= n
    BY <1>7
  <2> HIDE DEF Good
  <2> QED
    BY <2>1
<1>9. \E g : SumsOf(g, rows, [k \in DOMAIN rows |-> Len(rows[k].procs)], PacketCount(rows))
  <2>1. PICK g : g = [k \in 0 .. n |-> f[k].overall_packet_count]
    OBVIOUS
  <2>2. \A k \in 0 .. n : f[k].overall_packet_count \in Nat
    BY <1>3 DEF State
  <2>3. g \in [0 .. n -> Nat]
    BY <2>1, <2>2
  <2>4. g[0] = 0
    BY <1>3, <2>1 DEF Start
  <2>5. g[n] = PacketCount(rows)
    BY <1>3, <2>1 DEF PacketCount
  <2>6. ASSUME NEW k \in 1 .. n PROVE g[k] = g[k - 1] + Len(rows[k].procs)
    <3>1. k - 1 \in 0 .. n /\ k \in 0 .. n
      OBVIOUS
    <3> QED
      BY <1>4, <2>1, <3>1 DEF Reads
  <2> QED
    BY <1>1, <2>3, <2>4, <2>5, <2>6 DEF SumsOf
<1> QED
  BY <1>1, <1>3, <1>8, <1>9 DEF Blob

-----------------------------------------------------------------------------
(* The interrupt trace that is written                                     *)

\* A batch is a packet that passes through, or comes from the store of one buffer.
FromStore(P, batch) ==
  \E b \in Buffer : /\ Len(batch) <= Config[b].capacity
                    /\ \A n \in ToSet(batch) : To(P, n) = b

\* The interrupts are in the order of their times.
Batches ==
  /\ \A k, l \in DOMAIN interrupts : k < l => interrupts[k].at <= interrupts[l].at
  /\ \A k \in DOMAIN interrupts :
       Len(interrupts[k].batch) = 1 \/ FromStore(packets, interrupts[k].batch)

LEMMA FromStoreStays ==
  ASSUME Kept, TracesGrow, NEW k \in DOMAIN interrupts, FromStore(packets, interrupts[k].batch)
  PROVE  FromStore(packets', interrupts[k].batch)
<1>1. PICK b \in Buffer : /\ Len(interrupts[k].batch) <= Config[b].capacity
                          /\ \A n \in ToSet(interrupts[k].batch) : To(packets, n) = b
  BY DEF FromStore
<1>2. \A n \in ToSet(interrupts[k].batch) : n \in 1 .. Len(packets)
  BY BatchOf
<1>3. \A n \in ToSet(interrupts[k].batch) : To(packets', n) = b
  BY <1>1, <1>2 DEF TracesGrow
<1> QED
  BY <1>1, <1>3 DEF FromStore

LEMMA BatchesSame ==
  ASSUME Kept, Batches, TracesGrow, interrupts' = interrupts
  PROVE  Batches'
<1>1. ASSUME NEW k \in DOMAIN interrupts
      PROVE  Len(interrupts[k].batch) = 1 \/ FromStore(packets', interrupts[k].batch)
  BY FromStoreStays DEF Batches
<1> QED
  BY <1>1 DEF Batches

LEMMA BatchesRaised ==
  ASSUME Kept, Batches, TracesGrow, now' \in Nat, now <= now', NEW batch \in Seq(Nat), NEW reason,
         Raises(interrupts, interrupts', now', batch, reason),
         Len(batch) = 1 \/ FromStore(packets', batch)
  PROVE  Batches'
<1>1. PICK irq : irq = Interrupt(now', batch, reason)
  OBVIOUS
<1>2. irq.at = now' /\ irq.batch = batch
  BY <1>1 DEF Interrupt
<1>3. PICK n \in Nat : n = Len(interrupts) /\ DOMAIN interrupts = 1 .. n
  BY Stores
<1>4. /\ DOMAIN interrupts' = 1 .. n + 1 /\ interrupts'[n + 1] = irq
      /\ \A k \in 1 .. n : interrupts'[k] = interrupts[k]
  <2>1. interrupts \in Seq(Irq) /\ interrupts' = Append(interrupts, irq)
    BY <1>1, Stores DEF Raises
  <2> QED
    BY <1>3, <2>1
<1>5. \A k \in 1 .. n : interrupts[k].at \in Nat /\ interrupts[k].at <= now'
  <2>1. \A k \in 1 .. n : interrupts[k].at \in Nat /\ interrupts[k].at <= now /\ now \in Nat
    BY <1>3, BatchOf, Stores
  <2> QED
    BY <2>1
<1>6. ASSUME NEW k \in 1 .. n + 1, NEW l \in 1 .. n + 1, k < l
      PROVE  interrupts'[k].at <= interrupts'[l].at
  <2>1. k \in 1 .. n
    BY <1>6
  <2>2. CASE l = n + 1
    BY <1>2, <1>4, <1>5, <2>1, <2>2
  <2>3. CASE l \in 1 .. n
    BY <1>3, <1>4, <1>6, <2>1, <2>3 DEF Batches
  <2> QED
    BY <2>2, <2>3
<1>7. ASSUME NEW k \in 1 .. n + 1
      PROVE  Len(interrupts'[k].batch) = 1 \/ FromStore(packets', interrupts'[k].batch)
  <2>1. CASE k = n + 1
    BY <1>2, <1>4, <2>1
  <2>2. CASE k \in 1 .. n
    BY <1>3, <1>4, <2>2, FromStoreStays DEF Batches
  <2> QED
    BY <2>1, <2>2
<1> QED
  BY <1>4, <1>6, <1>7 DEF Batches

LEMMA BatchesQuiet ==
  ASSUME Kept, Batches, now' \in Nat, now <= now',
         UNCHANGED <<items, put_queue, packets, interrupts>>
  PROVE  Batches'
BY QuietKept, BatchesSame

\* What is flushed comes from the store.
LEMMA StoreIsOne ==
  ASSUME NicInv, TracesGrow, NEW b \in Buffer
  PROVE  items[b] \in Seq(Nat) /\ FromStore(packets', items[b])
<1>1. \A n \in ToSet(items[b]) : n \in 1 .. Len(packets) /\ To(packets, n) = b
  BY DEF NicInv, Kept, StoreInv, RoutedIn, Inside
<1>2. \A n \in ToSet(items[b]) : To(packets', n) = b
  BY <1>1 DEF TracesGrow
<1> QED
  BY <1>2, BufferFacts DEF FromStore, NicInv, Capacities

LEMMA ArrivalBatches ==
  ASSUME NicInv, Batches, NEW e, NEW flow \in Flow, Arrival(e, flow)
  PROVE  Batches'
<1>1. now' \in Nat /\ now \in Nat /\ now <= now' /\ Kept
  BY Happening DEF Arrival, DropUnknown, PassOn, Put, PutCrashes, NicInv
<1>2. CASE DropUnknown(e, flow)
  <2>1. TracesGrow
    BY <1>1, <1>2, DropKept
  <2>2. interrupts' = interrupts
    BY <1>2 DEF DropUnknown
  <2> QED
    BY <1>1, <2>1, <2>2, BatchesSame
<1>3. CASE PassOn(e, flow)
  <2>1. TracesGrow
    BY <1>1, <1>3, PassKept
  <2>2. PICK batch : batch = <<Len(packets) + 1>>
    OBVIOUS
  <2>3. batch \in Seq(Nat) /\ Len(batch) = 1
    BY <1>1, <2>2, Stores
  <2>4. Raises(interrupts, interrupts', now', batch, None)
    BY <1>3, <2>2 DEF PassOn, Raise, Raises, Interrupt
  <2> QED
    BY <1>1, <2>1, <2>3, <2>4, BatchesRaised
<1>4. CASE Put(e, flow)
  <2>1. PICK b : b = Mapping[flow]
    OBVIOUS
  <2>2. TracesGrow /\ b \in Buffer /\ \E content : PutLeaves(b, content)
    BY <1>1, <1>4, <2>1, PutKept
  <2>3. PICK content : PutLeaves(b, content)
    BY <2>2
  <2>4. CASE interrupts' = interrupts
    BY <1>1, <2>2, <2>4, BatchesSame
  <2>5. CASE Raises(interrupts, interrupts', now', content, "packet_limit")
    <3>1. content \in Seq(Nat) /\ \A n \in ToSet(content) : To(packets', n) = b
      BY <2>3 DEF PutLeaves
    <3>2. Len(items[b]) \in Nat /\ Len(items[b]) <= Config[b].capacity /\ Config[b].capacity \in Nat
      BY <2>2, BufferFacts, BufferConfig DEF NicInv, Capacities
    <3>3. CASE HasRoom(b)
      <4>1. Len(content) = Len(items[b]) + 1 /\ Len(items[b]) < Config[b].capacity
        BY <2>3, <3>3 DEF PutLeaves, HasRoom
      <4>2. Len(content) <= Config[b].capacity
        BY <3>2, <4>1
      <4>3. FromStore(packets', content)
        BY <2>2, <3>1, <4>2 DEF FromStore
      <4> QED
        BY <1>1, <2>2, <2>5, <3>1, <4>3, BatchesRaised
    <3>4. CASE ~HasRoom(b)
      <4>1. content = items[b]
        BY <2>3, <3>4 DEF PutLeaves
      <4>2. FromStore(packets', content)
        BY <2>2, <4>1, StoreIsOne
      <4> QED
        BY <1>1, <2>2, <2>5, <3>1, <4>2, BatchesRaised
    <3> QED
      BY <3>3, <3>4
  <2> QED
    BY <2>3, <2>4, <2>5 DEF PutLeaves
<1>5. CASE PutCrashes(e, flow)
  BY <1>1, <1>5, BatchesQuiet DEF PutCrashes, bufferVars
<1> QED
  BY <1>2, <1>3, <1>4, <1>5 DEF Arrival

LEMMA TimerBatches ==
  ASSUME NicInv, Batches, NEW e \in agenda, Timers(e)
  PROVE  Batches'
<1>1. now' \in Nat /\ now \in Nat /\ now <= now' /\ Kept /\ e.at = now' /\ EventOK(e, now')
  <2>1. \E what : Happens(e, what)
    BY DEF Timers, OffsetElapsed, AbsoluteTimer, AbsoluteTimerCrashes, PacketTimer,
           PacketTimerProcessed
  <2> QED
    BY <2>1, Happening DEF NicInv
<1>2. PICK b : b = e.of
  OBVIOUS
<1>3. e.what # "arrival" => b \in Buffer
  BY <1>1, <1>2 DEF EventOK, EventType
<1>4. CASE OffsetElapsed(e) \/ AbsoluteTimerCrashes(e) \/ PacketTimerProcessed(e)
  <2>1. UNCHANGED <<items, put_queue, packets, interrupts>>
    BY <1>4 DEF OffsetElapsed, AbsoluteTimerCrashes, PacketTimerProcessed, bufferVars
  <2> QED
    BY <1>1, <2>1, BatchesQuiet
<1>5. CASE AbsoluteTimer(e)
  <2>1. /\ e.what = "absolute"
        /\ items' = [items EXCEPT ![b] = << >>] /\ put_queue' = put_queue
        /\ packets' = Stamped(packets, items[b])
        /\ IF items[b] # << >> THEN Raise(items[b], "absolute_timer") ELSE UNCHANGED interrupts
    BY <1>2, <1>5 DEF AbsoluteTimer, Emptied, FlushesAtPeriod, Happens
  <2>2. b \in Buffer /\ e \in PeriodEvents(b) /\ Config[b].absolute_time_limit # None
    BY <1>1, <1>2, <1>3, <2>1 DEF PeriodEvents, EventOK
  <2>3. TracesGrow
    BY <1>1, <2>1, <2>2, PeriodTraces
  <2>4. CASE items[b] = << >>
    BY <1>1, <2>1, <2>3, <2>4, BatchesSame
  <2>5. CASE items[b] # << >>
    <3>1. Raises(interrupts, interrupts', now', items[b], "absolute_timer")
      BY <2>1, <2>5 DEF Raise, Raises, Interrupt
    <3>2. items[b] \in Seq(Nat) /\ FromStore(packets', items[b])
      BY <2>2, <2>3, StoreIsOne
    <3> QED
      BY <1>1, <2>3, <3>1, <3>2, BatchesRaised
  <2> QED
    BY <2>4, <2>5
<1>6. CASE PacketTimer(e)
  <2>1. /\ e.what = "packet"
        /\ items' = [items EXCEPT ![b] = << >>] /\ put_queue' = put_queue
        /\ packets' = Stamped(packets, items[b]) /\ Raise(items[b], "packet_timer")
    BY <1>2, <1>6 DEF PacketTimer, Emptied, Happens
  <2>2. b \in Buffer /\ "packet_timer" \in Reason
    BY <1>3, <2>1 DEF Reason
  <2>3. TracesGrow /\ Raises(interrupts, interrupts', now', items[b], "packet_timer")
    BY <1>1, <2>1, <2>2, FlushKept
  <2>4. items[b] \in Seq(Nat) /\ FromStore(packets', items[b])
    BY <2>2, <2>3, StoreIsOne
  <2> QED
    BY <1>1, <2>3, <2>4, BatchesRaised
<1> QED
  BY <1>4, <1>5, <1>6 DEF Timers

LEMMA BatchesHold == Spec => [](NicInv /\ Batches)
<1>1. Init => Batches
  BY DEF Init, Batches
<1>2. NicInv /\ Batches /\ [Next]_vars => Batches'
  <2> SUFFICES ASSUME NicInv, Batches, [Next]_vars PROVE Batches'
    OBVIOUS
  <2>1. CASE Finish
    <3>1. /\ now' \in Nat /\ now <= now' /\ Kept
          /\ UNCHANGED <<items, put_queue, packets, interrupts>>
      BY <2>1, ConfigAssumption DEF Finish, NicInv, Clock, bufferVars
    <3> QED
      BY <3>1, BatchesQuiet
  <2>2. CASE UNCHANGED vars
    <3>1. /\ now' = now /\ now \in Nat /\ Kept
          /\ UNCHANGED <<items, put_queue, packets, interrupts>>
      BY <2>2, Stores DEF vars, bufferVars, NicInv
    <3>2. now' \in Nat /\ now <= now'
      BY <3>1
    <3> QED
      BY <3>1, <3>2, BatchesQuiet
  <2> QED
    BY <2>1, <2>2, ArrivalBatches, TimerBatches DEF Next, Stopped
<1> QED
  BY <1>1, <1>2, InvHolds, PTL DEF Spec

-----------------------------------------------------------------------------
(* From the interrupts to the blob                                         *)

LEMMA RowsOf ==
  ASSUME Kept
  PROVE  /\ InterruptRows \in Seq(IrqRow) /\ Len(InterruptRows) = Len(interrupts)
         /\ Len(interrupts) \in Nat /\ DOMAIN interrupts = 1 .. Len(interrupts)
         /\ \A k \in 1 .. Len(interrupts) :
              /\ InterruptRows[k].at = interrupts[k].at
              /\ InterruptRows[k].procs = Procs(interrupts[k].batch)
              /\ Len(InterruptRows[k].procs) = Len(interrupts[k].batch)
              /\ \A n \in 1 .. Len(interrupts[k].batch) :
                   InterruptRows[k].procs[n] = LastByte[packets[interrupts[k].batch[n]].flow]
<1>1. PICK m \in Nat : m = Len(interrupts) /\ DOMAIN interrupts = 1 .. m
  BY Stores
<1>2. ASSUME NEW k \in 1 .. m
      PROVE  /\ Procs(interrupts[k].batch) \in Seq(Nat)
             /\ Len(Procs(interrupts[k].batch)) = Len(interrupts[k].batch)
             /\ \A n \in 1 .. Len(interrupts[k].batch) :
                  Procs(interrupts[k].batch)[n] = LastByte[packets[interrupts[k].batch[n]].flow]
  <2>1. PICK batch \in Seq(Nat) : batch = interrupts[k].batch /\ ToSet(batch) \subseteq 1 .. Len(packets)
    BY <1>1, BatchOf
  <2>2. \A n \in 1 .. Len(packets) : packets[n].flow \in Flow
    <3>1. \A n \in 1 .. Len(packets) : packets[n] \in Row
      BY Stores
    <3> QED
      BY <3>1 DEF Row
  <2>3. \A n \in 1 .. Len(batch) : LastByte[packets[batch[n]].flow] \in Nat
    <3>1. \A n \in 1 .. Len(batch) : batch[n] \in 1 .. Len(packets)
      <4>1. \A n \in 1 .. Len(batch) : n \in DOMAIN batch
        OBVIOUS
      <4> QED
        BY <2>1, <4>1, Elements
    <3>2. \A flow \in Flow : LastByte[flow] \in Nat
      BY LastByteAssumption, SizeAssumption
    <3> QED
      BY <2>2, <3>1, <3>2
  <2>4. PICK procs : /\ procs = Procs(batch) /\ procs \in [1 .. Len(batch) -> Nat]
                     /\ \A n \in 1 .. Len(batch) : procs[n] = LastByte[packets[batch[n]].flow]
    <3>1. DOMAIN batch = 1 .. Len(batch)
      OBVIOUS
    <3>2. PICK procs : procs = [n \in 1 .. Len(batch) |-> LastByte[packets[batch[n]].flow]]
      OBVIOUS
    <3>3. procs = Procs(batch)
      BY <3>1, <3>2 DEF Procs
    <3>4. \A n \in 1 .. Len(batch) : procs[n] = LastByte[packets[batch[n]].flow]
      BY <3>2
    <3>5. procs \in [1 .. Len(batch) -> Nat]
      BY <2>3, <3>2
    <3> QED
      BY <3>3, <3>4, <3>5
  <2>5. procs \in Seq(Nat) /\ Len(procs) = Len(batch)
    <3>1. PICK l \in Nat : l = Len(batch) /\ procs \in [1 .. l -> Nat]
      <4>1. Len(batch) \in Nat
        BY <2>1
      <4> QED
        BY <2>4, <4>1
    <3>2. procs \in Seq(Nat) /\ Len(procs) = l
      BY <3>1
    <3> QED
      BY <3>1, <3>2
  <2> QED
    BY <2>1, <2>4, <2>5
<1>3. PICK rows : /\ rows = InterruptRows /\ DOMAIN rows = 1 .. m
                  /\ \A k \in 1 .. m : rows[k] = [at |-> interrupts[k].at,
                                                   procs |-> Procs(interrupts[k].batch)]
  <2>1. PICK rows : rows = InterruptRows
    OBVIOUS
  <2>2. rows = [k \in 1 .. m |-> [at |-> interrupts[k].at, procs |-> Procs(interrupts[k].batch)]]
    BY <1>1, <2>1 DEF InterruptRows
  <2> QED
    BY <2>1, <2>2
<1>4. \A k \in 1 .. m : interrupts[k].at \in Nat
  BY <1>1, BatchOf
<1>5. \A k \in 1 .. m : rows[k] \in IrqRow
  BY <1>2, <1>3, <1>4 DEF IrqRow
<1>6. rows \in [1 .. m -> IrqRow]
  BY <1>1, <1>3, <1>5 DEF InterruptRows
<1>7. rows \in Seq(IrqRow) /\ Len(rows) = m
  BY <1>6
<1> QED
  BY <1>1, <1>2, <1>3, <1>7

\* The 2^32 microseconds of a delta exceed the simulated time, which is 10^9.
DeltasFit == RUNTIME < DeltaSize

LEMMA TimesFollowRows ==
  ASSUME DeltasFit, NicInv, Batches
  PROVE  TimesRestored
<1> SUFFICES ASSUME NEW k \in DOMAIN interrupts
             PROVE  FoldLeft(LAMBDA sum, entry : sum + entry.delta, 0,
                             SubSeq(Blob(InterruptRows), 1, k)) = interrupts[k].at
  BY DEF TimesRestored
<1>1. PICK rows \in Seq(IrqRow), m \in Nat :
        /\ rows = InterruptRows /\ Len(rows) = m /\ k \in 1 .. m
        /\ m = Len(interrupts) /\ DOMAIN interrupts = 1 .. m
        /\ \A j \in 1 .. m : rows[j].at = interrupts[j].at
  BY RowsOf DEF NicInv
<1>2. PICK blob \in Seq(Entry) :
        blob = Blob(rows) /\ Len(blob) = m /\ \A j \in 1 .. m : EntryOf(blob, rows, j)
  BY <1>1, BlobOf
<1>3. \A j \in 1 .. m : interrupts[j].at \in Nat /\ interrupts[j].at <= RUNTIME
  <2>1. \A j \in 1 .. m : interrupts[j].at \in Nat /\ interrupts[j].at <= now /\ now \in 0 .. RUNTIME
    BY <1>1, BatchOf DEF NicInv, Clock
  <2> QED
    BY <2>1, ConfigAssumption
<1>4. \A j \in 1 .. m : j > 1 => interrupts[j - 1].at <= interrupts[j].at
  <2>1. \A j \in 1 .. m : j > 1 => j - 1 \in 1 .. m /\ j - 1 < j
    OBVIOUS
  <2> QED
    BY <1>1, <2>1 DEF Batches
<1>5. ASSUME NEW j \in 1 .. m
      PROVE  blob[j].delta = interrupts[j].at - (IF j = 1 THEN 0 ELSE interrupts[j - 1].at)
  <2>1. PICK last \in Nat : /\ last = IF j = 1 THEN 0 ELSE interrupts[j - 1].at
                            /\ last <= interrupts[j].at
    <3>1. CASE j = 1
      BY <1>3, <3>1
    <3>2. CASE j # 1
      <4>1. j - 1 \in 1 .. m /\ j > 1
        BY <3>2
      <4> QED
        BY <1>3, <1>4, <3>2, <4>1
    <3> QED
      BY <3>1, <3>2
  <2>2. PICK at \in Nat : at = interrupts[j].at /\ at <= RUNTIME
    BY <1>3
  <2>3. blob[j].delta = (at - last) % DeltaSize
    <3>1. last = IF j = 1 THEN 0 ELSE rows[j - 1].at
      <4>1. j # 1 => j - 1 \in 1 .. m
        OBVIOUS
      <4> QED
        BY <1>1, <2>1, <4>1
    <3> QED
      BY <1>1, <1>2, <2>2, <3>1 DEF EntryOf
  <2>4. at - last \in 0 .. DeltaSize - 1 /\ DeltaSize \in Nat \ {0}
    <3>1. RUNTIME \in Nat /\ DeltaSize \in Nat \ {0} /\ RUNTIME < DeltaSize
      BY SizeAssumption, ConfigAssumption DEF DeltasFit
    <3>2. last \in Nat /\ at \in Nat /\ last <= at /\ at <= RUNTIME
      BY <2>1, <2>2
    <3> QED
      BY ONLY <3>1, <3>2
  <2>5. (at - last) % DeltaSize = at - last
    BY ONLY <2>4
  <2> QED
    BY <2>1, <2>2, <2>3, <2>5
<1>6. PICK part \in Seq(Entry) : /\ part = SubSeq(blob, 1, k) /\ Len(part) = k
                                 /\ \A j \in 1 .. k : part[j] = blob[j]
  <2>1. blob \in Seq(Entry) /\ Len(blob) = m /\ k \in 1 .. m
    BY <1>1, <1>2
  <2>2. PICK part : part = SubSeq(blob, 1, k)
    OBVIOUS
  <2>3. part \in Seq(Entry) /\ Len(part) = k /\ \A j \in 1 .. k : part[j] = blob[j]
    BY ONLY <2>1, <2>2
  <2> QED
    BY <2>2, <2>3
<1>7. PICK f : SumsOf(f, part, [j \in DOMAIN part |-> part[j].delta],
                      FoldLeft(LAMBDA sum, entry : sum + entry.delta, 0, part))
  BY DeltaSums
<1>8. /\ f[0] = 0 /\ f[k] = FoldLeft(LAMBDA sum, entry : sum + entry.delta, 0, part)
      /\ \A j \in 1 .. k : f[j] = f[j - 1] + blob[j].delta
  <2>1. PICK deltas : deltas = [j \in DOMAIN part |-> part[j].delta]
    OBVIOUS
  <2>2. \A j \in 1 .. k : deltas[j] = blob[j].delta
    BY <1>6, <2>1
  <2>3. /\ f[0] = 0 /\ f[k] = FoldLeft(LAMBDA sum, entry : sum + entry.delta, 0, part)
        /\ \A j \in 1 .. k : f[j] = f[j - 1] + deltas[j]
    BY <1>6, <1>7, <2>1 DEF SumsOf
  <2> QED
    BY <2>2, <2>3
<1> DEFINE S == {j \in Nat : j <= k => f[j] = IF j = 0 THEN 0 ELSE interrupts[j].at}
<1>9. 0 \in S
  BY <1>8
<1>10. ASSUME NEW i \in Nat, i \in S PROVE i + 1 \in S
  <2>1. SUFFICES ASSUME i + 1 <= k PROVE f[i + 1] = interrupts[i + 1].at
    OBVIOUS
  <2>2. PICK j \in 1 .. k : j = i + 1 /\ j - 1 = i /\ j \in 1 .. m /\ i <= k
    BY <1>1, <2>1
  <2>3. f[i] = IF j = 1 THEN 0 ELSE interrupts[j - 1].at
    BY <1>10, <2>2
  <2>4. f[j] = f[i] + (interrupts[j].at - f[i])
    BY <1>5, <1>8, <2>2, <2>3
  <2>5. f[i] \in Nat /\ interrupts[j].at \in Nat
    <3>1. j # 1 => j - 1 \in 1 .. m
      BY <2>2
    <3> QED
      BY <1>3, <2>2, <2>3, <3>1
  <2> QED
    BY <2>2, <2>4, <2>5
<1>11. Nat \subseteq S
  <2> HIDE DEF S
  <2> QED
    BY <1>9, <1>10, Induction
<1>12. f[k] = interrupts[k].at
  <2>1. k \in Nat /\ k # 0 /\ k <= k
    BY <1>1
  <2>2. k \in S
    BY <1>11, <2>1
  <2> QED
    BY <2>1, <2>2
<1> QED
  BY <1>1, <1>2, <1>6, <1>8, <1>12

\* Replaying the deltas of the generated header restores the time of every interrupt
\* of the simulation: the interrupts are in order and no delta exceeds its field.
THEOREM TimesRestoredHolds == ASSUME DeltasFit PROVE Spec => []TimesRestored
<1>1. NicInv /\ Batches => TimesRestored
  BY TimesFollowRows
<1> QED
  BY <1>1, BatchesHold, PTL

\* A store holds less than the 256 packets of a byte: at most 128 in the experiments.
CountsFit == 1 < ByteSize /\ \A b \in Buffer : Config[b].capacity < ByteSize

LEMMA CountsFollowRows ==
  ASSUME CountsFit, NicInv, Batches
  PROVE  CountsAddUp
<1>1. PICK rows \in Seq(IrqRow), m \in Nat :
        /\ rows = InterruptRows /\ Len(rows) = m /\ m = Len(interrupts) /\ DOMAIN interrupts = 1 .. m
        /\ \A k \in 1 .. m : Len(rows[k].procs) = Len(interrupts[k].batch)
  BY RowsOf DEF NicInv
<1>2. /\ Blob(rows) \in Seq(Entry) /\ Len(Blob(rows)) = m
      /\ \A k \in 1 .. m : EntryOf(Blob(rows), rows, k)
      /\ \E f : SumsOf(f, rows, [k \in DOMAIN rows |-> Len(rows[k].procs)], PacketCount(rows))
  BY <1>1, BlobOf
<1>3. PICK blob \in Seq(Entry) : blob = Blob(rows) /\ Len(blob) = m
  BY <1>2
<1>4. ASSUME NEW k \in 1 .. m PROVE blob[k].count = Len(rows[k].procs)
  <2>1. PICK l \in Nat : l = Len(interrupts[k].batch)
    BY <1>1, BatchOf DEF NicInv
  <2>2. l < ByteSize
    <3>1. CASE l = 1
      BY <3>1 DEF CountsFit
    <3>2. CASE FromStore(packets, interrupts[k].batch)
      <4>1. PICK b \in Buffer : l <= Config[b].capacity
        BY <2>1, <3>2 DEF FromStore
      <4>2. Config[b].capacity < ByteSize /\ Config[b].capacity \in Nat /\ ByteSize \in Nat
        BY SizeAssumption, BufferConfig DEF CountsFit
      <4> QED
        BY <4>1, <4>2
    <3> QED
      BY <1>1, <2>1, <3>1, <3>2 DEF Batches
  <2>3. l % ByteSize = l
    <3>1. l \in 0 .. ByteSize - 1 /\ ByteSize \in Nat \ {0}
      BY <2>2, SizeAssumption
    <3> QED
      BY ONLY <3>1
  <2> QED
    BY <1>1, <1>2, <1>3, <2>1, <2>3 DEF EntryOf
<1>5. PICK f : SumsOf(f, rows, [k \in DOMAIN rows |-> Len(rows[k].procs)], PacketCount(rows))
  BY <1>2
<1>6. PICK g : SumsOf(g, blob, [k \in DOMAIN blob |-> blob[k].count],
                      FoldLeft(LAMBDA sum, entry : sum + entry.count, 0, blob))
  BY CountSums
<1>7. /\ f[0] = 0 /\ f[m] = PacketCount(rows)
      /\ \A k \in 1 .. m : f[k] = f[k - 1] + Len(rows[k].procs)
  <2>1. PICK lengths : lengths = [k \in DOMAIN rows |-> Len(rows[k].procs)]
    OBVIOUS
  <2>2. \A k \in 1 .. m : lengths[k] = Len(rows[k].procs)
    BY <1>1, <2>1
  <2>3. /\ f[0] = 0 /\ f[m] = PacketCount(rows)
        /\ \A k \in 1 .. m : f[k] = f[k - 1] + lengths[k]
    BY <1>1, <1>5, <2>1 DEF SumsOf
  <2> QED
    BY <2>2, <2>3
<1>8. /\ g[0] = 0 /\ g[m] = FoldLeft(LAMBDA sum, entry : sum + entry.count, 0, blob)
      /\ \A k \in 1 .. m : g[k] = g[k - 1] + blob[k].count
  <2>1. PICK counts : counts = [k \in DOMAIN blob |-> blob[k].count]
    OBVIOUS
  <2>2. \A k \in 1 .. m : counts[k] = blob[k].count
    BY <1>3, <2>1
  <2>3. /\ g[0] = 0 /\ g[m] = FoldLeft(LAMBDA sum, entry : sum + entry.count, 0, blob)
        /\ \A k \in 1 .. m : g[k] = g[k - 1] + counts[k]
    BY <1>3, <1>6, <2>1 DEF SumsOf
  <2> QED
    BY <2>2, <2>3
<1> DEFINE S == {k \in Nat : k <= m => f[k] = g[k]}
<1>9. 0 \in S
  BY <1>7, <1>8
<1>10. ASSUME NEW i \in Nat, i \in S PROVE i + 1 \in S
  <2>1. SUFFICES ASSUME i + 1 <= m PROVE f[i + 1] = g[i + 1]
    OBVIOUS
  <2>2. PICK k \in 1 .. m : k = i + 1 /\ k - 1 = i /\ i <= m
    BY <2>1
  <2>3. f[i] = g[i]
    BY <1>10, <2>2
  <2> QED
    BY <1>4, <1>7, <1>8, <2>2, <2>3
<1>11. Nat \subseteq S
  <2> HIDE DEF S
  <2> QED
    BY <1>9, <1>10, Induction
<1>12. f[m] = g[m]
  BY <1>11
<1> QED
  BY <1>1, <1>2, <1>3, <1>7, <1>8, <1>12 DEF CountsAddUp, IrqCount

\* The header's counts are those of the entries: results[] has exactly the rows that
\* the replayed interrupts fill.
THEOREM CountsAddUpHolds == ASSUME CountsFit PROVE Spec => []CountsAddUp
<1>1. NicInv /\ Batches => CountsAddUp
  BY CountsFollowRows
<1> QED
  BY <1>1, BatchesHold, PTL

LEMMA PortsFollowRows ==
  ASSUME NicInv
  PROVE  PortsKept
<1> SUFFICES ASSUME NEW k \in DOMAIN interrupts, OneProcess(k),
                    NEW n \in DOMAIN interrupts[k].batch
             PROVE  Blob(InterruptRows)[k].port = Procs(interrupts[k].batch)[n]
  BY DEF PortsKept
<1>1. PICK rows \in Seq(IrqRow) : rows = InterruptRows
  BY RowsOf DEF NicInv
<1>2. PICK batch \in Seq(Nat), l \in Nat :
        /\ batch = interrupts[k].batch /\ l = Len(batch) /\ n \in 1 .. l
        /\ ToSet(batch) \subseteq 1 .. Len(packets)
  <2>1. PICK batch \in Seq(Nat) : /\ batch = interrupts[k].batch
                                  /\ ToSet(batch) \subseteq 1 .. Len(packets)
    BY BatchOf DEF NicInv
  <2>2. n \in 1 .. Len(batch) /\ Len(batch) \in Nat
    BY <2>1
  <2> QED
    BY <2>1, <2>2
<1>3. /\ k \in 1 .. Len(rows) /\ Len(rows[k].procs) = l
      /\ rows[k].procs = Procs(batch)
      /\ \A i \in 1 .. l : rows[k].procs[i] = LastByte[packets[batch[i]].flow]
  BY <1>1, <1>2, RowsOf DEF NicInv
<1>4. rows[k].procs # << >>
  BY <1>2, <1>3
<1>5. Blob(rows)[k].port = Last(rows[k].procs) % ByteSize
  BY <1>3, <1>4, BlobOf DEF EntryOf
<1>6. l \in 1 .. l /\ Last(rows[k].procs) = LastByte[packets[batch[l]].flow]
  BY <1>2, <1>3 DEF Last
<1>7. batch[n] \in ToSet(batch) /\ batch[l] \in ToSet(batch)
  <2>1. n \in DOMAIN batch /\ l \in DOMAIN batch
    BY <1>2, <1>6
  <2> QED
    BY <2>1, Elements
<1>8. LastByte[packets[batch[n]].flow] = LastByte[packets[batch[l]].flow]
  <2>1. n \in DOMAIN Procs(batch) /\ l \in DOMAIN Procs(batch)
    BY <1>2, <1>6 DEF Procs
  <2>2. Procs(batch)[n] = Procs(batch)[l]
    BY <1>2, <2>1 DEF OneProcess
  <2> QED
    BY <1>2, <1>3, <1>6, <2>2
<1>9. LastByte[packets[batch[l]].flow] \in 0 .. ByteSize - 1
  <2>1. \A i \in 1 .. Len(packets) : packets[i] \in Row
    BY Stores DEF NicInv
  <2>2. packets[batch[l]].flow \in Flow
    BY <1>2, <1>7, <2>1 DEF Row
  <2> QED
    BY <2>2, LastByteAssumption
<1>10. LastByte[packets[batch[l]].flow] % ByteSize = LastByte[packets[batch[l]].flow]
  <2>1. PICK byte : byte = LastByte[packets[batch[l]].flow]
    OBVIOUS
  <2>2. byte \in 0 .. ByteSize - 1 /\ ByteSize \in Nat \ {0}
    BY <1>9, <2>1, SizeAssumption
  <2>3. byte % ByteSize = byte
    BY ONLY <2>2
  <2> QED
    BY <2>1, <2>3
<1> QED
  BY <1>1, <1>2, <1>3, <1>5, <1>6, <1>8, <1>10

\* Every packet is replayed to the process of its own flow, unless its interrupt has
\* packets of several processes.
THEOREM PortsKeptHolds == Spec => []PortsKept
<1>1. NicInv => PortsKept
  BY PortsFollowRows
<1> QED
  BY <1>1, BatchesHold, PTL

\* What NetDriver assumes of Trace, Start and TRACE_PACKET_COUNT, of a blob and the
\* number of packets in its header.  (An empty blob satisfies it, too, but the
\* firmware is not started without an interrupt.)
ReplayableBlob(blob, total) ==
  /\ blob \in Seq(Entry) /\ total \in Nat
  /\ \E start \in [1 .. Len(blob) + 1 -> 0 .. total] :
       /\ start[1] = 0
       /\ \A k \in 1 .. Len(blob) : start[k + 1] = start[k] + blob[k].count

CountsOf(blob, total) == total = FoldLeft(LAMBDA sum, entry : sum + entry.count, 0, blob)

LEMMA SumsWithinTotal ==
  ASSUME NEW blob \in Seq(Entry), NEW total \in Nat, CountsOf(blob, total)
  PROVE  ReplayableBlob(blob, total)
<1>1. PICK n \in Nat : n = Len(blob) /\ DOMAIN blob = 1 .. n
  OBVIOUS
<1>2. PICK counts : counts = [k \in DOMAIN blob |-> blob[k].count]
  OBVIOUS
<1>3. PICK f : SumsOf(f, blob, counts, total)
  BY <1>2, CountSums DEF CountsOf
<1>4. /\ \A k \in 0 .. n : f[k] \in Nat
      /\ f[0] = 0 /\ f[n] = total
      /\ \A k \in 1 .. n : f[k] = f[k - 1] + blob[k].count
  BY <1>1, <1>2, <1>3 DEF SumsOf
<1>5. \A k \in 1 .. n : blob[k].count \in Nat
  <2>1. \A k \in 1 .. n : blob[k] \in Entry
    BY <1>1
  <2>2. \A entry \in Entry : entry.count \in Nat
    <3>1. 0 .. ByteSize - 1 \subseteq Nat
      BY SizeAssumption
    <3> QED
      BY <3>1 DEF Entry
  <2> QED
    BY <2>1, <2>2
<1> DEFINE S == {d \in Nat : d <= n => f[n - d] <= total}
<1>6. 0 \in S
  BY <1>4
<1>7. ASSUME NEW d \in Nat, d \in S PROVE d + 1 \in S
  <2>1. SUFFICES ASSUME d + 1 <= n PROVE f[n - (d + 1)] <= total
    OBVIOUS
  <2>2. PICK k \in 1 .. n : k = n - d /\ k - 1 = n - (d + 1) /\ k - 1 \in 0 .. n
    BY <2>1
  <2>3. f[k] <= total
    BY <1>7, <2>1, <2>2
  <2>4. f[k] = f[k - 1] + blob[k].count /\ f[k - 1] \in Nat /\ f[k] \in Nat /\ blob[k].count \in Nat
    BY <1>4, <1>5, <2>2
  <2>5. f[k - 1] <= total
    BY <2>3, <2>4
  <2> QED
    BY <2>2, <2>5
<1>8. Nat \subseteq S
  <2> HIDE DEF S
  <2> QED
    BY <1>6, <1>7, Induction
<1>9. ASSUME NEW k \in 0 .. n PROVE f[k] \in 0 .. total
  <2>1. PICK d \in Nat : d = n - k /\ d <= n /\ n - d = k
    OBVIOUS
  <2>2. d \in S
    BY <1>8
  <2> QED
    BY <1>4, <2>1, <2>2
<1>10. PICK start : start = [k \in 1 .. n + 1 |-> f[k - 1]]
  OBVIOUS
<1>11. start \in [1 .. n + 1 -> 0 .. total]
  <2>1. \A k \in 1 .. n + 1 : k - 1 \in 0 .. n
    OBVIOUS
  <2> QED
    BY <1>9, <1>10, <2>1
<1>12. start[1] = 0
  <2>1. 1 \in 1 .. n + 1 /\ 1 - 1 = 0
    OBVIOUS
  <2> QED
    BY <1>4, <1>10, <2>1
<1>13. ASSUME NEW k \in 1 .. n PROVE start[k + 1] = start[k] + blob[k].count
  <2>1. k \in 1 .. n + 1 /\ k + 1 \in 1 .. n + 1 /\ (k + 1) - 1 = k
    OBVIOUS
  <2>2. start[k + 1] = f[k] /\ start[k] = f[k - 1]
    BY <1>10, <2>1
  <2> QED
    BY <1>4, <2>2
<1> QED
  BY <1>1, <1>11, <1>12, <1>13 DEF ReplayableBlob

\* The firmware's assumption about the generated header holds of every simulation:
\* no interrupt that the trace reader replays reaches beyond the end of results[].
THEOREM BlobReplayable ==
  ASSUME CountsFit
  PROVE  Spec => [](Written => ReplayableBlob(Blob(InterruptRows), PacketCount(InterruptRows)))
<1>1. ASSUME NicInv, Batches, Written
      PROVE  ReplayableBlob(Blob(InterruptRows), PacketCount(InterruptRows))
  <2>1. PICK rows \in Seq(IrqRow) : rows = InterruptRows
    BY <1>1, RowsOf DEF NicInv
  <2>2. PICK blob \in Seq(Entry) : blob = Blob(rows)
    BY <2>1, BlobOf
  <2>3. PICK total : total = PacketCount(rows)
    OBVIOUS
  <2>4. total \in Nat
    <3>1. PICK f, lengths : SumsOf(f, rows, lengths, PacketCount(rows))
      BY <2>1, BlobOf
    <3>2. Len(rows) \in Nat
      BY <2>1
    <3>3. Len(rows) \in 0 .. Len(rows)
      BY <3>2
    <3> QED
      BY <2>3, <3>1, <3>3 DEF SumsOf
  <2>5. CountsOf(blob, total)
    BY <1>1, <2>1, <2>2, <2>3, CountsFollowRows DEF CountsAddUp, CountsOf
  <2> QED
    BY <2>1, <2>2, <2>3, <2>4, <2>5, SumsWithinTotal
<1>2. NicInv /\ Batches =>
        (Written => ReplayableBlob(Blob(InterruptRows), PacketCount(InterruptRows)))
  BY <1>1
<1> QED
  BY <1>2, BatchesHold, PTL
=============================================================================
