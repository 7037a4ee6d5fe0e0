----------------------------- MODULE MCTraceGen -----------------------------
(* Instances of TraceGen for TLC: seconds of four ticks, recordings of up to *)
(* three rows, one or two of them beyond the end, and all frequencies.       *)
EXTENDS TraceGen

Const(f, o)    == [load |-> "CONSTANT", offset |-> o, frequency |-> f]
Recorded(s, o) == [load |-> "TRACE", offset |-> o, times |-> s]

Ordered(n) == {s \in [1 .. n -> {0, 3, 7, 8}] : \A k \in 2 .. n : s[k - 1] <= s[k]}

Constants  == {Const(f, o) : f \in 1 .. 4, o \in {0, 1}}
Recordings == {Recorded(s, o) : s \in Ordered(0) \cup Ordered(2) \cup Ordered(3), o \in {0, 2}}

\* A recorded flow and a constant one, in both orders, and two recorded ones.
MixedFlows == {<<r, c>> : r \in Recordings, c \in Constants}
                \cup {<<c, r>> : r \in Recordings, c \in Constants}
                \cup {<<r, q>> : r \in Recordings, q \in Recordings}
RecordedFlow == {<<r>> : r \in Recordings}
=============================================================================
