--------------------------- MODULE MCNicSimulator ---------------------------
(* An instance of NicSimulator for TLC: flow f0 passes through, f1 is kept   *)
(* in a buffer with a packet timer only.  Times are in ticks.                *)
EXTENDS NicSimulator, TLC

CONSTANTS b1, f0, f1

OneBuffer == <<b1>>
OneFlow   == f0 :> PassThrough @@ f1 :> b1
TimerOnly == b1 :> [packet_limit |-> None, packet_time_limit |-> 2,
                    absolute_time_limit |-> None, offset |-> 0, capacity |-> 4]
=============================================================================
