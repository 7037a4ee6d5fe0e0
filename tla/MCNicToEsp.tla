----------------------------- MODULE MCNicToEsp -----------------------------
(* Instances of NicToEsp for TLC, with bytes of four values.                 *)
EXTENDS NicToEsp, TLC

CONSTANTS b1, b2, b3, f0, f1, f2, f3, f9

Limits(packets_, idle, absolute, offset_, capacity_) ==
  [packet_limit |-> packets_, packet_time_limit |-> idle,
   absolute_time_limit |-> absolute, offset |-> offset_, capacity |-> capacity_]

OneBuffer    == <<b1>>
ThreeBuffers == <<b1, b2, b3>>

\* experiments/no_dos: every buffer serves one flow.  Flow f0 passes through,
\* nothing is configured for f9.
OwnBuffers == f0 :> PassThrough @@ f1 :> b1 @@ f2 :> b2 @@ f3 :> b3

\* buffer2 of example_config.json: two flows in a buffer with both timers.
SharedBuffer == f1 :> b1 @@ f2 :> b1
BothTimers   == b1 :> Limits(None, 2, 4, 0, 3)

Bytes == f0 :> 0 @@ f1 :> 1 @@ f2 :> 2 @@ f3 :> 3 @@ f9 :> 3
TwoBytes == f1 :> 1 @@ f2 :> 2

\* Both timers, as in experiments/no_dos/setting_2; all three causes of a flush, the
\* absolute timer with an offset; and a store of one packet, whose packet timer is
\* longer than the period, so that it overflows and both timers meet in one tick.
\* Batches stay below the values of a byte.
AllLimits == b1 :> Limits(None, 2, 3, 0, 3) @@ b2 :> Limits(2, 2, 4, 2, 3)
               @@ b3 :> Limits(None, 5, 3, 2, 1)

=============================================================================
