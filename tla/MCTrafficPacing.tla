--------------------------- MODULE MCTrafficPacing ---------------------------
(* Instances of TrafficPacing for TLC: words of four bits, and clocks that   *)
(* pass the greatest long and the greatest unsigned word during the run.     *)
EXTENDS TrafficPacing
=============================================================================
