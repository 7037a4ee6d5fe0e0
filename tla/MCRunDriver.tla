----------------------------- MODULE MCRunDriver -----------------------------
(* Instances of RunDriver for TLC: a few folders, two rows per experiment.   *)
EXTENDS RunDriver
=============================================================================
