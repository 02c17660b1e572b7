------------------------------ MODULE MCSweep ------------------------------
(* Instance of Sweep for TLC: two modes, bursts of two frames. *)
EXTENDS Sweep
=============================================================================
