----------------------------- MODULE MCShutdown -----------------------------
(* Instance of Shutdown for TLC: two attempts where the code has more. *)
EXTENDS Shutdown
=============================================================================
