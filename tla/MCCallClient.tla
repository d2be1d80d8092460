---------------------------- MODULE MCCallClient ----------------------------
(* Model checking of CallClient. *)
EXTENDS CallClient, TLC
=============================================================================
