-------------------------- MODULE MCSocketManager --------------------------
(* Model checking of SocketManager. *)
EXTENDS SocketManager, TLC
=============================================================================
