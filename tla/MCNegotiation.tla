--------------------------- MODULE MCNegotiation ---------------------------
(* Model checking of Negotiation. *)
EXTENDS Negotiation, TLC
=============================================================================
