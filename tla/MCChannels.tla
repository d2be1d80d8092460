----------------------------- MODULE MCChannels -----------------------------
(* Model checking of Channels. *)
EXTENDS Channels
=============================================================================
