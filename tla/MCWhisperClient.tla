--------------------------- MODULE MCWhisperClient ---------------------------
(* Model checking of WhisperClient: a session this user begins, and one that the *)
(* friend begins.                                                                *)
EXTENDS WhisperClient, TLC

CONSTANTS out, in, amy

OneFriend == out :> amy @@ in :> amy
=============================================================================
