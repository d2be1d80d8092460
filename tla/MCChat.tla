------------------------------- MODULE MCChat -------------------------------
(* Model checking of Chat: an author with two devices, a reader with one. *)
EXTENDS Chat, TLC
CONSTANTS author, reader, a1, a2, r1
MCOwnerOf == a1 :> author @@ a2 :> author @@ r1 :> reader
MCAuthorOf == [m \in Message |-> author]
=============================================================================
