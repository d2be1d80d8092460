---------------------------- MODULE MCCallRooms ----------------------------
(* Model checking of CallRooms. *)
EXTENDS CallRooms, TLC

CONSTANTS alice, bob, k1, k2

SecondDevice == {<<alice, k1>>, <<bob, k1>>, <<bob, k2>>}
Symmetry == Permutations(Copy) \cup Permutations(Part) \cup Permutations(Channel)
=============================================================================
