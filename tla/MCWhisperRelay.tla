--------------------------- MODULE MCWhisperRelay ---------------------------
(* Model checking of WhisperRelay: everybody is everybody's friend. *)
EXTENDS WhisperRelay, TLC

CONSTANTS alice, bob, k1, k2

AllFriends == User \X User
TwoDevicesEach == User \X Slot
SecondDevice == {<<alice, k1>>, <<bob, k1>>, <<bob, k2>>}
Symmetry == Permutations(Session)
=============================================================================
