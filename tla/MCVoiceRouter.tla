--------------------------- MODULE MCVoiceRouter ---------------------------
(* Model checking of VoiceRouter: users, addresses and goroutines are each *)
(* interchangeable.                                                        *)
EXTENDS VoiceRouter, TLC

Symmetry == Permutations(Speaker) \cup Permutations(Addr) \cup Permutations(Removal)
=============================================================================
