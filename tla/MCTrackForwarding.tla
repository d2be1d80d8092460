------------------------- MODULE MCTrackForwarding -------------------------
(* Model checking of TrackForwarding. *)
EXTENDS TrackForwarding, TLC

CONSTANTS alice, bob, carol, n1, n2

ComesBack == {<<alice, n1>>, <<bob, n1>>, <<bob, n2>>}
TrackEach == {<<<<alice, n1>>, n1>>, <<<<bob, n1>>, n1>>}
=============================================================================
