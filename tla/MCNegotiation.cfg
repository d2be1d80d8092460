\* The user joins twice, two changes of tracks each time; a message may be lost.
CONSTANTS
  Joins = 2
  MaxTracks = 2
  MaxLost = 1
SPECIFICATION FairNegotiation
INVARIANT RoundsTakeTurns
PROPERTIES CatchesUp MirrorsTracks
CHECK_DEADLOCK FALSE
