\* Two tabs, two server URLs, one failure.
CONSTANTS
  Tab = {t1, t2}
  Url = {u1, u2}
  Socket = {s1, s2, s3}
  MaxFails = 1
  MaxPorts = 2
  Unset = Unset
SPECIFICATION FairSpec
INVARIANTS OneConnection ConnectedAsAsked OpenIsWatched
PROPERTIES Reconnects
CHECK_DEADLOCK FALSE
