\* A direct conversation and a group, two joins, two devices captured at once.
CONSTANTS
  Channel = {dm, group}
  Direct = {dm}
  Kind = {"screen"}
  MaxJoins = 2
  MaxTracks = 2
  None = None
SPECIFICATION Spec
INVARIANTS CapturesAreHeld MuteIsHonest CallIsOnScreen RingsWhileCalled
CHECK_DEADLOCK FALSE
