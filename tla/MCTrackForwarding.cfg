\* Alice and Bob publish; Bob may come back.
CONSTANTS
  alice = alice
  bob = bob
  carol = carol
  n1 = n1
  n2 = n2
  User = {alice, bob}
  Part <- ComesBack
  Track <- TrackEach
  None = None
SPECIFICATION Spec
INVARIANTS NobodyMisses LeftoversOnlyFromRaces
CHECK_DEADLOCK FALSE
