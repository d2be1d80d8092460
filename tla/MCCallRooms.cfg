\* Alice with one device and Bob with two share one channel.
CONSTANTS
  alice = alice
  bob = bob
  k1 = k1
  k2 = k2
  User = {alice, bob}
  Slot = {k1, k2}
  Channel = {c1}
  Conn <- SecondDevice
  Copy = {x1, x2, x3}
  Part = {p1, p2, p3}
  Capacity = 2
  None = None
SYMMETRY Symmetry
SPECIFICATION Spec
INVARIANTS CallIsReachable CallsAreLeft
