\* Two users with two devices each: replay, cleanup and handlers overlap.
CONSTANTS
  alice = alice
  bob = bob
  k1 = k1
  k2 = k2
  User = {alice, bob}
  Slot = {k1, k2}
  Conn <- TwoDevicesEach
  Session = {s1}
  Friends <- AllFriends
  None = None
SPECIFICATION Spec
INVARIANTS NoOrphanedSession InviteNotLost PeerHearsTheEnd
