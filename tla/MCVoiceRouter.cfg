\* Two users contend for two addresses and one channel, whose records change.
CONSTANTS
  Speaker = {u1, u2}
  Addr = {a1, a2}
  Channel = {c1}
  NoUser = NoUser
  NoAddr = NoAddr
  Idle = Idle
  Loop = Loop
  Removal = {r1, r2}
  MaxStreams = 1
SYMMETRY Symmetry
SPECIFICATION RouterSpec
INVARIANTS SessionsAreTrue ChangesAreAnnounced AudioReachesItsListener
