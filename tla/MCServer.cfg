CONSTANTS
  u1 = u1
  u2 = u2
  u3 = u3
  User = {u1, u2, u3}
  Client = {u1}
  Acquainted = {u1, u2}
  Channel = {1, 2}
  Account = {1, 2}
  Name = {n1, n2}
  Device = {d1, d2}
  Slot = {1, 2}
  Ranks <- MCRanks
  Settings <- MCSettings
  Plans <- MCPlans
  MaxCalls = 3
  MaxAsked = 2
  MaxCuts = 2
  MaxActs = 2
  MaxMessages = 1
  MaxTokens = 3
  MaxDone = 2
  MaxOpened = 2
  MaxLapses = 1
  None = None
  Absent = Absent
  Nobody = Nobody
SPECIFICATION ServerSpec
INVARIANTS RelationshipsHold FriendListsAreTrue MembershipHolds AccountsHold SessionsHold PresenceIsTrue
SYMMETRY Symmetry
CHECK_DEADLOCK FALSE
