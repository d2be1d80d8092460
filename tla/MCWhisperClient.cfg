\* One session out, one in; a message, two calls in flight, one refused request.
CONSTANTS
  out = out
  in = in
  amy = amy
  Session = {out, in}
  Peer = {amy}
  PeerOf <- OneFriend
  Mine = {out}
  Stored = {out, in}
  Msg = {m1}
  Timed = {m1}
  MaxCalls = 2
  MaxFailures = 1
  None = None
SPECIFICATION Spec
INVARIANTS KeysFollowTheHub MessagesStayInSession BurnedUnlessRaced
