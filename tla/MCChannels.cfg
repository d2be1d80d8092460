\* One channel: two messages, three requests for the list, one change or lost connection.
CONSTANTS
  Channel = {a}
  MaxPosts = 2
  MaxRefreshes = 3
  MaxAsked = 2
  MaxEvents = 1
  MaxReceipts = 1
  None = None
SPECIFICATION Spec
INVARIANTS ListIsTrue ReadIsWhatWasOpen
CHECK_DEADLOCK FALSE
