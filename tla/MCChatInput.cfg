\* Two channels, two files, two texts; how much happens at once is in MCBudgets.
CONSTANTS
  Channel = {a, b}
  File = {f1, f2}
  Text = {t1, t2}
  MaxTakes = 2
  MaxCameras = 3
  MaxBatches = 2
  MaxVideos = 1
  MaxTries = 3
  MaxForeign = 1
  MaxCuts = 2
  Nothing = Nothing
  Budgets <- MCBudgets
SPECIFICATION ChatSpec
INVARIANTS EverythingIsKept EverythingOnce EverythingGoesWhereMeant CapturesAreShown RecordingsAreKept EchoFindsItsOwn
SYMMETRY Symmetry
CHECK_DEADLOCK FALSE
