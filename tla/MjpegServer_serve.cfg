\* One start, two clients that may leave at any time, two frames.
SPECIFICATION FairSpec
CONSTANTS
  c1 = c1
  c2 = c2
  NoClient = NoClient
  Clients = {c1, c2}
  MaxStarts = 1
  MaxFrames = 2
PROPERTIES ClientServed StopEndsCoroutines
CHECK_DEADLOCK FALSE
