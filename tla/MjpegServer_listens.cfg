\* Two starts whose coroutines may overlap, no frames.
SPECIFICATION FairSpec
CONSTANTS
  c1 = c1
  NoClient = NoClient
  Clients = {c1}
  MaxStarts = 2
  MaxFrames = 0
PROPERTY StartedServerListens
CHECK_DEADLOCK FALSE
