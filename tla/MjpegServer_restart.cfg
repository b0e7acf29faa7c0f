\* Two starts whose coroutines may overlap, one client, two frames.
SPECIFICATION Spec
CONSTANTS
  c1 = c1
  NoClient = NoClient
  Clients = {c1}
  MaxStarts = 2
  MaxFrames = 2
INVARIANTS TypeOK HeaderFirst NoFrameTwice OneBroadcast NoneLeftWaiting
CHECK_DEADLOCK FALSE
