\* A producer and a consumer that leave or die at any step and come back,
\* waits that may time out.
SPECIFICATION FairSpec
CONSTANTS
  LastChunk = 1
  MaxFrames = 2
  MaxOpens = 2
  MaxJoins = 2
INVARIANT TypeOK
PROPERTIES RegisterSpec ReadReturns LastFrameArrives
CHECK_DEADLOCK FALSE
