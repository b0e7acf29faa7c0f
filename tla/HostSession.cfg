\* Every call may fail, everything may come and go.
SPECIFICATION FairSpec
CONSTANTS
  MaxTries = 2
  MaxSockets = 2
  HeapCalls = {"stop", "shutdown", "release", "mfshutdown", "uninit", "unregistering"}
  Failures = TRUE
INVARIANTS TypeOK TakenDownInOrder BridgeEndsClean
PROPERTIES PhoneReached EnterStopsOutsideHeap OpenedAppServed
CHECK_DEADLOCK FALSE
