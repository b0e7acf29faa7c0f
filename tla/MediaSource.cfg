\* Three threads, one source, a lock of the server beside the instances.
SPECIFICATION Spec
CONSTANTS
  t1 = t1
  t2 = t2
  t3 = t3
  Callers = {t1, t2, t3}
  MaxSources = 1
  MaxCount = 2
INVARIANTS TypeOK InUseIsLoaded StateAgrees HaltedGivesNoSample
SYMMETRY Symmetry
CHECK_DEADLOCK FALSE
