\* One stream that stays and one that comes and goes, and may hang or die
\* anywhere, also with the mutex; two host sessions, two chunks of pixels and
\* the byte before them; a third frame after the second stream has gone.
SPECIFICATION SharedSpec
CONSTANTS
  r1 = r1
  r2 = r2
  NoReader = NoReader
  Readers = {r1, r2}
  LastChunk = 2
  MaxFrames = 3
  MaxShared = 2
  MaxHosts = 2
  Mortal = {r2}
  Live = {r1}
INVARIANTS MutexHeldOnlyInside SamplesAreWritten Inv
PROPERTIES FeedSpec RequestReturns NewestButOneServed
CHECK_DEADLOCK FALSE
