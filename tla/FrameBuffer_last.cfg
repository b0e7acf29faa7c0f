\* One stream, one host session: the newest frame.
SPECIFICATION CopySpec
CONSTANTS
  r1 = r1
  NoReader = NoReader
  Readers = {r1}
  LastChunk = 1
  MaxFrames = 3
  MaxShared = 0
  MaxHosts = 1
  Mortal = {}
  Live = {r1}
PROPERTY LastFrameServed
