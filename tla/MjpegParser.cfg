\* Streams of up to three frames of one to six pieces, with and without the
\* HTTP headers before and the end marker after them, cut in every way; the
\* bridge's buffer overflows when a large frame follows a rest.
SPECIFICATION Spec
CONSTANTS
  Sizes <- SomeSizes
  MaxChunk = 16
  Limit = 17
INVARIANTS TypeOK FramesWholeInOrder ArrivedFramesDecoded InStepFromFirstFrame NothingLost
CHECK_DEADLOCK FALSE
