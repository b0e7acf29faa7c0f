--------------------------- MODULE MCMjpegParser ----------------------------
(* MjpegParser on small streams. *)
EXTENDS MjpegParser

SomeSizes ==
  {<<1, 3, 1>>, <<2, 1, 3>>, <<3, 1, 1>>, <<6, 1>>, <<1, 6, 1>>}
==============================================================================
