--------------------------- MODULE MCColorConvert ----------------------------
(* ColorConvert on small pictures. *)
EXTENDS ColorConvert

EvenSizes == {2, 4, 6} \X {2, 4}
Corners == {0, 255} \X {0, 255} \X {0, 255}
SomeColours == Corners \union {<<128, 127, 1>>, <<16, 235, 54>>}
==============================================================================
