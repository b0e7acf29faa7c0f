\* Pictures of even width and height, pixels of extreme and other colours.
SPECIFICATION Spec
CONSTANTS
  Sizes <- EvenSizes
  Colours <- SomeColours
INVARIANTS FillsBuffer StudioSwing
CHECK_DEADLOCK FALSE
