SPECIFICATION Spec
INVARIANTS
  ComposedUnseen
  DrawnTogether
  RunsActiveModel
  FrameStays
PROPERTIES
  ComesAbout
CHECK_DEADLOCK FALSE
