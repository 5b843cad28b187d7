SPECIFICATION Spec
INVARIANTS
  FramesWhole
  ReadIsSent
  VerdictOfThisTest
  PictureOfCapture
PROPERTIES
  ComesToAnEnd
CHECK_DEADLOCK FALSE
