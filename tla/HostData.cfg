CONSTANTS
  None = None
  Bad = Bad

SPECIFICATION Spec
INVARIANTS
  FramesParsedWhole
  LoadedIsText
  AppliedIsInEffect
  InjectedIsPrefix
  PreparedIsPicture
PROPERTIES
  CallReturns
CHECK_DEADLOCK FALSE
