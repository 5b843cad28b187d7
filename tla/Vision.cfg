SPECIFICATION Spec
INVARIANTS
  ResultsOfFrame
  DrawnInPlace
  PersonsAgainstRegion
  CropInFrame
CHECK_DEADLOCK FALSE
