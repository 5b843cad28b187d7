SPECIFICATION Spec
INVARIANTS
  AcceptedIsOwn
  UploadedIsStored
CHECK_DEADLOCK FALSE
