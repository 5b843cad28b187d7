CONSTANTS
  WRITE_MODEL_TO_FLASH = WRITE_MODEL_TO_FLASH
  LOAD_NN_INFO_TO_MEMORY = LOAD_NN_INFO_TO_MEMORY
  Modes = {WRITE_MODEL_TO_FLASH, LOAD_NN_INFO_TO_MEMORY}
  NONE = NONE
  NoBlob = NoBlob
  b1 = b1
  b2 = b2
  Blobs = {b1, b2}
  Size <- MCSize
  ChunkLen = 2
  Retries = 2
  MaxPolls = 2
  MaxCalls = 2
  MaxResets = 1
  PromptArm = TRUE

SPECIFICATION FairSpec
INVARIANTS
  TransferSafe
PROPERTIES
  TrueLeavesBridgeFree
  ImplementsBlobImport
  CallReturns
CHECK_DEADLOCK FALSE
