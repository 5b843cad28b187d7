CONSTANTS
  NN_INFO_TO_MEMORY = NN_INFO_TO_MEMORY
  MODEL_TO_MEMORY = MODEL_TO_MEMORY
  Ops = {NN_INFO_TO_MEMORY, MODEL_TO_MEMORY}
  PaddedOps = {MODEL_TO_MEMORY}
  ABORT = ABORT
  NoBlob = NoBlob
  b1 = b1
  b2 = b2
  Blobs = {b1, b2}
  Size <- MCSize
  HeaderLen = 2
  BlockLen = 2
  FifoCap = 3
  HasBlock = TRUE
  DefaultChunk = 4
  FallbackChunk = 2
  Retries = 2
  MaxPolls = 2
  MaxCalls = 2
  MaxResets = 1
  PromptOp = TRUE

SPECIFICATION Spec
INVARIANTS
  TypeOK
  TransferSafe
PROPERTIES
  EndsWell
  ImplementsBlobImport
CHECK_DEADLOCK FALSE
