CONSTANTS
  NN_INFO_TO_MEMORY = NN_INFO_TO_MEMORY
  MODEL_TO_MEMORY = MODEL_TO_MEMORY
  Ops = {NN_INFO_TO_MEMORY, MODEL_TO_MEMORY}
  PaddedOps = {MODEL_TO_MEMORY}
  ABORT = ABORT
  NoBlob = NoBlob
  b1 = b1
  b2 = b2
  Blobs = {b1}
  Size <- MCOneSize
  HeaderLen = 4
  BlockLen = 4
  FifoCap = 3
  HasBlock = FALSE
  DefaultChunk = 4
  FallbackChunk = 2
  Retries = 2
  MaxPolls = 2
  MaxCalls = 2
  MaxResets = 1
  PromptOp = TRUE

SPECIFICATION FairSpec
INVARIANTS
  WriteOnlyWhenDrained
PROPERTIES
  CallReturns
CHECK_DEADLOCK FALSE
