CONSTANTS
  n1 = n1
  nf = nf
  i1 = i1
  i2 = i2
  if = if
  r1 = r1
  Networks = {n1, nf}
  Infos = {i1, i2, if}
  FlashNetwork = nf
  FlashInfo = if
  Rates = {r1}
  MaxResets = 1
  None = None
  Requests <- MCRequests
  Malformed = {i2}
  MaxPolls = 2
  MaxCalls = 2
  PromptReset = TRUE

SPECIFICATION FairSpec
INVARIANTS
  OpenedAsAsked
PROPERTIES
  ResetHappened
  CallReturns
CHECK_DEADLOCK FALSE
