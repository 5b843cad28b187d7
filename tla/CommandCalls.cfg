CONSTANTS
  f1 = f1
  f2 = f2
  Fws = {f1, f2}
  Types = {1, 2}
  Size <- MCSize
  Division = 4
  Block = 2
  CntMod = 4
  Values = {0, 1}
  MaxResets = 1
  EchoesArgs = TRUE
  None = None
  Rects <- MCRects
  MaxPolls = 2
  MaxRounds = 2
  MaxCalls = 2
  PromptLatch = TRUE

SPECIFICATION FairSpec
INVARIANTS
  TypeOK
  OwnCommands
  ImagesWhole
PROPERTIES
  CommandsTakeEffect
  CallReturns
CHECK_DEADLOCK FALSE
