-------------------------- MODULE MCSpiBlobTransfer -------------------------
\* A small instance of SpiBlobTransfer for TLC.
EXTENDS SpiBlobTransfer, TLC

CONSTANTS b1, b2, WRITE_MODEL_TO_FLASH, LOAD_NN_INFO_TO_MEMORY

MCSize == (b1 :> 3) @@ (b2 :> 1)
=============================================================================
