-------------------------- MODULE MCI2cBlobTransfer -------------------------
\* A small instance of I2cBlobTransfer for TLC.
EXTENDS I2cBlobTransfer, TLC

CONSTANTS b1, b2, NN_INFO_TO_MEMORY, MODEL_TO_MEMORY

MCSize == (b1 :> 3) @@ (b2 :> 1)
MCOneSize == b1 :> 3
=============================================================================
