-------------------------- MODULE MCModuleCommands --------------------------
\* A small instance of ModuleCommands for TLC.
EXTENDS ModuleCommands, TLC

CONSTANTS f1, f2

\* one division and a tail that is no whole block; a tail alone
MCSize == (f1 :> 7) @@ (f2 :> 3)
MCRects == {<<1, 1, 1, 0, 0, 1>>, <<0, 1, 0, 1, 1, 0>>}
=============================================================================
