--------------------------- MODULE MCDialogThreads ---------------------------
EXTENDS DialogThreads
=============================================================================
