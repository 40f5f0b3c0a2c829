---------------------------- MODULE MCDialogLayer ----------------------------
EXTENDS DialogLayer
=============================================================================
