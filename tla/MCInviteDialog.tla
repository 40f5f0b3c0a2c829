--------------------------- MODULE MCInviteDialog ---------------------------
EXTENDS InviteDialog
=============================================================================
