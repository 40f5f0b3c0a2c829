--------------------------- MODULE MCInviteTransac ---------------------------
EXTENDS InviteTransac
=============================================================================
