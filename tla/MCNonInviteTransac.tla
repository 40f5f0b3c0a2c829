-------------------------- MODULE MCNonInviteTransac --------------------------
EXTENDS NonInviteTransac
=============================================================================
