--------------------------- MODULE MCRefreshDialog ---------------------------
EXTENDS RefreshDialog
=============================================================================
