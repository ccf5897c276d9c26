--------------------------- MODULE MCTmuxConnection ---------------------------
EXTENDS TmuxConnection
=============================================================================
