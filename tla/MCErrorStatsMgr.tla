--------------------------- MODULE MCErrorStatsMgr ---------------------------
EXTENDS ErrorStatsMgr
=============================================================================
