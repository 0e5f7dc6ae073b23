--------------------------- MODULE MCGroupCache ---------------------------
EXTENDS GroupCache

MCUsers == {"alice", "bob"}
MCCallers == {"c1", "c2"}
=============================================================================
