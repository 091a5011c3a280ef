--------------------------- MODULE MCGraceNotice ---------------------------
EXTENDS GraceNotice, Chain
=============================================================================
