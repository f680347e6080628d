--------------------------- MODULE MCPointerLog ---------------------------
EXTENDS PointerLog, TLC
=============================================================================
