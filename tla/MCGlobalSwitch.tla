--------------------------- MODULE MCGlobalSwitch ---------------------------
EXTENDS GlobalSwitch

CONSTANTS c1, c2, c3, c4
=============================================================================
