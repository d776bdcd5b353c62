--------------------------- MODULE MCRTSPConnection ---------------------------
EXTENDS RTSPConnection

CONSTANTS c1, c2, d1, r1, r2

MCConnect == {c1, c2}
MCDisconnect == {d1}
MCRequest == {r1, r2}
=============================================================================
