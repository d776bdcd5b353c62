------------------------------ MODULE MCStreamer ------------------------------
EXTENDS Streamer

MCMode == {"H264", "H263", "AMR"}
\* With 17 bytes a packet holds 5 bytes alone, 3 as one of several, 4 of AMR.
MCSizes == (0 .. 6) \cup {8}
=============================================================================
