----------------------------- MODULE MCRTSPSession -----------------------------
EXTENDS RTSPSession

H264 == [type |-> "H264", parameters |-> TRUE, dimensions |-> FALSE]
Unknown == [type |-> "other"]

MCFormats == {H264, Unknown}
MCSockets == {"udp", "tcp"} \X (1 .. NumTracks)
\* Units that are not IDR frames matter after a seek.
MCUnits == {u \in [seg : 0 .. MaxSeeks, idr : BOOLEAN, damaged : {FALSE}] :
                u.idr \/ u.seg > 0}
=============================================================================
