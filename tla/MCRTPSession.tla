------------------------------ MODULE MCRTPSession ------------------------------
EXTENDS RTPSession

H264 == [type |-> "H264", parameters |-> TRUE, dimensions |-> FALSE]
AMR == [type |-> "AMR", rate |-> 8000, channels |-> 1]
WideAMR == [type |-> "AMR", rate |-> 16000, channels |-> 1]

MCFormats == {H264, AMR, WideAMR}
MCUnits == {[idr |-> TRUE, damaged |-> FALSE], [idr |-> FALSE, damaged |-> TRUE]}
=============================================================================
