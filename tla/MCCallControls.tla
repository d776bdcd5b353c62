---------------------------- MODULE MCCallControls ----------------------------
EXTENDS CallControls

\* An uninitialised counter may look like INVALID_VALUE, like no frame, or like
\* more frames than there are.
MCGarbage == {-1, 0, 5}
=============================================================================
