-------------------------- MODULE MCTimedEventQueue --------------------------
EXTENDS TimedEventQueue

CONSTANTS e1, e2, stop, c1

MCEvent == {e1, e2}
MCStopEvent == stop
MCClient == {c1}
=============================================================================
