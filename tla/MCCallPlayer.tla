----------------------------- MODULE MCCallPlayer -----------------------------
EXTENDS CallPlayer

MCTracks == {"audio", "video"}
=============================================================================
