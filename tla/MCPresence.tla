----------------------------- MODULE MCPresence -----------------------------
EXTENDS Presence, TLC
MCSender == "m1" :> "c1"
=============================================================================
