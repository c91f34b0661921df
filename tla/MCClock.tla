------------------------------ MODULE MCClock ------------------------------
EXTENDS Clock, TLC
=============================================================================
