------------------------------- MODULE MCProc -------------------------------
EXTENDS Proc, TLC
=============================================================================
