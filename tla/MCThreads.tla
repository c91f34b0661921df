----------------------------- MODULE MCThreads -----------------------------
EXTENDS Threads, TLC
=============================================================================
