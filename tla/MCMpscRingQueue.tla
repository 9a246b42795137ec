-------------------------- MODULE MCMpscRingQueue --------------------------
EXTENDS MpscRingQueue
=============================================================================
