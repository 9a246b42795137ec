-------------------------- MODULE MCSpscRingQueue --------------------------
EXTENDS SpscRingQueue
=============================================================================
