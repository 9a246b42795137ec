-------------------------- MODULE MCBlockingQueue --------------------------
EXTENDS BlockingQueue
=============================================================================
