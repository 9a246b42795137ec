-------------------------- MODULE MCMpscObservers --------------------------
EXTENDS MpscObservers
=============================================================================
