----------------------- MODULE MCBoundedBlockingQueue -----------------------
EXTENDS BoundedBlockingQueue, TLC

\* Producers are interchangeable, and so are consumers.
Symmetry == Permutations(Producers) \cup Permutations(Consumers)
=============================================================================
