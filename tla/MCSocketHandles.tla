-------------------------- MODULE MCSocketHandles --------------------------
EXTENDS SocketHandles, TLC

\* Objects of a class are interchangeable, and so are handles.
Symmetry ==
    Permutations(TcpSockets) \cup Permutations(UdpSockets)
      \cup Permutations(Handles)
=============================================================================
