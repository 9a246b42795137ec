CONSTANTS
    TcpSockets = {s1, s2}
    Listeners = {l}
    UdpSockets = {u1, u2}
    Handles = {h1, h2, h3}
    Groups = {g}
    Invalid = Invalid
SYMMETRY Symmetry
SPECIFICATION Spec
INVARIANTS
    HandlesOwnedOnce
    OpenMeansReady
