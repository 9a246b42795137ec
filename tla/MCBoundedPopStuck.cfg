CONSTANTS
    Producers = {p1, p2}
    Consumers = {c1, c2}
    Capacity = 1
    MaxPushes = 2
    MaxThrows = 1
SYMMETRY Symmetry
SPECIFICATION Spec
INVARIANT BlockedPopMeansEmpty
