CONSTANTS
    Producers = {p1, p2}
    Capacity = 1
    MaxPushes = 1
    Raw = Raw
    Moved = Moved
SPECIFICATION Spec
INVARIANT StorageSafe
