CONSTANTS
    Values = {v1, v2}
    Capacity = 4
    Modulus = 8
    Raw = Raw
    Moved = Moved
SPECIFICATION FairSpec
INVARIANTS
    StorageSafe
    AccessesOrdered
PROPERTIES
    AnswerStands
    ImplementsBoundedFifo
    KeepsMoving
