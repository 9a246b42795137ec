CONSTANTS
    Items = {i1, i2, i3}
    Capacity = 3
    Raw = Raw
    AxisMax = 5
    Grain = 4
    Pleasantnesses <- MCPleasantnesses
    Energies <- MCEnergies
    Deltas <- MCDeltas
    MaxDepth = 2
    Objects = {a, b}
    Values = {v1, v2, v3}
    MaxWeight = 4
SYMMETRY Symmetry
SPECIFICATION SequentialSpec
INVARIANTS
    LifetimesMatch
    TotalIsSumAndDrift
    RandomIsProportional
PROPERTIES
    FifoSteps
    AxisFollowsCoordinate
    MoodReportsChain
