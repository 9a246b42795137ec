CONSTANTS
    Sizes = {0, 1, 3, 4}
    SizeLimit = 3
    BufferSize = 2
    MaxCalls = 2
    MaxErrors = 2
SPECIFICATION FairTcpSpec
INVARIANTS
    StreamIntact
    ReceivedExactly
PROPERTIES
    CallsEnd
