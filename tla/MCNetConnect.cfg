SPECIFICATION FairSpec
CONSTANTS
    MaxAddrs = 2
    Timeouts = {0, 2, 9}
    DefaultTicks = 3
    Forever = 9
    HeaderSize = 3
    PayloadMax = 3
    Chunk = 2
    Room = 2
    MaxInterrupts = 2
    MaxElapsed = 40
INVARIANTS
    OneSocket
    SendsInOrder
    TimeBounded
PROPERTIES
    CallsReturn
\* one call is made and returns
CHECK_DEADLOCK FALSE
