SPECIFICATION FairSpec
CONSTANTS
    Mtu = 1408
    TapRoom = 1
    SendRoom = 2
    RecvRoom = 2
INVARIANTS
    TypeOK
    ConformingPeerKeepsLoop
PROPERTIES
    CarriesFrames
    TapServed
    SocketServed
    CloseEndsLoop
CHECK_DEADLOCK FALSE
