SPECIFICATION Spec
CONSTANTS
    Mtu = 1500
    TapRoom = 1
    SendRoom = 2
    RecvRoom = 2
INVARIANTS
    ConformingPeerKeepsLoop
CHECK_DEADLOCK FALSE
