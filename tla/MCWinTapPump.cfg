SPECIFICATION FairSpec
CONSTANTS
    SendRoom = 2
INVARIANTS
    TypeOK
    ReaderGoneBeforeCleanup
    FirstFailureReported
    AtMostOneLateFrame
PROPERTIES
    MessagesWhole
    ReaderFailureEndsLoop
    DoneReturns
\* the loop returns: RETURNED has no successor once the peer is done
CHECK_DEADLOCK FALSE
