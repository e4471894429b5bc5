SPECIFICATION FairSpec
CONSTANTS
    MaxWorkers = 3
INVARIANTS
    TypeOK
    BackToStart
PROPERTIES
    DisconnectEndsWorker
\* the window may be closed, or every Connect used up
CHECK_DEADLOCK FALSE
