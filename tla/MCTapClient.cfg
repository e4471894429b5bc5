SPECIFICATION FairSpec
CONSTANTS
    Networks <- MCNetworks
    MaxLog = 4
INVARIANTS
    TypeOK
    ResourcesOwned
    FramesAuthorised
    WireOrder
    PathOrder
    ExitCode
PROPERTIES
    DirectFallsBack
    ImplementsStrategy
\* the process ends: EXIT has no successor
CHECK_DEADLOCK FALSE
