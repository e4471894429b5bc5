SPECIFICATION Spec
CONSTANTS
    MaxWorkers = 2
PROPERTY
    DisconnectIsFinal
CHECK_DEADLOCK FALSE
