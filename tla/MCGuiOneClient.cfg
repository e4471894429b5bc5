SPECIFICATION Spec
CONSTANTS
    MaxWorkers = 3
INVARIANT
    OneClient
CHECK_DEADLOCK FALSE
