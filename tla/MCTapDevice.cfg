SPECIFICATION Spec
CONSTANTS
    Adapters <- AdapterSet
    MaxAdapters = 3
    MaxChanges = 1
    Names = {"empty", "vpn", "TAP-Windows", "{2}"}
    ValidNames = {"vpn"}
INVARIANTS
    OwnedExactly
    RightAdapter
\* a check that has given its verdict and a client that may not open stop
CHECK_DEADLOCK FALSE
