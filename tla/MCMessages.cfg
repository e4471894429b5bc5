SPECIFICATION MCSpec
CONSTANTS
    SizeMax = 280
    FirstCap = 4
    Base = 16
    Cap = 275
    Magic = 20033
    Version = 1
    Limit <- LimitRec
    Messages <- MessageSet
    Grants <- GrantSet
    MaxMade = 2
    Keys = {"k1", "k2"}
    NodeIds <- NodeIdSet
    Networks = {1, 2}
    Times = {0, 1, 2}
    Chars = {"1", "2", "a", "|", "nl", "+", "-", "N"}
    NodeIdMax = 4
    Wide = 1000
INVARIANTS
    BufferSound
    RoundTrip
    OnlyOptionalCutsPass
    ReadsInside
    OnlyMadeTokens
\* one message is encoded, sent and decoded, or one token checked
CHECK_DEADLOCK FALSE
