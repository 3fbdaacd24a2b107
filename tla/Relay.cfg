SPECIFICATION FairRelaySpec
CONSTANTS
    Messages = {m1, m2}
    Loop = loop
    TRIES = 2
    MaxFaults = 1
    MaxRefusals = 1
    MaxMattermosts = 1
    Nothing = Nothing
INVARIANTS
    OneRefusalLosesNothing
    CacheIsOfOnePiece
PROPERTIES
    EveryMessageIsAnswered
CHECK_DEADLOCK FALSE
