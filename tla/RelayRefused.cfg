SPECIFICATION RelaySpec
CONSTANTS
    Messages = {m1}
    Loop = loop
    TRIES = 1
    MaxFaults = 0
    MaxRefusals = 0
    MaxMattermosts = 1
    Nothing = Nothing
INVARIANTS
    AcknowledgedWasTaken
CHECK_DEADLOCK FALSE
