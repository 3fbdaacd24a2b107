SPECIFICATION FairDeploySpec
CONSTANTS
    a1 = a1
    j1 = j1
    MaxReleases = 1
    Annotators = {a1}
    Journalers = {j1}
    BASELINE = 1
    HOLD = 2
    SETTLE = 3
    MaxTime = 4
    MaxFaults = 1
INVARIANTS SaidForGood
PROPERTIES EveryDeployIsRecorded
