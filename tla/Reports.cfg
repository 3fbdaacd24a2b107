SPECIFICATION ReportsSpec
CONSTANTS
    a1 = a1
    j1 = j1
    MaxReleases = 2
    Annotators = {a1}
    Journalers = {j1}
    BASELINE = 0
    HOLD = 1
    SETTLE = 1
    MaxTime = 1
    MaxFaults = 2
    MaxAt = 3
    MaxLines = 4
    MaxCuts = 1
    Naive = Naive
    Snapshots = {s1, s2, s3}
    MaxWeek = 1
    NoFile = NoFile
    Period = 5
    Delay = 2
    RunLimit = 5
    Expiration = 10
    For = 10
    MaxMinute = 45
    MaxLosses = 3
INVARIANTS
    AnnotatedOnce JournaledOnce
    ExportIsWhole NoPairIsMissed WindowKeepsPairs
    OutageDestroysNothing
    SilenceFires
PROPERTIES ReportIsTrue AlertIsTrue RunsKeepItQuiet
CHECK_DEADLOCK FALSE
