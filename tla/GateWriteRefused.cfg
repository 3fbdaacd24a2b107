SPECIFICATION Spec
CONSTANTS
    A = A
    B = B
    r1 = r1
    r2 = r2
    Conditions = {A, B}
    Clean = Clean
    Runs = {r1}
    NoState = NoState
    LastStep = 2
    Backoff <- ShortBackoff
    RecoveryRuns = 2
    StateTTL = 4
    MaxTime = 3
    Faults = {"write"}
PROPERTIES ChangeSpeaks
