SPECIFICATION Spec
CONSTANTS
    A = A
    B = B
    r1 = r1
    r2 = r2
    Conditions = {A, B}
    Clean = Clean
    Runs = {r1, r2}
    NoState = NoState
    LastStep = 2
    Backoff <- ShortBackoff
    RecoveryRuns = 2
    StateTTL = 2
    MaxTime = 2
    Faults = {"read", "write", "kill", "history"}
SYMMETRY MCSymmetry
INVARIANTS SilenceIsCovered EveryCopyIsCovered
PROPERTIES PromiseKept
