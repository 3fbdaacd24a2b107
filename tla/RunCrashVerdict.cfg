SPECIFICATION HealthSpec
CONSTANTS
    A = A
    B = B
    r1 = r1
    r2 = r2
    Conditions = {A, B}
    CheckoutDown = {A}
    Configured = {"sms", "slack", "sns"}
    Clean = Clean
    Runs = {r1}
    NoState = NoState
    LastStep = 2
    Backoff <- ShortBackoff
    RecoveryRuns = 2
    StateTTL = 3
    MaxTime = 2
    Faults = {}
    Breaks = {"sms"}
INVARIANTS CrashSaysNothing
