SPECIFICATION HealthSpec
CONSTANTS
    A = A
    B = B
    r1 = r1
    r2 = r2
    Conditions = {A, B}
    CheckoutDown = {A}
    Configured = {"sms","slack","sns"}
    Clean = Clean
    Runs = {r1, r2}
    NoState = NoState
    LastStep = 2
    Backoff <- ShortBackoff
    RecoveryRuns = 2
    StateTTL = 2
    MaxTime = 1
    Faults = {"kill"}
    Breaks = {"prepare","sms", "refused","measure"}
SYMMETRY MCSymmetry
INVARIANTS SilenceIsHeard ChannelsHaveTheirTurn VerdictsMatchOutcome
