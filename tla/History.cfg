SPECIFICATION HistorySpec
CONSTANTS
    A = A
    B = B
    r1 = r1
    Conditions = {A, B}
    Clean = Clean
    Runs = {r1}
    NoState = NoState
    LastStep = 2
    Backoff <- ShortBackoff
    RecoveryRuns = 2
    StateTTL = 2
    MaxTime = 2
    Faults = {"read", "kill", "history"}
    MonthLength = 2
    MaxLines = 5
    Torn = Torn
SYMMETRY MCSymmetry
INVARIANTS TypeOK RecoveryIsEarned EveryPageCounted BooksBalance ClearTimesAreTrue DamageIsContained
PROPERTIES ChangeSpeaks RepeatsArePaced
