SPECIFICATION FairSpec
CONSTANTS
    g1 = g1
    g2 = g2
    Groups = {g1, g2}
    Stray = Stray
    NoJob = NoJob
    MaxChanges = 2
    MaxFailures = 2
    MaxRotations = 0
    Hazards = {"raised", "timeout", "restart", "stray"}
INVARIANTS AcknowledgedWasShown NewestLast
PROPERTIES FiringIsShown
