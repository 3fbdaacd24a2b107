SPECIFICATION Spec
CONSTANTS
    g1 = g1
    g2 = g2
    Groups = {g1, g2}
    Stray = Stray
    NoJob = NoJob
    MaxChanges = 1
    MaxFailures = 1
    MaxRotations = 0
    Hazards = {"refused"}
INVARIANTS AcknowledgedWasShown
