SPECIFICATION ReadingsSpec
CONSTANTS
    etc = etc
    over_a = over_a
    good = good
    bad = bad
    r1 = r1
    r2 = r2
    Absent = Absent
    NoCopy = NoCopy
    Packaged = etc
    Overrides = {over_a}
    Contents = {good, bad}
    Usable = {good}
    Runs = {r1, r2}
    Home <- MCHomeMixed
    Key <- MCKeyOwn
    TTL = 2
    RunLimit = 1
    MaxTime = 4
    MaxEdits = 1
    Environments = {local, stage}
    Local = local
    Instances = {i1, i2}
    Fresh = i1
    Lookups = {l1, l2}
    Expiry = 1
    LookupLimit = 1
    MaxClock = 5
    MaxChanges = 1
    LastSeed = 1
    Unknown = Unknown
    MaxReading = 2
    MaxUrls = 2
    None = None
    NoKey = NoKey
SYMMETRY LookupsAreAlike
INVARIANTS
    FreshEnough OverrideIsWhole
    StalenessAddsUp ReseedIsSeen
    DisagreementIsReported PagesAreTrue PageHasItsReasons SameVerdicts
CHECK_DEADLOCK FALSE
