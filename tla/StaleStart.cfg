SPECIFICATION Spec
CONSTANTS
    Recipients = {r1, r2}
    Sources = {f1, f2}
    NoOne = NoOne
    MaxEdits = 5
    MaxOpens = 2
    MaxChoices = 3
    Keys = {k1, k2}
    HistoryLimit = 1
    MaxObserved = 3
    MaxFaults = 1
    Persons = {"p", "q"}
    FixturePair = {"p", "q"}
    MaxOperations = 3
    MaxCodes = 1
    Transfers = {t1, t2}
    WarmUp = 1
    StallThreshold = 2
    RollingWindow = 2
    Hysteresis = 2
    LocalLimits = {"LOCAL"}
INVARIANT
    OffersWhatWasReviewed
CHECK_DEADLOCK FALSE
