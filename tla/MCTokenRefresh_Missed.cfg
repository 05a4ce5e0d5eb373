CONSTANTS
    Missing = Missing
    Size = 2
    FoundTokens <- Absent
    Lifetime = 14
    Period = 1
    Deadline = 0
    Attempts = 3
    MaxMissed = 14
SPECIFICATION Spec
INVARIANT MissedRunsTolerated
