CONSTANTS
    Missing = Missing
    Size = 3
    FoundTokens <- Absent
    Lifetime = 11
    Period = 3
    Deadline = 1
    Attempts = 3
    MaxMissed = 2
    None = None
    Interval = 2
    Validity = 8
    Margin = 7
    MaxFailures = 2
SPECIFICATION SideBySide
INVARIANT TypeOK
INVARIANT TokensValid
INVARIANT NeverServesExpired
INVARIANT OneVMPerAttempt
PROPERTY FailureStopsRollout
