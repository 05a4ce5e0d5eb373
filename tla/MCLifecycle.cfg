CONSTANTS
    None = None
    Missing = Missing
    Scans = {s1}
    Engine = "trendmicro"
    Timeout = 3
    TTL = 2
    CleanupInterval = 2
    Grace = 4
SPECIFICATION FairLifeSpec
INVARIANT LifeTypeOK
INVARIANT EarlyDetectionWins
INVARIANT VerdictLeavesNoUpload
INVARIANT DrainAnswers
PROPERTY ShutdownEnds
PROPERTY EveryScanAnswered
PROPERTY ImplementsPromise
