CONSTANTS
    s1 = s1
    s2 = s2
    None = None
    Missing = Missing
    Scans = {s1, s2}
    Engine = "mock"
    Timeout = 1
    TTL = 1
    CleanupInterval = 1
SPECIFICATION FairSpec
PROPERTY EveryScanAnswered
PROPERTY ImplementsPromise
