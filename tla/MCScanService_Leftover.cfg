CONSTANTS
    s1 = s1
    s2 = s2
    None = None
    Missing = Missing
    Scans = {s1}
    Engine = "clamav"
    Timeout = 1
    TTL = 1
    CleanupInterval = 1
SPECIFICATION Spec
INVARIANT FailedScanLeavesNoUpload
