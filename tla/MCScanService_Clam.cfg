CONSTANTS
    s1 = s1
    s2 = s2
    None = None
    Missing = Missing
    Scans = {s1, s2}
    Engine = "clamav"
    Timeout = 1
    TTL = 2
    CleanupInterval = 2
SYMMETRY Symmetry
SPECIFICATION Spec
INVARIANT TypeOK
INVARIANT NeverFalseClean
INVARIANT NeverFalseInfected
