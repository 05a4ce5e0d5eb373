CONSTANTS
    a1 = a1
    a2 = a2
    q1 = q1
    q2 = q2
    q3 = q3
    r1 = r1
    r2 = r2
    r3 = r3
    None = None
    Accounts = {a1, a2}
    Requests = {q1, q2, q3}
    Refs = {r1, r2, r3}
    Configs <- MCConfigs
    Allowlists <- MCAllowlists
    Minute = 3
SYMMETRY Symmetry
SPECIFICATION Spec
INVARIANT TypeOK
INVARIANT PermitsTracked
INVARIANT InflightExact
INVARIANT StrangersGo
INVARIANT GaugeExact
INVARIANT RetryAfterHonest
PROPERTY ConcurrencyBound
PROPERTY ReloadGrantsNothing
