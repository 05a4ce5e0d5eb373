CONSTANTS
    a1 = a1
    a2 = a2
    q1 = q1
    q2 = q2
    r1 = r1
    r2 = r2
    None = None
    Accounts = {a1, a2}
    Requests = {q1, q2}
    Refs = {r1, r2}
    Configs <- MCConfigs
    Files <- MCFiles
    EditStyles = {"in place", "rename"}
    MaxEvents = 2
    Minute = 1
SPECIFICATION FairSpec
INVARIANT TypeOK
INVARIANT OneFileGoverns
INVARIANT RevocationHolds
INVARIANT RunningScansCounted
PROPERTY WrittenIsLoaded
