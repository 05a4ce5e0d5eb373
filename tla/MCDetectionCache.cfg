CONSTANTS
    Paths = {p1, p2}
    Callers = {w1, w2}
    Refs = {d1, d2, d3}
    None = None
    TTL = 1
    CleanupInterval = 1
    MaxTimeout = 2
SPECIFICATION FairSpec
INVARIANT TypeOK
INVARIANT NoLostWakeup
INVARIANT DeliveredOnce
PROPERTY FreshNotDropped
PROPERTY ImplementsMailbox
PROPERTY EveryWaitReturns
PROPERTY ExpiredDropped
