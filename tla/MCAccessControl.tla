--------------------------- MODULE MCAccessControl ---------------------------
\* Two accounts; a file that allows both, one that allows a1 only and lowers
\* the limits, and one that is refused for a rate without a burst.
EXTENDS AccessControl, TLC

CONSTANTS a1, a2

Lim(m, r, b) == [maxConcurrent |-> m, requestsPerMinute |-> r, burst |-> b]
NoOverride == [a \in Accounts |->
    [maxConcurrent |-> None, requestsPerMinute |-> None, burst |-> None]]
Conf(l) == [default |-> l, overrides |-> NoOverride]

Both == [parses |-> TRUE, allow |-> {a1, a2}, limits |-> Conf(Lim(2, 0, 0))]
One == [parses |-> TRUE, allow |-> {a1}, limits |-> Conf(Lim(1, 0, 0))]
Bad == [parses |-> TRUE, allow |-> {a2}, limits |-> Conf(Lim(0, 1, 0))]

MCFiles == {Both, One, Bad}
MCConfigs == {f.limits : f \in MCFiles}
================================================================================
