----------------------------- MODULE MCRateLimiter -----------------------------
(* The instances of RateLimiter that TLC checks. *)
EXTENDS RateLimiter, TLC

CONSTANTS a1, a2

Lim(max, rpm, burst) ==
    [f \in Fields |-> CASE f = "maxConcurrent" -> max
                        [] f = "requestsPerMinute" -> rpm [] f = "burst" -> burst]
NoOverride == Lim(None, None, None)

\* One account limited by default and one with its own limits; lower and higher
\* ones; and a file that must not load (a rate without a burst).
MCConfigs ==
    {[default |-> Lim(1, 0, 0),
      overrides |-> [a \in Accounts |-> IF a = a2 THEN Lim(2, 2, 1) ELSE NoOverride]],
     [default |-> Lim(0, 2, 2),
      overrides |-> [a \in Accounts |-> IF a = a2 THEN Lim(1, None, None) ELSE NoOverride]],
     [default |-> Lim(2, 2, 0), overrides |-> [a \in Accounts |-> NoOverride]]}

MCAllowlists == {{a1, a2}, {a1}}

Symmetry == Permutations(Requests) \cup Permutations(Refs)
================================================================================
