------------------------------ MODULE RateLimiter ------------------------------
(***************************************************************************)
(* internal/ratelimit: per-account limits on concurrent scans and on their *)
(* rate.  The Limiter keeps a map from account to accountState, a counter  *)
(* of scans in flight and a token bucket; requests hold a pointer to the   *)
(* accountState they were counted in until they release it, while reloads  *)
(* of the allowlist file change the limits and drop entries of the map.    *)
(*                                                                         *)
(* The critical sections of l.mu are the steps.  A token is worth Minute   *)
(* units and a bucket gains requestsPerMinute units per unit of time, so   *)
(* that the tokens of golang.org/x/time/rate stay whole numbers.  An       *)
(* account is authorised before it is counted, so a request may come from  *)
(* an account that a reload has removed from the allowlist since.          *)
(***************************************************************************)
EXTENDS Integers, FiniteSets

CONSTANTS Accounts,     \* "namespace/serviceaccount"
          Requests,     \* the handler's goroutines
          Refs,         \* *accountState pointers, reused when unreachable
          None,         \* nil
          Configs,      \* the rateLimits sections that may be loaded
          Allowlists,   \* and the allowlists
          Minute        \* time units in a minute

VARIABLES cfg,          \* the limits, None for no limits
          allowed,      \* the allowlist, None before the first Update
          accounts,     \* the map: account to pointer, None when absent
          heap,         \* the accountStates: in flight, and the bucket
          permits,      \* what each request holds: an account and a pointer
          gauge,        \* the in-flight metric of each account
          promise       \* history: time left of the last Retry-After, or None

vars == <<cfg, allowed, accounts, heap, permits, gauge, promise>>

--------------------------------------------------------------------------------
(* The configuration: config.go. *)

Fields == {"maxConcurrent", "requestsPerMinute", "burst"}
Limits == [Fields -> Int]
Unlimited == [f \in Fields |-> 0]

\* overrides[a][f] is None when the file has no such field for the account.
Config == [default : Limits, overrides : [Accounts -> [Fields -> Int \cup {None}]]]

For(c, a) ==
    [f \in Fields |-> IF c.overrides[a][f] = None THEN c.default[f]
                      ELSE c.overrides[a][f]]

\* A mutant: a rate without a burst passes.
ValidLimits_AnyBurst(l) == \A f \in Fields : l[f] >= 0

ValidLimits(l) ==
    /\ \A f \in Fields : l[f] >= 0
    /\ l["requestsPerMinute"] > 0 => l["burst"] # 0

Validate(c) ==
    /\ ValidLimits(c.default)
    /\ \A a \in Accounts : ValidLimits(For(c, a))

\* A mutant: an invalid section is logged and loaded all the same.
Loadable_Always(c) == c \in Configs \cup {None}

\* No section is fine, an invalid one is not loaded.
Loadable(c) == c # None => Validate(c)

\* The limits in force for an account.
LimitsOf(c, a) == IF c = None THEN Unlimited ELSE For(c, a)

--------------------------------------------------------------------------------
\* The constants: nil is no value of any type, limits that may be loaded are of
\* their type, Validate's blessing or not, and a minute is a length of time.
ASSUME LimiterAssumption ==
    /\ IsFiniteSet(Requests)
    /\ None \notin Refs \cup Accounts
    /\ None \notin Configs
    /\ None \notin Allowlists
    /\ None \notin Int
    /\ Configs \subseteq Config
    /\ Allowlists \subseteq SUBSET Accounts
    /\ Minute \in Nat \ {0}

\* The token bucket, external: rpm = 0 stands for a nil *rate.Limiter.
Bucket == [rpm : Nat, burst : Nat, tokens : Int]
NoBucket == [rpm |-> 0, burst |-> 0, tokens |-> 0]
AtMost(n, m) == IF n > m THEN m ELSE n
HasToken(b) == b.rpm = 0 \/ b.tokens >= Minute

State == [inflight : Int, rate : Bucket]
NoPermit == [account |-> None, ref |-> None]

\* A mutant: a reload gives every account a full bucket.
ApplyRate_Refills(l, b) ==
    IF l["requestsPerMinute"] = 0 THEN NoBucket
    ELSE [rpm |-> l["requestsPerMinute"], burst |-> l["burst"],
          tokens |-> l["burst"] * Minute]

\* applyRate: no bucket without a rate; a new bucket is full; an existing one
\* keeps its tokens, cut to the new burst when it is next used.
ApplyRate(l, b) ==
    IF l["requestsPerMinute"] = 0 THEN NoBucket
    ELSE [rpm |-> l["requestsPerMinute"], burst |-> l["burst"],
          tokens |-> IF b.rpm = 0 THEN l["burst"] * Minute
                     ELSE AtMost(b.tokens, l["burst"] * Minute)]

Fresh(a) == [inflight |-> 0, rate |-> ApplyRate(LimitsOf(cfg, a), NoBucket)]

Holders(r) == {q \in Requests : permits[q].ref = r}
HoldersOf(a) == {q \in Requests : permits[q].account = a}
Reachable == {accounts[a] : a \in Accounts} \cup {permits[q].ref : q \in Requests}

Init ==
    /\ cfg = None
    /\ allowed = None
    /\ accounts = [a \in Accounts |-> None]
    /\ heap = [r \in Refs |-> [inflight |-> 0, rate |-> NoBucket]]
    /\ permits = [q \in Requests |-> NoPermit]
    /\ gauge = [a \in Accounts |-> 0]
    /\ promise = [a \in Accounts |-> None]

--------------------------------------------------------------------------------
(* Update, called by the loading of the allowlist file. *)

\* A mutant: every account that left the allowlist is dropped.
Dropped_InFlightToo(al, a) == accounts[a] # None /\ a \notin al

\* The entry of a goes: not allowed any more, and idle.
Dropped(al, a) ==
    /\ accounts[a] # None
    /\ a \notin al
    /\ heap[accounts[a]].inflight = 0

\* A file with invalid limits is not loaded; a valid one replaces limits and
\* allowlist, drops idle strangers and adjusts the other accounts' buckets.
Update(c, al) ==
    /\ Loadable(c)
    /\ cfg' = c
    /\ allowed' = al
    /\ accounts' = [a \in Accounts |-> IF Dropped(al, a) THEN None ELSE accounts[a]]
    /\ heap' = [r \in Refs |->
         IF \E a \in Accounts : accounts[a] = r /\ ~Dropped(al, a)
         THEN LET a == CHOOSE x \in Accounts : accounts[x] = r
              IN  [heap[r] EXCEPT !.rate = ApplyRate(LimitsOf(c, a), heap[r].rate)]
         ELSE heap[r]]
    /\ promise' = [a \in Accounts |-> None]
    /\ UNCHANGED <<permits, gauge>>

--------------------------------------------------------------------------------
(* Acquire and release, called by the middleware around each request. *)

\* The pointer Acquire works on: the entry of the account or a new one.
Entry(a) == IF accounts[a] # None THEN {accounts[a]} ELSE Refs \ Reachable
StateOf(a) == IF accounts[a] # None THEN heap[accounts[a]] ELSE Fresh(a)

\* A mutant: off by one.
AtLimit_OneMore(a) ==
    LET max == LimitsOf(cfg, a)["maxConcurrent"]
    IN  max > 0 /\ StateOf(a).inflight > max

AtLimit(a) ==
    LET max == LimitsOf(cfg, a)["maxConcurrent"]
    IN  max > 0 /\ StateOf(a).inflight >= max

\* The account's entry is in the map after Acquire, whatever it returns.
Store(a, r, st) ==
    /\ accounts' = [accounts EXCEPT ![a] = r]
    /\ heap' = [heap EXCEPT ![r] = st]

\* Too many scans in flight.
RejectConcurrency(q, a) ==
    /\ permits[q] = NoPermit
    /\ AtLimit(a)
    /\ \E r \in Entry(a) : Store(a, r, StateOf(a))
    /\ UNCHANGED <<cfg, allowed, permits, gauge, promise>>

\* A mutant: rounded down.
RetryAfter_Floor(b) == (Minute - b.tokens) \div b.rpm

\* Retry-After: the time until the bucket holds a token, rounded up, at least 1.
RetryAfter(b) == (Minute - b.tokens + b.rpm - 1) \div b.rpm

\* No token: ReserveN finds a delay and CancelAt gives the token back.
RejectRate(q, a) ==
    /\ permits[q] = NoPermit
    /\ ~AtLimit(a)
    /\ ~HasToken(StateOf(a).rate)
    /\ \E r \in Entry(a) : Store(a, r, StateOf(a))
    /\ promise' = [promise EXCEPT ![a] = RetryAfter(StateOf(a).rate)]
    /\ UNCHANGED <<cfg, allowed, permits, gauge>>

\* ReserveN takes a token, if there is a bucket.
Charge(b) == IF b.rpm = 0 THEN b ELSE [b EXCEPT !.tokens = @ - Minute]

\* A mutant: requests are not counted while no limits are configured.
Counted_OnlyLimited(st) ==
    [inflight |-> IF cfg = None THEN st.inflight ELSE st.inflight + 1,
     rate |-> Charge(st.rate)]

Counted(st) == [inflight |-> st.inflight + 1, rate |-> Charge(st.rate)]

Admit(q, a) ==
    /\ permits[q] = NoPermit
    /\ ~AtLimit(a)
    /\ HasToken(StateOf(a).rate)
    /\ \E r \in Entry(a) :
          /\ Store(a, r, Counted(StateOf(a)))
          /\ permits' = [permits EXCEPT ![q] = [account |-> a, ref |-> r]]
    /\ gauge' = [gauge EXCEPT ![a] = Counted(StateOf(a)).inflight]
    /\ promise' = [promise EXCEPT ![a] = None]
    /\ UNCHANGED <<cfg, allowed>>

\* release, once per permit: an idle stranger's entry is dropped.
Release(q) ==
    LET a == permits[q].account  r == permits[q].ref
        left == heap[r].inflight - 1 IN
    /\ permits[q] # NoPermit
    /\ permits' = [permits EXCEPT ![q] = NoPermit]
    /\ heap' = [heap EXCEPT ![r].inflight = left]
    /\ gauge' = [gauge EXCEPT ![a] = left]
    /\ accounts' = IF left = 0 /\ allowed # None /\ a \notin allowed /\ accounts[a] = r
                   THEN [accounts EXCEPT ![a] = None] ELSE accounts
    /\ UNCHANGED <<cfg, allowed, promise>>

\* Time passes: the buckets fill up to their burst.
Tick ==
    /\ heap' = [r \in Refs |->
         [heap[r] EXCEPT !.rate.tokens =
            IF heap[r].rate.rpm = 0 THEN @
            ELSE AtMost(@ + heap[r].rate.rpm, heap[r].rate.burst * Minute)]]
    /\ promise' = [a \in Accounts |->
         IF promise[a] = None THEN None ELSE IF promise[a] = 0 THEN 0 ELSE promise[a] - 1]
    /\ UNCHANGED <<cfg, allowed, accounts, permits, gauge>>

Next ==
    \/ \E c \in Configs \cup {None} : \E al \in Allowlists : Update(c, al)
    \/ \E q \in Requests : \E a \in Accounts :
          RejectConcurrency(q, a) \/ RejectRate(q, a) \/ Admit(q, a)
    \/ \E q \in Requests : Release(q)
    \/ Tick

Spec == Init /\ [][Next]_vars

--------------------------------------------------------------------------------
\* The variables have their types; the limits in force are valid ones.
TypeOK ==
    /\ cfg \in Configs \cup {None}
    /\ cfg # None => Validate(cfg)
    /\ allowed \in Allowlists \cup {None}
    /\ accounts \in [Accounts -> Refs \cup {None}]
    /\ heap \in [Refs -> State]
    /\ permits \in [Requests -> [account : Accounts, ref : Refs] \cup {NoPermit}]
    /\ gauge \in [Accounts -> Int]
    /\ promise \in [Accounts -> Nat \cup {None}]

\* A permit's accountState is the one the map holds for its account, though the
\* account may have left the allowlist and the map may have been reloaded since:
\* no request is counted where the next Acquire does not look.
PermitsTracked ==
    /\ \A q \in Requests :
          permits[q] # NoPermit => accounts[permits[q].account] = permits[q].ref
    /\ \A a, b \in Accounts :
          a # b /\ accounts[a] # None => accounts[a] # accounts[b]

\* The in-flight counter is the number of permits that are out: reloads,
\* disabled limits and removed accounts neither lose nor double one.
InflightExact ==
    \A a \in Accounts : accounts[a] # None =>
        heap[accounts[a]].inflight = Cardinality(Holders(accounts[a]))

\* The map does not outgrow the allowlist: an account that is not on it has an
\* entry only while a request of its is running.
StrangersGo ==
    \A a \in Accounts :
        accounts[a] # None /\ allowed # None /\ a \notin allowed
            => Holders(accounts[a]) # {}

\* The metric shows what is running, also across a dropped entry.
GaugeExact ==
    \A a \in Accounts : gauge[a] = Cardinality(HoldersOf(a))

\* A request is admitted only if, with it, the account has no more scans really
\* running than the limit now in force, even just after the limit was lowered or
\* limits were switched on.
ConcurrencyBound ==
    [][\A q \in Requests, a \in Accounts :
         LET max == LimitsOf(cfg, a)["maxConcurrent"] IN
         permits[q] = NoPermit /\ permits'[q].account = a /\ max > 0
            => Cardinality(HoldersOf(a)') <= max]_vars

\* Retry-After is honest: once the time it gave has passed, with no reload and
\* no other request of the account admitted in between, there is a token.
RetryAfterHonest ==
    \A a \in Accounts :
        promise[a] = 0 /\ accounts[a] # None => HasToken(heap[accounts[a]].rate)

\* A reload grants no burst: a bucket that is kept does not gain tokens, whether
\* the file changed its limits, another line, or nothing at all (a touch).
ReloadGrantsNothing ==
    [][(\E c \in Configs \cup {None}, al \in Allowlists : Update(c, al)) =>
       \A a \in Accounts :
         accounts[a] # None /\ accounts'[a] # None /\ heap[accounts[a]].rate.rpm # 0
            => heap'[accounts[a]].rate.tokens <= heap[accounts[a]].rate.tokens]_vars
================================================================================
