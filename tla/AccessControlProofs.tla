-------------------------- MODULE AccessControlProofs --------------------------
(***************************************************************************)
(* Proofs about AccessControl, for any set of accounts, requests, files,   *)
(* limits and edit styles: its invariants, what becomes of the limiter's   *)
(* promises once reloads come from a file and scans from the chain of      *)
(* handlers, and that no write to the file is lost on a live watch.        *)
(***************************************************************************)
EXTENDS AccessControl, TLAPS

\* As much of the types as the invariants need.
Shapes ==
    /\ request \in [Requests ->
                      [pc : {"idle", "review", "identified", "authorized", "running"},
                       account : Accounts \cup {None}, route : Routes \cup {None}]]
    /\ DOMAIN permits = Requests
    /\ file \in Files \cup {Empty}
    /\ loader \in [pc : {"idle", "read", "entries", "limits"}, got : Files \cup {Empty}]

\* What a load is about to put in force was found valid, and the half that is
\* in place already is of the same file.
LoadsOneFile ==
    /\ loader.pc \in {"entries", "limits"} => Valid(loader.got)
    /\ loader.pc = "limits" => entries = loader.got.allow

\* A request whose TokenReview is answered, and which is still to be authorised, has
\* been seen with its account on the allowlist, if it is on it now.
SightedInTime ==
    \A q \in Requests :
        request[q].pc = "identified" /\ request[q].account \in entries => q \in sighted

IInv ==
    /\ Shapes
    /\ LoadsOneFile
    /\ SightedInTime
    /\ OneFileGoverns
    /\ RevocationHolds
    /\ RunningScansCounted

LoadVars == <<server, loader, entries, cfg, allowed>>

--------------------------------------------------------------------------------
LEMMA InitIInv == Init => IInv
<1> SUFFICES ASSUME Init PROVE IInv
  OBVIOUS
<1>1. Shapes
  BY DEF Init, Shapes, Idle, NotLoading, Limiter!Init
<1>2. LoadsOneFile
  BY DEF Init, LoadsOneFile, NotLoading
<1>3. SightedInTime /\ RevocationHolds
  BY DEF Init, SightedInTime, RevocationHolds, Idle
<1>4. OneFileGoverns
  BY DEF Init, OneFileGoverns
<1>5. RunningScansCounted
  BY DEF Init, RunningScansCounted, At, Idle, Limiter!Init, Limiter!NoPermit
<1>6. QED
  BY <1>1, <1>2, <1>3, <1>4, <1>5 DEF IInv

\* The chain of a request leaves the allowlist and the limits alone.
LEMMA ChainEffect ==
    ASSUME NEW q \in Requests, Chain(q)
    PROVE  UNCHANGED LoadVars /\ UNCHANGED file
BY DEF Chain, Arrive, Unauthenticated, Authenticated, Authorize, Limit, RunUnlimited, Finish,
       limiterVars, fileVars, LoadVars, Limiter!RejectConcurrency, Limiter!RejectRate,
       Limiter!Admit, Limiter!Release

\* A load, and whatever happens to the file, leaves the requests alone.
LEMMA LoadEffect ==
    ASSUME Edit \/ Load \/ Start \/ StartWatch \/ HandleEvent \/ Tick
    PROVE  UNCHANGED <<request, permits>>
<1>1. CASE Edit
  BY <1>1 DEF Edit, Truncate, Write, Replace, limiterVars, requestVars
<1>2. CASE Load
  BY <1>2 DEF Load, ReadFile, LoadFails, SetEntries, PushLimits, limiterVars, requestVars,
              Limiter!Update
<1>3. CASE Start \/ StartWatch \/ HandleEvent \/ Tick
  BY <1>3 DEF Start, StartWatch, HandleEvent, Tick, limiterVars, requestVars, Limiter!Tick
<1>4. QED
  BY <1>1, <1>2, <1>3

--------------------------------------------------------------------------------
(* The shapes and the load. *)

LEMMA ShapesStep == Shapes /\ [Next]_vars => Shapes'
<1> SUFFICES ASSUME Shapes, [Next]_vars PROVE Shapes'
  OBVIOUS
<1> USE DEF Shapes
<1>1. CASE UNCHANGED vars
  BY <1>1 DEF vars, limiterVars, fileVars, requestVars
<1>2. CASE Edit
  BY <1>2 DEF Edit, Truncate, Write, Replace, limiterVars, requestVars
<1>3. CASE Load
  <2>1. file' = file /\ UNCHANGED <<request, permits>>
    BY <1>3, LoadEffect DEF Load, ReadFile, LoadFails, SetEntries, PushLimits, fileVars
  <2>2. loader' \in [pc : {"idle", "read", "entries", "limits"}, got : Files \cup {Empty}]
    BY <1>3 DEF Load, ReadFile, LoadFails, SetEntries, PushLimits, NotLoading
  <2>3. QED
    BY <2>1, <2>2
<1>4. CASE Start \/ StartWatch \/ HandleEvent \/ Tick
  <2>1. file' = file /\ UNCHANGED <<request, permits>>
    BY <1>4, LoadEffect DEF Start, StartWatch, HandleEvent, Tick, fileVars
  <2>2. loader' \in [pc : {"idle", "read", "entries", "limits"}, got : Files \cup {Empty}]
    BY <1>4 DEF Start, StartWatch, HandleEvent, Tick, NotLoading
  <2>3. QED
    BY <2>1, <2>2
<1>5. CASE Exit
  BY <1>5 DEF Exit, fileVars, Idle, NotLoading
<1>6. ASSUME NEW q \in Requests, Chain(q) PROVE Shapes'
  <2>1. UNCHANGED <<loader, file>>
    BY <1>6, ChainEffect DEF LoadVars
  <2>2. DOMAIN permits' = Requests
    BY <1>6 DEF Chain, Arrive, Unauthenticated, Authenticated, Authorize, Limit, RunUnlimited,
                Finish, limiterVars, Limiter!RejectConcurrency, Limiter!RejectRate,
                Limiter!Admit, Limiter!Release
  <2>3. \E r \in [pc : {"idle", "review", "identified", "authorized", "running"},
                  account : Accounts \cup {None}, route : Routes \cup {None}] :
           request' = [request EXCEPT ![q] = r]
    <3>1. CASE \E a \in Accounts, route \in Routes : Arrive(q, a, route)
      BY <3>1 DEF Arrive
    <3>2. CASE Answered(q)
      BY <3>2 DEF Answered, Idle
    <3>3. ASSUME NEW pc \in {"identified", "authorized", "running"}, Goto(q, pc)
          PROVE  request' = [request EXCEPT ![q] = [request[q] EXCEPT !.pc = pc]]
                 /\ [request[q] EXCEPT !.pc = pc] \in
                       [pc : {"idle", "review", "identified", "authorized", "running"},
                        account : Accounts \cup {None}, route : Routes \cup {None}]
      BY <3>3 DEF Goto
    <3>4. CASE \E pc \in {"identified", "authorized", "running"} : Goto(q, pc)
      BY <3>3, <3>4
    <3>5. QED
      BY <1>6, <3>1, <3>2, <3>4 DEF Chain, Unauthenticated, Authenticated, Authorize, Limit,
                                    RunUnlimited, Finish
  <2>4. QED
    BY <2>1, <2>2, <2>3
<1>7. QED
  BY <1>1, <1>2, <1>3, <1>4, <1>5, <1>6 DEF Next

\* A step that leaves the load, the map and the limiter's configuration alone.
LEMMA SameLoad ==
    ASSUME LoadsOneFile, OneFileGoverns, UNCHANGED LoadVars
    PROVE  LoadsOneFile' /\ OneFileGoverns'
<1>1. \A f : InForce(f)' <=> InForce(f)
  BY DEF LoadVars, InForce
<1>2. QED
  BY <1>1 DEF LoadVars, LoadsOneFile, OneFileGoverns

LEMMA LoadStep ==
    Shapes /\ LoadsOneFile /\ OneFileGoverns /\ [Next]_vars => LoadsOneFile' /\ OneFileGoverns'
<1> SUFFICES ASSUME Shapes, LoadsOneFile, OneFileGoverns, [Next]_vars
             PROVE  LoadsOneFile' /\ OneFileGoverns'
  OBVIOUS
<1>1. CASE UNCHANGED vars
  BY <1>1, SameLoad DEF vars, limiterVars, LoadVars
<1>2. CASE Edit
  BY <1>2, SameLoad DEF Edit, Truncate, Write, Replace, limiterVars, LoadVars
<1>3. CASE Tick
  BY <1>3, SameLoad DEF Tick, Limiter!Tick, LoadVars
<1>4. ASSUME NEW q \in Requests, Chain(q) PROVE LoadsOneFile' /\ OneFileGoverns'
  BY <1>4, ChainEffect, SameLoad
<1>5. ASSUME UNCHANGED <<entries, cfg, allowed>>, loader.pc # "limits",
             server \in {"loaded", "serving"} \/ server' \notin {"loaded", "serving"}
      PROVE  OneFileGoverns'
  <2>1. \A f : InForce(f)' <=> InForce(f)
    BY <1>5 DEF InForce
  <2>2. QED
    BY <1>5, <2>1 DEF OneFileGoverns
<1>6. CASE Start
  <2>1. server' = "loading" /\ loader'.pc = "read"
    BY <1>6 DEF Start, NotLoading
  <2>2. QED
    BY <2>1 DEF LoadsOneFile, OneFileGoverns
<1>7. CASE ReadFile
  <2>1. /\ loader.pc = "read" /\ loader'.pc = "entries" /\ Valid(loader'.got)
        /\ UNCHANGED <<entries, cfg, allowed, server>>
    BY <1>7 DEF ReadFile, limiterVars
  <2>2. QED
    BY <1>5, <2>1 DEF LoadsOneFile
<1>8. CASE LoadFails
  <2>1. /\ loader.pc = "read" /\ loader'.pc = "idle" /\ server' \in {server, "down"}
        /\ UNCHANGED <<entries, cfg, allowed>>
    BY <1>8 DEF LoadFails, NotLoading, limiterVars
  <2>2. QED
    BY <1>5, <2>1 DEF LoadsOneFile
<1>9. CASE SetEntries
  <2>1. loader' = [loader EXCEPT !.pc = "limits"] /\ entries' = loader.got.allow
    BY <1>9 DEF SetEntries
  <2>2. loader'.pc = "limits" /\ loader'.got = loader.got /\ Valid(loader.got)
    BY <1>9, <2>1 DEF SetEntries, Shapes, LoadsOneFile
  <2>3. QED
    BY <2>1, <2>2 DEF LoadsOneFile, OneFileGoverns
<1>10. CASE PushLimits
  <2>1. PICK f \in Files \cup {Empty} : f = loader.got
    BY DEF Shapes
  <2>2. Valid(f) /\ entries' = f.allow /\ cfg' = f.limits /\ allowed' = f.allow
    BY <1>10, <2>1 DEF PushLimits, LoadsOneFile, Limiter!Update
  <2>3. loader'.pc = "idle"
    BY <1>10 DEF PushLimits, NotLoading
  <2>4. QED
    BY <2>2, <2>3 DEF LoadsOneFile, OneFileGoverns, InForce
<1>11. CASE StartWatch
  <2>1. server = "loaded" /\ UNCHANGED <<loader, entries, cfg, allowed>>
    BY <1>11 DEF StartWatch, limiterVars
  <2>2. \A f : InForce(f)' <=> InForce(f)
    BY <2>1 DEF InForce
  <2>3. QED
    BY <2>1, <2>2 DEF LoadsOneFile, OneFileGoverns
<1>12. CASE HandleEvent
  <2>1. /\ loader.pc = "idle" /\ loader'.pc = "read"
        /\ UNCHANGED <<entries, cfg, allowed, server>>
    BY <1>12 DEF HandleEvent, NotLoading, limiterVars
  <2>2. QED
    BY <1>5, <2>1 DEF LoadsOneFile
<1>13. CASE Exit
  <2>1. server' = "down" /\ loader'.pc = "idle"
    BY <1>13 DEF Exit, NotLoading
  <2>2. QED
    BY <2>1 DEF LoadsOneFile, OneFileGoverns
<1>14. QED
  BY <1>1, <1>2, <1>3, <1>4, <1>6, <1>7, <1>8, <1>9, <1>10, <1>11, <1>12, <1>13
     DEF Next, Load

--------------------------------------------------------------------------------
(* The requests. *)

\* Steps that neither move a request nor change what has been seen of it.
LEMMA SameRequests ==
    ASSUME SightedInTime, RevocationHolds, UNCHANGED <<request, sighted, entries>>
    PROVE  SightedInTime' /\ RevocationHolds'
BY DEF SightedInTime, RevocationHolds

\* What is said of one request.
SeenAt(q) ==
    /\ request[q].pc = "identified" /\ request[q].account \in entries => q \in sighted
    /\ request[q].pc \in {"authorized", "running"} => q \in sighted

LEMMA SeenStep ==
    Shapes /\ SightedInTime /\ RevocationHolds /\ [Next]_vars
        => SightedInTime' /\ RevocationHolds'
<1> SUFFICES ASSUME Shapes, SightedInTime, RevocationHolds, [Next]_vars
             PROVE  SightedInTime' /\ RevocationHolds'
  OBVIOUS
<1>0. \A q \in Requests : SeenAt(q)
  BY DEF SeenAt, SightedInTime, RevocationHolds
<1>1. CASE UNCHANGED vars
  BY <1>1, SameRequests DEF vars, requestVars
<1>2. CASE Edit
  BY <1>2, SameRequests DEF Edit, Truncate, Write, Replace, requestVars
<1>3. CASE ReadFile \/ LoadFails \/ PushLimits
  BY <1>3, SameRequests DEF ReadFile, LoadFails, PushLimits, requestVars
<1>4. CASE Start \/ StartWatch \/ HandleEvent \/ Tick
  BY <1>4, SameRequests DEF Start, StartWatch, HandleEvent, Tick, requestVars
<1>5. CASE SetEntries
  <2>1. /\ request' = request
        /\ sighted' = sighted \cup {q \in Requests : request[q].pc = "identified"
                                                    /\ request[q].account \in entries'}
    BY <1>5 DEF SetEntries
  <2>2. QED
    BY <1>0, <2>1 DEF SeenAt, SightedInTime, RevocationHolds
<1>6. CASE Exit
  BY <1>6 DEF Exit, Idle, SightedInTime, RevocationHolds
<1>7. ASSUME NEW q \in Requests, Chain(q) PROVE SightedInTime' /\ RevocationHolds'
  <2>1. entries' = entries
    BY <1>7, ChainEffect DEF LoadVars
  <2>2. /\ \A w \in Requests \ {q} : request'[w] = request[w]
        /\ \A w \in Requests \ {q} : w \in sighted => w \in sighted'
    BY <1>7 DEF Chain, Arrive, Unauthenticated, Authenticated, Authorize, Limit, RunUnlimited,
                Finish, Answered, Goto, Shapes
  <2>3. ASSUME Answered(q) PROVE SeenAt(q)'
    <3>1. request'[q] = Idle
      BY <2>3 DEF Answered, Shapes
    <3>2. QED
      BY <3>1 DEF Idle, SeenAt
  <2>4. ASSUME NEW a \in Accounts, NEW route \in Routes, Arrive(q, a, route) PROVE SeenAt(q)'
    <3>1. request'[q] = [pc |-> "review", account |-> a, route |-> route]
      BY <2>4 DEF Arrive, Shapes
    <3>2. QED
      BY <2>1, <2>4, <3>1 DEF Arrive, SeenAt
  <2>5. ASSUME NEW pc, Goto(q, pc)
        PROVE  request'[q].pc = pc /\ request'[q].account = request[q].account
    BY <2>5 DEF Goto, Shapes
  <2>6. ASSUME Authenticated(q) PROVE SeenAt(q)'
    BY <1>0, <2>1, <2>5, <2>6 DEF Authenticated, At, SeenAt
  <2>7. ASSUME IsAllowed(request[q].account), At(q, "identified"),
               Goto(q, "authorized"), UNCHANGED sighted
        PROVE  SeenAt(q)'
    BY <1>0, <2>5, <2>7 DEF IsAllowed, At, SeenAt
  <2>8. ASSUME At(q, "authorized"), Goto(q, "running"), UNCHANGED sighted PROVE SeenAt(q)'
    BY <1>0, <2>5, <2>8 DEF At, SeenAt
  <2>9. SeenAt(q)'
    BY <1>7, <2>3, <2>4, <2>6, <2>7, <2>8
       DEF Chain, Unauthenticated, Authorize, Limit, RunUnlimited, Finish
  <2>10. ASSUME NEW w \in Requests PROVE SeenAt(w)'
    <3>1. CASE w = q
      BY <2>9, <3>1
    <3>2. CASE w # q
      BY <1>0, <2>1, <2>2, <3>2 DEF SeenAt
    <3>3. QED
      BY <3>1, <3>2
  <2>11. QED
    BY <2>10 DEF SeenAt, SightedInTime, RevocationHolds
<1>8. QED
  BY <1>1, <1>2, <1>3, <1>4, <1>5, <1>6, <1>7 DEF Next, Load

\* The account a request is counted for.
CountedFor(q) ==
    IF At(q, "running") /\ request[q].route = "scan" THEN request[q].account ELSE None

LEMMA CountedStep == Shapes /\ RunningScansCounted /\ [Next]_vars => RunningScansCounted'
<1> SUFFICES ASSUME Shapes, RunningScansCounted, [Next]_vars PROVE RunningScansCounted'
  OBVIOUS
<1>0. \A q \in Requests : permits[q].account = CountedFor(q)
  BY DEF RunningScansCounted, CountedFor
<1>1. ASSUME UNCHANGED <<request, permits>> PROVE RunningScansCounted'
  BY <1>0, <1>1 DEF RunningScansCounted, CountedFor, At
<1>2. CASE UNCHANGED vars
  BY <1>1, <1>2 DEF vars, limiterVars, requestVars
<1>3. CASE Edit \/ Load \/ Start \/ StartWatch \/ HandleEvent \/ Tick
  BY <1>1, <1>3, LoadEffect
<1>4. CASE Exit
  BY <1>4 DEF Exit, Idle, RunningScansCounted, At, Limiter!NoPermit
<1>5. ASSUME NEW q \in Requests, Chain(q) PROVE RunningScansCounted'
  <2>1. \A w \in Requests \ {q} : request'[w] = request[w] /\ permits'[w] = permits[w]
    BY <1>5 DEF Chain, Arrive, Unauthenticated, Authenticated, Authorize, Limit, RunUnlimited,
                Finish, Answered, Goto, Shapes, limiterVars, Limiter!RejectConcurrency,
                Limiter!RejectRate, Limiter!Admit, Limiter!Release
  <2>2. ASSUME Answered(q) PROVE CountedFor(q)' = None
    BY <2>2 DEF Answered, Shapes, CountedFor, At, Idle
  <2>3. ASSUME NEW pc, Goto(q, pc)
        PROVE  request'[q].pc = pc /\ request'[q].account = request[q].account
               /\ request'[q].route = request[q].route
    BY <2>3 DEF Goto, Shapes
  <2>4. permits'[q].account = CountedFor(q)'
    <3>1. CASE \E a \in Accounts, route \in Routes : Arrive(q, a, route)
      <4>1. request'[q].pc = "review" /\ ~At(q, "running") /\ permits' = permits
        BY <3>1 DEF Arrive, Shapes, At, limiterVars
      <4>2. QED
        BY <1>0, <4>1 DEF CountedFor, At
    <3>2. CASE Unauthenticated(q)
      BY <1>0, <2>2, <3>2 DEF Unauthenticated, CountedFor, At, limiterVars
    <3>3. CASE Authenticated(q)
      BY <1>0, <2>3, <3>3 DEF Authenticated, CountedFor, At, limiterVars
    <3>4. CASE Authorize(q)
      BY <1>0, <2>2, <2>3, <3>4 DEF Authorize, CountedFor, At, limiterVars
    <3>5. CASE Limit(q)
      <4>1. ASSUME Limiter!Admit(q, request[q].account), Goto(q, "running")
            PROVE  permits'[q].account = CountedFor(q)'
        <5>1. permits'[q].account = request[q].account
          BY <4>1 DEF Limiter!Admit, Shapes
        <5>2. QED
          BY <2>3, <3>5, <4>1, <5>1 DEF Limit, CountedFor, At
      <4>2. ASSUME Answered(q), permits' = permits
            PROVE  permits'[q].account = CountedFor(q)'
        BY <1>0, <2>2, <3>5, <4>2 DEF Limit, CountedFor, At
      <4>3. QED
        BY <3>5, <4>1, <4>2 DEF Limit, Limiter!RejectConcurrency, Limiter!RejectRate
    <3>6. CASE RunUnlimited(q)
      BY <1>0, <2>3, <3>6 DEF RunUnlimited, CountedFor, At, limiterVars
    <3>7. CASE Finish(q)
      <4>1. CASE request[q].route = "scan"
        <5>1. permits'[q] = Limiter!NoPermit
          BY <3>7, <4>1 DEF Finish, Limiter!Release, Shapes
        <5>2. QED
          BY <2>2, <3>7, <5>1 DEF Finish, Limiter!NoPermit
      <4>2. CASE request[q].route # "scan"
        BY <1>0, <2>2, <3>7, <4>2 DEF Finish, CountedFor, limiterVars
      <4>3. QED
        BY <4>1, <4>2
    <3>8. QED
      BY <1>5, <3>1, <3>2, <3>3, <3>4, <3>5, <3>6, <3>7 DEF Chain
  <2>5. \A w \in Requests \ {q} : permits'[w].account = CountedFor(w)'
    BY <1>0, <2>1 DEF CountedFor, At
  <2>6. QED
    BY <2>4, <2>5 DEF RunningScansCounted, CountedFor, At
<1>6. QED
  BY <1>2, <1>3, <1>4, <1>5 DEF Next

LEMMA Invariance == Spec => []IInv
<1>1. IInv /\ [Next]_vars => IInv'
  BY ShapesStep, LoadStep, SeenStep, CountedStep DEF IInv
<1>2. QED
  BY <1>1, InitIInv, PTL DEF Spec

--------------------------------------------------------------------------------
\* Allowlist.load: a whole, valid file governs, for any files and any way they
\* are edited, whatever is refused meanwhile.
THEOREM WholeFiles == Spec => []OneFileGoverns
<1>1. IInv => OneFileGoverns
  BY DEF IInv
<1>2. QED
  BY <1>1, Invariance, PTL

\* Middleware.Handler: an account that is off the allowlist from the moment a
\* request arrives does not get past it, for any number of requests and reloads.
THEOREM Revocation == Spec => []RevocationHolds
<1>1. IInv => RevocationHolds
  BY DEF IInv
<1>2. QED
  BY <1>1, Invariance, PTL

\* Limiter.Handler: permits are held by running scans only, each for the account
\* it was authorised for, across reloads, refusals and restarts.
THEOREM PermitsOfRunning == Spec => []RunningScansCounted
<1>1. IInv => RunningScansCounted
  BY DEF IInv
<1>2. QED
  BY <1>1, Invariance, PTL

--------------------------------------------------------------------------------
(* The limiter's theorems, for the limiter in here: what they assume of the  *)
(* constants holds, and the definitions they are about are this module's.    *)

LP == INSTANCE RateLimiterProofs

LEMMA LimiterConstants == LP!LimiterAssumption
BY AccessAssumption
   DEF LP!LimiterAssumption, Limiter!LimiterAssumption, LP!Config, Limiter!Config,
       LP!Limits, Limiter!Limits, LP!Fields, Limiter!Fields,
       LP!IsFiniteSet, Limiter!IsFiniteSet

\* An instance has copies of the standard operators, too.
LEMMA SameCardinality ==
    ASSUME NEW S
    PROVE  LP!Cardinality(S) = Cardinality(S)
BY DEF LP!Cardinality, Cardinality

LEMMA SameInit == LP!Init <=> Limiter!Init
BY DEF LP!Init, Limiter!Init, LP!NoBucket, Limiter!NoBucket, LP!NoPermit, Limiter!NoPermit

LEMMA SameUpdate ==
    ASSUME NEW c, NEW al
    PROVE  LP!Update(c, al) <=> Limiter!Update(c, al)
BY DEF LP!Update, Limiter!Update, LP!Loadable, Limiter!Loadable, LP!ApplyRate,
       Limiter!ApplyRate, LP!Dropped, Limiter!Dropped, LP!LimitsOf, Limiter!LimitsOf,
       LP!AtMost, Limiter!AtMost, LP!NoBucket, Limiter!NoBucket, LP!For, Limiter!For,
       LP!Unlimited, Limiter!Unlimited, LP!Fields, Limiter!Fields,
       LP!Validate, Limiter!Validate, LP!ValidLimits, Limiter!ValidLimits

LEMMA SameTick == LP!Tick <=> Limiter!Tick
BY DEF LP!Tick, Limiter!Tick, LP!AtMost, Limiter!AtMost

LEMMA SameRelease == ASSUME NEW q PROVE LP!Release(q) <=> Limiter!Release(q)
BY DEF LP!Release, Limiter!Release, LP!NoPermit, Limiter!NoPermit

LEMMA SameStateOf ==
    ASSUME NEW a
    PROVE  /\ LP!StateOf(a) = Limiter!StateOf(a)
           /\ LP!LimitsOf(cfg, a) = Limiter!LimitsOf(cfg, a)
           /\ LP!Entry(a) = Limiter!Entry(a)
           /\ LP!NoPermit = Limiter!NoPermit
BY DEF LP!StateOf, Limiter!StateOf, LP!Fresh, Limiter!Fresh, LP!ApplyRate, Limiter!ApplyRate,
       LP!LimitsOf, Limiter!LimitsOf, LP!For, Limiter!For, LP!Unlimited, Limiter!Unlimited,
       LP!Fields, Limiter!Fields, LP!AtMost, Limiter!AtMost, LP!NoBucket, Limiter!NoBucket,
       LP!Entry, Limiter!Entry, LP!Reachable, Limiter!Reachable,
       LP!NoPermit, Limiter!NoPermit

LEMMA SameAcquire ==
    ASSUME NEW q, NEW a
    PROVE  /\ LP!Admit(q, a) <=> Limiter!Admit(q, a)
           /\ LP!RejectRate(q, a) <=> Limiter!RejectRate(q, a)
           /\ LP!RejectConcurrency(q, a) <=> Limiter!RejectConcurrency(q, a)
<1>1. /\ LP!AtLimit(a) <=> Limiter!AtLimit(a)
      /\ LP!HasToken(LP!StateOf(a).rate) <=> Limiter!HasToken(Limiter!StateOf(a).rate)
      /\ LP!RetryAfter(LP!StateOf(a).rate) = Limiter!RetryAfter(Limiter!StateOf(a).rate)
      /\ LP!Counted(LP!StateOf(a)) = Limiter!Counted(Limiter!StateOf(a))
  BY SameStateOf
     DEF LP!AtLimit, Limiter!AtLimit, LP!HasToken, Limiter!HasToken, LP!RetryAfter,
         Limiter!RetryAfter, LP!Counted, Limiter!Counted, LP!Charge, Limiter!Charge
<1>2. LP!Admit(q, a) <=> Limiter!Admit(q, a)
  BY <1>1, SameStateOf DEF LP!Admit, Limiter!Admit, LP!Store, Limiter!Store
<1>3. LP!RejectRate(q, a) <=> Limiter!RejectRate(q, a)
  BY <1>1, SameStateOf DEF LP!RejectRate, Limiter!RejectRate, LP!Store, Limiter!Store
<1>4. LP!RejectConcurrency(q, a) <=> Limiter!RejectConcurrency(q, a)
  BY <1>1, SameStateOf
     DEF LP!RejectConcurrency, Limiter!RejectConcurrency, LP!Store, Limiter!Store
<1>5. QED
  BY <1>2, <1>3, <1>4

LEMMA SameTypes == LP!TypeOK <=> Limiter!TypeOK
BY DEF LP!TypeOK, Limiter!TypeOK, LP!State, Limiter!State, LP!Bucket, Limiter!Bucket,
       LP!NoPermit, Limiter!NoPermit, LP!Validate, Limiter!Validate,
       LP!ValidLimits, Limiter!ValidLimits, LP!For, Limiter!For, LP!Fields, Limiter!Fields

LEMMA SameInvariants ==
    /\ LP!PermitsTracked <=> Limiter!PermitsTracked
    /\ LP!InflightExact <=> Limiter!InflightExact
    /\ LP!StrangersGo <=> Limiter!StrangersGo
    /\ LP!GaugeExact <=> Limiter!GaugeExact
    /\ LP!RetryAfterHonest <=> Limiter!RetryAfterHonest
BY DEF LP!PermitsTracked, Limiter!PermitsTracked, LP!InflightExact, Limiter!InflightExact,
       LP!StrangersGo, Limiter!StrangersGo, LP!GaugeExact, Limiter!GaugeExact,
       LP!RetryAfterHonest, Limiter!RetryAfterHonest, LP!Holders, Limiter!Holders,
       LP!HoldersOf, Limiter!HoldersOf, LP!HasToken, Limiter!HasToken,
       LP!NoPermit, Limiter!NoPermit, LP!Cardinality, Limiter!Cardinality

--------------------------------------------------------------------------------
(* The types. *)

\* The types of this module's own variables.
OwnTypes ==
    /\ editing \in BOOLEAN
    /\ watch \in {"none", "on", "lost"}
    /\ events \in 0..MaxEvents
    /\ server \in {"down", "loading", "loaded", "serving"}
    /\ entries \in SUBSET Accounts
    /\ request \in [Requests ->
         [pc : {"review", "identified", "authorized", "running"},
          account : Accounts, route : Routes] \cup {Idle}]
    /\ sighted \in SUBSET Requests
    /\ due \in Files \cup {None}

\* What may be loaded is content.
LEMMA LoadableTyped ==
    ASSUME NEW f \in Files \cup {Empty}
    PROVE  /\ f \in Contents
           /\ f.allow \in Allowlists /\ f.allow \in SUBSET Accounts
           /\ f.limits \in Configs \cup {None}
<1>1. Empty \in Contents
  BY DEF Empty, Contents
<1>2. f \in Contents
  BY <1>1, AccessAssumption
<1>3. QED
  BY <1>2 DEF Contents, Allowlists

LEMMA EventsBound == MaxEvents \in Nat /\ 0 \in 0..MaxEvents
<1>1. MaxEvents \in Nat \ {0}
  BY AccessAssumption
<1>2. QED
  BY <1>1

LEMMA InitOwnTypes == Init => OwnTypes
BY EventsBound DEF Init, OwnTypes

\* The chain of one request, as far as its types go.
LEMMA ChainTyped ==
    ASSUME Shapes, OwnTypes, NEW q \in Requests, Chain(q)
    PROVE  /\ request' \in [Requests ->
                [pc : {"review", "identified", "authorized", "running"},
                 account : Accounts, route : Routes] \cup {Idle}]
           /\ sighted' \in SUBSET Requests
<1> DEFINE Under == [pc : {"review", "identified", "authorized", "running"},
                     account : Accounts, route : Routes]
<1>1. request \in [Requests -> Under \cup {Idle}] /\ sighted \in SUBSET Requests
  BY DEF OwnTypes
<1>2. ASSUME request' = [request EXCEPT ![q] = Idle]
      PROVE  request' \in [Requests -> Under \cup {Idle}]
  BY <1>1, <1>2
<1>3. ASSUME NEW a \in Accounts, NEW route \in Routes, Arrive(q, a, route)
      PROVE  request' \in [Requests -> Under \cup {Idle}]
  <2>1. [pc |-> "review", account |-> a, route |-> route] \in Under
    OBVIOUS
  <2> HIDE DEF Under
  <2>2. QED
    BY <1>1, <1>3, <2>1 DEF Arrive
<1>4. ASSUME NEW pc \in {"identified", "authorized", "running"}, Goto(q, pc), ~At(q, "idle")
      PROVE  request' \in [Requests -> Under \cup {Idle}]
  <2>1. request[q] \in Under
    BY <1>1, <1>4 DEF At, Idle
  <2>2. [request[q] EXCEPT !.pc = pc] \in Under
    BY <2>1
  <2>3. request' = [request EXCEPT ![q] = [request[q] EXCEPT !.pc = pc]]
    BY <1>4 DEF Goto
  <2> HIDE DEF Under
  <2>4. QED
    BY <1>1, <2>2, <2>3
<1>5. request' \in [Requests -> Under \cup {Idle}]
  <2>1. CASE Authenticated(q)
    BY <1>4, <2>1 DEF Authenticated, At
  <2>2. CASE Authorize(q)
    BY <1>2, <1>4, <2>2 DEF Authorize, Answered, At
  <2>3. CASE Limit(q)
    BY <1>2, <1>4, <2>3 DEF Limit, Answered, At
  <2>4. CASE RunUnlimited(q)
    BY <1>4, <2>4 DEF RunUnlimited, At
  <2>5. CASE Unauthenticated(q) \/ Finish(q)
    BY <1>2, <2>5 DEF Unauthenticated, Finish, Answered
  <2>6. QED
    BY <1>3, <2>1, <2>2, <2>3, <2>4, <2>5 DEF Chain
<1>6. sighted' \in SUBSET Requests
  BY <1>1 DEF Chain, Arrive, Unauthenticated, Authenticated, Authorize, Limit, RunUnlimited,
              Finish, Answered
<1>7. QED
  BY <1>5, <1>6

LEMMA OwnTypesStep == Shapes /\ OwnTypes /\ [Next]_vars => OwnTypes'
<1> SUFFICES ASSUME Shapes, OwnTypes, [Next]_vars PROVE OwnTypes'
  OBVIOUS
<1>1. CASE UNCHANGED vars
  BY <1>1 DEF vars, fileVars, watchVars, requestVars, OwnTypes
<1>2. CASE Edit
  <2>1. events' \in 0..MaxEvents
    <3>1. events' = events \/ events' \in 1..MaxEvents
      BY <1>2 DEF Edit, Truncate, Write, Replace, Notified
    <3>2. QED
      BY <3>1, EventsBound DEF OwnTypes
  <2>2. due' \in Files \cup {None}
    BY <1>2 DEF Edit, Truncate, Write, Replace
  <2>3. editing' \in BOOLEAN /\ watch' \in {"none", "on", "lost"}
    BY <1>2 DEF Edit, Truncate, Write, Replace, OwnTypes
  <2>4. UNCHANGED <<server, entries, request, sighted>>
    BY <1>2 DEF Edit, Truncate, Write, Replace, requestVars
  <2>5. QED
    BY <2>1, <2>2, <2>3, <2>4 DEF OwnTypes
<1>3. CASE Load
  <2>1. UNCHANGED <<editing, watch, events, request, due>>
    BY <1>3, LoadEffect
       DEF Load, ReadFile, LoadFails, SetEntries, PushLimits, fileVars, watchVars
  <2>2. server' \in {"down", "loading", "loaded", "serving"}
    BY <1>3 DEF Load, ReadFile, LoadFails, SetEntries, PushLimits, OwnTypes
  <2>3. entries' \in SUBSET Accounts
    <3>1. loader.got \in Files \cup {Empty}
      BY DEF Shapes
    <3>2. loader.got.allow \in SUBSET Accounts
      BY <3>1, LoadableTyped
    <3>3. QED
      BY <1>3, <3>2 DEF Load, ReadFile, LoadFails, SetEntries, PushLimits, OwnTypes
  <2>4. sighted' \in SUBSET Requests
    BY <1>3 DEF Load, ReadFile, LoadFails, SetEntries, PushLimits, requestVars, OwnTypes
  <2>5. QED
    BY <2>1, <2>2, <2>3, <2>4 DEF OwnTypes
<1>4. CASE Start \/ StartWatch \/ HandleEvent \/ Tick
  <2>1. events' \in 0..MaxEvents
    <3>1. events' = events \/ (events > 0 /\ events' = events - 1)
      BY <1>4 DEF Start, StartWatch, HandleEvent, Tick, watchVars
    <3>2. QED
      BY <3>1, EventsBound DEF OwnTypes
  <2>2. UNCHANGED <<editing, entries, request, sighted, due>>
    BY <1>4 DEF Start, StartWatch, HandleEvent, Tick, fileVars, requestVars
  <2>3. /\ server' \in {"down", "loading", "loaded", "serving"}
        /\ watch' \in {"none", "on", "lost"}
    BY <1>4 DEF Start, StartWatch, HandleEvent, Tick, watchVars, OwnTypes
  <2>4. QED
    BY <2>1, <2>2, <2>3 DEF OwnTypes
<1>5. CASE Exit
  <2>1. request' \in [Requests -> {Idle}]
    BY <1>5 DEF Exit
  <2>2. QED
    BY <1>5, <2>1, EventsBound DEF Exit, fileVars, OwnTypes
<1>6. ASSUME NEW q \in Requests, Chain(q) PROVE OwnTypes'
  <2>1. UNCHANGED <<editing, watch, events, server, entries, due>>
    BY <1>6 DEF Chain, Arrive, Unauthenticated, Authenticated, Authorize, Limit, RunUnlimited,
                Finish, fileVars, watchVars
  <2>2. QED
    BY <1>6, <2>1, ChainTyped DEF OwnTypes
<1>7. QED
  BY <1>1, <1>2, <1>3, <1>4, <1>5, <1>6 DEF Next

--------------------------------------------------------------------------------
(* The limiter's part. *)

\* Whatever happens in the service is a step of the limiter, nothing to it, or a
\* restart: the loader updates it with what may be loaded, and a request acquires
\* and releases for the account it came with.
LEMMA LimiterStep ==
    ASSUME Shapes, OwnTypes, [Next]_vars
    PROVE  [LP!Next]_(LP!vars) \/ LP!Init'
<1>1. ASSUME UNCHANGED limiterVars PROVE [LP!Next]_(LP!vars)
  BY <1>1 DEF limiterVars, LP!vars
<1>2. CASE UNCHANGED vars \/ Edit \/ Start \/ StartWatch \/ HandleEvent
  BY <1>1, <1>2 DEF vars, Edit, Truncate, Write, Replace, Start, StartWatch, HandleEvent
<1>3. CASE Load
  <2>1. CASE PushLimits
    <3>1. loader.got \in Files \cup {Empty}
      BY DEF Shapes
    <3>2. /\ loader.got.limits \in Configs \cup {None} /\ loader.got.allow \in Allowlists
          /\ LP!Update(loader.got.limits, loader.got.allow)
      BY <2>1, <3>1, LoadableTyped, SameUpdate DEF PushLimits
    <3>3. QED
      BY <3>2 DEF LP!Next
  <2>2. CASE ReadFile \/ LoadFails \/ SetEntries
    BY <1>1, <2>2 DEF ReadFile, LoadFails, SetEntries
  <2>3. QED
    BY <1>3, <2>1, <2>2 DEF Load
<1>4. CASE Exit
  BY <1>4 DEF Exit, LP!Init, LP!NoBucket, Limiter!NoBucket, LP!NoPermit, Limiter!NoPermit
<1>5. ASSUME NEW q \in Requests, Chain(q) PROVE [LP!Next]_(LP!vars)
  <2>1. CASE Limit(q)
    <3>1. request[q].account \in Accounts
      BY <2>1 DEF Limit, At, Idle, OwnTypes
    <3>2. PICK a \in Accounts : a = request[q].account
      BY <3>1
    <3>3. \/ LP!RejectConcurrency(q, a) \/ LP!RejectRate(q, a)
          \/ LP!Admit(q, a)
      BY <2>1, <3>2, SameAcquire DEF Limit
    <3>4. QED
      BY <3>3 DEF LP!Next
  <2>2. CASE Finish(q)
    <3>1. LP!Release(q) \/ UNCHANGED limiterVars
      BY <2>2, SameRelease DEF Finish
    <3>2. QED
      BY <1>1, <3>1 DEF LP!Next
  <2>3. QED
    BY <1>1, <1>5, <2>1, <2>2 DEF Chain, Arrive, Unauthenticated, Authenticated, Authorize,
                                  RunUnlimited
<1>6. CASE Tick
  BY <1>6, SameTick DEF Tick, LP!Next
<1>7. QED
  BY <1>2, <1>3, <1>4, <1>5, <1>6 DEF Next

LEMMA SoundStep == Shapes /\ OwnTypes /\ LP!Sound /\ [Next]_vars => LP!Sound'
<1>1. (LP!Init => LP!Sound)'
  BY LimiterConstants, LP!InitSound, PTL
<1>2. LP!Sound /\ [LP!Next]_(LP!vars) => LP!Sound'
  BY LimiterConstants, LP!NextSound
<1>3. QED
  BY <1>1, <1>2, LimiterStep

--------------------------------------------------------------------------------
(* A write that the watch has seen. *)

\* The last edit is what is in the file, until the next one begins.
DueIsFile == due # None => file = due /\ ~editing /\ server = "serving"

\* A load that will bring f, or has read it.
Underway(f) == loader.pc = "read" \/ (loader.pc \in {"entries", "limits"} /\ loader.got = f)

\* f governs, and no load is about to change that.
Loaded(f) == InForce(f) /\ loader.pc = "idle"

\* A valid file written in place while the watch is on its inode is either still
\* to be reported, or being read, or in force: no merged notification, no load
\* that was under way and no refused file before it makes the service miss it.
NoLostWrite ==
    \A f \in Files :
        due = f /\ watch = "on" /\ Valid(f) => events > 0 \/ Underway(f) \/ Loaded(f)

LEMMA DueStep == Shapes /\ OwnTypes /\ DueIsFile /\ [Next]_vars => DueIsFile'
<1> SUFFICES ASSUME Shapes, OwnTypes, DueIsFile, [Next]_vars PROVE DueIsFile'
  OBVIOUS
<1>1. ASSUME UNCHANGED <<due, file, editing, server>> PROVE DueIsFile'
  BY <1>1 DEF DueIsFile
<1>2. CASE UNCHANGED vars \/ HandleEvent \/ Tick
  BY <1>1, <1>2 DEF vars, HandleEvent, Tick, fileVars
<1>3. CASE Edit
  BY <1>3 DEF Edit, Truncate, Write, Replace, DueIsFile
<1>4. CASE Load
  BY <1>4 DEF Load, ReadFile, LoadFails, SetEntries, PushLimits, fileVars, DueIsFile
<1>5. CASE Start \/ StartWatch
  BY <1>5 DEF Start, StartWatch, fileVars, DueIsFile
<1>6. CASE Exit
  BY <1>6 DEF Exit, DueIsFile
<1>7. ASSUME NEW q \in Requests, Chain(q) PROVE DueIsFile'
  BY <1>1, <1>7
     DEF Chain, Arrive, Unauthenticated, Authenticated, Authorize, Limit, RunUnlimited,
         Finish, fileVars
<1>8. QED
  BY <1>2, <1>3, <1>4, <1>5, <1>6, <1>7 DEF Next

LEMMA WriteStep ==
    Shapes /\ OwnTypes /\ LoadsOneFile /\ DueIsFile /\ NoLostWrite /\ [Next]_vars
       => NoLostWrite'
<1> SUFFICES ASSUME Shapes, OwnTypes, LoadsOneFile, DueIsFile, NoLostWrite, [Next]_vars,
                    NEW f \in Files, due' = f, watch' = "on", Valid(f)
             PROVE  (events > 0 \/ Underway(f) \/ Loaded(f))'
  BY DEF NoLostWrite
<1>0. events \in Nat /\ due' # None
  <2>1. events \in Nat
    BY EventsBound DEF OwnTypes
  <2>2. due' # None
    BY AccessAssumption
  <2>3. QED
    BY <2>1, <2>2
<1>1. ASSUME UNCHANGED LoadVars, UNCHANGED <<events, watch, due>>
      PROVE  (events > 0 \/ Underway(f) \/ Loaded(f))'
  <2>1. events > 0 \/ Underway(f) \/ Loaded(f)
    BY <1>1 DEF NoLostWrite
  <2>2. QED
    BY <1>1, <2>1 DEF LoadVars, Underway, Loaded, InForce
<1>2. CASE UNCHANGED vars
  BY <1>1, <1>2 DEF vars, limiterVars, watchVars, LoadVars
<1>3. CASE Tick
  BY <1>1, <1>3 DEF Tick, Limiter!Tick, watchVars, LoadVars
<1>4. ASSUME NEW q \in Requests, Chain(q) PROVE (events > 0 \/ Underway(f) \/ Loaded(f))'
  <2>1. UNCHANGED <<events, watch, due>>
    BY <1>4 DEF Chain, Arrive, Unauthenticated, Authenticated, Authorize, Limit, RunUnlimited,
                Finish, watchVars
  <2>2. QED
    BY <1>1, <1>4, <2>1, ChainEffect
<1>5. CASE Edit
  <2>1. watch = "on" /\ \E g \in Files : Write(g)
    BY <1>0, <1>5 DEF Edit, Truncate, Write, Replace, OwnTypes
  <2>2. events' \in 1..MaxEvents
    BY <2>1 DEF Write, Notified
  <2>3. QED
    BY <2>2, EventsBound
<1>6. CASE Start \/ StartWatch \/ Exit
  <2>1. due' = None
    BY <1>6 DEF Start, StartWatch, Exit, DueIsFile
  <2>2. QED
    BY <1>0, <2>1
<1>7. CASE HandleEvent
  BY <1>7 DEF HandleEvent, NotLoading, Underway
<1>8. CASE Load
  <2>1. /\ due = f /\ watch = "on" /\ events' = events /\ file = f
        /\ events > 0 \/ Underway(f) \/ Loaded(f)
    <3>1. due = f /\ watch = "on" /\ events' = events
      BY <1>8 DEF Load, ReadFile, LoadFails, SetEntries, PushLimits, watchVars
    <3>2. QED
      BY <1>0, <3>1 DEF NoLostWrite, DueIsFile
  <2>2. CASE ReadFile
    <3>1. loader' = [pc |-> "entries", got |-> f]
      BY <2>1, <2>2 DEF ReadFile
    <3>2. QED
      BY <3>1 DEF Underway
  <2>3. CASE LoadFails
    BY <2>1, <2>3 DEF LoadFails
  <2>4. CASE SetEntries
    <3>1. loader' = [loader EXCEPT !.pc = "limits"] /\ loader.pc = "entries"
      BY <2>4 DEF SetEntries
    <3>2. loader'.pc = "limits" /\ loader'.got = loader.got
      BY <3>1 DEF Shapes
    <3>3. QED
      BY <2>1, <3>1, <3>2 DEF Underway, Loaded
  <2>5. CASE PushLimits
    <3>1. /\ loader.pc = "limits" /\ loader'.pc = "idle" /\ entries' = entries
          /\ cfg' = loader.got.limits /\ allowed' = loader.got.allow
          /\ entries = loader.got.allow
      BY <2>5 DEF PushLimits, NotLoading, Limiter!Update, LoadsOneFile
    <3>2. QED
      BY <2>1, <3>1 DEF Underway, Loaded, InForce
  <2>6. QED
    BY <1>8, <2>2, <2>3, <2>4, <2>5 DEF Load
<1>9. QED
  BY <1>2, <1>3, <1>4, <1>5, <1>6, <1>7, <1>8 DEF Next

--------------------------------------------------------------------------------
(* Everything together. *)

Whole == IInv /\ OwnTypes /\ LP!Sound /\ DueIsFile /\ NoLostWrite

LEMMA WholeInvariance == Spec => []Whole
<1>1. Init => Whole
  <2> SUFFICES ASSUME Init PROVE Whole
    OBVIOUS
  <2>1. LP!Sound
    BY LimiterConstants, LP!InitSound, SameInit DEF Init
  <2>2. DueIsFile
    BY DEF Init, DueIsFile
  <2>3. NoLostWrite
    BY DEF Init, NoLostWrite
  <2>4. QED
    BY <2>1, <2>2, <2>3, InitIInv, InitOwnTypes DEF Whole
<1>2. Whole /\ [Next]_vars => Whole'
  <2>1. IInv /\ [Next]_vars => IInv'
    BY ShapesStep, LoadStep, SeenStep, CountedStep DEF IInv
  <2>2. IInv => Shapes /\ LoadsOneFile
    BY DEF IInv
  <2>3. QED
    BY <2>1, <2>2, OwnTypesStep, SoundStep, DueStep, WriteStep DEF Whole
<1>3. QED
  BY <1>1, <1>2, PTL DEF Spec

\* Type correctness of the composition, the limiter's variables included: limits
\* in force are valid ones, whatever files operators write.
THEOREM TypeCorrect == Spec => []TypeOK
<1>1. Whole => TypeOK
  <2> SUFFICES ASSUME Whole PROVE TypeOK
    OBVIOUS
  <2>1. Limiter!TypeOK
    BY LimiterConstants, LP!SoundImplies, SameTypes DEF Whole
  <2>2. file \in Contents
    BY LoadableTyped DEF Whole, IInv, Shapes
  <2>3. loader \in [pc : {"idle", "read", "entries", "limits"}, got : Contents]
    BY LoadableTyped DEF Whole, IInv, Shapes
  <2>4. QED
    BY <2>1, <2>2, <2>3 DEF Whole, OwnTypes, TypeOK
<1>2. QED
  BY <1>1, WholeInvariance, PTL

\* The composition uses the limiter as module RateLimiter describes it: its state
\* changes by Update, Acquire, release and time only (what main.go wires up), and
\* starts afresh with the process.
THEOREM LimiterDriven == Spec => Limiter!Init /\ [][Limiter!Next \/ Limiter!Init']_limiterVars
<1>1. Init => Limiter!Init
  BY DEF Init
<1>2. Whole /\ [Next]_vars => [Limiter!Next \/ Limiter!Init']_limiterVars
  <2> SUFFICES ASSUME Whole, [Next]_vars PROVE [Limiter!Next \/ Limiter!Init']_limiterVars
    OBVIOUS
  <2>1. [LP!Next]_(LP!vars) \/ LP!Init'
    BY LimiterStep DEF Whole, IInv
  <2>2. LP!Next => Limiter!Next
    BY SameUpdate, SameAcquire, SameRelease, SameTick DEF LP!Next, Limiter!Next
  <2>3. LP!Init' => Limiter!Init'
    BY DEF LP!Init, Limiter!Init, LP!NoBucket, Limiter!NoBucket, LP!NoPermit, Limiter!NoPermit
  <2>4. LP!vars' = LP!vars => UNCHANGED limiterVars
    BY DEF LP!vars, limiterVars
  <2>5. QED
    BY <2>1, <2>2, <2>3, <2>4
<1>3. QED
  BY <1>1, <1>2, WholeInvariance, PTL DEF Spec

\* So what the limiter promises holds of it in the service, across file edits,
\* refused files, revoked accounts and restarts; its buckets are under the limits
\* loaded last.
THEOREM LimiterHolds ==
    Spec => [](/\ Limiter!PermitsTracked /\ Limiter!InflightExact /\ Limiter!StrangersGo
               /\ Limiter!GaugeExact /\ Limiter!RetryAfterHonest /\ LP!LimitsApplied)
<1>1. Whole => /\ Limiter!PermitsTracked /\ Limiter!InflightExact /\ Limiter!StrangersGo
               /\ Limiter!GaugeExact /\ Limiter!RetryAfterHonest /\ LP!LimitsApplied
  BY LimiterConstants, LP!SoundImplies, SameInvariants DEF Whole
<1>2. QED
  BY <1>1, WholeInvariance, PTL

\* The model never runs out of pointers where it has as many as accounts, so that
\* the steps of Limit(q) are blocked by the code's conditions alone.
THEOREM PointersSuffice ==
    ASSUME LP!EnoughPointers
    PROVE  Spec => [](\A a \in Accounts : Limiter!Entry(a) # {})
<1>1. Whole => \A a \in Accounts : Limiter!Entry(a) # {}
  <2> SUFFICES ASSUME Whole, NEW a \in Accounts PROVE Limiter!Entry(a) # {}
    OBVIOUS
  <2>1. LP!IInv
    BY DEF Whole, LP!Sound
  <2>2. QED
    BY <2>1, LimiterConstants, LP!EntryFound, SameStateOf
<1>2. QED
  BY <1>1, WholeInvariance, PTL

\* The scans of account a whose handler runs.
Running(a) ==
    {q \in Requests : At(q, "running") /\ request[q].route = "scan" /\ request[q].account = a}

\* They are the requests that hold a permit of a.
LEMMA RunningAreHolders ==
    RunningScansCounted => \A a \in Accounts : Running(a) = LP!HoldersOf(a)
<1> SUFFICES ASSUME RunningScansCounted, NEW a \in Accounts
             PROVE  Running(a) = LP!HoldersOf(a)
  OBVIOUS
<1>1. a # None
  BY AccessAssumption DEF Limiter!LimiterAssumption
<1>2. QED
  BY <1>1 DEF Running, LP!HoldersOf, RunningScansCounted

\* A scan starts only if, with it, no more run than the limit in force allows.
LEMMA ScanStarts ==
    ASSUME Whole, RunningScansCounted', [Next]_vars, NEW q \in Requests, NEW a \in Accounts,
           ~At(q, "running"), q \in Running(a)',
           Limiter!LimitsOf(cfg, a)["maxConcurrent"] > 0
    PROVE  Cardinality(Running(a)') <= Limiter!LimitsOf(cfg, a)["maxConcurrent"]
<1>1. Running(a)' = LP!HoldersOf(a)'
  <2>1. a # None
    BY AccessAssumption DEF Limiter!LimiterAssumption
  <2>2. QED
    BY <2>1 DEF Running, LP!HoldersOf, RunningScansCounted
<1>2. permits'[q].account = a /\ permits[q] = LP!NoPermit
  <2>1. permits'[q].account = a
    BY DEF Running, RunningScansCounted
  <2>2. permits[q].account = None
    BY DEF Whole, IInv, RunningScansCounted
  <2>3. LP!TypeOK /\ None \notin Accounts
    BY LimiterConstants, LP!SoundImplies DEF Whole, LP!LimiterAssumption
  <2>4. permits[q] = LP!NoPermit
    BY <2>2, <2>3 DEF LP!TypeOK
  <2>5. QED
    BY <2>1, <2>4
<1>3. [LP!Next]_(LP!vars)
  <2>1. ASSUME LP!Init' PROVE FALSE
    <3>1. permits'[q].account = None
      BY <2>1 DEF LP!Init, LP!NoPermit
    <3>2. QED
      BY <1>2, <3>1, AccessAssumption DEF Limiter!LimiterAssumption
  <2>2. QED
    BY <2>1, LimiterStep DEF Whole, IInv
<1>4. LP!Cardinality(LP!HoldersOf(a)') <= LP!LimitsOf(cfg, a)["maxConcurrent"]
  <2>1. LP!IInv /\ LP!LimitsOf(cfg, a)["maxConcurrent"] > 0
    BY SameStateOf DEF Whole, LP!Sound
  <2>2. QED
    BY <1>2, <1>3, <2>1, LimiterConstants, LP!BoundStep
<1>5. QED
  BY <1>1, <1>4, SameStateOf, SameCardinality

\* maxConcurrent, end to end: no scan of an account starts that would be one too
\* many for the limits in force, whatever was loaded while the others ran.
ScansBounded ==
    [][\A q \in Requests, a \in Accounts :
         (/\ ~At(q, "running") /\ q \in Running(a)'
          /\ Limiter!LimitsOf(cfg, a)["maxConcurrent"] > 0)
            => Cardinality(Running(a)') <= Limiter!LimitsOf(cfg, a)["maxConcurrent"]]_vars

\* The limit holds of the handlers running, not only of the permits the limiter
\* has given out (Limiter.Handler around ScanHandler).
THEOREM Bound == Spec => ScansBounded
<1>1. Whole /\ Whole' /\ [Next]_vars =>
        [\A q \in Requests, a \in Accounts :
         (/\ ~At(q, "running") /\ q \in Running(a)'
          /\ Limiter!LimitsOf(cfg, a)["maxConcurrent"] > 0)
            => Cardinality(Running(a)') <= Limiter!LimitsOf(cfg, a)["maxConcurrent"]]_vars
  BY ScanStarts DEF Whole, IInv
<1>2. QED
  BY <1>1, WholeInvariance, PTL DEF Spec, ScansBounded

\* The in-flight metric of every account is the number of its scans whose handler
\* runs, at any moment and for any sequence of reloads, refusals and restarts.
THEOREM MetricShowsScans == Spec => [](\A a \in Accounts : gauge[a] = Cardinality(Running(a)))
<1>1. Whole => \A a \in Accounts : gauge[a] = Cardinality(Running(a))
  <2> SUFFICES ASSUME Whole, NEW a \in Accounts PROVE gauge[a] = Cardinality(Running(a))
    OBVIOUS
  <2>1. Running(a) = LP!HoldersOf(a)
    BY RunningAreHolders DEF Whole, IInv
  <2>2. LP!GaugeExact
    BY DEF Whole, LP!Sound
  <2>3. gauge[a] = LP!Cardinality(LP!HoldersOf(a))
    BY <2>2 DEF LP!GaugeExact
  <2>4. QED
    BY <2>1, <2>3, SameCardinality
<1>2. QED
  BY <1>1, WholeInvariance, PTL

\* Allowlist.Watch: a valid file written in place on a live watch is never lost.
\* What the loader's fairness adds, that it governs in the end, is WrittenIsLoaded.
THEOREM WritesSurvive == Spec => []NoLostWrite
<1>1. Whole => NoLostWrite
  BY DEF Whole
<1>2. QED
  BY <1>1, WholeInvariance, PTL
================================================================================
