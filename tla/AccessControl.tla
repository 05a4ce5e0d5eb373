----------------------------- MODULE AccessControl -----------------------------
(***************************************************************************)
(* Who may scan: the allowlist file, its loading and watching              *)
(* (internal/auth/allowlist.go), the chain of handlers a request passes    *)
(* (authentication, allowlist, rate limiter), and the rate limiter, which  *)
(* is module RateLimiter with its critical sections as steps.              *)
(*                                                                         *)
(* A load is three steps: the file is read and checked, the allowlist's    *)
(* own map is replaced under its mutex, the limiter is updated under the   *)
(* limiter's.  Requests read the two in between, one after the other, and  *)
(* operators edit the file at any time, in place (truncate, then write) or *)
(* by renaming a new file over it.  Kubernetes' TokenReview, the kernel's  *)
(* file notifications and the operators are external.                      *)
(***************************************************************************)
EXTENDS Integers, FiniteSets

CONSTANTS Accounts, Requests, Refs, None, Configs, Minute,  \* see RateLimiter
          Files,        \* the contents operators write
          EditStyles,   \* how they write them: "in place", "rename"
          MaxEvents     \* bound: notifications that wait to be read

VARIABLES cfg, allowed, accounts, heap, permits, gauge, promise

limiterVars == <<cfg, allowed, accounts, heap, permits, gauge, promise>>

VARIABLES file,         \* the content at the file's path
          editing,      \* an operator has truncated it and not yet written it
          watch,        \* the watch on its inode: "none", "on", "lost"
          events,       \* write notifications that wait for the watcher
          server,       \* "down", "loading", "loaded", "serving"
          loader,       \* load(): where it is, and what it has read
          entries,      \* the allowlist's map
          request,      \* each request: where it is, its account and route
          sighted,      \* history: requests whose account was on the list after TokenReview
          due           \* history: the last edit finished since serving

fileVars == <<file, editing>>
watchVars == <<watch, events>>
requestVars == <<request, sighted>>
vars == <<limiterVars, fileVars, watchVars, server, loader, entries, requestVars, due>>

\* What is left of a truncated file: it parses, allows nobody, has no limits.
Empty == [parses |-> TRUE, allow |-> {}, limits |-> None]
Contents == [parses : BOOLEAN, allow : SUBSET Accounts, limits : Configs \cup {None}]

\* The allowlists that may be loaded.
Allowlists == {f.allow : f \in Files \cup {Empty}}

Limiter == INSTANCE RateLimiter

ASSUME AccessAssumption ==
    /\ Limiter!LimiterAssumption
    /\ Files \subseteq Contents /\ None \notin Files
    /\ EditStyles \subseteq {"in place", "rename"}
    /\ MaxEvents \in Nat \ {0}

\* The file is read and parsed, and its rateLimits section is valid.  A file
\* that cannot be read fails like one that does not parse.
Valid(f) == f.parses /\ Limiter!Loadable(f.limits)

\* The content f governs: the allowlist's map and the limiter have it.
InForce(f) == entries = f.allow /\ allowed = f.allow /\ cfg = f.limits

Routes == {"scan", "other"}
Idle == [pc |-> "idle", account |-> None, route |-> None]
NotLoading == [pc |-> "idle", got |-> Empty]

Init ==
    /\ Limiter!Init
    /\ file \in Files /\ editing = FALSE
    /\ watch = "none" /\ events = 0
    /\ server = "down" /\ loader = NotLoading /\ entries = {}
    /\ request = [q \in Requests |-> Idle] /\ sighted = {}
    /\ due = None

--------------------------------------------------------------------------------
(* The file and its watch: operators and the kernel. *)

\* A mutant: a notification that comes while the watcher is busy is lost.
Notified_WhenIdle ==
    events' = IF watch = "on" /\ loader.pc = "idle" THEN 1 ELSE events

\* A write to the watched inode is one more notification, or is merged with one
\* that waits already.
Notified ==
    IF watch # "on" THEN UNCHANGED events
    ELSE events' \in {n \in 1..MaxEvents : n \in {events, events + 1}}

Truncate ==
    /\ "in place" \in EditStyles /\ ~editing
    /\ file' = Empty /\ editing' = TRUE
    /\ Notified
    /\ due' = None
    /\ UNCHANGED <<limiterVars, watch, server, loader, entries, requestVars>>

Write(f) ==
    /\ editing
    /\ file' = f /\ editing' = FALSE
    /\ Notified
    /\ due' = IF server = "serving" THEN f ELSE None
    /\ UNCHANGED <<limiterVars, watch, server, loader, entries, requestVars>>

\* The old inode is gone and the watch with it; what the kernel reports of that
\* (attributes changed, deleted) is neither Write nor Create.
Replace(f) ==
    /\ "rename" \in EditStyles /\ ~editing
    /\ file' = f
    /\ watch' = IF watch = "on" THEN "lost" ELSE watch
    /\ due' = IF server = "serving" THEN f ELSE None
    /\ UNCHANGED <<limiterVars, editing, events, server, loader, entries, requestVars>>

--------------------------------------------------------------------------------
(* Starting, loading and watching. *)

\* The service manager starts the process; New begins with the first load.
Start ==
    /\ server = "down"
    /\ server' = "loading" /\ loader' = [NotLoading EXCEPT !.pc = "read"]
    /\ UNCHANGED <<limiterVars, fileVars, watchVars, entries, requestVars, due>>

ReadFile ==
    /\ loader.pc = "read" /\ Valid(file)
    /\ loader' = [pc |-> "entries", got |-> file]
    /\ UNCHANGED <<limiterVars, fileVars, watchVars, server, entries, requestVars, due>>

\* A mutant: the section is checked once the allowlist is in place.
LoadFails_Late ==
    /\ loader.pc = "read" /\ ~Valid(file)
    /\ entries' = file.allow
    /\ loader' = NotLoading
    /\ server' = IF server = "loading" THEN "down" ELSE server
    /\ UNCHANGED <<limiterVars, fileVars, watchVars, requestVars, due>>

\* At the start an error ends the process; later it is logged, and what was
\* loaded before stays.
LoadFails ==
    /\ loader.pc = "read" /\ ~Valid(file)
    /\ loader' = NotLoading
    /\ server' = IF server = "loading" THEN "down" ELSE server
    /\ UNCHANGED <<limiterVars, fileVars, watchVars, entries, requestVars, due>>

SetEntries ==
    /\ loader.pc = "entries"
    /\ entries' = loader.got.allow
    /\ sighted' = sighted \cup {q \in Requests : request[q].pc = "identified"
                                                /\ request[q].account \in entries'}
    /\ loader' = [loader EXCEPT !.pc = "limits"]
    /\ UNCHANGED <<limiterVars, fileVars, watchVars, server, request, due>>

PushLimits ==
    /\ loader.pc = "limits"
    /\ Limiter!Update(loader.got.limits, loader.got.allow)
    /\ loader' = NotLoading
    /\ server' = IF server = "loading" THEN "loaded" ELSE server
    /\ UNCHANGED <<fileVars, watchVars, entries, requestVars, due>>

\* Watch: only what happens to the file from now on is reported.
StartWatch ==
    /\ server = "loaded"
    /\ server' = "serving" /\ watch' = "on"
    /\ UNCHANGED <<limiterVars, fileVars, events, loader, entries, requestVars, due>>

\* The watcher's goroutine takes a notification and calls load.
HandleEvent ==
    /\ server = "serving" /\ loader.pc = "idle" /\ events > 0
    /\ events' = events - 1
    /\ loader' = [NotLoading EXCEPT !.pc = "read"]
    /\ UNCHANGED <<limiterVars, fileVars, watch, server, entries, requestVars, due>>

\* The process ends, in an orderly way or not; memory is lost, the file stays.
Exit ==
    /\ server # "down"
    /\ cfg' = None /\ allowed' = None
    /\ accounts' = [a \in Accounts |-> None]
    /\ heap' = [r \in Refs |-> [inflight |-> 0, rate |-> Limiter!NoBucket]]
    /\ permits' = [q \in Requests |-> Limiter!NoPermit]
    /\ gauge' = [a \in Accounts |-> 0]
    /\ promise' = [a \in Accounts |-> None]
    /\ watch' = "none" /\ events' = 0
    /\ server' = "down" /\ loader' = NotLoading /\ entries' = {}
    /\ request' = [q \in Requests |-> Idle] /\ sighted' = {}
    /\ due' = None
    /\ UNCHANGED fileVars

--------------------------------------------------------------------------------
(* A request through the middleware chain. *)

At(q, pc) == request[q].pc = pc
Goto(q, pc) == request' = [request EXCEPT ![q].pc = pc]

\* A mutant: the context keeps the identity of the request before.
Answered_KeepsIdentity(q) ==
    /\ Goto(q, "idle")
    /\ sighted' = sighted \ {q}

\* The answer is out.
Answered(q) ==
    /\ request' = [request EXCEPT ![q] = Idle]
    /\ sighted' = sighted \ {q}

\* A request with a bearer token of account a; TokenReview is asked.
Arrive(q, a, route) ==
    /\ server = "serving" /\ At(q, "idle")
    /\ request' = [request EXCEPT ![q] = [pc |-> "review", account |-> a, route |-> route]]
    /\ UNCHANGED <<limiterVars, fileVars, watchVars, server, loader, entries, sighted, due>>

\* 401: no answer in time, an error, not authenticated, no service account.
Unauthenticated(q) ==
    /\ At(q, "review")
    /\ Answered(q)
    /\ UNCHANGED <<limiterVars, fileVars, watchVars, server, loader, entries, due>>

Authenticated(q) ==
    /\ At(q, "review")
    /\ Goto(q, "identified")
    /\ sighted' = IF request[q].account \in entries THEN sighted \cup {q} ELSE sighted
    /\ UNCHANGED <<limiterVars, fileVars, watchVars, server, loader, entries, due>>

\* A mutant: the limiter's copy of the allowlist is asked.
IsAllowed_LimitersCopy(a) == a \in allowed

IsAllowed(a) == a \in entries

\* 403, or on to the route's handler.
Authorize(q) ==
    /\ At(q, "identified")
    /\ \/ ~IsAllowed(request[q].account) /\ Answered(q)
       \/ IsAllowed(request[q].account) /\ Goto(q, "authorized") /\ UNCHANGED sighted
    /\ UNCHANGED <<limiterVars, fileVars, watchVars, server, loader, entries, due>>

\* Only the scan route goes through the limiter: 429, or the handler runs.
Limit(q) ==
    LET a == request[q].account IN
    /\ At(q, "authorized") /\ request[q].route = "scan"
    /\ \/ (Limiter!RejectConcurrency(q, a) \/ Limiter!RejectRate(q, a)) /\ Answered(q)
       \/ Limiter!Admit(q, a) /\ Goto(q, "running") /\ UNCHANGED sighted
    /\ UNCHANGED <<fileVars, watchVars, server, loader, entries, due>>

RunUnlimited(q) ==
    /\ At(q, "authorized") /\ request[q].route # "scan"
    /\ Goto(q, "running")
    /\ UNCHANGED <<limiterVars, fileVars, watchVars, server, loader, entries, sighted, due>>

\* A mutant: a scan whose account was removed meanwhile is not released.
Finish_OnlyAllowed(q) ==
    /\ At(q, "running")
    /\ IF request[q].route = "scan" /\ request[q].account \in entries
       THEN Limiter!Release(q) ELSE UNCHANGED limiterVars
    /\ Answered(q)
    /\ UNCHANGED <<fileVars, watchVars, server, loader, entries, due>>

\* The handler returns and the deferred release runs.
Finish(q) ==
    /\ At(q, "running")
    /\ IF request[q].route = "scan" THEN Limiter!Release(q) ELSE UNCHANGED limiterVars
    /\ Answered(q)
    /\ UNCHANGED <<fileVars, watchVars, server, loader, entries, due>>

Tick ==
    /\ Limiter!Tick
    /\ UNCHANGED <<fileVars, watchVars, server, loader, entries, requestVars, due>>

Edit == Truncate \/ \E f \in Files : Write(f) \/ Replace(f)

Load == ReadFile \/ LoadFails \/ SetEntries \/ PushLimits

\* A mutant: the allowlist is asked first, with the account the token names, and
\* TokenReview only for the accounts that are on it.
Chain_AllowlistFirst(q) ==
    \/ \E a \in entries, route \in Routes : Arrive(q, a, route)
    \/ Unauthenticated(q) \/ Authenticated(q)
    \/ /\ At(q, "identified") /\ Goto(q, "authorized")
       /\ UNCHANGED <<limiterVars, fileVars, watchVars, server, loader, entries, sighted, due>>
    \/ Limit(q) \/ RunUnlimited(q) \/ Finish(q)

\* Middleware.Handler, then the limiter and the route's handler.
Chain(q) ==
    \/ \E a \in Accounts, route \in Routes : Arrive(q, a, route)
    \/ Unauthenticated(q) \/ Authenticated(q) \/ Authorize(q)
    \/ Limit(q) \/ RunUnlimited(q) \/ Finish(q)

Next ==
    \/ Edit \/ Load
    \/ Start \/ StartWatch \/ HandleEvent \/ Exit
    \/ \E q \in Requests : Chain(q)
    \/ Tick

Spec == Init /\ [][Next]_vars

\* Fairness: the loader and the watcher's goroutine run when they can.  Nothing
\* makes a request arrive, an operator write or finish an edit.
FairSpec ==
    /\ Spec
    /\ WF_vars(Load) /\ WF_vars(Start) /\ WF_vars(StartWatch) /\ WF_vars(HandleEvent)

--------------------------------------------------------------------------------
\* The variables have their types.
TypeOK ==
    /\ Limiter!TypeOK
    /\ file \in Contents
    /\ editing \in BOOLEAN
    /\ watch \in {"none", "on", "lost"}
    /\ events \in 0..MaxEvents
    /\ server \in {"down", "loading", "loaded", "serving"}
    /\ loader \in [pc : {"idle", "read", "entries", "limits"}, got : Contents]
    /\ entries \in SUBSET Accounts
    /\ request \in [Requests ->
         [pc : {"review", "identified", "authorized", "running"},
          account : Accounts, route : Routes] \cup {Idle}]
    /\ sighted \in SUBSET Requests
    /\ due \in Files \cup {None}

\* Whole files govern: except while a load is on its way from the allowlist's
\* map to the limiter, both hold what one and the same valid file says, however
\* the file changes meanwhile and whatever file was refused.
OneFileGoverns ==
    server \in {"loaded", "serving"} /\ loader.pc # "limits"
        => \E f \in Files \cup {Empty} : Valid(f) /\ InForce(f)

\* A request gets past the allowlist only if its account has been on it at some
\* moment since its TokenReview was answered: neither a slow TokenReview nor a
\* load under way lets an account through that was removed before the answer.
RevocationHolds ==
    \A q \in Requests : request[q].pc \in {"authorized", "running"} => q \in sighted

\* A scan runs exactly as long as it is counted, for the account it was
\* authorised for: no reload, refusal or restart leaves a permit behind.
RunningScansCounted ==
    \A q \in Requests :
        permits[q].account = IF At(q, "running") /\ request[q].route = "scan"
                             THEN request[q].account ELSE None

\* A valid file written in place while the watch is on its inode governs from some
\* moment on, whatever load is under way when it is written and however the
\* notifications merge, unless it is edited again or the process ends.
WrittenIsLoaded ==
    \A f \in Files : Valid(f) => (<>[](due = f /\ watch = "on") => <>[]InForce(f))

\* What docs/api.md says: a valid file written while the service runs, in
\* whatever state the watcher is, governs from some moment on, unless it is
\* edited again or the process ends.
HotReload ==
    \A f \in Files : Valid(f) => (<>[](due = f) => <>[]InForce(f))

\* What docs/api.md says of the file, whenever it was written: the service that
\* goes on running with the same valid file has loaded it.
FileGovernsInTheEnd ==
    \A f \in Files : Valid(f) =>
        (<>[](server = "serving" /\ ~editing /\ file = f) => <>[]InForce(f))

\* What docs/api.md says of an edit: only a valid new file replaces what is in
\* force.  So an account that every valid file written by an operator allows is
\* allowed at any moment.
AlwaysListedStaysAllowed ==
    server = "serving" =>
        \A a \in Accounts :
            (\A f \in Files : Valid(f) => a \in f.allow) => a \in entries
================================================================================
