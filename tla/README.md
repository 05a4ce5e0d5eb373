# A formal model of av-scanner

av-scanner is an HTTP service that scans uploaded files with the anti-virus
engine of the machine it runs on. This directory holds TLA+ modules translated
from its Go source, TLC configurations that model-check them on small instances,
and theorems about them that TLAPS checks for every value of the constants.
`PROJECT.json` ties each definition to the source lines it stands for, and lists
runs, mutants, hazards, findings and theorems.

Sections: [the system](#1-the-system) - [modules](#2-the-modules) -
[how time, channels and pointers are modelled](#3-modelling-decisions) -
[runs](#4-what-is-checked) - [fairness](#5-fairness) -
[proofs](#6-what-is-proved) - [findings](#7-where-code-and-words-disagree) -
[what is left out](#8-what-is-not-modelled) - [plan](#9-plan).

## 1. The system

A request for `POST /api/v1/scan` passes, in this order, the authentication
middleware (`internal/auth`), the per-account limiter (`internal/ratelimit`),
and `handleScan` (`internal/api`), which saves the upload and calls
`Scanner.Scan` (`internal/scanner`). Scan asks the driver of the active engine
(`internal/drivers`) for a manual scan. The engine's *real-time scanner* watches
the same disk: it may quarantine the upload while the manual scan runs, so that
the manual scan has nothing to look at. It logs what it takes; the driver's
watcher goroutine tails that log and puts detections in the detection cache
(`internal/cache`), where a scan without a verdict waits for its own for the
rest of its time budget.

| Component | State it keeps | Operations | Talks to | What makes it correct |
|---|---|---|---|---|
| Detection cache (`cache/detection.go`) | map path -> detection, the channel `added`, TTL ticker | Add, Wait, Get, Peek, Stop, cleanup loop | called by the watcher and by scans | no lost wakeup; a detection goes to one scan; fresh ones stay, old ones go; every Wait returns |
| Scan orchestration (`scanner/scanner.go`, `drivers/rts.go`) | the file on disk, the time budget | Start, Stop, Scan, deleteFile | driver, cache, file system | never a false clean; never another file's detection; every scan answered; no upload left behind |
| Engine drivers (`drivers/clamav.go`, `trendmicro.go`, `mock.go`) | the watcher goroutine, a cancelled context | Start, Stop, watchLog, ManualScan, RTSWatch, CheckHealth | engine process, its log, cache | a poor engine answer is an error, never clean; health means detections arrive |
| Scan endpoint (`api/handlers.go`) | none | handleScan and read-only endpoints | scanner | every path answers once |
| Rate limiter (`ratelimit/`) | map account -> {in flight, bucket}, limits, allowlist | Update, Acquire, release | allowlist reload, middleware, gauge | exact counting across reloads; bound respected; map bounded by the allowlist; honest Retry-After |
| Allowlist (`auth/allowlist.go`) | set of accounts | load, IsAllowed, Watch, Close | file system events, limiter | a reload takes effect as a whole; a bad file changes nothing |
| Authentication (`auth/middleware.go`, `client.go`) | none | Handler, Validate | Kubernetes TokenReview | nothing passes without an allowed identity |
| Lifecycle (`main.go`) | HTTP server, signal | start, graceful shutdown | all, service manager | running scans are answered; a crash makes no later verdict wrong |
| Metrics, configuration, version | counters; none | - | - | the in-flight gauge shows what runs |
| Auth proxy (`auth-proxy/main.go`) | the cached token | refresh loop, proxy | token file, upstream | no request carries an expired token |
| Deployment (`charts/`, `ansible/`) | token and service on each VM, the Job | post-install hook, token refresh by CronJob, rolling restart | Kubernetes, VMs | tokens are renewed before they expire; a failure stops the rollout |

What is hard here: the race of two scanners for one file, the race of the log
watcher, the waiting scan, its timer and the cleanup for one cache entry, a
budget that is spent before the wait begins, engines that fail half-way, and
reloads that change the limiter under the requests it has admitted; a file that
operators edit while it is loaded; a process that ends, in order or not, among
all of this, while the engine and the disk go on; tokens that must be renewed by
jobs that fail. The list with lines is `hazards` in `PROJECT.json`.

## 2. The modules

`EngineVerdict` - pure. What ClamAV's `ManualScan` makes of exit code and FOUND
line (`ClamVerdict`), and `parseManualScanOutput` of Trend Micro (`TrendVerdict`
with `MalwareSeen`, `FinishedClean`, `Val`), with the order of its tests. An
absent JSON counter, a nil pointer in the code, is the constant `Missing`.

`DegradedReply` extends it with a tiny environment: replies start as an engine
prints them when all goes well and lose a piece of information per step. It
turns a statement over pairs of inputs ("less information never means clean")
into action properties.

`DetectionCache` - the cache. One action per critical section of `c.mu`; `Wait`
is `StartWait` (timer), `CheckCache` (the critical section), then `WakeUp` or
`TimerFires` (the two cases of its select). `Cleanup`, `LoopReturns` and `Stop`
are the cleanup goroutine, `Tick` is time.

`DetectionMailbox` - what the cache promises: a box per path, callers that take
or give up, nothing about locks, channels, timers or ages. `DetectionCache`
implements it (`ImplementsMailbox`): an entry is the box of its path, a caller
in `check` or `select` is waiting.

`ScanService` - composes `EngineVerdict` and an INSTANCE of `DetectionCache`
with the handler, `Scanner.Scan`, the driver's watcher and, external, the engine
and its real-time scanner. A scan `s` stands for its upload, its path (a fresh
UUID per request, so paths are never shared) and its goroutine:

| `stage[s]` | the code is at | actions out of it |
|---|---|---|
| `idle` | before `handleScan` | `RefuseUpload`, `CreateUpload` |
| `saving` | `io.Copy` | `CopyFails`, `CallScan` |
| `manual` | `driver.ManualScan` | `EngineReads` (the process looks at the file), `ManualReturns`, `EngineNotStarted`, `ManualTimesOut` |
| `rts` | `driver.RTSWatch` | `WaitStep` (inside `cache.Wait`), `WatchReturns`, `MockWatch` |
| `cleanup` | `deleteFile` | `FinishScan` |
| `done` | the answer is out | - |

`RTSDetects`, `RTSQuarantines`, `RTSLogs` are the real-time scanner, `OpenLog`,
`WatchLine`, `WatcherFails`, `WatcherStops` the log watcher (it is `deaf` once
the tailer has died and its channel is closed), `StopService` is `Scanner.Stop`.

`ScanPromise` - what the service promises a client, in one action: at most one
response, clean only for a file that is no malware, infected only for one that
is. `ScanService` implements it (`ImplementsPromise`; a response is out at
`done`), and so does `Lifecycle`.

`Lifecycle` - extends `ScanService` with the process: `Connect` (a connection
becomes active), `Signal`, `DrainEnds` (`server.Shutdown` returns, because all
connections are idle or its 30 s are over; then `Scanner.Stop`), `Exit`, `Crash`
at any moment, `Boot`. `MemoryLost` says what ends with the process: the
handlers and their connections, the cache, the watcher and its place in the log;
the uploads, the real-time scanner and what it has found stay.

`RateLimiter` - `ratelimit`: `Update`, the three outcomes of `Acquire`
(`RejectConcurrency`, `RejectRate`, `Admit`), `Release`, and time. A request
holds the pointer to the state it was counted in (`permits`), as the closure
returned by `Acquire` does; the map can have moved on meanwhile.

`AccessControl` - composes an INSTANCE of `RateLimiter` with the allowlist file
and the middleware chain. A load is three steps, `ReadFile` (read, parse,
validate; or `LoadFails`), `SetEntries` (the allowlist's map, under its mutex),
`PushLimits` (the limiter's `Update`, under its own). `Start` is the first load
in `api.New`, `StartWatch` what follows it, `HandleEvent` the watcher's
goroutine. Operators edit in place (`Truncate`, `Write`) or by rename
(`Replace`). A request goes through

| `request[q].pc` | the code is at | actions out of it |
|---|---|---|
| `idle` | before `Middleware.Handler` | `Arrive` |
| `review` | `client.Validate`, waiting for TokenReview | `Unauthenticated` (401), `Authenticated` |
| `identified` | before `IsAllowed` | `Authorize` (403, or on) |
| `authorized` | before the route's handler | `Limit` (429, or on), `RunUnlimited` |
| `running` | in the handler | `Finish`, with the deferred release |

`TokenRefresh` - the tokens of the VMs under the chart and the playbooks:
`Install` (deploy.yaml), and the CronJob's run: `Mint`, then for each VM in
inventory order `CopyToken` (and the restart it notifies) and `Ready`;
`AttemptFails` (the play ends at the first VM that fails, the Job plays it again
from the start), `RunFails` (last attempt, or the deadline), `MissRun`.

`AuthProxy` - the token provider: `ReadToken`, `ReadFails`, `StoreToken` are
`refresh`, `ProxyTick` the ticker, `Rotate` is kubelet. It shares no state with
`TokenRefresh`; `MCTokens` lets the two take their steps side by side, so that
one run checks both.

The modules whose name ends in `Proofs` hold the theorems, the `MC` modules what
the instances need for TLC. Definitions whose name has an underscore
(`WakeAll_Signal`) are *mutants*: the definition after the underscore's left
part with a plausible bug, never used by the specification, which show that a
property would notice.

## 3. Modelling decisions

**Time** is never a clock that grows. The age of an entry counts up to
`Expired = TTL + 1` and stays, a timer counts down to 0 and stays, the elapsed
time of a manual scan counts up to `Timeout`. Nothing in the code tells larger
values apart, so these caps lose no behaviour and no bound on time is needed.

**The channel** `c.added` is closed and replaced by each Add. All that a waiter
can learn from the one it captured is whether it has been closed: `woken`.

**Pointers** (`Refs`) are names that are reused once unreachable. For the cache
`|Paths| + |Callers| + 1` of them are as good as infinitely many. Its run has
three: Add waits while all of them are in the map or were returned by a caller's
last Wait, until one of the callers waits again; two callers, two entries and an
overwritten one still occur, and the theorems hold for any number. In the service
a pointer per upload is enough (`WatcherNotHeldUp`, proved), and in the limiter
one per account (`PointersSuffice`, proved).

**The token bucket** of `golang.org/x/time/rate` is external. A token is worth
`Minute` units and a bucket gains `requestsPerMinute` units per unit of time, so
that everything stays an integer. The library advances a bucket lazily, at its
next use; the model advances it at every tick, which gives the same tokens at
each use. `ReserveN` followed by `CancelAt` under the same lock changes nothing.

**Engines and the real-time scanner** are external and modelled from how the
drivers use them: which exit codes and results they are prepared for. Of their
competence one thing is assumed, because nothing in this repository could do
without it: an engine that has looked at a file that is malware does not print a
clean result, and the real-time scanner does not detect what is not malware. It
may fail, be busy, refuse (exits 249, 250, 251: not permitted, not configured,
switched off), find the file gone, be killed, hang, or never report. `malware` is
what the engine flags: a heuristic alert on a clean file counts, and malware
that the engine skips without an alert (the deflated zip member of
`docs/deployment.md:169`) does not.

**The file** may be removed by the real-time scanner at any moment after it has
detected it, before or after it logs. `os.Remove` may fail (`stuck`).

**A kill works at once**: `ManualTimesOut` is enabled as soon as the deadline
has passed. That `cmd.Run` may also wait for the pipes of a surviving child is a
matter of `os/exec` and is listed as a hazard without a property.

**The watcher** opens the log at its end, so what was logged before is lost
(`OpenLog` empties `log`). Whether it exists at all was decided at start.

**An account off the allowlist may still acquire**: it was authorised before the
reload. `RateLimiter` therefore lets every account acquire at any time.

**A crash** may come between any two steps, so what a real crash cuts in the
middle of an action differs only within one critical section, whose data are in
memory and lost either way. The one exception would be the copy of an upload:
it is a stage of its own (`saving`).

**Prompt time in `Lifecycle` and `AuthProxy`**: there, unlike in the other
modules, time does not pass while a goroutine has a step to take (`Urgent`),
because their properties hold periods against each other and would be false for
a program that is not given the processor for 30 seconds.

**File notifications**: a write to the watched inode adds a notification or is
merged with one that waits (inotify does both); `MaxEvents` bounds those that
wait, at a number that merging makes harmless. After a rename the watch is on
an inode nobody writes (`lost`). A file that cannot be read fails like one that
does not parse. Paths that skip authentication do not reach the allowlist or the
limiter and are left out.

**A token** stands for its remaining validity, which counts down and stays at 0.
VMs are numbered in inventory order. `TokenRefresh` bounds the runs that are
missed or fail in a row by `MaxMissed`, and the properties say what follows.

**History variables**: `early` (ScanService) holds the scans whose detection was
in the cache before their manual scan ended, unless the cleanup has dropped it;
`promise` (RateLimiter) is the time left of the last Retry-After given to an
account; `sighted` (AccessControl) the requests whose account the allowlist has
held since their TokenReview was answered; `due` (AccessControl) the last file whose
edit was completed while the service was running; `promised` (Lifecycle) the scans under
way when the signal came. No guard reads them. Three theorems count with
variables that are in no module's state: `admitted` and `passed` of
`RateBounded`, `clock` of `OneBudget`; they are quantified by the theorem itself.

## 4. What is checked

| Run | Instance | Shows |
|---|---|---|
| `cache` | 2 paths, 2 callers, 3 pointers, TTL 1, cleanup every 1, timeouts 0-2, fair | `NoLostWakeup`, `DeliveredOnce`, `FreshNotDropped`, `EveryWaitReturns`, `ExpiredDropped`, refinement `ImplementsMailbox` |
| `verdict` | every reply reachable by losing information | `LossNeverClears`, `NamedMalwareStaysInfected`, and that each reply gets a status |
| `scan_clam` | 2 uploads, ClamAV, budget 1, TTL 2, cleanup every 2 | `NeverFalseClean`, `NeverFalseInfected` |
| `scan_mock` | 2 uploads, mock engine, fair | the orchestration without deadline, cache and watcher: `EveryScanAnswered`, refinement `ImplementsPromise` |
| `limiter` | 2 accounts, 3 requests, configurations with no, low and raised limits and an invalid one | counting, bound, map size, gauge, Retry-After, reloads |
| `lifecycle` | 1 upload, Trend Micro, TTL 2 < budget 3 < grace 4, cleanup every 2, fair | the service and its process through shutdown, crash and restart: `EarlyDetectionWins` where the cache may drop a detection before it is waited for, `VerdictLeavesNoUpload`, `DrainAnswers`, `ShutdownEnds`, `EveryScanAnswered`, refinement `ImplementsPromise` |
| `access` | 2 accounts, 2 requests, 3 files (one is refused), both styles of editing, up to 2 notifications, fair | `OneFileGoverns`, `RevocationHolds`, `RunningScansCounted`, `WrittenIsLoaded` |
| `tokens` | 3 VMs, 3 attempts, 2 bad runs in a row, lifetime one unit above what `TokensValid` asks; beside it a proxy with interval 2, 2 failed reads in a row, margin one unit above what `NeverServesExpired` asks | `TokensValid`, `FailureStopsRollout`, `OneVMPerAttempt`, `NeverServesExpired` |
| `scan_leftover`, `scan_health`, `reload_replaced`, `token_missed` | small | the disagreements of section 7 |

Why these bounds are enough. Two callers on one path are what double delivery
and a lost wakeup need; a second path is what wakes a caller for nothing. A
timeout of 0 (budget spent) and one greater than 0 are different cases of the
select, and timeouts below, at and above the TTL differ for the cleanup. A
timeout of 2 is what a wakeup that restarts the timer needs to show. Two
uploads show that one scan never gets the other's detection; more add only
copies. Three requests over two accounts reach the state where one account is at
its limit while the other is not and a third request waits for the release.
`VerdictLeavesNoUpload` is checked in `lifecycle` only, where a crash can come
between, since no upload touches another's; it and `FailedScanLeavesNoUpload` look at `present` only: a
file that the system refused to remove is `stuck` and not held against the code.
`EarlyDetectionWins` is the property behind calling RTSWatch with a budget of 0:
the cache is looked at before the timer.

One upload suffices for `Lifecycle` because what is new there is one scan
against one process: processes meet through the uploads an earlier one has left,
and an upload that is left belongs to a scan that is over (`CrashLeavesNoVerdict`
proves it for any number); that scans do not meet otherwise is what `scan_clam`
shows with two. Its budget is beyond the TTL and below the grace period, the one
order of the three in which each can decide a scan. In `access` two files
that differ in an account and a limit, with two requests of either account, give
every order of a removal, an addition and a lowered limit against a request in
each stage; the refused file differs in both halves from what it would replace.
Only `limiter` has a rate among its valid limits: buckets are the same in both.
Three VMs have a first, a middle and a last one, and are more than two attempts
can put out of service. The constants of `tokens` are
the smallest margin the two properties claim to be enough, so a unit lost
anywhere would show. `token_missed` has the values of
`values.yaml`, in units of 12 hours; its deadline of 10 minutes is 0 of them.

`Update` in `limiter` may load the very limits that are in force, so
`ReloadGrantsNothing` speaks of a touched file too. `RevocationHolds` asks that the
account was on the list after TokenReview had answered: a decision taken from the
list at the request's arrival breaks it, as the mutant `Chain_AllowlistFirst`
does. Trend Micro's refusals are among the replies of `lifecycle` and of
`verdict`, and the mutant `TrendVerdict_RefusedInfected` shows that reading one as
a detection would break `ImplementsPromise`.

Deadlock checking is on in all runs except `verdict`, where a reply that has lost
everything is the natural end.

## 5. Fairness

`verdict`, `scan_clam`, `limiter`, `tokens` and the violation runs of invariants
use a specification without fairness. The others use `FairSpec` (`FairLifeSpec`):

* `WF(Tick)`: time passes.
* Weak fairness of each goroutine's own steps (handler, watcher, cleanup): a
  runnable goroutine is scheduled in the end, mutexes are not held for ever.
* Strong fairness of `TimerFires`: once the timer has fired, its channel stays
  ready, and each time the caller arrives at its select Go picks at random among
  the ready cases. Steady detections for other files make the wakeup ready again
  and again; with probability 1 the timer is picked. With weak fairness
  `EveryWaitReturns` would be false.
* `Lifecycle`: weak fairness of time, of what each handler does by itself
  (`Proceed`) and of main (`DrainEnds`, `Exit`); none of the engine's reading, of
  `Signal`, `Crash` or `Boot`. `ShutdownEnds` needs no handler to be quick: the
  grace period ends it.
* `AccessControl`: weak fairness of the loads (`Load`) and of the goroutine that
  starts them (`HandleEvent`), and of start. `WrittenIsLoaded` and
  `HotReload` speak of files that stay: an operator who edits for ever, or leaves
  a file truncated, is owed nothing.
* Nothing is assumed of clients, of engine processes (except the mock driver's
  own reading of the file, which is a step of the handler), of the real-time
  scanner, of operators, of reloads, or of Stop.

## 6. What is proved

For every value of the constants, from the constants' assumptions only.

*`DetectionCacheProofs`.* `TypeCorrect`; `LostWakeupFree` (`NoLostWakeup`),
inductive with the types; `OneDelivery` (`DeliveredOnce`), inductive because Add
takes a pointer that nobody holds; `FreshKept`, an action property from the
types; and `Refinement`: initial states map to initial states, and each action
maps to a mailbox action or a stutter - `CheckCache` to `Take` or a stutter,
`TimerFires` to `GiveUp`, `Get` to `Poll`, `Cleanup` to `Discard`, the rest to
stutters.

*`ScanServiceProofs`.* The five safety properties of `ScanService`, from one
invariant, `IInv`. What has to be added to the properties, and why:

* `OwnPath`: a scan in `Wait` waits for its own path. Without it an entry found
  could be another file's.
* `DetectedIsMalware`: a detection is of malware wherever it is on its way -
  seen by the real-time scanner, in its log, in the cache, in the hands of a
  scan. It is what makes `WatchReturns` answer truly.
* `HeardIsTrue`: a verdict heard from the engine was true when the engine read
  the file, and stays so while ManualScan has not returned. Its core is the lemma
  `VerdictsTrue`: of all replies an engine may print about a file that is there,
  gone, or locked, the verdict functions make no false verdict.
* `EarlyIsKept`: an early detection is in the cache until the scan's first look,
  or in the scan's hands; a scan with one is never asleep in its select, so its
  timer cannot win.
* `VerdictFirst`, `MockHasNoWatcher`: deleting comes after a verdict; the mock
  engine never meets the cache.

`InCacheStep` proves the parts that speak of the cache, `AnsweredStep` those that
speak of the answer, one step per action; one lemma per operation of the cache
says what it does to entries and callers (`AddEffect`, `CheckEffect`, ...). The
proofs rest on the competence of the engines stated in section 3, and on nothing
about time: they hold for any budget, TTL and period. `IInv` itself was
model-checked before it was proved. `KeepsClientPromise` (`ImplementsPromise`) is
the refinement of `ScanPromise`: only `Answer` steps move a scan to `done`, and
`IInv` after the step says the response is deserved.

*The cache inside the service* (the same module). `UsesCache`: the service takes
only steps of the cache, that is, `Spec` implies the cache's own specification.
With it the theorems of `DetectionCacheProofs` are cited for the instance `CP`,
after `CacheConstants` has shown its assumption: `CacheHolds` (`NoLostWakeup`,
`DeliveredOnce`), `CacheKeepsFresh` (`FreshNotDropped`) and `CacheIsMailbox`
(`ImplementsMailbox`). `WatcherNotHeldUp` (`EveryLineFits`) says the model's
finite supply of pointers never delays the watcher: each upload's detection is
logged and cached at most once (`LoggedOnce`), so its own pointer is free when its
line is read (`OwnPointers`).

`OneBudget` is about `remaining` in `Scanner.Scan`: with a clock that is set when
Scan is called, the engine is overdue exactly when the clock has reached
`Timeout`, and so is, in every state of the wait, its timer. `ClocksAgree` relates the
two counters that the code keeps one after the other; it needs that the wait is
started in the step in which the manual scan is given up.

*`LifecycleProofs`.* `SafeInv == IInv /\ MockQuiet /\ LifeTypes`: the invariant
of `ScanService`, one fact that a restart makes necessary (the mock engine never
has a log that a new process could watch), and the types. A step of the process
is a step of the service, `MemoryLost` or `Boot` (`LifeStep`), so the theorems of
the service carry over once the two others preserve `IInv`, `EarlyWinsForLife`
(`EarlyDetectionWins`) among them. `ShutdownAnswers` (`DrainAnswers`) needs
`KeepsPromise`: while the process drains, every promised scan is answered or what
is left of the grace period exceeds what its budget still allows it (`Need`).
Time is what could break it, and time is prompt. `LifeKeepsPromise` is the
refinement of `ScanPromise` again. `CacheHoldsForLife`: `MemoryLost` brings the
cache back to its initial state, so what holds from there holds in each life;
`WatcherNotHeldUpForLife`: a new process reads the log from its end, so no line
is read twice.

*`RateLimiterProofs`.* The invariants need each other, so they are proved as one:
`IInv == TypeOK /\ PermitsTracked /\ InflightExact /\ StrangersGo`. Why: that
`Release` decrements the counter the next `Acquire` will read is
`PermitsTracked`; that `Update` drops only entries no permit points to needs the
counter to be exact (`InflightExact`: an entry with 0 in flight has no holder);
that the counter is exact needs the pointers to be tracked. `StrangersGo` needs
in addition that a rejected request never creates an entry (`RejectedEffect`):
a fresh entry is below any limit and has a full bucket, because the limits in
force passed `Validate` - a rate without burst would break it. From `IInv`
follows `Bound` (`ConcurrencyBound`): the counter compared with the limit is the
number of scans really running.

`Metric` (`GaugeExact`) counts the holders of an account with the library's
cardinality theorems. `NoBurstOnReload` (`ReloadGrantsNothing`) needs that no
bucket is in debt (`NoDebt`): raising a bucket to its new burst would else look
like a gain; it holds for a load of the same limits as well.
`HonestRetryAfter` (`RetryAfterHonest`) needs two parts beside: a
bucket with a rate has room for a token (`HasBurst`, from the validation of the
limits), and `PromisesCovered`: what is in the bucket and what it gains in the
time promised make a token. Its arithmetic - a division rounded up is enough - is
in `RoundedUp` and `RetryAfterCovers`. `LimitsInForce` (`LimitsApplied`): every
bucket is under the limits loaded last and no fuller than their burst, so a
reload misses no account. `Sound` is the conjunction of all these; it is what
`AccessControlProofs` cites.

`RateBounded` is what the rate limit is for: in a window in which an account's
limits stay and its entry is not dropped, `admitted * Minute <= burst * Minute +
requestsPerMinute * passed`. A window may begin at any step. Its invariant, `Paid`,
says where the tokens went: what the admissions took and what is left was in the
bucket at the beginning, at most the burst, or has come since. `AdmitPays`,
`TickGain` and `NoOtherGain` are the three kinds of step. `PointersSuffice`: with
as many pointers as accounts (`EnoughPointers`) there is always one for a new
entry, by counting.

*`AccessControlProofs`.* Three invariants hold together with `LoadsOneFile`
(what a load puts in force was found valid, and its first half and second half
are of the same file) and `SightedInTime` (a request with its TokenReview answered
and not yet authorised, whose account is on the allowlist now, has been seen there). `WholeFiles`
(`OneFileGoverns`) follows from the first, `Revocation` (`RevocationHolds`) from
the second, `PermitsOfRunning` (`RunningScansCounted`) is inductive by itself with
the shapes of requests and permits. `TypeCorrect` (`TypeOK`) takes the limiter's
part from the composition below.

`LimiterDriven` is the composition: the chain of handlers takes only steps of the
limiter, or begins it anew with the process. So `Sound` of the instance `LP`
holds in every life (`LimiterHolds`, `PointersSuffice`), and with
`PermitsOfRunning` it speaks of handlers that run: `Bound` (`ScansBounded`), no
scan starts beyond the limits in force, and `MetricShowsScans`, the gauge is the
number of scans running. `WritesSurvive` (`NoLostWrite`) is the safety half of
`WrittenIsLoaded`: a valid file written in place on a live watch is still to be
reported, being read, or in force; it needs that such a file is the one on disk
(`DueIsFile`). Fairness adds that it gets there.

*`TokenRefreshProofs`.* `NeverExpire` (`TokensValid`): between runs every token
outlives the time to the next run, the deadline and a period for each run that
may still be missed (`Between`); during a run the tokens that are already
copied are as fresh as the one minted, the others still have their reserve
(`During`). A good run restores the full reserve, a bad one spends a period of
it. `RolloutStops` (`FailureStopsRollout`): while the play is at a VM, those
before it are up (`DoneAreUp`): nothing takes a service down but its own turn.
`FailureStopsRollout` compares a VM with those before it only, and a retry does
restart healthy VMs while a later one is down; how far that goes is
`LossesBounded` (`OneVMPerAttempt`): one VM per attempt since the last good run. It
is proved by counting (`Losses`), a turn adds one and its end takes one away, and
the good run's end finds all up. `SomeVMServes` is the zero downtime that follows:
with the chart's two retries and no bad run before, four VMs are enough.

Three more hold for any lifetime. `RunsDoNotOverlap`: the
Job's clock and the schedule's go together (`RunsInPeriod`), and the deadline is
shorter than the period. `OneAtATime`: only the VM
whose turn it is restarts (`RestartsInTurn`), which needs that no run begins while
another waits for it. `GoodRun` (`GoodRunRenews`): a run that ends well leaves
every VM up, with a token that has lost no more than the time the run took
(`RunTokens`), whatever the attempts before the good one left.

*`AuthProxyProofs`.* `Fresh` (`NeverServesExpired`): the copy is no older than
the failed intervals and the running one (`CopyIsRecent`).

*`DegradedReplyProofs`.* `FailClosed` (`LossNeverClears`): a reply that reads as
clean after a loss did so before, because a reply with exit code 0 counts, names
and prints no malware (`Quiet`) and no loss produces an exit code of 0.
`NamesDecide` (`NamedMalwareStaysInfected`) needs no invariant.

Every invariant and every action property of the passing runs is proved. Only
model-checked: the properties that need fairness (`EveryWaitReturns`,
`ExpiredDropped`, `EveryScanAnswered`, `ShutdownEnds`, `WrittenIsLoaded`), because
liveness and ENABLED are out of the prover's reach, and the disagreements of
section 7, which are counterexamples.

## 7. Where code and words disagree

Four runs end in a violation on purpose; each checks what a document, a comment or
a test says against what the code does.

1. `scan_leftover`: "File should be deleted after scan", but a scan without a
   verdict returns without deleting it, and nobody else does. (The scan of that
   test ends with a verdict; its sentence makes no such restriction.)
2. `scan_health`: the deployment guide says missed detections show in the health
   check; when the log file appears after the start they do not.
3. `reload_replaced`: "The file is watched and reloaded automatically on
   change", but a file renamed over the old one takes the watch away. (`HotReload`;
   with files written in place it holds, which is `WrittenIsLoaded`.)
4. `token_missed`: "up to 14 consecutive missed runs can be tolerated", but when
   the 14th is missed the token is 168 hours old.

One sentence is at odds with the code, and no trace can refute it, because it speaks
of what may happen. `docs/deployment.md:184` says of an agent that refuses to scan
(exits 251 and 249) that "scans come back as errors, or as infected even for clean
files". The code has no way to the second: the exit codes of a detection are 1 and
3, and every other one but 0 ends in `StatusError` (`drivers/trendmicro.go:215` and
`:229`; the test at `trendmicro_test.go:162` asks the same of 249). What refutes it are
properties that hold with the refusals among the engine's replies: `lifecycle`
checks, and `NoFalseAlarm` and `LifeKeepsPromise` prove, that no clean file is
answered as infected.

Six more sentences are stated in the modules as definitions that the model
refutes. They are not among the runs; each shows when it takes the place of the
properties in the configuration named (as a PROPERTY, except where INVARIANT is said).

* `ArrivalInTimeIsReturned` (`MCDetectionCache.cfg`, with one caller): `Wait`
  "returns false if none arrives in time" (`cache/detection.go:55`), but one that
  arrives in time can be missed when the timer has expired by the time the woken
  goroutine reaches its select. It stays in the map, the scan ends in an error.
* `DetectionNeverMasked` (`MCDegradedReply.cfg`, INVARIANT): "A detection is
  never masked by an error" (`drivers/trendmicro.go:214`), but a result that does
  not parse returns an error before exit codes 1 and 3 are looked at. The verdict
  stays on the safe side, and Scan goes on to wait for a real-time detection.
* `FileGovernsInTheEnd` (`MCAccessControl.cfg`, with `EditStyles = {"in place"}`):
  `docs/api.md:90` again, and a change between the first load and the start of
  the watch.
* `AlwaysListedStaysAllowed` (`MCAccessControl.cfg`, INVARIANT): "an invalid file
  is rejected and the previous config stays active" (`docs/api.md:118`), but an
  editor that writes in place truncates first, and the empty file is valid: until
  it is written, every account is refused.
* `ZeroDowntime` (`MCTokenRefresh_Missed.cfg`, INVARIANT): "ensuring
  zero-downtime" (`docs/deployment.md:86`), but the Job's second attempt begins with
  the first VM again: with two VMs it restarts the one that is up while the other,
  at which the first attempt ended, is down. What holds is `OneVMPerAttempt`, and
  zero downtime with more VMs than attempts (`SomeVMServes`).
* `InstalledFresh` (the same, with `FoundTokens <- AbsentOrOld`): the hook "mints
  a fresh SA token" (`docs/deployment.md:54`), but only for a VM without a token
  file.

## 8. What is not modelled

* `Peek`, the read-only endpoints, the logging middleware, response bodies: no
  state changes.
* Parsing of log lines, of multipart forms and of YAML: a line names a detection
  of a path or is nothing; a form or a file parses or does not. The text of a
  bearer token and of an account's name.
* Configuration from the environment: read once, before anything here begins.
  That an engine's timeout may exceed the grace period of the shutdown is not
  refused by it; `DrainAnswers` says so in its premise.
* Metrics other than the in-flight gauge: output that no step reads.
* `restart.yaml` (its loop is the one of `token-refresh.yaml` without a token),
  the istio templates, the SSH check before the installation, and the roles that
  install packages and files.
* The tail library's rotation, `os/exec`'s pipe handling, the Prometheus
  registry, the HTTP server below its connections: other programs.

## 9. Plan

Done, in this order: the cache, the verdict functions and the composed scan
service, because verdicts are what the service is for; the limiter; then what
surrounds them: allowlist and middleware, the life of the process, the tokens.

Proved beyond what the runs check: the rate a bucket allows in a window of time,
the one budget of a scan, that runs of the CronJob do not overlap, and that what
the cache and the limiter promise alone holds inside the service.

Worth doing next:

1. Carry `RateBounded` into `AccessControl`, and `OneBudget` through the restarts
   of `Lifecycle`.
2. Compose `Lifecycle` with `AccessControl`: a rejected upload whose body is not
   read, and the drain of requests that wait for a TokenReview.
3. The real-time scanner and `os/exec` in more detail: a child process that
   keeps the pipes, as a delay of `ManualTimesOut` without bound.
