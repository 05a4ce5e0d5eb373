---------------------------- MODULE ScanServiceProofs ----------------------------
(***************************************************************************)
(* Proofs about ScanService, for any number of uploads, either engine, any *)
(* time budget, TTL and cleanup interval: type correctness, the safety     *)
(* invariants, the refinement of ScanPromise, and that the cache inside    *)
(* the service keeps what DetectionCache promises on its own. At the end:  *)
(* manual scan and wait share one budget (remaining, in Scanner.Scan).     *)
(*                                                                         *)
(* What is known of the cache is not proved again: the service takes only  *)
(* steps of the cache, and the theorems of DetectionCacheProofs are cited  *)
(* for the instance of it, once its constants are shown to satisfy what    *)
(* they assume.                                                            *)
(***************************************************************************)
EXTENDS ScanService, TLAPS

\* The types of the variables that are not the cache's.
ScanTypes ==
    /\ stage \in [Scans -> Stages]
    /\ answer \in [Scans -> Answers \cup {None}]
    /\ heard \in [Scans -> Verdicts \cup {"error", None}]
    /\ elapsed \in [Scans -> 0..Timeout]
    /\ file \in [Scans -> {"none", "present", "quarantined", "removed", "stuck"}]
    /\ malware \in SUBSET Scans
    /\ rts \in [Scans -> {"quiet", "detected", "logged"}]
    /\ log \in Seq(Scans)
    /\ logExists \in BOOLEAN
    /\ watcher \in {"absent", "starting", "running", "deaf", "stopped"}
    /\ early \in SUBSET Scans

\* A scan waits in the cache, for its own path, only in RTSWatch.
WaitsInRTS ==
    \A s \in Scans : waits[s].pc \in Cache!Waiting => stage[s] = "rts"

OwnPath ==
    \A s \in Scans : waits[s].pc \in Cache!Waiting => waits[s].path = s

\* A detection, wherever it is on its way from the real-time scanner to the
\* waiting scan, is one of malware.
DetectedIsMalware ==
    /\ \A s \in Scans : rts[s] # "quiet" => s \in malware
    /\ log \in Seq(malware)
    /\ \A s \in Scans : Cache!Present(s) => s \in malware
    /\ \A s \in Scans : waits[s].pc = "found" => s \in malware

\* What was heard from the engine is true, if it is a verdict.
HeardIsTrue ==
    \A s \in Scans : /\ heard[s] = "clean" => s \notin malware
                     /\ heard[s] = "infected" => s \in malware

\* A scan whose upload is being removed has its verdict.
VerdictFirst ==
    \A s \in Scans : stage[s] = "cleanup" => answer[s] \in Verdicts

\* The mock engine has no real-time scanner and its scans do not use the cache.
MockHasNoWatcher ==
    Engine = "mock" => /\ early = {} /\ watcher = "absent"
                       /\ \A s \in Scans : waits[s].pc \notin Cache!Waiting

\* An early detection is in the cache until its scan takes it.
EarlyIsKept ==
    \A s \in early :
        /\ stage[s] # "idle"
        /\ stage[s] \in {"saving", "manual"} => Cache!Present(s)
        /\ stage[s] = "rts" => \/ waits[s].pc = "check" /\ Cache!Present(s)
                               \/ waits[s].pc = "found"

IInv ==
    /\ TypeOK
    /\ OwnPath
    /\ DetectedIsMalware
    /\ HeardIsTrue
    /\ MockHasNoWatcher
    /\ EarlyIsKept
    /\ VerdictFirst
    /\ NeverFalseClean
    /\ NeverFalseInfected
    /\ VerdictLeavesNoUpload
    /\ EarlyDetectionWins

--------------------------------------------------------------------------------
(* The cache, as the service uses it. *)

\* What a step of the service may be for the cache, if it is not the watcher's.
CalmStep ==
    \/ UNCHANGED cacheVars
    \/ \E s \in Scans :
          \/ \E t \in 0..Timeout : Cache!StartWait(s, s, t)
          \/ Cache!CheckCache(s) \/ Cache!WakeUp(s) \/ Cache!TimerFires(s)
    \/ Cache!Cleanup \/ Cache!Stop \/ Cache!LoopReturns \/ Cache!Tick

\* What any step may be.
CacheStep == CalmStep \/ \E s \in Scans : Cache!Add(s, s)

\* The proofs about the cache, for the cache of the service.  Its constants
\* satisfy what they assume.  Both instances are of one module with one
\* substitution, so they say the same; the prover has to be told.
CP == INSTANCE DetectionCacheProofs WITH
    Paths <- Scans, Callers <- Scans, Refs <- Scans, MaxTimeout <- Timeout

LEMMA CacheConstants == CP!CacheAssumption
BY ScanAssumption DEF CP!CacheAssumption

LEMMA SameCacheInit == CP!Init <=> Cache!Init
BY DEF CP!Init, Cache!Init, CP!Empty, Cache!Empty, CP!Idle, Cache!Idle

LEMMA SameCacheTypes == CP!TypeOK <=> Cache!TypeOK
BY DEF CP!TypeOK, Cache!TypeOK, CP!Entry, Cache!Entry, CP!Expired, Cache!Expired,
       CP!WaitRecord, Cache!WaitRecord, CP!Waiting, Cache!Waiting, CP!Settled, Cache!Settled

LEMMA SameCacheInvariants ==
    /\ CP!NoLostWakeup <=> Cache!NoLostWakeup
    /\ CP!DeliveredOnce <=> Cache!DeliveredOnce
BY DEF CP!NoLostWakeup, Cache!NoLostWakeup, CP!DeliveredOnce, Cache!DeliveredOnce,
       CP!Present, Cache!Present

LEMMA SameCacheCalls ==
    ASSUME NEW w, NEW p, NEW t
    PROVE  /\ CP!Add(p, w) <=> Cache!Add(p, w)
           /\ CP!StartWait(w, p, t) <=> Cache!StartWait(w, p, t)
           /\ CP!CheckCache(w) <=> Cache!CheckCache(w)
           /\ CP!WakeUp(w) <=> Cache!WakeUp(w)
           /\ CP!TimerFires(w) <=> Cache!TimerFires(w)
BY DEF CP!Add, Cache!Add, CP!Live, Cache!Live, CP!WakeAll, Cache!WakeAll,
       CP!StartWait, Cache!StartWait, CP!Settled, Cache!Settled,
       CP!CheckCache, Cache!CheckCache, CP!WakeUp, Cache!WakeUp,
       CP!TimerFires, Cache!TimerFires, CP!Return, Cache!Return,
       CP!Present, Cache!Present, CP!Empty, Cache!Empty, CP!loopVars, Cache!loopVars

LEMMA SameCacheLoop ==
    /\ CP!Cleanup <=> Cache!Cleanup
    /\ CP!Stop <=> Cache!Stop
    /\ CP!LoopReturns <=> Cache!LoopReturns
    /\ CP!Tick <=> Cache!Tick
BY DEF CP!Cleanup, Cache!Cleanup, CP!Stop, Cache!Stop, CP!LoopReturns, Cache!LoopReturns,
       CP!Tick, Cache!Tick, CP!Stale, Cache!Stale, CP!Present, Cache!Present,
       CP!Empty, Cache!Empty, CP!Expired, Cache!Expired, CP!loopVars, Cache!loopVars

\* What the service does with the cache is a step of the cache.
LEMMA CacheStepIsNext ==
    CacheStep => [CP!Next]_(CP!vars) /\ [Cache!Next]_(Cache!vars)
<1>1. CASE UNCHANGED cacheVars
  BY <1>1 DEF cacheVars, CP!vars, Cache!vars
<1>2. ASSUME NEW s \in Scans, Cache!Add(s, s) PROVE CP!Next /\ Cache!Next
  BY <1>2, SameCacheCalls DEF CP!Next, Cache!Next
<1>3. ASSUME NEW s \in Scans, NEW t \in 0..Timeout, Cache!StartWait(s, s, t)
      PROVE  CP!Next /\ Cache!Next
  BY <1>3, SameCacheCalls DEF CP!Next, Cache!Next
<1>4. ASSUME NEW s \in Scans, Cache!CheckCache(s) \/ Cache!WakeUp(s) \/ Cache!TimerFires(s)
      PROVE  CP!Next /\ Cache!Next
  BY <1>4, SameCacheCalls DEF CP!Next, Cache!Next
<1>5. CASE Cache!Cleanup \/ Cache!Stop \/ Cache!LoopReturns \/ Cache!Tick
  BY <1>5, SameCacheLoop DEF CP!Next, Cache!Next
<1>6. QED
  BY <1>1, <1>2, <1>3, <1>4, <1>5 DEF CacheStep, CalmStep

\* The cache starts well-typed.
LEMMA CacheInitTypeOK == Cache!Init => Cache!TypeOK
BY CacheConstants, SameCacheInit, SameCacheTypes, CP!InitTypeOK

\* The operations that the service uses keep the types of the cache.
LEMMA CacheTypeStep == Cache!TypeOK /\ CacheStep => Cache!TypeOK'
<1>1. CP!TypeOK /\ [CP!Next]_(CP!vars) => CP!TypeOK'
  BY CacheConstants, CP!NextTypeOK
<1>2. (CP!TypeOK <=> Cache!TypeOK)'
  BY SameCacheTypes, PTL
<1>3. QED
  BY <1>1, <1>2, SameCacheTypes, CacheStepIsNext

--------------------------------------------------------------------------------
(* What each operation of the cache does to the entries, and to where the     *)
(* scans are in Wait: all that the invariants are about.                      *)

\* Add: the entry of s is there afterwards; everybody stays where he is.
LEMMA AddEffect ==
    ASSUME Cache!TypeOK, NEW s \in Scans, Cache!Add(s, s)
    PROVE  /\ \A p \in Scans : Cache!Present(p)' <=> p = s \/ Cache!Present(p)
           /\ \A w \in Scans : waits'[w].pc = waits[w].pc /\ waits'[w].path = waits[w].path
<1>1. detections' = [detections EXCEPT ![s] = [ref |-> s, age |-> 0]]
  BY DEF Cache!Add
<1>2. \A p \in Scans : Cache!Present(p)' <=> p = s \/ Cache!Present(p)
  BY <1>1, ScanAssumption DEF Cache!TypeOK, Cache!Present
<1>3. \A w \in Scans : waits'[w].pc = waits[w].pc /\ waits'[w].path = waits[w].path
  BY DEF Cache!Add, Cache!WakeAll, Cache!TypeOK, Cache!WaitRecord
<1>4. QED
  BY <1>2, <1>3

\* The call of Wait.
LEMMA StartEffect ==
    ASSUME Cache!TypeOK, NEW s \in Scans, NEW t \in 0..Timeout, Cache!StartWait(s, s, t)
    PROVE  /\ \A p \in Scans : Cache!Present(p)' <=> Cache!Present(p)
           /\ waits'[s].pc = "check" /\ waits'[s].path = s
           /\ \A w \in Scans \ {s} : waits'[w] = waits[w]
BY DEF Cache!StartWait, Cache!TypeOK, Cache!Present

\* The critical section of Wait.
LEMMA CheckEffect ==
    ASSUME Cache!TypeOK, NEW s \in Scans, waits[s].path = s, Cache!CheckCache(s)
    PROVE  /\ waits[s].pc = "check"
           /\ \/ /\ Cache!Present(s)
                 /\ \A p \in Scans : Cache!Present(p)' <=> p # s /\ Cache!Present(p)
                 /\ waits'[s].pc = "found"
              \/ /\ ~Cache!Present(s)
                 /\ \A p \in Scans : Cache!Present(p)' <=> Cache!Present(p)
                 /\ waits'[s].pc = "select" /\ waits'[s].path = s
           /\ \A w \in Scans \ {s} : waits'[w] = waits[w]
<1>1. waits[s].pc = "check"
  BY DEF Cache!CheckCache
<1>2. CASE Cache!Present(s)
  <2>1. detections' = [detections EXCEPT ![s] = Cache!Empty]
    BY <1>2 DEF Cache!CheckCache
  <2>2. \A p \in Scans : Cache!Present(p)' <=> p # s /\ Cache!Present(p)
    BY <2>1, ScanAssumption DEF Cache!TypeOK, Cache!Present, Cache!Empty
  <2>3. Cache!Return(s, "found", detections[s].ref)
    BY <1>2 DEF Cache!CheckCache
  <2>4. waits'[s].pc = "found" /\ \A w \in Scans \ {s} : waits'[w] = waits[w]
    BY <2>3 DEF Cache!Return, Cache!TypeOK
  <2>5. QED
    BY <1>1, <1>2, <2>2, <2>4
<1>3. CASE ~Cache!Present(s)
  <2>1. /\ waits' = [waits EXCEPT ![s].pc = "select", ![s].woken = FALSE]
        /\ detections' = detections
    BY <1>3 DEF Cache!CheckCache
  <2>2. /\ waits'[s].pc = "select" /\ waits'[s].path = s
        /\ \A w \in Scans \ {s} : waits'[w] = waits[w]
    BY <2>1 DEF Cache!TypeOK, Cache!WaitRecord
  <2>3. \A p \in Scans : Cache!Present(p)' <=> Cache!Present(p)
    BY <2>1 DEF Cache!Present
  <2>4. QED
    BY <1>1, <1>3, <2>2, <2>3
<1>4. QED
  BY <1>2, <1>3

\* The two cases of the select of Wait.
LEMMA WakeEffect ==
    ASSUME Cache!TypeOK, NEW s \in Scans, Cache!WakeUp(s)
    PROVE  /\ waits[s].pc = "select" /\ waits'[s].pc = "check"
           /\ waits'[s].path = waits[s].path
           /\ \A p \in Scans : Cache!Present(p)' <=> Cache!Present(p)
           /\ \A w \in Scans \ {s} : waits'[w] = waits[w]
BY DEF Cache!WakeUp, Cache!TypeOK, Cache!WaitRecord, Cache!Present

LEMMA TimerEffect ==
    ASSUME Cache!TypeOK, NEW s \in Scans, Cache!TimerFires(s)
    PROVE  /\ waits[s].pc = "select" /\ waits'[s].pc = "missed"
           /\ \A p \in Scans : Cache!Present(p)' <=> Cache!Present(p)
           /\ \A w \in Scans \ {s} : waits'[w] = waits[w]
BY DEF Cache!TimerFires, Cache!Return, Cache!TypeOK, Cache!Present

\* The cleanup only drops entries.
LEMMA CleanupEffect ==
    ASSUME Cache!TypeOK, Cache!Cleanup \/ Cache!LoopReturns
    PROVE  /\ \A p \in Scans : Cache!Present(p)' => Cache!Present(p)
           /\ waits' = waits
<1>1. CASE Cache!Cleanup
  <2>1. \A p \in Scans : detections'[p] \in {Cache!Empty, detections[p]}
    BY <1>1 DEF Cache!Cleanup
  <2>2. QED
    BY <1>1, <2>1, ScanAssumption DEF Cache!Cleanup, Cache!Present, Cache!Empty
<1>2. CASE Cache!LoopReturns
  BY <1>2 DEF Cache!LoopReturns, Cache!Present
<1>3. QED
  BY <1>1, <1>2

\* Time changes ages and timers.
LEMMA TickEffect ==
    ASSUME Cache!TypeOK, Cache!Tick
    PROVE  /\ \A p \in Scans : Cache!Present(p)' <=> Cache!Present(p)
           /\ \A w \in Scans : waits'[w].pc = waits[w].pc /\ waits'[w].path = waits[w].path
<1>1. \A p \in Scans : detections'[p].ref = detections[p].ref
  BY DEF Cache!Tick, Cache!TypeOK, Cache!Entry
<1>2. \A w \in Scans : waits'[w].pc = waits[w].pc /\ waits'[w].path = waits[w].path
  BY DEF Cache!Tick, Cache!TypeOK, Cache!WaitRecord
<1>3. QED
  BY <1>1, <1>2 DEF Cache!Present

--------------------------------------------------------------------------------
(* What the drivers may make of the engines' answers. *)

\* No evidence of malware in a result: its exit code, its list and its counter.
LEMMA NoneSeen ==
    ASSUME NEW r, ~r.names, Val(r.count["infected"]) = 0, r.exit \notin {1, 3}
    PROVE  ~MalwareSeen(r)
<1>1. ~(Val(r.count["infected"]) > 0)
  OBVIOUS
<1>2. QED
  BY <1>1 DEF MalwareSeen

\* Without such evidence, and unless the scan finished, there is no verdict.
LEMMA NoVerdict ==
    ASSUME NEW r, r.json, ~MalwareSeen(r), ~FinishedClean(r)
    PROVE  TrendVerdict(r) = "error"
BY DEF TrendVerdict

\* The counters that matter for a verdict.
LEMMA CountFields ==
    ASSUME NEW a \in Int, NEW b \in Int, NEW c \in Int, NEW d \in Int
    PROVE  /\ Val(Count(a, b, c, d)["infected"]) = c
           /\ Val(Count(a, b, c, d)["scanned"]) = a
<1>1. Count(a, b, c, d)["infected"] = c /\ Count(a, b, c, d)["scanned"] = a
  BY DEF Count, Counters
<1>2. Val(c) = c /\ Val(a) = a
  BY MissingAssumption DEF Val
<1>3. QED
  BY <1>1, <1>2

\* A verdict that is heard is true: whatever exit code or result the engine gives
\* about a file it could not look at is an error.
LEMMA VerdictsTrue ==
    ASSUME NEW s \in Scans, NEW v \in VerdictsOn(s)
    PROVE  /\ v \in Verdicts \cup {"error"}
           /\ v = "clean" => s \notin malware
           /\ v = "infected" => s \in malware
<1>1. CASE Engine = "clamav"
  <2>1. v \in {ClamVerdict(r) : r \in ClamReplies(s)}
    BY <1>1 DEF VerdictsOn
  <2>2. PICK r \in ClamReplies(s) : v = ClamVerdict(r)
    BY <2>1
  <2>3. CASE r.exit \in {2, -1} /\ r.found = FALSE
    BY <2>2, <2>3 DEF ClamVerdict, Verdicts
  <2>4. CASE s \in malware /\ r.exit = 1
    BY <2>2, <2>4 DEF ClamVerdict, Verdicts
  <2>5. CASE s \notin malware /\ r.exit = 0 /\ r.found = FALSE
    BY <2>2, <2>5 DEF ClamVerdict, Verdicts
  <2>6. \/ r \in {[exit |-> 2, found |-> FALSE], [exit |-> -1, found |-> FALSE]}
        \/ s \in malware /\ r = [exit |-> 1, found |-> TRUE]
        \/ s \notin malware /\ r = [exit |-> 0, found |-> FALSE]
    BY <2>2 DEF ClamReplies
  <2>7. \/ r.exit \in {2, -1} /\ r.found = FALSE
        \/ s \in malware /\ r.exit = 1
        \/ s \notin malware /\ r.exit = 0 /\ r.found = FALSE
    BY <2>6
  <2>8. QED
    BY <2>7, <2>3, <2>4, <2>5
<1>2. CASE Engine = "trendmicro"
  <2>1. v \in {TrendVerdict(r) : r \in TrendReplies(s)}
    BY <1>2 DEF VerdictsOn
  <2>2. PICK r \in TrendReplies(s) : v = TrendVerdict(r)
    BY <2>1
  <2> DEFINE Zero == Count(0, 0, 0, 0)
             Looked == Count(1, 0, 0, 0)
  <2>3. ASSUME NEW e \in {253, 248, 2} \cup Refusals, NEW a \in {0, 1}, NEW b \in {0, 1}
        PROVE  TrendVerdict(Result(e, FALSE, Count(a, b, 0, 0))) = "error"
    <3> DEFINE q == Result(e, FALSE, Count(a, b, 0, 0))
    <3>1. q.json /\ ~q.names
      BY DEF Result
    <3>2. q.exit = e /\ q.count = Count(a, b, 0, 0)
      BY DEF Result
    <3> HIDE DEF q
    <3>3. a \in Int /\ b \in Int
      OBVIOUS
    <3>4. Val(Count(a, b, 0, 0)["infected"]) = 0
      BY <3>3, CountFields
    <3>5. q.exit = e /\ Val(q.count["infected"]) = 0
      BY <3>2, <3>4
    <3>6. q.exit \notin {0, 1, 3}
      BY <3>5 DEF Refusals
    <3>7. ~MalwareSeen(q)
      BY <3>5, <3>1, <3>6, NoneSeen
    <3>8. ~FinishedClean(q)
      BY <3>6 DEF FinishedClean
    <3>9. TrendVerdict(q) = "error"
      BY <3>1, <3>7, <3>8, NoVerdict
    <3>10. QED
      BY <3>9 DEF q
  <2>4. TrendVerdict([Result(-1, FALSE, Zero) EXCEPT !.json = FALSE]) = "error"
    BY DEF TrendVerdict, Result
  <2>5. TrendVerdict(Result(0, FALSE, Zero)) = "error"
    <3> DEFINE q == Result(0, FALSE, Zero)
    <3>1. q.json /\ ~q.names
      BY DEF Result
    <3>2. q.exit = 0 /\ q.count = Zero
      BY DEF Result
    <3> HIDE DEF q
    <3>3. q.exit = 0 /\ Val(q.count["infected"]) = 0 /\ Val(q.count["scanned"]) = 0
      BY <3>2, CountFields
    <3>4. ~MalwareSeen(q)
      BY <3>3, <3>1, NoneSeen
    <3>5. ~FinishedClean(q)
      BY <3>3 DEF FinishedClean
    <3>6. TrendVerdict(q) = "error"
      BY <3>1, <3>4, <3>5, NoVerdict
    <3>7. QED
      BY <3>6 DEF q
  <2>6. TrendVerdict(Result(1, TRUE, Count(1, 0, 1, 0))) = "infected"
    <3> DEFINE q == Result(1, TRUE, Count(1, 0, 1, 0))
    <3>1. q.json /\ q.names
      BY DEF Result
    <3> HIDE DEF q
    <3>2. TrendVerdict(q) = "infected"
      BY <3>1 DEF TrendVerdict, MalwareSeen
    <3>3. QED
      BY <3>2 DEF q
  <2>7. TrendVerdict(Result(0, FALSE, Looked)) \in {"clean", "error"}
    <3> DEFINE q == Result(0, FALSE, Looked)
    <3>1. q.json /\ ~q.names
      BY DEF Result
    <3>2. q.exit = 0 /\ q.count = Looked
      BY DEF Result
    <3> HIDE DEF q
    <3>3. q.exit = 0 /\ Val(q.count["infected"]) = 0
      BY <3>2, CountFields
    <3>4. ~MalwareSeen(q)
      BY <3>3, <3>1, NoneSeen
    <3>5. CASE FinishedClean(q)
      <4>1. TrendVerdict(q) = "clean"
        BY <3>1, <3>4, <3>5 DEF TrendVerdict
      <4>2. QED
        BY <4>1 DEF q
    <3>6. CASE ~FinishedClean(q)
      <4>1. TrendVerdict(q) = "error"
        BY <3>1, <3>4, <3>6, NoVerdict
      <4>2. QED
        BY <4>1 DEF q
    <3>7. QED
      BY <3>5, <3>6
  <2>8. CASE v = "error"
    BY <2>8 DEF Verdicts
  <2>9. CASE r = Result(1, TRUE, Count(1, 0, 1, 0)) /\ s \in malware
    BY <2>2, <2>6, <2>9 DEF Verdicts
  <2>10. CASE r = Result(0, FALSE, Looked) /\ s \notin malware
    BY <2>2, <2>7, <2>10 DEF Verdicts
  <2>11. \/ r \in {Result(253, FALSE, Zero), Result(248, FALSE, Looked),
                    [Result(-1, FALSE, Zero) EXCEPT !.json = FALSE],
                    Result(0, FALSE, Zero), Result(2, FALSE, Count(0, 1, 0, 0))}
         \/ \E e \in Refusals : r = Result(e, FALSE, Zero)
         \/ r = Result(1, TRUE, Count(1, 0, 1, 0)) /\ s \in malware
         \/ r = Result(0, FALSE, Looked) /\ s \notin malware
    BY <2>2 DEF TrendReplies
  <2>12. \A e \in {253, 248, 2} \cup Refusals, a, b \in {0, 1} :
           TrendVerdict(Result(e, FALSE, Count(a, b, 0, 0))) = "error"
    BY <2>3
  <2>13. CASE r = Result(253, FALSE, Zero)
    <3>1. TrendVerdict(Result(253, FALSE, Count(0, 0, 0, 0))) = "error"
      BY <2>12
    <3>2. v = "error"
      BY <2>2, <2>13, <3>1
    <3>3. QED
      BY <2>8, <3>2
  <2>14. CASE r = Result(248, FALSE, Looked)
    <3>1. TrendVerdict(Result(248, FALSE, Count(1, 0, 0, 0))) = "error"
      BY <2>12
    <3>2. v = "error"
      BY <2>2, <2>14, <3>1
    <3>3. QED
      BY <2>8, <3>2
  <2>15. CASE r = Result(2, FALSE, Count(0, 1, 0, 0))
    <3>1. TrendVerdict(Result(2, FALSE, Count(0, 1, 0, 0))) = "error"
      BY <2>12
    <3>2. v = "error"
      BY <2>2, <2>15, <3>1
    <3>3. QED
      BY <2>8, <3>2
  <2>16. CASE \E e \in Refusals : r = Result(e, FALSE, Zero)
    <3>1. PICK e \in Refusals : r = Result(e, FALSE, Zero)
      BY <2>16
    <3>2. TrendVerdict(Result(e, FALSE, Count(0, 0, 0, 0))) = "error"
      BY <2>12
    <3>3. v = "error"
      BY <2>2, <3>1, <3>2
    <3>4. QED
      BY <2>8, <3>3
  <2> HIDE DEF Zero, Looked
  <2>17. CASE r = [Result(-1, FALSE, Zero) EXCEPT !.json = FALSE] \/ r = Result(0, FALSE, Zero)
    <3>1. v = "error"
      BY <2>2, <2>4, <2>5, <2>17
    <3>2. QED
      BY <2>8, <3>1
  <2>18. QED
    BY <2>9, <2>10, <2>11, <2>13, <2>14, <2>15, <2>16, <2>17
<1>3. CASE Engine = "mock"
  <2>1. v \in MockVerdicts(s)
    BY <1>3 DEF VerdictsOn
  <2>2. QED
    BY <2>1 DEF MockVerdicts, Verdicts
<1>4. QED
  BY <1>1, <1>2, <1>3, ScanAssumption

--------------------------------------------------------------------------------
(* Type correctness. *)

\* The service touches the cache through its operations only, each scan only its
\* own path, and only the watcher adds to it.
LEMMA CalmUse == ScanTypes /\ [Next]_vars => CalmStep \/ WatchLine
<1> SUFFICES ASSUME ScanTypes, [Next]_vars PROVE CalmStep \/ WatchLine
  OBVIOUS
<1> USE DEF CalmStep
<1>1. CASE UNCHANGED vars
  BY <1>1 DEF vars, cacheVars
<1>2. ASSUME NEW s \in Scans, WaitForRTS(s) PROVE CalmStep
  <2>1. CASE Engine = "mock"
    BY <1>2, <2>1 DEF WaitForRTS
  <2>2. CASE Engine # "mock"
    <3>1. Timeout - elapsed[s] \in 0..Timeout
      BY ScanAssumption DEF ScanTypes
    <3>2. QED
      BY <1>2, <2>2, <3>1 DEF WaitForRTS
  <2>3. QED
    BY <2>1, <2>2
<1>3. ASSUME NEW s \in Scans, Handler(s) PROVE CalmStep
  <2>1. CASE \/ RefuseUpload(s) \/ CreateUpload(s) \/ CopyFails(s)
             \/ CallScan(s) \/ EngineReads(s)
    BY <2>1 DEF RefuseUpload, CreateUpload, CopyFails, CallScan, EngineReads
  <2>2. CASE ManualReturns(s)
    BY <2>2, <1>2 DEF ManualReturns, Decide
  <2>3. CASE EngineNotStarted(s) \/ ManualTimesOut(s)
    BY <2>3, <1>2 DEF EngineNotStarted, ManualTimesOut
  <2>4. CASE WaitStep(s)
    BY <2>4 DEF WaitStep
  <2>5. CASE WatchReturns(s) \/ MockWatch(s) \/ FinishScan(s)
    BY <2>5 DEF WatchReturns, MockWatch, FinishScan
  <2>6. QED
    BY <1>3, <2>1, <2>2, <2>3, <2>4, <2>5 DEF Handler
<1>4. ASSUME NEW s \in Scans, RealTimeScanner(s) PROVE CalmStep
  BY <1>4 DEF RealTimeScanner, RTSDetects, RTSQuarantines, RTSLogs
<1>5. CASE OpenLog \/ WatcherFails \/ WatcherStops
  BY <1>5 DEF OpenLog, WatcherFails, WatcherStops
<1>6. CASE StopService
  BY <1>6 DEF StopService
<1>7. CASE CleanupStep
  BY <1>7 DEF CleanupStep
<1>8. CASE Tick
  BY <1>8 DEF Tick
<1>9. QED
  BY <1>1, <1>3, <1>4, <1>5, <1>6, <1>7, <1>8 DEF Next

LEMMA CacheUse == ScanTypes /\ [Next]_vars => CacheStep
<1> SUFFICES ASSUME ScanTypes, WatchLine PROVE CacheStep
  BY CalmUse DEF CacheStep
<1>1. Head(log) \in Scans
  BY DEF WatchLine, ScanTypes
<1>2. QED
  BY <1>1 DEF WatchLine, CacheStep

\* Every step keeps the types of the other variables.
LEMMA ScanTypesStep == ScanTypes /\ [Next]_vars => ScanTypes'
<1> SUFFICES ASSUME ScanTypes, [Next]_vars PROVE ScanTypes'
  OBVIOUS
<1> USE DEF ScanTypes, Stages, Answers, Verdicts
<1>1. CASE UNCHANGED vars
  BY <1>1 DEF vars, scanVars, rtsVars
<1>2. ASSUME NEW s \in Scans, RefuseUpload(s) PROVE ScanTypes'
  BY <1>2 DEF RefuseUpload, Answer, rtsVars
<1>3. ASSUME NEW s \in Scans, CreateUpload(s) PROVE ScanTypes'
  BY <1>3 DEF CreateUpload, rtsVars
<1>4. ASSUME NEW s \in Scans, CopyFails(s) PROVE ScanTypes'
  BY <1>4 DEF CopyFails, Answer, Removed, rtsVars
<1>5. ASSUME NEW s \in Scans, CallScan(s) PROVE ScanTypes'
  BY <1>5 DEF CallScan, rtsVars
<1>6. ASSUME NEW s \in Scans, EngineReads(s) PROVE ScanTypes'
  <2>1. PICK v \in VerdictsOn(s) : heard' = [heard EXCEPT ![s] = v]
    BY <1>6 DEF EngineReads
  <2>2. v \in {"clean", "infected", "error"}
    BY <2>1, VerdictsTrue
  <2>3. QED
    BY <1>6, <2>1, <2>2 DEF EngineReads, rtsVars
<1>7. ASSUME NEW s \in Scans,
             WaitForRTS(s) \/ (heard[s] \in Verdicts /\ Decide(s, heard[s])),
             UNCHANGED <<heard, file, malware, rtsVars, early>>
      PROVE  ScanTypes'
  <2>1. 0 \in 0..Timeout
    BY ScanAssumption
  <2>2. elapsed' = [elapsed EXCEPT ![s] = 0]
    BY <1>7 DEF WaitForRTS, Decide
  <2>3. elapsed' \in [Scans -> 0..Timeout]
    BY <2>1, <2>2
  <2>4. stage' \in [Scans -> Stages] /\ answer' \in [Scans -> Answers \cup {None}]
    BY <1>7 DEF WaitForRTS, Decide
  <2>5. QED
    BY <1>7, <2>3, <2>4 DEF rtsVars
<1>8. ASSUME NEW s \in Scans,
             ManualReturns(s) \/ EngineNotStarted(s) \/ ManualTimesOut(s)
      PROVE  ScanTypes'
  BY <1>7, <1>8 DEF ManualReturns, EngineNotStarted, ManualTimesOut
<1>9. ASSUME NEW s \in Scans, WaitStep(s) PROVE ScanTypes'
  BY <1>9 DEF WaitStep, scanVars, rtsVars
<1>10. ASSUME NEW s \in Scans, WatchReturns(s) PROVE ScanTypes'
  BY <1>10 DEF WatchReturns, Answer, rtsVars
<1>11. ASSUME NEW s \in Scans, MockWatch(s) PROVE ScanTypes'
  BY <1>11 DEF MockWatch, Answer, rtsVars
<1>12. ASSUME NEW s \in Scans, FinishScan(s) PROVE ScanTypes'
  BY <1>12 DEF FinishScan, Removed, rtsVars
<1>13. ASSUME NEW s \in Scans, RTSDetects(s) PROVE ScanTypes'
  BY <1>13 DEF RTSDetects, scanVars
<1>14. ASSUME NEW s \in Scans, RTSQuarantines(s) PROVE ScanTypes'
  BY <1>14 DEF RTSQuarantines, scanVars, rtsVars
<1>15. ASSUME NEW s \in Scans, RTSLogs(s) PROVE ScanTypes'
  BY <1>15 DEF RTSLogs, scanVars
<1>16. CASE OpenLog
  BY <1>16 DEF OpenLog, scanVars
<1>17. CASE WatchLine
  BY <1>17 DEF WatchLine, scanVars
<1>18. CASE StopService \/ WatcherFails \/ WatcherStops
  BY <1>18 DEF StopService, WatcherFails, WatcherStops, scanVars, rtsVars
<1>19. CASE CleanupStep
  BY <1>19 DEF CleanupStep, scanVars, rtsVars
<1>20. CASE Tick
  BY <1>20, ScanAssumption DEF Tick, rtsVars
<1>21. QED
  BY <1>1, <1>2, <1>3, <1>4, <1>5, <1>6, <1>8, <1>9, <1>10, <1>11, <1>12, <1>13,
     <1>14, <1>15, <1>16, <1>17, <1>18, <1>19, <1>20 DEF Next, Handler, RealTimeScanner

--------------------------------------------------------------------------------
(* The safety invariants. *)

LEMMA TypeOKSplit == TypeOK <=> ScanTypes /\ Cache!TypeOK /\ WaitsInRTS
BY DEF TypeOK, ScanTypes, WaitsInRTS

\* The parts of the invariant that speak of the cache.
InCache ==
    /\ WaitsInRTS
    /\ OwnPath
    /\ DetectedIsMalware
    /\ MockHasNoWatcher
    /\ EarlyIsKept

\* Nothing happens to the cache.
LEMMA QuietEffect ==
    ASSUME UNCHANGED cacheVars
    PROVE  /\ \A p \in Scans : Cache!Present(p)' <=> Cache!Present(p)
           /\ waits' = waits
BY DEF cacheVars, Cache!Present

\* Nor to the stages, nor to what is malware.
LEMMA QuietStep ==
    ASSUME ScanTypes, InCache, UNCHANGED cacheVars, UNCHANGED <<stage, malware, early>>,
           log' \in Seq(malware), \A s \in Scans : rts'[s] # "quiet" => s \in malware,
           Engine = "mock" => watcher' = "absent"
    PROVE  InCache'
<1>1. /\ \A p \in Scans : Cache!Present(p)' <=> Cache!Present(p)
      /\ waits' = waits
  BY QuietEffect
<1>2. WaitsInRTS' /\ OwnPath'
  BY <1>1 DEF InCache, WaitsInRTS, OwnPath
<1>3. DetectedIsMalware'
  BY <1>1 DEF InCache, DetectedIsMalware
<1>4. MockHasNoWatcher'
  BY <1>1 DEF InCache, MockHasNoWatcher
<1>5. EarlyIsKept'
  BY <1>1 DEF ScanTypes, InCache, EarlyIsKept
<1>6. QED
  BY <1>2, <1>3, <1>4, <1>5 DEF InCache

\* A waiting scan moves: what is then true of it, and that the others stay.
LEMMA WaiterStep ==
    ASSUME InCache, NEW s \in Scans, UNCHANGED <<stage, malware, early, rts, log>>,
           early \subseteq Scans, Engine # "mock", stage[s] = "rts",
           \A w \in Scans \ {s} : waits'[w] = waits[w],
           \A p \in Scans \ {s} : Cache!Present(p)' <=> Cache!Present(p),
           Cache!Present(s)' => Cache!Present(s),
           waits'[s].pc \in Cache!Waiting => waits'[s].path = s,
           waits'[s].pc = "found" => Cache!Present(s),
           s \in early => \/ waits'[s].pc = "check" /\ Cache!Present(s)'
                         \/ waits'[s].pc = "found"
    PROVE  InCache'
<1>1. WaitsInRTS'
  BY DEF InCache, WaitsInRTS
<1>2. OwnPath'
  BY DEF InCache, OwnPath
<1>3. DetectedIsMalware'
  BY DEF InCache, DetectedIsMalware
<1>4. MockHasNoWatcher'
  BY DEF MockHasNoWatcher
<1>5. EarlyIsKept'
  <2> SUFFICES ASSUME NEW w \in early, InCache
               PROVE  /\ stage[w] # "idle"
                      /\ stage[w] \in {"saving", "manual"} => Cache!Present(w)'
                      /\ stage[w] = "rts" => \/ waits'[w].pc = "check" /\ Cache!Present(w)'
                                             \/ waits'[w].pc = "found"
    BY DEF EarlyIsKept
  <2>0. w \in Scans
    OBVIOUS
  <2>1. CASE w = s
    BY <2>1
  <2>2. CASE w # s
    <3>1. (Cache!Present(w)' <=> Cache!Present(w)) /\ waits'[w] = waits[w]
      BY <2>0, <2>2
    <3>2. QED
      BY <3>1 DEF InCache, EarlyIsKept
  <2>3. QED
    BY <2>1, <2>2
<1>6. QED
  BY <1>1, <1>2, <1>3, <1>4, <1>5 DEF InCache

\* The stages before the engine's answer, and the upload's removal.
LEMMA InCacheStep == IInv /\ [Next]_vars => InCache'
<1> SUFFICES ASSUME IInv, [Next]_vars PROVE InCache'
  OBVIOUS
<1>0. ScanTypes /\ Cache!TypeOK /\ InCache
  BY TypeOKSplit DEF IInv, InCache
<1> USE DEF InCache, WaitsInRTS, OwnPath, DetectedIsMalware, MockHasNoWatcher, EarlyIsKept
<1>1. CASE UNCHANGED vars
  <2>1. UNCHANGED <<stage, malware, early, log, rts, watcher>> /\ UNCHANGED cacheVars
    BY <1>1 DEF vars, scanVars, rtsVars
  <2>2. QED
    BY <1>0, <2>1, QuietStep
<1>2. ASSUME NEW s \in Scans, RefuseUpload(s) PROVE InCache'
  BY <1>0, <1>2, QuietEffect DEF RefuseUpload, Answer, rtsVars, ScanTypes, Cache!Waiting
<1>3. ASSUME NEW s \in Scans, CreateUpload(s) PROVE InCache'
  BY <1>0, <1>3, QuietEffect DEF CreateUpload, rtsVars, ScanTypes, Cache!Waiting
<1>4. ASSUME NEW s \in Scans, CopyFails(s) PROVE InCache'
  BY <1>0, <1>4, QuietEffect DEF CopyFails, Answer, rtsVars, ScanTypes, Cache!Waiting
<1>5. ASSUME NEW s \in Scans, CallScan(s) PROVE InCache'
  BY <1>0, <1>5, QuietEffect DEF CallScan, rtsVars, ScanTypes, Cache!Waiting
<1>6. ASSUME NEW s \in Scans, EngineReads(s) PROVE InCache'
  <2>1. UNCHANGED <<stage, malware, early, log, rts, watcher>> /\ UNCHANGED cacheVars
    BY <1>6 DEF EngineReads, rtsVars
  <2>2. QED
    BY <1>0, <2>1, QuietStep
<1>7. ASSUME NEW s \in Scans, stage[s] = "manual", WaitForRTS(s),
             UNCHANGED <<heard, file, malware, rtsVars, early>>
      PROVE  InCache'
  <2>1. CASE Engine = "mock"
    BY <1>0, <1>7, <2>1, QuietEffect DEF WaitForRTS, rtsVars, ScanTypes, Cache!Waiting
  <2>2. CASE Engine # "mock"
    <3>1. Timeout - elapsed[s] \in 0..Timeout
      BY <1>0, ScanAssumption DEF ScanTypes
    <3>2. /\ \A p \in Scans : Cache!Present(p)' <=> Cache!Present(p)
          /\ waits'[s].pc = "check" /\ waits'[s].path = s
          /\ \A w \in Scans \ {s} : waits'[w] = waits[w]
      BY <1>0, <1>7, <2>2, <3>1, StartEffect DEF WaitForRTS
    <3>3. /\ stage' = [stage EXCEPT ![s] = "rts"]
          /\ UNCHANGED <<malware, rts, log, watcher, early>>
      BY <1>7 DEF WaitForRTS, rtsVars
    <3>4. stage'[s] = "rts" /\ \A w \in Scans \ {s} : stage'[w] = stage[w]
      BY <1>0, <3>3 DEF ScanTypes
    <3>5. WaitsInRTS' /\ OwnPath'
      BY <1>0, <3>2, <3>4
    <3>6. DetectedIsMalware'
      BY <1>0, <3>2, <3>3
    <3>7. MockHasNoWatcher'
      BY <2>2
    <3>8. EarlyIsKept'
      BY <1>0, <1>7, <3>2, <3>3, <3>4 DEF ScanTypes
    <3>9. QED
      BY <3>5, <3>6, <3>7, <3>8
  <2>3. QED
    BY <2>1, <2>2
<1>8. ASSUME NEW s \in Scans, ManualReturns(s) PROVE InCache'
  <2>1. CASE WaitForRTS(s)
    BY <1>7, <1>8, <2>1 DEF ManualReturns
  <2>2. CASE Decide(s, heard[s])
    BY <1>0, <1>8, <2>2, QuietEffect
       DEF ManualReturns, Decide, rtsVars, ScanTypes, Cache!Waiting
  <2>3. QED
    BY <1>8, <2>1, <2>2 DEF ManualReturns
<1>9. ASSUME NEW s \in Scans, EngineNotStarted(s) \/ ManualTimesOut(s) PROVE InCache'
  BY <1>7, <1>9 DEF EngineNotStarted, ManualTimesOut
<1>10. ASSUME NEW s \in Scans, WaitStep(s) PROVE InCache'
  <2>0. /\ Engine # "mock" /\ UNCHANGED <<stage, malware, early, rts, log>>
        /\ early \subseteq Scans
    BY <1>0, <1>10 DEF WaitStep, scanVars, rtsVars, ScanTypes
  <2>1. CASE Cache!CheckCache(s)
    <3>1. waits[s].path = s /\ waits[s].pc = "check" /\ stage[s] = "rts"
      BY <1>0, <2>1 DEF Cache!CheckCache, Cache!Waiting
    <3>2. /\ \/ /\ Cache!Present(s)
                /\ \A p \in Scans : Cache!Present(p)' <=> p # s /\ Cache!Present(p)
                /\ waits'[s].pc = "found"
             \/ /\ ~Cache!Present(s)
                /\ \A p \in Scans : Cache!Present(p)' <=> Cache!Present(p)
                /\ waits'[s].pc = "select" /\ waits'[s].path = s
          /\ \A w \in Scans \ {s} : waits'[w] = waits[w]
      BY <1>0, <2>1, <3>1, CheckEffect
    <3>3. s \in early => Cache!Present(s)
      BY <1>0, <3>1
    <3>4. waits'[s].pc \in Cache!Waiting => waits'[s].path = s
      BY <3>2 DEF Cache!Waiting
    <3>5. QED
      BY <1>0, <2>0, <3>1, <3>2, <3>3, <3>4, WaiterStep
  <2>2. CASE Cache!WakeUp(s)
    <3>1. /\ waits[s].pc = "select" /\ waits'[s].pc = "check"
          /\ waits'[s].path = waits[s].path
          /\ \A p \in Scans : Cache!Present(p)' <=> Cache!Present(p)
          /\ \A w \in Scans \ {s} : waits'[w] = waits[w]
      BY <1>0, <2>2, WakeEffect
    <3>2. waits[s].path = s /\ stage[s] = "rts"
      BY <1>0, <3>1 DEF Cache!Waiting
    <3>3. s \notin early
      BY <1>0, <3>1, <3>2
    <3>4. QED
      BY <1>0, <2>0, <3>1, <3>2, <3>3, WaiterStep
  <2>3. CASE Cache!TimerFires(s)
    <3>1. /\ waits[s].pc = "select" /\ waits'[s].pc = "missed"
          /\ \A p \in Scans : Cache!Present(p)' <=> Cache!Present(p)
          /\ \A w \in Scans \ {s} : waits'[w] = waits[w]
      BY <1>0, <2>3, TimerEffect
    <3>2. stage[s] = "rts"
      BY <1>0, <3>1 DEF Cache!Waiting
    <3>3. s \notin early
      BY <1>0, <3>1, <3>2
    <3>4. waits'[s].pc \notin Cache!Waiting
      BY <3>1 DEF Cache!Waiting
    <3>5. QED
      BY <1>0, <2>0, <3>1, <3>2, <3>3, <3>4, WaiterStep
  <2>4. QED
    BY <1>10, <2>1, <2>2, <2>3 DEF WaitStep
<1>11. ASSUME NEW s \in Scans, WatchReturns(s) PROVE InCache'
  BY <1>0, <1>11, QuietEffect DEF WatchReturns, Answer, rtsVars, ScanTypes, Cache!Waiting
<1>12. ASSUME NEW s \in Scans, MockWatch(s) PROVE InCache'
  BY <1>0, <1>12, QuietEffect DEF MockWatch, Answer, rtsVars, ScanTypes, Cache!Waiting
<1>13. ASSUME NEW s \in Scans, FinishScan(s) PROVE InCache'
  BY <1>0, <1>13, QuietEffect DEF FinishScan, rtsVars, ScanTypes, Cache!Waiting
<1>14. ASSUME NEW s \in Scans, RTSDetects(s) PROVE InCache'
  BY <1>0, <1>14, QuietEffect DEF RTSDetects, scanVars, ScanTypes
<1>15. ASSUME NEW s \in Scans, RTSQuarantines(s) PROVE InCache'
  <2>1. UNCHANGED <<stage, malware, early, log, rts, watcher>> /\ UNCHANGED cacheVars
    BY <1>15 DEF RTSQuarantines, scanVars, rtsVars
  <2>2. QED
    BY <1>0, <2>1, QuietStep
<1>16. ASSUME NEW s \in Scans, RTSLogs(s) PROVE InCache'
  BY <1>0, <1>16, QuietEffect DEF RTSLogs, scanVars, ScanTypes
<1>17. CASE OpenLog
  <2>1. /\ UNCHANGED <<stage, malware, early, rts>> /\ UNCHANGED cacheVars
        /\ log' = <<>> /\ watcher = "starting"
    BY <1>17 DEF OpenLog, scanVars
  <2>2. log' \in Seq(malware)
    BY <2>1
  <2>3. QED
    BY <1>0, <2>1, <2>2, QuietStep
<1>18. CASE WatchLine
  <2> DEFINE h == Head(log)
  <2>1. h \in malware /\ h \in Scans /\ Tail(log) \in Seq(malware)
    BY <1>0, <1>18 DEF WatchLine, ScanTypes
  <2>2. Cache!Add(h, h)
    BY <1>18 DEF WatchLine
  <2> HIDE DEF h
  <2>3. /\ \A p \in Scans : Cache!Present(p)' <=> p = h \/ Cache!Present(p)
        /\ \A w \in Scans : waits'[w].pc = waits[w].pc /\ waits'[w].path = waits[w].path
    BY <1>0, <2>1, <2>2, AddEffect
  <2>4. /\ early' = IF stage[h] \in {"saving", "manual"} THEN early \cup {h} ELSE early
        /\ log' = Tail(log) /\ watcher = "running"
        /\ UNCHANGED <<stage, answer, heard, elapsed, file, malware, rts, logExists, watcher>>
    BY <1>18 DEF WatchLine, scanVars, h
  <2>5. WaitsInRTS' /\ OwnPath'
    BY <1>0, <2>3, <2>4
  <2>6. DetectedIsMalware'
    BY <1>0, <2>1, <2>3, <2>4
  <2>7. MockHasNoWatcher'
    BY <1>0, <2>3, <2>4
  <2>8. EarlyIsKept'
    <3>1. \A s \in early' : s \in early \/ (s = h /\ stage[h] \in {"saving", "manual"})
      BY <2>4
    <3>2. \A s \in early : s \in Scans
      BY <1>0 DEF ScanTypes
    <3>3. ASSUME NEW s \in early'
          PROVE  /\ stage'[s] # "idle"
                 /\ stage'[s] \in {"saving", "manual"} => Cache!Present(s)'
                 /\ stage'[s] = "rts" => \/ waits'[s].pc = "check" /\ Cache!Present(s)'
                                         \/ waits'[s].pc = "found"
      <4>1. CASE s \in early
        BY <1>0, <2>3, <2>4, <3>2, <4>1
      <4>2. CASE s = h /\ stage[h] \in {"saving", "manual"}
        BY <2>1, <2>3, <2>4, <4>2
      <4>3. QED
        BY <3>1, <3>3, <4>1, <4>2
    <3>4. QED
      BY <3>3
  <2>9. QED
    BY <2>5, <2>6, <2>7, <2>8
<1>19. CASE StopService
  BY <1>0, <1>19 DEF StopService, Cache!Stop, Cache!Present, scanVars, rtsVars
<1>20. CASE WatcherFails \/ WatcherStops
  <2>1. /\ UNCHANGED <<stage, malware, early, log, rts>> /\ UNCHANGED cacheVars
        /\ watcher # "absent"
    BY <1>20 DEF WatcherFails, WatcherStops, scanVars
  <2>2. ~(Engine = "mock")
    BY <1>0, <2>1 DEF InCache, MockHasNoWatcher
  <2>3. QED
    BY <1>0, <2>1, <2>2, QuietStep
<1>21. CASE CleanupStep
  <2>1. /\ \A p \in Scans : Cache!Present(p)' => Cache!Present(p)
        /\ waits' = waits
    BY <1>0, <1>21, CleanupEffect DEF CleanupStep
  <2>2. /\ early' = early \ {s \in early : Cache!Present(s) /\ ~Cache!Present(s)'}
        /\ UNCHANGED <<stage, answer, heard, elapsed, file, malware, rts, log, watcher>>
    BY <1>21 DEF CleanupStep, scanVars, rtsVars
  <2>3. QED
    BY <1>0, <2>1, <2>2 DEF ScanTypes
<1>22. CASE Tick
  <2>1. /\ \A p \in Scans : Cache!Present(p)' <=> Cache!Present(p)
        /\ \A w \in Scans : waits'[w].pc = waits[w].pc /\ waits'[w].path = waits[w].path
    BY <1>0, <1>22, TickEffect DEF Tick
  <2>2. QED
    BY <1>0, <1>22, <2>1 DEF Tick, rtsVars, ScanTypes
<1>23. QED
  BY <1>1, <1>2, <1>3, <1>4, <1>5, <1>6, <1>8, <1>9, <1>10, <1>11, <1>12, <1>13, <1>14,
     <1>15, <1>16, <1>17, <1>18, <1>19, <1>20, <1>21, <1>22 DEF Next, Handler, RealTimeScanner

\* What the invariant says of the answer to one scan.
AnsweredAt(s) ==
    /\ heard[s] = "clean" => s \notin malware
    /\ heard[s] = "infected" => s \in malware
    /\ stage[s] = "cleanup" => answer[s] \in Verdicts
    /\ answer[s] = "clean" => s \notin malware
    /\ answer[s] = "infected" => s \in malware
    /\ stage[s] = "done" /\ answer[s] \in Verdicts => file[s] # "present"
    /\ stage[s] = "done" /\ answer[s] = "error" => s \notin early

Answered == \A s \in Scans : AnsweredAt(s)

LEMMA IInvSplit == IInv <=> ScanTypes /\ Cache!TypeOK /\ InCache /\ Answered
BY TypeOKSplit
   DEF IInv, InCache, Answered, AnsweredAt, HeardIsTrue, VerdictFirst, NeverFalseClean,
       NeverFalseInfected, VerdictLeavesNoUpload, EarlyDetectionWins

\* A step that leaves a scan where it is, puts no file on disk and sees no
\* detection after the answer, leaves what is said of its answer.
LEMMA SameAnswer ==
    ASSUME NEW w \in Scans, AnsweredAt(w), malware' = malware,
           stage'[w] = stage[w], answer'[w] = answer[w], heard'[w] = heard[w],
           file'[w] = "present" => file[w] = "present",
           w \in early' => w \in early \/ stage[w] # "done"
    PROVE  AnsweredAt(w)'
BY DEF AnsweredAt

\* A step of one scan's handler: the others are left alone.
LEMMA OwnAnswer ==
    ASSUME Answered, NEW s \in Scans, UNCHANGED <<malware, early>>, AnsweredAt(s)',
           \A w \in Scans \ {s} : /\ stage'[w] = stage[w] /\ answer'[w] = answer[w]
                                  /\ heard'[w] = heard[w] /\ file'[w] = file[w]
    PROVE  Answered'
<1>1. ASSUME NEW w \in Scans \ {s} PROVE AnsweredAt(w)'
  BY <1>1, SameAnswer DEF Answered
<1>2. QED
  BY <1>1 DEF Answered

\* Whatever an engine does, a detection may race with, or the system refuses, the
\* answer remains true, no verdict leaves an upload behind, and a detection that
\* was early enough is not overlooked.
LEMMA AnsweredStep == IInv /\ [Next]_vars => Answered'
<1> SUFFICES ASSUME IInv, [Next]_vars PROVE Answered'
  OBVIOUS
<1>0. ScanTypes /\ InCache /\ Answered
  BY IInvSplit
<1> USE DEF ScanTypes, AnsweredAt
<1>1. CASE UNCHANGED vars
  BY <1>0, <1>1 DEF Answered, vars, scanVars
<1>2. ASSUME NEW s \in Scans, RefuseUpload(s) PROVE Answered'
  <2>1. AnsweredAt(s)'
    BY <1>0, <1>2 DEF RefuseUpload, Answer, Answered, Verdicts
  <2>2. QED
    BY <1>0, <1>2, <2>1, OwnAnswer DEF RefuseUpload, Answer
<1>3. ASSUME NEW s \in Scans, CreateUpload(s) PROVE Answered'
  <2>1. AnsweredAt(s)'
    BY <1>0, <1>3 DEF CreateUpload, Answered
  <2>2. QED
    BY <1>0, <1>3, <2>1, OwnAnswer DEF CreateUpload
<1>4. ASSUME NEW s \in Scans, CopyFails(s) PROVE Answered'
  <2>1. AnsweredAt(s)'
    BY <1>0, <1>4 DEF CopyFails, Answer, Answered, Verdicts
  <2>2. QED
    BY <1>0, <1>4, <2>1, OwnAnswer DEF CopyFails, Answer, Removed
<1>5. ASSUME NEW s \in Scans, CallScan(s) PROVE Answered'
  <2>1. AnsweredAt(s)'
    BY <1>0, <1>5 DEF CallScan, Answered
  <2>2. QED
    BY <1>0, <1>5, <2>1, OwnAnswer DEF CallScan
<1>6. ASSUME NEW s \in Scans, EngineReads(s) PROVE Answered'
  <2>1. PICK v \in VerdictsOn(s) : heard' = [heard EXCEPT ![s] = v]
    BY <1>6 DEF EngineReads
  <2>2. /\ v = "clean" => s \notin malware
        /\ v = "infected" => s \in malware
    BY <2>1, VerdictsTrue
  <2>3. UNCHANGED <<stage, answer, file, malware, early>>
    BY <1>6 DEF EngineReads
  <2>4. AnsweredAt(s)'
    BY <1>0, <2>1, <2>2, <2>3 DEF Answered
  <2>5. QED
    BY <1>0, <2>1, <2>3, <2>4, OwnAnswer
<1>7. ASSUME NEW s \in Scans, WaitForRTS(s),
             UNCHANGED <<heard, file, malware, rtsVars, early>>
      PROVE  Answered'
  <2>1. AnsweredAt(s)'
    BY <1>0, <1>7 DEF WaitForRTS, Answered
  <2>2. QED
    BY <1>0, <1>7, <2>1, OwnAnswer DEF WaitForRTS
<1>8. ASSUME NEW s \in Scans, ManualReturns(s) PROVE Answered'
  <2>1. CASE WaitForRTS(s)
    BY <1>7, <1>8, <2>1 DEF ManualReturns
  <2>2. CASE heard[s] \in Verdicts /\ Decide(s, heard[s])
    <3>1. AnsweredAt(s)'
      BY <1>0, <1>8, <2>2 DEF ManualReturns, Decide, Answered
    <3>2. QED
      BY <1>0, <1>8, <2>2, <3>1, OwnAnswer DEF ManualReturns, Decide
  <2>3. QED
    BY <1>8, <2>1, <2>2 DEF ManualReturns
<1>9. ASSUME NEW s \in Scans, EngineNotStarted(s) \/ ManualTimesOut(s) PROVE Answered'
  BY <1>7, <1>9 DEF EngineNotStarted, ManualTimesOut
<1>10. ASSUME NEW s \in Scans, WaitStep(s) PROVE Answered'
  BY <1>0, <1>10 DEF WaitStep, Answered, scanVars
<1>11. ASSUME NEW s \in Scans, WatchReturns(s) PROVE Answered'
  <2>1. CASE waits[s].pc = "found"
    <3>1. s \in malware
      BY <1>0, <2>1 DEF InCache, DetectedIsMalware
    <3>2. /\ stage' = [stage EXCEPT ![s] = "cleanup"]
          /\ answer' = [answer EXCEPT ![s] = "infected"]
          /\ UNCHANGED <<heard, file, malware, early>>
      BY <1>11, <2>1 DEF WatchReturns
    <3>3. AnsweredAt(s)'
      BY <1>0, <3>1, <3>2 DEF Answered, Verdicts
    <3>4. QED
      BY <1>0, <3>2, <3>3, OwnAnswer
  <2>2. CASE waits[s].pc = "missed"
    <3>1. s \notin early
      BY <1>0, <1>11, <2>2 DEF InCache, EarlyIsKept, WatchReturns
    <3>2. /\ stage' = [stage EXCEPT ![s] = "done"]
          /\ answer' = [answer EXCEPT ![s] = "error"]
          /\ UNCHANGED <<heard, file, malware, early>>
      BY <1>11, <2>2 DEF WatchReturns, Answer
    <3>3. AnsweredAt(s)'
      BY <1>0, <3>1, <3>2 DEF Answered, Verdicts
    <3>4. QED
      BY <1>0, <3>2, <3>3, OwnAnswer
  <2>3. QED
    BY <1>11, <2>1, <2>2 DEF WatchReturns
<1>12. ASSUME NEW s \in Scans, MockWatch(s) PROVE Answered'
  <2>1. PICK v \in MockVerdicts(s) :
          \/ /\ v = "infected"
             /\ stage' = [stage EXCEPT ![s] = "cleanup"]
             /\ answer' = [answer EXCEPT ![s] = "infected"]
          \/ v # "infected" /\ Answer(s, "error")
    BY <1>12 DEF MockWatch
  <2>2. v = "infected" => s \in malware
    BY <2>1 DEF MockVerdicts
  <2>3. early = {} /\ UNCHANGED <<heard, file, malware, early>>
    BY <1>0, <1>12 DEF InCache, MockHasNoWatcher, MockWatch
  <2>4. AnsweredAt(s)'
    BY <1>0, <2>1, <2>2, <2>3 DEF Answer, Answered, Verdicts
  <2>5. QED
    BY <1>0, <2>1, <2>3, <2>4, OwnAnswer DEF Answer
<1>13. ASSUME NEW s \in Scans, FinishScan(s) PROVE Answered'
  <2>1. AnsweredAt(s)'
    BY <1>0, <1>13 DEF FinishScan, Removed, Answered, Verdicts
  <2>2. QED
    BY <1>0, <1>13, <2>1, OwnAnswer DEF FinishScan, Removed
<1>14. ASSUME NEW s \in Scans, RealTimeScanner(s) PROVE Answered'
  <2>1. /\ UNCHANGED <<stage, answer, heard, malware, early>>
        /\ \A w \in Scans : file'[w] = "present" => file[w] = "present"
    BY <1>0, <1>14 DEF RealTimeScanner, RTSDetects, RTSQuarantines, RTSLogs, scanVars
  <2>2. QED
    BY <1>0, <2>1 DEF Answered
<1>15. CASE OpenLog \/ WatcherFails \/ WatcherStops \/ StopService
  BY <1>0, <1>15 DEF OpenLog, WatcherFails, WatcherStops, StopService, Answered, scanVars
<1>16. CASE WatchLine
  <2>1. /\ UNCHANGED <<stage, answer, heard, file, malware>>
        /\ early' = IF stage[Head(log)] \in {"saving", "manual"}
                    THEN early \cup {Head(log)} ELSE early
    BY <1>16 DEF WatchLine, scanVars
  <2>2. \A w \in Scans : w \in early' => w \in early \/ stage[w] # "done"
    BY <2>1
  <2>3. QED
    BY <1>0, <2>1, <2>2, SameAnswer DEF Answered
<1>17. CASE CleanupStep
  <2>1. /\ UNCHANGED <<stage, answer, heard, file, malware>>
        /\ early' \in SUBSET early
    BY <1>17 DEF CleanupStep, scanVars
  <2>2. QED
    BY <1>0, <2>1, SameAnswer DEF Answered
<1>18. CASE Tick
  BY <1>0, <1>18 DEF Tick, Answered
<1>19. QED
  BY <1>1, <1>2, <1>3, <1>4, <1>5, <1>6, <1>8, <1>9, <1>10, <1>11, <1>12, <1>13, <1>14,
     <1>15, <1>16, <1>17, <1>18 DEF Next, Handler

--------------------------------------------------------------------------------
(* The theorems. *)

LEMMA InitIInv == Init => IInv
<1> SUFFICES ASSUME Init PROVE IInv
  OBVIOUS
<1>1. ScanTypes
  <2>1. elapsed \in [Scans -> 0..Timeout]
    BY ScanAssumption DEF Init
  <2>2. log \in Seq(Scans)
    BY DEF Init
  <2>3. /\ logExists \in BOOLEAN
        /\ watcher \in {"absent", "starting", "running", "deaf", "stopped"}
    BY Zenon DEF Init, Started
  <2>4. QED
    BY <2>1, <2>2, <2>3 DEF Init, ScanTypes, Stages
<1>2. Cache!TypeOK
  BY CacheInitTypeOK DEF Init
<1>3. \A s \in Scans : ~Cache!Present(s) /\ waits[s].pc = "idle"
  BY DEF Init, Cache!Init, Cache!Present, Cache!Empty, Cache!Idle
<1>4. InCache
  <2>1. /\ \A s \in Scans : rts[s] = "quiet" /\ stage[s] = "idle"
        /\ log = <<>> /\ early = {}
        /\ Engine = "mock" => watcher = "absent"
    BY DEF Init, Started
  <2>2. log \in Seq(malware)
    BY <2>1
  <2>3. QED
    BY <1>3, <2>1, <2>2
       DEF InCache, WaitsInRTS, OwnPath, DetectedIsMalware, MockHasNoWatcher, EarlyIsKept,
           Cache!Waiting
<1>5. Answered
  BY ScanAssumption DEF Init, Answered, AnsweredAt, Verdicts
<1>6. QED
  BY <1>1, <1>2, <1>4, <1>5, IInvSplit

LEMMA NextIInv == IInv /\ [Next]_vars => IInv'
<1> SUFFICES ASSUME IInv, [Next]_vars PROVE IInv'
  OBVIOUS
<1>1. ScanTypes' /\ Cache!TypeOK'
  BY IInvSplit, ScanTypesStep, CacheUse, CacheTypeStep
<1>2. InCache' /\ Answered'
  BY InCacheStep, AnsweredStep
<1>3. TypeOK'
  BY <1>1, <1>2 DEF InCache, TypeOK, ScanTypes, WaitsInRTS
<1>4. QED
  BY <1>2, <1>3
     DEF IInv, InCache, Answered, AnsweredAt, HeardIsTrue, VerdictFirst, NeverFalseClean,
         NeverFalseInfected, VerdictLeavesNoUpload, EarlyDetectionWins

LEMMA Invariance == Spec => []IInv
BY InitIInv, NextIInv, PTL DEF Spec

\* Every variable keeps its type, and a scan waits in the cache only while its
\* handler is in RTSWatch: handleScan and Scanner.Scan, whatever interleaves.
THEOREM TypeCorrect == Spec => []TypeOK
<1>1. IInv => TypeOK
  BY DEF IInv
<1>2. QED
  BY <1>1, Invariance, PTL

\* Fail closed: Scanner.Scan never answers clean for malware, for any number of
\* scans, either engine, any budget, however the real-time scanner interferes.
THEOREM FailClosed == Spec => []NeverFalseClean
<1>1. IInv => NeverFalseClean
  BY DEF IInv
<1>2. QED
  BY <1>1, Invariance, PTL

\* The detection cache never gives a scan the detection of another scan's file,
\* so Scanner.Scan answers infected for malware only.
THEOREM NoFalseAlarm == Spec => []NeverFalseInfected
<1>1. IInv => NeverFalseInfected
  BY DEF IInv
<1>2. QED
  BY <1>1, Invariance, PTL

\* deleteFile comes between the verdict and its answer on every path of
\* Scanner.Scan that ends in a verdict.
THEOREM NoUploadLeft == Spec => []VerdictLeavesNoUpload
<1>1. IInv => VerdictLeavesNoUpload
  BY DEF IInv
<1>2. QED
  BY <1>1, Invariance, PTL

\* A real-time detection that is in the cache when ManualScan gives up decides
\* the scan, even with no time left: Wait looks into the map first.
THEOREM EarlyWins == Spec => []EarlyDetectionWins
<1>1. IInv => EarlyDetectionWins
  BY DEF IInv
<1>2. QED
  BY <1>1, Invariance, PTL

--------------------------------------------------------------------------------
(* The responses, as steps of ScanPromise. *)

\* A handler moves its own scan.
LEMMA HandlerMovesOwn ==
    ASSUME ScanTypes, NEW s \in Scans, Handler(s)
    PROVE  \A w \in Scans \ {s} : stage'[w] = stage[w] /\ answer'[w] = answer[w]
                                  /\ elapsed'[w] = elapsed[w]
<1> USE DEF ScanTypes
<1>1. CASE RefuseUpload(s) \/ CreateUpload(s) \/ CopyFails(s) \/ CallScan(s) \/ EngineReads(s)
  BY <1>1 DEF RefuseUpload, CreateUpload, CopyFails, CallScan, EngineReads, Answer
<1>2. CASE ManualReturns(s) \/ EngineNotStarted(s) \/ ManualTimesOut(s)
  BY <1>2 DEF ManualReturns, EngineNotStarted, ManualTimesOut, WaitForRTS, Decide
<1>3. CASE WaitStep(s) \/ WatchReturns(s) \/ MockWatch(s) \/ FinishScan(s)
  BY <1>3 DEF WaitStep, WatchReturns, MockWatch, FinishScan, Answer, scanVars
<1>4. QED
  BY <1>1, <1>2, <1>3 DEF Handler

\* A handler that is done has nothing more to say.
LEMMA DoneStays ==
    ASSUME NEW s \in Scans, stage[s] = "done", Handler(s)
    PROVE  UNCHANGED <<stage, answer>>
<1>1. WaitStep(s)
  BY DEF Handler, RefuseUpload, CreateUpload, CopyFails, CallScan, EngineReads,
         ManualReturns, EngineNotStarted, ManualTimesOut, WatchReturns, MockWatch, FinishScan
<1>2. QED
  BY <1>1 DEF WaitStep, scanVars

LEMMA HandlerLeavesMalware ==
    ASSUME NEW s \in Scans, Handler(s)
    PROVE  malware' = malware
BY DEF Handler, RefuseUpload, CreateUpload, CopyFails, CallScan, EngineReads, ManualReturns,
       EngineNotStarted, ManualTimesOut, WaitStep, WatchReturns, MockWatch, FinishScan

\* Only handlers answer.
LEMMA OthersDoNotAnswer ==
    ASSUME [Next]_vars, ~ \E s \in Scans : Handler(s)
    PROVE  UNCHANGED <<stage, answer, malware>>
<1>1. CASE UNCHANGED vars
  BY <1>1 DEF vars, scanVars
<1>2. ASSUME NEW s \in Scans, RealTimeScanner(s) PROVE UNCHANGED <<stage, answer, malware>>
  BY <1>2 DEF RealTimeScanner, RTSDetects, RTSQuarantines, RTSLogs, scanVars
<1>3. CASE OpenLog \/ WatchLine \/ WatcherFails \/ WatcherStops \/ StopService \/ CleanupStep
  BY <1>3
     DEF OpenLog, WatchLine, WatcherFails, WatcherStops, StopService, CleanupStep, scanVars
<1>4. CASE Tick
  BY <1>4 DEF Tick
<1>5. QED
  BY <1>1, <1>2, <1>3, <1>4 DEF Next

LEMMA InitSent == Init => Promise!Init
BY DEF Init, Promise!Init, Sent

\* A handler's step sends the response the file deserves, or none.
LEMMA NextSent == IInv /\ IInv' /\ [Next]_vars => [Promise!Next]_(Promise!vars)
<1> SUFFICES ASSUME IInv, IInv', [Next]_vars PROVE [Promise!Next]_(Promise!vars)
  OBVIOUS
<1>0. ScanTypes /\ ScanTypes' /\ NeverFalseClean' /\ NeverFalseInfected'
  BY DEF IInv, TypeOK, ScanTypes
<1>1. CASE ~ \E s \in Scans : Handler(s)
  BY <1>1, OthersDoNotAnswer DEF Sent, Promise!vars
<1>2. ASSUME NEW s \in Scans, Handler(s) PROVE [Promise!Next]_(Promise!vars)
  <2>1. malware' = malware
    BY <1>2, HandlerLeavesMalware
  <2>2. \A w \in Scans \ {s} : stage'[w] = stage[w] /\ answer'[w] = answer[w]
    BY <1>0, <1>2, HandlerMovesOwn
  <2>3. Sent' = [Sent EXCEPT ![s] = Sent'[s]]
    BY <2>2 DEF Sent
  <2>4. CASE Sent'[s] = Sent[s]
    <3>1. Sent' = Sent
      BY <2>3, <2>4 DEF Sent
    <3>2. QED
      BY <2>1, <3>1 DEF Promise!vars
  <2>5. CASE Sent'[s] # Sent[s]
    <3>1. stage[s] # "done"
      BY <1>2, <2>5, DoneStays DEF Sent
    <3>2. Sent[s] = None
      BY <3>1 DEF Sent
    <3>3. Sent'[s] = answer'[s] /\ answer'[s] # None
      BY <2>5, <3>2 DEF Sent
    <3>4. answer'[s] \in Answers
      BY <1>0, <3>3 DEF ScanTypes
    <3>5. Promise!Deserved(s, answer'[s])
      BY <1>0, <2>1 DEF NeverFalseClean, NeverFalseInfected, Promise!Deserved
    <3>6. Promise!Respond(s, answer'[s])
      BY <2>1, <2>3, <3>2, <3>3, <3>5 DEF Promise!Respond
    <3>7. QED
      BY <3>4, <3>6 DEF Promise!Next
  <2>6. QED
    BY <2>4, <2>5
<1>3. QED
  BY <1>1, <1>2

\* The client's view of handleScan and Scanner.Scan: one response at most, never
\* taken back, and the one the file deserves.
THEOREM KeepsClientPromise == Spec => ImplementsPromise
<1>1. QED
  BY InitSent, NextSent, Invariance, PTL DEF Spec, ImplementsPromise, Promise!Spec

--------------------------------------------------------------------------------
(* The cache inside the service. *)

LEMMA ScanTypesAlways == Spec => []ScanTypes
<1>1. IInv => ScanTypes
  BY DEF IInv, TypeOK, ScanTypes
<1>2. QED
  BY <1>1, Invariance, PTL

\* Everything the handlers, the log watcher and the cleanup goroutine do to the
\* cache, detection.go may do by itself: the service is one of its clients.
THEOREM UsesCache == Spec => Cache!Spec
<1>1. Init => Cache!Init
  BY DEF Init
<1>2. ScanTypes /\ [Next]_vars => [Cache!Next]_(Cache!vars)
  BY CacheUse, CacheStepIsNext
<1>3. QED
  BY <1>1, <1>2, ScanTypesAlways, PTL DEF Spec, Cache!Spec

LEMMA UsesCP == Spec => CP!Spec
<1>1. Init => CP!Init
  BY SameCacheInit DEF Init
<1>2. ScanTypes /\ [Next]_vars => [CP!Next]_(CP!vars)
  BY CacheUse, CacheStepIsNext
<1>3. QED
  BY <1>1, <1>2, ScanTypesAlways, PTL DEF Spec, CP!Spec

\* In the service, too, no handler sleeps in Wait on an open channel while the
\* detection of its file is in the cache, and no detection is given to two scans
\* or both given and kept.
THEOREM CacheHolds == Spec => [](Cache!NoLostWakeup /\ Cache!DeliveredOnce)
<1>1. Spec => []CP!NoLostWakeup /\ []CP!DeliveredOnce
  BY UsesCP, CacheConstants, CP!LostWakeupFree, CP!OneDelivery, PTL
<1>2. QED
  BY <1>1, SameCacheInvariants, PTL

\* In the service, too, a detection within its TTL leaves the cache only into the
\* hands of a scan or under a newer one.
THEOREM CacheKeepsFresh == Spec => Cache!FreshNotDropped
<1>1. Spec => CP!FreshNotDropped
  BY UsesCP, CacheConstants, CP!FreshKept, PTL
<1>2. QED
  BY <1>1, PTL DEF CP!FreshNotDropped, Cache!FreshNotDropped, CP!vars, Cache!vars,
                   CP!Present, Cache!Present

LEMMA SameMailbox ==
    /\ CP!Mailbox!Init <=> Cache!Mailbox!Init
    /\ [CP!Mailbox!Next]_(CP!Mailbox!vars) <=> [Cache!Mailbox!Next]_(Cache!Mailbox!vars)
<1> USE DEF CP!Waiting, Cache!Waiting
<1>1. CP!Mailbox!Init <=> Cache!Mailbox!Init
  BY DEF CP!Mailbox!Init, Cache!Mailbox!Init
<1>2. ASSUME NEW p, NEW w
      PROVE  /\ CP!Mailbox!Deposit(p, w) <=> Cache!Mailbox!Deposit(p, w)
             /\ CP!Mailbox!Ask(w, p) <=> Cache!Mailbox!Ask(w, p)
             /\ CP!Mailbox!Poll(w, p) <=> Cache!Mailbox!Poll(w, p)
             /\ CP!Mailbox!Take(w) <=> Cache!Mailbox!Take(w)
             /\ CP!Mailbox!GiveUp(w) <=> Cache!Mailbox!GiveUp(w)
             /\ CP!Mailbox!Discard(p) <=> Cache!Mailbox!Discard(p)
  BY DEF CP!Mailbox!Deposit, Cache!Mailbox!Deposit, CP!Mailbox!Held, Cache!Mailbox!Held,
         CP!Mailbox!Ask, Cache!Mailbox!Ask, CP!Mailbox!Poll, Cache!Mailbox!Poll,
         CP!Mailbox!Take, Cache!Mailbox!Take, CP!Mailbox!GiveUp, Cache!Mailbox!GiveUp,
         CP!Mailbox!Discard, Cache!Mailbox!Discard
<1>3. CP!Mailbox!Next <=> Cache!Mailbox!Next
  BY <1>2 DEF CP!Mailbox!Next, Cache!Mailbox!Next
<1>4. CP!Mailbox!vars = Cache!Mailbox!vars /\ CP!Mailbox!vars' = Cache!Mailbox!vars'
  BY DEF CP!Mailbox!vars, Cache!Mailbox!vars
<1>5. QED
  BY <1>1, <1>3, <1>4

\* Through the cache the service implements the mailbox: to a scan, Wait is one
\* call that takes a detection put there for its path, or gives up.
THEOREM CacheIsMailbox == Spec => Cache!ImplementsMailbox
<1>1. Spec => CP!ImplementsMailbox
  BY UsesCP, CacheConstants, CP!Refinement, PTL
<1>2. QED
  BY <1>1, SameMailbox, PTL DEF CP!ImplementsMailbox, Cache!ImplementsMailbox,
                                CP!Mailbox!Spec, Cache!Mailbox!Spec

--------------------------------------------------------------------------------
(* Every line of the log finds a detection to be stored in. *)

\* Somebody points to the detection of s: the cache, or the scan it was given to.
Pointed(s) == Cache!Present(s) \/ waits[s].got # None

OwnPointers ==
    \A s \in Scans : detections[s].ref \in {None, s} /\ waits[s].got \in {None, s}

\* Each file has one line in the log at most, and nobody has its detection before
\* the line is read.
LoggedOnce ==
    /\ \A s \in Scans : Pointed(s) => rts[s] = "logged"
    /\ \A i \in 1..Len(log) : rts[log[i]] = "logged" /\ ~Pointed(log[i])
    /\ \A i, j \in 1..Len(log) : i # j => log[i] # log[j]

PInv == IInv /\ OwnPointers /\ LoggedOnce

\* The guard of Add, a pointer that nobody uses, never holds the watcher up: in the
\* code every Add allocates its own Detection.
EveryLineFits == log # <<>> => Head(log) \notin Cache!Live

\* Nothing but Add makes a detection.
LEMMA CalmPointers ==
    ASSUME Cache!TypeOK, OwnPath, OwnPointers, CalmStep
    PROVE  OwnPointers' /\ \A s \in Scans : Pointed(s)' => Pointed(s)
<1> DEFINE Goal == OwnPointers' /\ \A s \in Scans : Pointed(s)' => Pointed(s)
<1> USE DEF OwnPointers, Pointed, Cache!Present
<1>0. /\ detections \in [Scans -> Cache!Entry] /\ waits \in [Scans -> Cache!WaitRecord]
      /\ Cache!Empty.ref = None
  BY DEF Cache!TypeOK, Cache!Empty
<1>1. CASE UNCHANGED cacheVars
  BY <1>1 DEF cacheVars
<1>2. ASSUME NEW w \in Scans, NEW t \in 0..Timeout, Cache!StartWait(w, w, t) PROVE Goal
  BY <1>0, <1>2 DEF Cache!StartWait
<1>3. ASSUME NEW w \in Scans, Cache!CheckCache(w) PROVE Goal
  <2>1. waits[w].path = w
    BY <1>3 DEF OwnPath, Cache!CheckCache, Cache!Waiting
  <2>2. CASE detections[w].ref # None
    <3>1. /\ detections' = [detections EXCEPT ![w] = Cache!Empty]
          /\ Cache!Return(w, "found", detections[w].ref)
      BY <1>3, <2>1, <2>2 DEF Cache!CheckCache
    <3>2. waits'[w].got = detections[w].ref /\ \A v \in Scans \ {w} : waits'[v] = waits[v]
      BY <1>0, <3>1 DEF Cache!Return
    <3>3. QED
      BY <1>0, <2>2, <3>1, <3>2
  <2>3. CASE detections[w].ref = None
    <3>1. /\ detections' = detections
          /\ waits' = [waits EXCEPT ![w].pc = "select", ![w].woken = FALSE]
      BY <1>3, <2>1, <2>3 DEF Cache!CheckCache
    <3>2. \A v \in Scans : waits'[v].got = waits[v].got
      BY <1>0, <3>1 DEF Cache!WaitRecord
    <3>3. QED
      BY <3>1, <3>2
  <2>4. QED
    BY <2>2, <2>3
<1>4. ASSUME NEW w \in Scans, Cache!WakeUp(w) PROVE Goal
  <2>1. detections' = detections /\ \A v \in Scans : waits'[v].got = waits[v].got
    BY <1>0, <1>4 DEF Cache!WakeUp, Cache!WaitRecord
  <2>2. QED
    BY <2>1
<1>5. ASSUME NEW w \in Scans, Cache!TimerFires(w) PROVE Goal
  BY <1>0, <1>5 DEF Cache!TimerFires, Cache!Return
<1>6. CASE Cache!Cleanup
  <2>1. /\ \A p \in Scans : detections'[p] \in {Cache!Empty, detections[p]}
        /\ waits' = waits
    BY <1>6 DEF Cache!Cleanup
  <2>2. QED
    BY <1>0, <2>1
<1>7. CASE Cache!Stop \/ Cache!LoopReturns
  BY <1>7 DEF Cache!Stop, Cache!LoopReturns
<1>8. CASE Cache!Tick
  <2>1. /\ \A p \in Scans : detections'[p].ref = detections[p].ref
        /\ \A v \in Scans : waits'[v].got = waits[v].got
    BY <1>0, <1>8 DEF Cache!Tick, Cache!Entry, Cache!WaitRecord
  <2>2. QED
    BY <2>1
<1>9. QED
  BY <1>1, <1>2, <1>3, <1>4, <1>5, <1>6, <1>7, <1>8 DEF CalmStep

\* Add makes one.
LEMMA AddPointers ==
    ASSUME Cache!TypeOK, OwnPointers, NEW s \in Scans, Cache!Add(s, s)
    PROVE  OwnPointers' /\ \A p \in Scans : Pointed(p)' => Pointed(p) \/ p = s
<1>1. detections' = [detections EXCEPT ![s] = [ref |-> s, age |-> 0]]
  BY DEF Cache!Add
<1>2. \A w \in Scans : waits'[w].got = waits[w].got
  BY DEF Cache!Add, Cache!WakeAll, Cache!TypeOK, Cache!WaitRecord
<1>3. QED
  BY <1>1, <1>2 DEF OwnPointers, Pointed, Cache!Present, Cache!TypeOK

\* The scanner writes a line about a file once; the watcher reads it once.
LEMMA LoggedOnceStep == PInv /\ [Next]_vars => OwnPointers' /\ LoggedOnce'
<1> SUFFICES ASSUME PInv, [Next]_vars PROVE OwnPointers' /\ LoggedOnce'
  OBVIOUS
<1>0. ScanTypes /\ Cache!TypeOK /\ OwnPath /\ OwnPointers /\ LoggedOnce
  BY TypeOKSplit DEF PInv, IInv
<1>1. CASE WatchLine
  <2> DEFINE h == Head(log)
  <2>1. /\ h \in Scans /\ h = log[1] /\ log # <<>> /\ log \in Seq(Scans)
        /\ Len(log) \in Nat /\ Len(log) > 0
    BY <1>0, <1>1 DEF WatchLine, ScanTypes
  <2>2. Cache!Add(h, h) /\ log' = Tail(log) /\ rts' = rts
    BY <1>1 DEF WatchLine
  <2>3. /\ Len(log') = Len(log) - 1
        /\ \A i \in 1..Len(log') : log'[i] = log[i + 1] /\ i + 1 \in 2..Len(log)
    BY <2>1, <2>2
  <2> HIDE DEF h
  <2>4. OwnPointers' /\ \A p \in Scans : Pointed(p)' => Pointed(p) \/ p = h
    BY <1>0, <2>1, <2>2, AddPointers
  <2>5. \A i \in 2..Len(log) : log[i] \in Scans /\ log[i] # h /\ ~Pointed(log[i])
                               /\ rts[log[i]] = "logged"
    BY <1>0, <2>1 DEF LoggedOnce
  <2>6. rts[h] = "logged"
    BY <1>0, <2>1 DEF LoggedOnce
  <2>7. (\A i \in 1..Len(log) : rts[log[i]] = "logged" /\ ~Pointed(log[i]))'
    BY <2>2, <2>3, <2>4, <2>5 DEF Pointed, Cache!Present
  <2>8. \A i, j \in 1..Len(log') : i # j => log'[i] # log'[j]
    BY <1>0, <2>1, <2>3 DEF LoggedOnce
  <2>9. \A p \in Scans : Pointed(p)' => rts'[p] = "logged"
    BY <1>0, <2>2, <2>4, <2>6 DEF LoggedOnce
  <2>10. QED
    BY <2>4, <2>7, <2>8, <2>9 DEF LoggedOnce
<1>2. CASE ~WatchLine
  <2>1. OwnPointers' /\ \A s \in Scans : Pointed(s)' => Pointed(s)
    BY <1>0, <1>2, CalmUse, CalmPointers
  <2>2. \A i \in 1..Len(log) : log[i] \in Scans
    BY <1>0 DEF ScanTypes
  <2>3. CASE UNCHANGED <<rts, log>>
    BY <1>0, <2>1, <2>2, <2>3 DEF LoggedOnce
  <2>4. ASSUME NEW s \in Scans, RTSDetects(s) PROVE LoggedOnce'
    <3>1. log' = log /\ \A p \in Scans : rts[p] = "logged" => rts'[p] = "logged"
      BY <1>0, <2>4 DEF RTSDetects, ScanTypes
    <3>2. QED
      BY <1>0, <2>1, <2>2, <3>1 DEF LoggedOnce
  <2>5. ASSUME NEW s \in Scans, RTSLogs(s) PROVE LoggedOnce'
    <3>1. /\ rts[s] = "detected" /\ log' = Append(log, s)
          /\ rts'[s] = "logged" /\ \A p \in Scans \ {s} : rts'[p] = rts[p]
      BY <1>0, <2>5 DEF RTSLogs, ScanTypes
    <3>2. ~Pointed(s) /\ \A i \in 1..Len(log) : log[i] # s
      BY <1>0, <3>1 DEF LoggedOnce
    <3>3. /\ Len(log) \in Nat /\ Len(log') = Len(log) + 1 /\ log'[Len(log')] = s
          /\ \A i \in 1..Len(log) : log'[i] = log[i]
      BY <1>0, <3>1 DEF ScanTypes
    <3>4. \A i \in 1..Len(log') : i \in 1..Len(log) \/ i = Len(log')
      BY <3>3
    <3>5. (\A i \in 1..Len(log) : rts[log[i]] = "logged" /\ ~Pointed(log[i]))'
      BY <1>0, <2>1, <2>2, <3>1, <3>2, <3>3, <3>4 DEF LoggedOnce, Pointed, Cache!Present
    <3>6. \A i, j \in 1..Len(log') : i # j => log'[i] # log'[j]
      BY <1>0, <3>2, <3>3, <3>4 DEF LoggedOnce
    <3>7. \A p \in Scans : Pointed(p)' => rts'[p] = "logged"
      BY <1>0, <2>1, <3>1 DEF LoggedOnce
    <3>8. QED
      BY <3>5, <3>6, <3>7 DEF LoggedOnce
  <2>6. CASE OpenLog
    <3>1. log' = <<>> /\ rts' = rts
      BY <2>6 DEF OpenLog
    <3>2. Len(log') = 0
      BY <3>1
    <3>3. QED
      BY <1>0, <2>1, <3>1, <3>2 DEF LoggedOnce
  <2>7. ASSUME NEW s \in Scans, Handler(s) PROVE UNCHANGED <<rts, log>>
    BY <2>7 DEF Handler, RefuseUpload, CreateUpload, CopyFails, CallScan, EngineReads,
        ManualReturns, EngineNotStarted, ManualTimesOut, WaitStep, WatchReturns, MockWatch,
        FinishScan, rtsVars
  <2>8. ASSUME NEW s \in Scans, RTSQuarantines(s) PROVE UNCHANGED <<rts, log>>
    BY <2>8 DEF RTSQuarantines, rtsVars
  <2>9. CASE \/ UNCHANGED vars \/ WatcherFails \/ WatcherStops
             \/ StopService \/ CleanupStep \/ Tick
    BY <2>3, <2>9 DEF vars, rtsVars, WatcherFails, WatcherStops, StopService, CleanupStep, Tick
  <2>10. LoggedOnce'
    BY <1>2, <2>3, <2>4, <2>5, <2>6, <2>7, <2>8, <2>9 DEF Next, RealTimeScanner
  <2>11. QED
    BY <2>1, <2>10
<1>3. QED
  BY <1>1, <1>2

LEMMA InitPInv == Init => PInv
<1> SUFFICES ASSUME Init PROVE PInv
  OBVIOUS
<1>1. \A s \in Scans : detections[s].ref = None /\ waits[s].got = None
  BY DEF Init, Cache!Init, Cache!Empty, Cache!Idle
<1>2. Len(log) = 0
  BY DEF Init
<1>3. QED
  BY <1>1, <1>2, InitIInv DEF PInv, OwnPointers, LoggedOnce, Pointed, Cache!Present

LEMMA FitsIfLoggedOnce == PInv => EveryLineFits
<1> SUFFICES ASSUME PInv, log # <<>> PROVE Head(log) \notin Cache!Live
  BY DEF EveryLineFits
<1>1. log \in Seq(Scans) /\ OwnPointers /\ LoggedOnce
  BY DEF PInv, IInv, TypeOK
<1>2. Head(log) = log[1] /\ 1 \in 1..Len(log) /\ log[1] \in Scans
  BY <1>1
<1>3. ~Pointed(Head(log)) /\ Head(log) # None
  BY <1>1, <1>2, ScanAssumption DEF LoggedOnce
<1>4. QED
  BY <1>1, <1>2, <1>3 DEF OwnPointers, Pointed, Cache!Present, Cache!Live

\* detection.go allocates a Detection for every Add; the model's supply, one for
\* each upload, is enough: a line of the log always finds its own one free.
THEOREM WatcherNotHeldUp == Spec => []EveryLineFits
<1>1. PInv /\ [Next]_vars => PInv'
  BY LoggedOnceStep, NextIInv DEF PInv
<1>2. QED
  BY <1>1, InitPInv, FitsIfLoggedOnce, PTL DEF Spec

--------------------------------------------------------------------------------
(* One budget for ManualScan and the wait. *)

\* What t units of time have used of the budget.
Spent(t) == IF t < Timeout THEN t ELSE Timeout

\* The clocks of a scan that is at stage, has elapsed and waits in the cache as w
\* says, t units of time after Scan was called for it.
ClocksAgree(at, used, w, t) ==
    /\ at \in {"idle", "saving"} => used = 0
    /\ at = "manual" => used = Spent(t)
    /\ at = "rts" /\ Engine # "mock" => w.pc # "idle"
    /\ w.pc \in Cache!Waiting => w.left = Timeout - Spent(t)

\* A clock that is set when Scan is called for s, and never again.
ClockStep(s, t, t1) ==
    /\ [Next]_vars
    /\ t1 = IF CallScan(s) THEN 0 ELSE IF Tick THEN t + 1 ELSE t

LEMMA SpentTyped ==
    ASSUME NEW t \in Nat
    PROVE  /\ Spent(t) \in 0..Timeout /\ Spent(0) = 0
           /\ Spent(t + 1) = IF Spent(t) < Timeout THEN Spent(t) + 1 ELSE Spent(t)
           /\ Spent(t) = Timeout <=> t >= Timeout
BY ScanAssumption DEF Spent

\* A step of the wait leaves its timer alone.
LEMMA WaitOnTime ==
    ASSUME Cache!TypeOK, NEW s \in Scans, NEW t,
           ClocksAgree(stage[s], elapsed[s], waits[s], t),
           UNCHANGED <<stage, elapsed>>,
           NEW w \in Scans, Cache!CheckCache(w) \/ Cache!WakeUp(w) \/ Cache!TimerFires(w)
    PROVE  ClocksAgree(stage'[s], elapsed'[s], waits'[s], t)
<1>0. waits \in [Scans -> Cache!WaitRecord]
  BY DEF Cache!TypeOK
<1>1. CASE w # s
  <2>1. waits'[s] = waits[s]
    BY <1>0, <1>1 DEF Cache!CheckCache, Cache!WakeUp, Cache!TimerFires, Cache!Return
  <2>2. QED
    BY <2>1
<1>2. CASE w = s
  <2>1. CASE waits'[s].pc \in {"found", "missed"}
    BY <2>1 DEF ClocksAgree, Cache!Waiting
  <2>2. CASE waits'[s].pc \notin {"found", "missed"}
    <3>1. /\ waits[s].pc \in Cache!Waiting /\ waits'[s].pc \in Cache!Waiting
          /\ waits'[s].left = waits[s].left
      BY <1>0, <1>2, <2>2 DEF Cache!CheckCache, Cache!WakeUp, Cache!TimerFires, Cache!Return,
                              Cache!Waiting, Cache!WaitRecord
    <3>2. QED
      BY <3>1 DEF ClocksAgree, Cache!Waiting
  <2>3. QED
    BY <2>1, <2>2
<1>3. QED
  BY <1>1, <1>2

\* Every step of the service keeps the clocks together.
LEMMA ClocksAgreeStep ==
    ASSUME IInv, NEW s \in Scans, NEW t \in Nat, NEW t1,
           ClocksAgree(stage[s], elapsed[s], waits[s], t), ClockStep(s, t, t1)
    PROVE  t1 \in Nat /\ ClocksAgree(stage'[s], elapsed'[s], waits'[s], t1)
<1> DEFINE Goal == ClocksAgree(stage'[s], elapsed'[s], waits'[s], t1)
<1>0. /\ ScanTypes /\ Cache!TypeOK /\ waits \in [Scans -> Cache!WaitRecord]
      /\ \A w \in Scans : waits[w].pc \in Cache!Waiting => stage[w] = "rts"
      /\ [Next]_vars /\ t1 \in Nat
  BY TypeOKSplit DEF IInv, Cache!TypeOK, ClockStep, WaitsInRTS
<1>1. ASSUME t1 = t, stage'[s] = stage[s], elapsed'[s] = elapsed[s],
             waits'[s].pc = waits[s].pc, waits'[s].left = waits[s].left
      PROVE  Goal
  BY <1>1 DEF ClocksAgree
<1>2. ASSUME NEW w \in Scans, CallScan(w) PROVE Goal
  <2>1. /\ UNCHANGED <<elapsed, waits>> /\ stage' = [stage EXCEPT ![w] = "manual"]
        /\ stage[w] = "saving"
    BY <1>2 DEF CallScan, cacheVars
  <2>2. CASE w = s
    <3>1. /\ t1 = 0 /\ stage'[s] = "manual" /\ elapsed'[s] = 0
          /\ waits'[s].pc \notin Cache!Waiting
      BY <1>0, <1>2, <2>1, <2>2 DEF ClockStep, ClocksAgree, ScanTypes
    <3>2. QED
      BY <3>1, SpentTyped DEF ClocksAgree
  <2>3. CASE w # s
    <3>1. stage'[s] = stage[s] /\ t1 = t
      <4>1. ~CallScan(s) /\ ~Tick
        BY <1>0, <2>1, <2>3 DEF ScanTypes, CallScan, Tick
      <4>2. QED
        BY <1>0, <2>1, <2>3, <4>1 DEF ScanTypes, ClockStep
    <3>2. QED
      BY <1>1, <2>1, <3>1
  <2>4. QED
    BY <2>2, <2>3
<1>3. CASE Tick
  <2>1. /\ t1 = t + 1 /\ stage'[s] = stage[s]
        /\ elapsed'[s] = IF stage[s] = "manual" /\ elapsed[s] < Timeout
                         THEN elapsed[s] + 1 ELSE elapsed[s]
    <3>1. ~CallScan(s)
      BY <1>0, <1>3 DEF Tick, CallScan, ScanTypes
    <3>2. QED
      BY <1>3, <3>1 DEF ClockStep, Tick
  <2>2. waits'[s].pc = waits[s].pc
    BY <1>0, <1>3 DEF Tick, Cache!Tick, Cache!WaitRecord
  <2>3. waits'[s].left = IF waits[s].left > 0 THEN waits[s].left - 1 ELSE waits[s].left
    BY <1>0, <1>3 DEF Tick, Cache!Tick, Cache!WaitRecord
  <2>4. /\ Spent(t) \in 0..Timeout /\ Timeout \in Nat
        /\ Spent(t + 1) = IF Spent(t) < Timeout THEN Spent(t) + 1 ELSE Spent(t)
    BY SpentTyped, ScanAssumption
  <2>5. waits[s].pc \in Cache!Waiting =>
           /\ waits[s].left = Timeout - Spent(t)
           /\ waits'[s].left = Timeout - Spent(t1)
    <3>1. waits[s].pc \in Cache!Waiting => waits[s].left = Timeout - Spent(t)
      BY DEF ClocksAgree
    <3>2. QED
      BY <2>1, <2>3, <2>4, <3>1
  <2>6. stage'[s] = "manual" => elapsed'[s] = Spent(t1)
    <3>1. stage[s] = "manual" => elapsed[s] = Spent(t)
      BY DEF ClocksAgree
    <3>2. QED
      BY <2>1, <2>4, <3>1
  <2>7. QED
    BY <2>1, <2>2, <2>5, <2>6 DEF ClocksAgree
<1>4. ASSUME NEW w \in Scans, WaitForRTS(w), stage[w] = "manual", t1 = t PROVE Goal
  <2>1. /\ stage' = [stage EXCEPT ![w] = "rts"] /\ elapsed' = [elapsed EXCEPT ![w] = 0]
        /\ Engine = "mock" => waits' = waits
        /\ Engine # "mock" => Cache!StartWait(w, w, Timeout - elapsed[w])
    BY <1>4 DEF WaitForRTS, cacheVars
  <2>2. CASE w # s
    <3>1. waits'[s] = waits[s] /\ stage'[s] = stage[s] /\ elapsed'[s] = elapsed[s]
      BY <1>0, <2>1, <2>2 DEF ScanTypes, Cache!StartWait
    <3>2. QED
      BY <1>1, <1>4, <3>1
  <2>3. CASE w = s /\ Engine = "mock"
    <3>1. stage'[s] = "rts" /\ waits'[s] = waits[s] /\ waits[s].pc \notin Cache!Waiting
      BY <1>0, <1>4, <2>1, <2>3 DEF ScanTypes
    <3>2. QED
      BY <2>3, <3>1 DEF ClocksAgree
  <2>4. CASE w = s /\ Engine # "mock"
    <3>1. /\ stage'[s] = "rts" /\ waits'[s].pc = "check"
          /\ waits'[s].left = Timeout - elapsed[s]
      BY <1>0, <2>1, <2>4 DEF ScanTypes, Cache!StartWait
    <3>2. elapsed[s] = Spent(t)
      BY <1>4, <2>4 DEF ClocksAgree
    <3>3. QED
      BY <1>4, <3>1, <3>2 DEF ClocksAgree
  <2>5. QED
    BY <2>2, <2>3, <2>4
<1>5. ASSUME NEW w \in Scans, Handler(w), ~CallScan(w), t1 = t PROVE Goal
  <2>1. CASE WaitStep(w)
    BY <1>0, <1>5, <2>1, WaitOnTime DEF WaitStep, scanVars
  <2>2. CASE EngineNotStarted(w) \/ ManualTimesOut(w) \/ (ManualReturns(w) /\ WaitForRTS(w))
    BY <1>4, <1>5, <2>2 DEF EngineNotStarted, ManualTimesOut, ManualReturns
  <2>3. CASE \/ RefuseUpload(w) \/ CreateUpload(w) \/ CopyFails(w) \/ EngineReads(w)
             \/ WatchReturns(w) \/ MockWatch(w) \/ FinishScan(w)
             \/ (ManualReturns(w) /\ Decide(w, heard[w]))
    <3>1. waits' = waits
      BY <2>3 DEF RefuseUpload, CreateUpload, CopyFails, EngineReads, WatchReturns, MockWatch,
                  FinishScan, Decide, cacheVars
    <3>2. CASE w # s
      <4>1. stage'[s] = stage[s] /\ elapsed'[s] = elapsed[s]
        BY <1>0, <1>5, <3>2, HandlerMovesOwn
      <4>2. QED
        BY <1>1, <1>5, <3>1, <4>1
    <3>3. CASE w = s
      <4>1. \/ stage'[s] \in {"done", "cleanup"}
            \/ /\ stage[s] = "idle" /\ stage'[s] = "saving" /\ elapsed'[s] = elapsed[s]
            \/ stage'[s] = stage[s] /\ elapsed'[s] = elapsed[s]
        BY <1>0, <2>3, <3>3
           DEF ScanTypes, RefuseUpload, CreateUpload, CopyFails, EngineReads, WatchReturns,
               MockWatch, FinishScan, Decide, Answer
      <4>2. QED
        BY <1>5, <3>1, <4>1 DEF ClocksAgree
    <3>4. QED
      BY <3>2, <3>3
  <2>4. QED
    BY <1>5, <2>1, <2>2, <2>3 DEF Handler, ManualReturns
<1>6. CASE ~Tick /\ ~\E w \in Scans : Handler(w)
  <2>1. t1 = t
    BY <1>6 DEF ClockStep, Handler
  <2>2. elapsed' = elapsed /\ stage' = stage
    BY <1>0, <1>6
       DEF Next, vars, scanVars, RealTimeScanner, RTSDetects, RTSQuarantines, RTSLogs,
       OpenLog, WatchLine, WatcherFails, WatcherStops, StopService, CleanupStep
  <2>3. waits'[s].pc = waits[s].pc /\ waits'[s].left = waits[s].left
    <3>1. CASE WatchLine
      <4>1. PICK h \in Scans : Cache!Add(h, h)
        BY <1>0, <3>1 DEF WatchLine, ScanTypes
      <4>2. QED
        BY <1>0, <4>1 DEF Cache!Add, Cache!WakeAll, Cache!WaitRecord
    <3>2. CASE ~WatchLine
      BY <1>0, <1>6, <3>2
         DEF Next, vars, cacheVars, RealTimeScanner, RTSDetects, RTSQuarantines, RTSLogs,
             OpenLog, WatcherFails, WatcherStops, StopService, CleanupStep,
             Cache!Stop, Cache!Cleanup, Cache!LoopReturns
    <3>3. QED
      BY <3>1, <3>2
  <2>4. QED
    BY <1>1, <2>1, <2>2, <2>3
<1>7. t1 = t \/ Tick \/ CallScan(s)
  BY DEF ClockStep
<1>8. ASSUME NEW w \in Scans, Handler(w), ~CallScan(w), ~CallScan(s), ~Tick PROVE Goal
  BY <1>5, <1>7, <1>8
<1>9. QED
  BY <1>0, <1>2, <1>3, <1>6, <1>8

\* Scanner.Scan gives the wait what ManualScan has left of the timeout: with the
\* engine's process and the wait's timer measured by one clock, the process is
\* killed once Timeout has passed since the call, the timer is due once Timeout
\* has passed since the call, neither sooner, wherever in between the one took
\* over from the other and however often the wait was woken.  The handler waits
\* only where the cache knows of it.
THEOREM OneBudget ==
    ASSUME NEW s \in Scans, NEW VARIABLE clock
    PROVE  Init /\ clock = 0 /\ [][ClockStep(s, clock, clock')]_<<vars, clock>>
           => [](Engine # "mock" =>
                   /\ stage[s] = "manual" => (Overdue(s) <=> clock >= Timeout)
                   /\ stage[s] = "rts" => waits[s].pc # "idle"
                   /\ waits[s].pc \in Cache!Waiting =>
                         (waits[s].left = 0 <=> clock >= Timeout))
<1> DEFINE Inv == IInv /\ clock \in Nat
                  /\ ClocksAgree(stage[s], elapsed[s], waits[s], clock)
           InBudget == Engine # "mock" =>
                         /\ stage[s] = "manual" => (Overdue(s) <=> clock >= Timeout)
                         /\ stage[s] = "rts" => waits[s].pc # "idle"
                         /\ waits[s].pc \in Cache!Waiting =>
                               (waits[s].left = 0 <=> clock >= Timeout)
<1>1. Init /\ clock = 0 => Inv
  <2> SUFFICES ASSUME Init, clock = 0 PROVE Inv
    OBVIOUS
  <2>1. stage[s] = "idle" /\ elapsed[s] = 0 /\ waits[s].pc = "idle"
    BY DEF Init, Cache!Init, Cache!Idle
  <2>2. QED
    BY <2>1, InitIInv DEF ClocksAgree, Cache!Waiting
<1>2. Inv /\ [ClockStep(s, clock, clock')]_<<vars, clock>> => Inv'
  <2> SUFFICES ASSUME Inv, [ClockStep(s, clock, clock')]_<<vars, clock>> PROVE Inv'
    OBVIOUS
  <2>1. CASE ClockStep(s, clock, clock')
    <3>1. clock' \in Nat /\ ClocksAgree(stage'[s], elapsed'[s], waits'[s], clock')
      BY <2>1, ClocksAgreeStep
    <3>2. IInv'
      BY <2>1, NextIInv DEF ClockStep
    <3>3. QED
      BY <3>1, <3>2
  <2>2. CASE UNCHANGED <<vars, clock>>
    BY <2>2, NextIInv DEF vars, scanVars, cacheVars
  <2>3. QED
    BY <2>1, <2>2
<1>3. Inv => InBudget
  <2> SUFFICES ASSUME Inv, Engine # "mock" PROVE InBudget
    OBVIOUS
  <2>1. /\ Spent(clock) \in 0..Timeout /\ (Spent(clock) = Timeout <=> clock >= Timeout)
        /\ Timeout \in Nat
    BY SpentTyped, ScanAssumption
  <2>2. QED
    BY <2>1 DEF ClocksAgree, Overdue
<1>4. QED
  BY <1>1, <1>2, <1>3, PTL
================================================================================
