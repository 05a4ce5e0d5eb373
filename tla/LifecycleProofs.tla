---------------------------- MODULE LifecycleProofs ----------------------------
(***************************************************************************)
(* Proofs about Lifecycle, for any number of uploads, any engine, time     *)
(* budget and grace period: what ScanService promises also holds across    *)
(* crashes, shutdowns and restarts, and a shutdown answers the scans it    *)
(* finds under way.                                                        *)
(***************************************************************************)
EXTENDS Lifecycle, ScanServiceProofs

\* The mock engine has no real-time scanner that could create a log.
MockQuiet ==
    Engine = "mock" => ~logExists /\ \A s \in Scans : rts[s] = "quiet"

LifeTypes ==
    /\ process \in {"up", "draining", "stopped", "down"}
    /\ grace \in 0..Grace
    /\ open \in SUBSET Scans
    /\ promised \in SUBSET Scans
    /\ \A s \in Scans : UnderWay(s) => s \in open
    /\ process = "down" => open = {}

SafeInv == IInv /\ MockQuiet /\ LifeTypes

\* What a scan under way may still take: the rest of its budget while the engine
\* scans, and of its timer while it waits.
Need(s) == IF stage[s] = "saving" THEN Timeout
           ELSE IF stage[s] = "manual" THEN Timeout - elapsed[s]
           ELSE IF waits[s].pc \in Cache!Waiting THEN waits[s].left ELSE 0

AnsweredScan(s) == stage[s] = "done" /\ answer[s] # None

\* A scan is answered, or will be within the grace period.
OnTime(s) == AnsweredScan(s) \/ (UnderWay(s) /\ grace > Need(s))

\* The shutdown keeps its promise.
KeepsPromise ==
    Engine # "mock" /\ Timeout < Grace =>
        /\ process = "draining" => \A s \in promised : OnTime(s)
        /\ process \in {"stopped", "down"} => \A s \in promised : AnsweredScan(s)

--------------------------------------------------------------------------------
(* The steps of the process, as steps of the service. *)

\* What the life of the process adds to the steps of the service.
LEMMA LifeStep ==
    [LifeNext]_allVars => [Next]_vars \/ MemoryLost \/ Boot
<1> SUFFICES ASSUME [LifeNext]_allVars PROVE [Next]_vars \/ MemoryLost \/ Boot
  OBVIOUS
<1>1. CASE UNCHANGED allVars
  BY <1>1 DEF allVars
<1>2. ASSUME NEW s \in Scans, Connect(s) PROVE UNCHANGED vars
  BY <1>2 DEF Connect
<1>3. ASSUME NEW s \in Scans, Serve(s) PROVE Next
  BY <1>3 DEF Serve, Next
<1>4. CASE Background
  BY <1>4 DEF Background, Next
<1>5. CASE Engines
  BY <1>5 DEF Engines, Next
<1>6. CASE Pass
  BY <1>6 DEF Pass, Next
<1>7. CASE Signal
  BY <1>7 DEF Signal
<1>8. CASE DrainEnds
  BY <1>8 DEF DrainEnds, Next
<1>9. CASE Exit \/ Crash
  BY <1>9 DEF Exit, Crash, Die
<1>10. QED
  BY <1>1, <1>2, <1>3, <1>4, <1>5, <1>6, <1>7, <1>8, <1>9 DEF LifeNext

\* The mock engine's log and scanner stay silent.
LEMMA MockQuietStep ==
    ScanTypes /\ MockQuiet /\ ([Next]_vars \/ MemoryLost \/ Boot) => MockQuiet'
<1> SUFFICES ASSUME ScanTypes, MockQuiet, [Next]_vars \/ MemoryLost \/ Boot, Engine = "mock"
             PROVE  ~logExists' /\ \A s \in Scans : rts'[s] = "quiet"
  BY DEF MockQuiet
<1>0. ~logExists /\ \A s \in Scans : rts[s] = "quiet"
  BY DEF MockQuiet
<1>1. ASSUME UNCHANGED <<rts, logExists>>
      PROVE  ~logExists' /\ \A s \in Scans : rts'[s] = "quiet"
  BY <1>0, <1>1
<1>2. CASE MemoryLost \/ Boot
  BY <1>1, <1>2 DEF MemoryLost, Boot
<1>3. CASE UNCHANGED vars
  BY <1>1, <1>3 DEF vars, rtsVars
<1>4. ASSUME NEW s \in Scans, Handler(s) PROVE UNCHANGED <<rts, logExists>>
  BY <1>4 DEF Handler, RefuseUpload, CreateUpload, CopyFails, CallScan, EngineReads,
              ManualReturns, EngineNotStarted, ManualTimesOut, WaitStep, WatchReturns,
              MockWatch, FinishScan, rtsVars
<1>5. ASSUME NEW s \in Scans, RealTimeScanner(s) PROVE UNCHANGED <<rts, logExists>>
  BY <1>0, <1>5 DEF RealTimeScanner, RTSDetects, RTSQuarantines, RTSLogs, rtsVars
<1>6. CASE OpenLog \/ WatchLine \/ WatcherFails \/ WatcherStops \/ StopService
           \/ CleanupStep \/ Tick
  BY <1>1, <1>6 DEF OpenLog, WatchLine, WatcherFails, WatcherStops, StopService, CleanupStep,
                    Tick, rtsVars
<1>7. QED
  BY <1>1, <1>2, <1>3, <1>4, <1>5, <1>6 DEF Next

\* The cache of the next process is empty.
LEMMA EmptyCacheTyped ==
    ASSUME MemoryLost
    PROVE  /\ Cache!TypeOK'
           /\ \A s \in Scans : ~Cache!Present(s)' /\ waits'[s].pc = "idle"
<1>1. Cache!Empty \in Cache!Entry /\ Cache!Idle \in Cache!WaitRecord
  BY ScanAssumption DEF Cache!Empty, Cache!Entry, Cache!Expired, Cache!Idle,
                        Cache!WaitRecord, Cache!Settled
<1>2. detections' \in [Scans -> Cache!Entry] /\ waits' \in [Scans -> Cache!WaitRecord]
  BY <1>1 DEF MemoryLost
<1>3. \A s \in Scans : ~Cache!Present(s)' /\ waits'[s].pc = "idle"
  BY DEF MemoryLost, Cache!Present, Cache!Empty, Cache!Idle
<1>4. untilTick' \in 1..CleanupInterval
  BY ScanAssumption DEF MemoryLost
<1>5. QED
  BY <1>2, <1>3, <1>4 DEF MemoryLost, Cache!TypeOK, Cache!Waiting

\* The end of the process: no handler is left, answers given stay given.
LEMMA MemoryLostInv ==
    ASSUME IInv, LifeTypes, MemoryLost
    PROVE  IInv'
<1>0. ScanTypes /\ InCache /\ Answered
  BY IInvSplit
<1>1. \A s \in Scans : stage'[s] = "done" \/ (stage'[s] = stage[s] /\ stage[s] = "idle")
  BY <1>0 DEF MemoryLost, LifeTypes, UnderWay, ScanTypes, Stages
<1>2. stage' \in [Scans -> Stages]
  BY <1>0 DEF MemoryLost, ScanTypes, Stages
<1>3. answer' \in [Scans -> Answers \cup {None}]
  BY <1>0 DEF MemoryLost, ScanTypes
<1>4. \A s \in Scans : answer'[s] = None \/ (answer'[s] = answer[s] /\ stage[s] = "done")
  BY DEF MemoryLost
<1>5. ScanTypes'
  <2>1. elapsed' \in [Scans -> 0..Timeout]
    BY ScanAssumption DEF MemoryLost
  <2>2. log' \in Seq(Scans) /\ heard' \in [Scans -> Verdicts \cup {"error", None}]
    BY DEF MemoryLost
  <2>3. QED
    BY <1>0, <1>2, <1>3, <2>1, <2>2 DEF MemoryLost, ScanTypes
<1>6. /\ Cache!TypeOK'
      /\ \A s \in Scans : ~Cache!Present(s)' /\ waits'[s].pc = "idle"
  BY EmptyCacheTyped
<1>7. InCache'
  <2>1. log' \in Seq(malware')
    BY DEF MemoryLost
  <2>2. QED
    BY <1>0, <1>6, <2>1
       DEF MemoryLost, InCache, WaitsInRTS, OwnPath, DetectedIsMalware, MockHasNoWatcher,
           EarlyIsKept, Cache!Waiting
<1>8. Answered'
  <2> SUFFICES ASSUME NEW s \in Scans PROVE AnsweredAt(s)'
    BY DEF Answered
  <2>1. heard'[s] = None /\ early' = {} /\ UNCHANGED <<file, malware>>
    BY DEF MemoryLost
  <2>2. stage'[s] # "cleanup"
    BY <1>1
  <2>3. None \notin Verdicts \cup {"error"}
    BY ScanAssumption DEF Verdicts
  <2>4. answer'[s] = answer[s] => AnsweredAt(s)
    BY <1>0 DEF Answered
  <2>5. QED
    BY <1>4, <2>1, <2>2, <2>3, <2>4 DEF AnsweredAt, Verdicts
<1>9. TypeOK'
  BY <1>5, <1>6, <1>7 DEF InCache, TypeOK, ScanTypes, WaitsInRTS
<1>10. QED
  BY <1>7, <1>8, <1>9
     DEF IInv, InCache, Answered, AnsweredAt, HeardIsTrue, VerdictFirst, NeverFalseClean,
         NeverFalseInfected, VerdictLeavesNoUpload, EarlyDetectionWins

\* The start of the next process.
LEMMA BootInv ==
    ASSUME IInv, MockQuiet, Boot
    PROVE  IInv'
<1>0. ScanTypes /\ Cache!TypeOK /\ InCache /\ Answered
  BY IInvSplit
<1>1. watcher' \in {"absent", "starting"} /\ (Engine = "mock" => watcher' = "absent")
  BY DEF Boot, Started, MockQuiet
<1>2. /\ UNCHANGED <<stage, answer, heard, elapsed, file, malware, rts, log, logExists, early>>
      /\ UNCHANGED cacheVars
  BY DEF Boot, scanVars
<1>3. ScanTypes'
  BY <1>0, <1>1, <1>2, Zenon DEF ScanTypes
<1>4. Cache!TypeOK'
  BY <1>0, <1>2, CacheTypeStep DEF CacheStep, CalmStep
<1>5. InCache'
  <2>1. log' \in Seq(malware)
    BY <1>0, <1>2 DEF InCache, DetectedIsMalware
  <2>2. \A s \in Scans : rts'[s] # "quiet" => s \in malware
    BY <1>0, <1>2 DEF InCache, DetectedIsMalware
  <2>3. QED
    BY <1>0, <1>1, <1>2, <2>1, <2>2, QuietStep
<1>6. Answered'
  BY <1>0, <1>2 DEF Answered, AnsweredAt
<1>7. TypeOK'
  BY <1>3, <1>4, <1>5 DEF InCache, TypeOK, ScanTypes, WaitsInRTS
<1>8. QED
  BY <1>5, <1>6, <1>7
     DEF IInv, InCache, Answered, AnsweredAt, HeardIsTrue, VerdictFirst, NeverFalseClean,
         NeverFalseInfected, VerdictLeavesNoUpload, EarlyDetectionWins

--------------------------------------------------------------------------------
(* The process and its connections. *)

\* Only the handler of a scan changes the scan's stage and answer.
LEMMA OthersLeaveScans ==
    ASSUME Background \/ Engines \/ Pass
    PROVE  UNCHANGED <<stage, answer, process, open, promised>>
<1>1. CASE Background
  BY <1>1 DEF Background, OpenLog, WatchLine, WatcherFails, WatcherStops, CleanupStep,
              scanVars, lifeVars
<1>2. CASE Engines
  BY <1>2 DEF Engines, RealTimeScanner, RTSDetects, RTSQuarantines, RTSLogs, scanVars,
              lifeVars
<1>3. CASE Pass
  BY <1>3 DEF Pass, Tick
<1>4. QED
  BY <1>1, <1>2, <1>3

LEMMA LifeTypesStep == ScanTypes /\ LifeTypes /\ [LifeNext]_allVars => LifeTypes'
<1> SUFFICES ASSUME ScanTypes, LifeTypes, [LifeNext]_allVars PROVE LifeTypes'
  OBVIOUS
<1> USE DEF LifeTypes, UnderWay
<1>1. CASE UNCHANGED allVars
  BY <1>1 DEF allVars, vars, scanVars, lifeVars
<1>2. ASSUME NEW s \in Scans, Connect(s) PROVE LifeTypes'
  BY <1>2 DEF Connect, vars, scanVars
<1>3. ASSUME NEW s \in Scans, Serve(s) PROVE LifeTypes'
  <2>1. s \in open /\ process # "down" /\ UNCHANGED <<process, grace, open, promised>>
    BY <1>3 DEF Serve, lifeVars
  <2>2. \A w \in Scans \ {s} : stage'[w] = stage[w]
    BY <1>3, HandlerMovesOwn DEF Serve
  <2>3. QED
    BY <2>1, <2>2
<1>4. CASE Background \/ Engines \/ Pass
  <2>1. UNCHANGED <<stage, process, open, promised>>
    BY <1>4, OthersLeaveScans
  <2>2. grace' \in 0..Grace
    BY <1>4, LifecycleAssumption DEF Background, Engines, Pass, lifeVars
  <2>3. QED
    BY <2>1, <2>2
<1>5. CASE Signal
  BY <1>5, LifecycleAssumption DEF Signal, vars, scanVars
<1>6. CASE DrainEnds
  BY <1>6 DEF DrainEnds, StopService, scanVars
<1>7. CASE Exit \/ Crash
  <2>1. /\ stage' = [s \in Scans |-> IF s \in open THEN "done" ELSE stage[s]]
        /\ process' = "down" /\ grace' = 0 /\ open' = {} /\ promised' \in SUBSET Scans
    BY <1>7 DEF Exit, Crash, Die, MemoryLost
  <2>2. QED
    BY <2>1, LifecycleAssumption
<1>8. CASE Boot
  BY <1>8 DEF Boot, scanVars
<1>9. QED
  BY <1>1, <1>2, <1>3, <1>4, <1>5, <1>6, <1>7, <1>8 DEF LifeNext

LEMMA InitSafeInv == LifeInit => SafeInv
<1> SUFFICES ASSUME LifeInit PROVE SafeInv
  OBVIOUS
<1>1. IInv
  BY InitIInv DEF LifeInit
<1>2. MockQuiet
  BY Zenon DEF LifeInit, Init, MockQuiet
<1>3. LifeTypes
  BY LifecycleAssumption DEF LifeInit, Init, LifeTypes, UnderWay
<1>4. QED
  BY <1>1, <1>2, <1>3 DEF SafeInv

LEMMA NextSafeInv == SafeInv /\ [LifeNext]_allVars => SafeInv'
<1> SUFFICES ASSUME SafeInv, [LifeNext]_allVars PROVE SafeInv'
  OBVIOUS
<1>1. ScanTypes
  BY IInvSplit DEF SafeInv
<1>2. IInv'
  <2>1. CASE [Next]_vars
    BY <2>1, NextIInv DEF SafeInv
  <2>2. CASE MemoryLost
    BY <2>2, MemoryLostInv DEF SafeInv
  <2>3. CASE Boot
    BY <2>3, BootInv DEF SafeInv
  <2>4. QED
    BY <2>1, <2>2, <2>3, LifeStep
<1>3. MockQuiet'
  BY <1>1, LifeStep, MockQuietStep DEF SafeInv
<1>4. LifeTypes'
  BY <1>1, LifeTypesStep DEF SafeInv
<1>5. QED
  BY <1>2, <1>3, <1>4 DEF SafeInv

LEMMA SafeAlways == LifeSpec => []SafeInv
BY InitSafeInv, NextSafeInv, PTL DEF LifeSpec

--------------------------------------------------------------------------------
(* The shutdown. *)

\* What a scan may still take is a time, and no more than the budget.
LEMMA NeedBounded ==
    ASSUME SafeInv, NEW s \in Scans
    PROVE  Need(s) \in 0..Timeout
<1>1. ScanTypes /\ Cache!TypeOK
  BY IInvSplit DEF SafeInv
<1>2. waits[s].left \in 0..Timeout /\ elapsed[s] \in 0..Timeout
  BY <1>1 DEF ScanTypes, Cache!TypeOK, Cache!WaitRecord
<1>3. QED
  BY <1>2, ScanAssumption DEF Need

\* A scan that is answered stays so.
LEMMA AnsweredStays ==
    ASSUME SafeInv, NEW s \in Scans, AnsweredScan(s), NEW t \in Scans, Handler(t)
    PROVE  AnsweredScan(s)'
<1>1. ScanTypes /\ InCache
  BY IInvSplit DEF SafeInv
<1>2. CASE s # t
  BY <1>1, <1>2, HandlerMovesOwn DEF AnsweredScan
<1>3. CASE s = t
  BY <1>3, DoneStays DEF AnsweredScan
<1>4. QED
  BY <1>2, <1>3

\* No step of its handler needs more time than the scan had left before it.
LEMMA HandlerKeepsTime ==
    ASSUME SafeInv, Engine # "mock", NEW s \in Scans, UnderWay(s), Handler(s)
    PROVE  AnsweredScan(s)' \/ (UnderWay(s)' /\ Need(s)' <= Need(s))
<1>0. ScanTypes /\ Cache!TypeOK /\ InCache /\ Answered
  BY IInvSplit DEF SafeInv
<1>1. /\ Need(s) \in 0..Timeout /\ Timeout \in Nat
      /\ elapsed[s] \in 0..Timeout /\ waits[s].left \in 0..Timeout
  BY <1>0, NeedBounded, ScanAssumption DEF ScanTypes, Cache!TypeOK, Cache!WaitRecord
<1>2. None \notin Answers
  BY ScanAssumption DEF Answers, Verdicts
<1> USE DEF ScanTypes, UnderWay, AnsweredScan
<1>3. CASE RefuseUpload(s) \/ CreateUpload(s)
  BY <1>3 DEF RefuseUpload, CreateUpload
<1>4. CASE CopyFails(s)
  BY <1>0, <1>2, <1>4 DEF CopyFails, Answer, Answers
<1>5. CASE CallScan(s)
  BY <1>0, <1>1, <1>5 DEF CallScan, Need
<1>6. CASE EngineReads(s)
  BY <1>0, <1>1, <1>6 DEF EngineReads, Need
<1>7. ASSUME stage[s] = "manual", WaitForRTS(s)
      PROVE  stage'[s] = "rts" /\ Need(s)' <= Need(s)
  <2>1. stage'[s] = "rts"
    BY <1>0, <1>7 DEF WaitForRTS
  <2>2. waits' = [waits EXCEPT ![s] = [pc |-> "check", path |-> s,
                     left |-> Timeout - elapsed[s], woken |-> FALSE, got |-> None]]
    BY <1>7 DEF WaitForRTS, Cache!StartWait
  <2>3. waits'[s].left = Timeout - elapsed[s]
    BY <1>0, <2>2 DEF Cache!TypeOK
  <2>4. QED
    BY <1>1, <1>7, <2>1, <2>3 DEF Need
<1>8. CASE ManualReturns(s)
  <2>1. CASE WaitForRTS(s)
    BY <1>7, <1>8, <2>1 DEF ManualReturns
  <2>2. CASE Decide(s, heard[s])
    <3>1. stage'[s] = "cleanup" /\ UNCHANGED cacheVars
      BY <1>0, <2>2 DEF Decide
    <3>2. waits'[s].pc \notin Cache!Waiting
      BY <1>0, <1>8, <3>1 DEF cacheVars, ManualReturns, InCache, WaitsInRTS
    <3>3. Need(s)' = 0
      BY <3>1, <3>2 DEF Need, Cache!Waiting
    <3>4. QED
      BY <1>1, <3>1, <3>3
  <2>3. QED
    BY <1>8, <2>1, <2>2 DEF ManualReturns
<1>9. CASE EngineNotStarted(s) \/ ManualTimesOut(s)
  BY <1>7, <1>9 DEF EngineNotStarted, ManualTimesOut
<1>10. CASE WaitStep(s)
  <2>1. UNCHANGED <<stage, elapsed>>
    BY <1>10 DEF WaitStep, scanVars
  <2>2. waits[s].pc \in Cache!Waiting
    BY <1>10 DEF WaitStep, Cache!CheckCache, Cache!WakeUp, Cache!TimerFires, Cache!Waiting
  <2>3. stage[s] = "rts"
    BY <1>0, <2>2 DEF InCache, WaitsInRTS
  <2>4. waits'[s].left \in {waits[s].left, 0}
    BY <1>0, <1>10 DEF WaitStep, Cache!CheckCache, Cache!WakeUp, Cache!TimerFires,
                       Cache!Return, Cache!TypeOK, Cache!WaitRecord
  <2>5. Need(s) = waits[s].left
    BY <2>2, <2>3 DEF Need
  <2>6. Need(s)' \in {waits'[s].left, 0}
    BY <2>1, <2>3 DEF Need
  <2>7. QED
    BY <1>1, <2>1, <2>3, <2>4, <2>5, <2>6
<1>11. CASE WatchReturns(s)
  <2>1. CASE waits[s].pc = "found"
    <3>1. stage'[s] = "cleanup" /\ UNCHANGED cacheVars
      BY <1>0, <1>11, <2>1 DEF WatchReturns
    <3>2. Need(s)' = 0
      BY <2>1, <3>1 DEF Need, Cache!Waiting, cacheVars
    <3>3. QED
      BY <1>1, <3>1, <3>2
  <2>2. CASE waits[s].pc = "missed"
    BY <1>0, <1>2, <1>11, <2>2 DEF WatchReturns, Answer, Answers
  <2>3. QED
    BY <1>11, <2>1, <2>2 DEF WatchReturns
<1>12. CASE MockWatch(s)
  BY <1>12 DEF MockWatch
<1>13. CASE FinishScan(s)
  <2>1. answer[s] \in Verdicts
    BY <1>0, <1>13 DEF FinishScan, Answered, AnsweredAt
  <2>2. QED
    BY <1>0, <1>2, <1>13, <2>1 DEF FinishScan, Answers
<1>14. QED
  BY <1>3, <1>4, <1>5, <1>6, <1>8, <1>9, <1>10, <1>11, <1>12, <1>13 DEF Handler

\* The handler of another scan changes nothing for this one.
LEMMA OthersKeepTime ==
    ASSUME SafeInv, Engine # "mock", NEW t \in Scans, Handler(t), NEW s \in Scans \ {t}
    PROVE  /\ stage'[s] = stage[s] /\ answer'[s] = answer[s]
           /\ Need(s)' = Need(s)
<1>0. ScanTypes /\ Cache!TypeOK
  BY IInvSplit DEF SafeInv
<1>1. stage'[s] = stage[s] /\ answer'[s] = answer[s] /\ elapsed'[s] = elapsed[s]
  BY <1>0, HandlerMovesOwn
<1>2. waits'[s] = waits[s]
  <2>1. CASE UNCHANGED cacheVars
    BY <2>1 DEF cacheVars
  <2>2. CASE WaitForRTS(t)
    BY <1>0, <2>2 DEF WaitForRTS, Cache!StartWait, Cache!TypeOK
  <2>3. CASE WaitStep(t)
    BY <1>0, <2>3 DEF WaitStep, Cache!CheckCache, Cache!WakeUp, Cache!TimerFires,
                      Cache!Return, Cache!TypeOK
  <2>4. QED
    BY <2>1, <2>2, <2>3 DEF Handler, RefuseUpload, CreateUpload, CopyFails, CallScan,
       EngineReads, ManualReturns, EngineNotStarted, ManualTimesOut, Decide, WatchReturns,
       MockWatch, FinishScan
<1>3. QED
  BY <1>1, <1>2 DEF Need

\* Time does not pass while a scan could go on: it takes from what the scan still
\* needs as much as from the grace period.
LEMMA PassKeepsTime ==
    ASSUME SafeInv, Engine # "mock", Pass, NEW s \in Scans, UnderWay(s)
    PROVE  Need(s) >= 1 /\ Need(s)' = Need(s) - 1
<1>0. ScanTypes /\ Cache!TypeOK /\ s \in open
  BY IInvSplit DEF SafeInv, LifeTypes
<1>1. elapsed[s] \in 0..Timeout /\ waits[s].left \in 0..Timeout
  BY <1>0 DEF ScanTypes, Cache!TypeOK, Cache!WaitRecord
<1>2. \/ stage[s] = "manual" /\ elapsed[s] < Timeout
      \/ stage[s] = "rts" /\ waits[s].pc = "select" /\ waits[s].left > 0
  BY <1>0, <1>1, ScanAssumption DEF Pass, Urgent, UnderWay, Overdue
<1>3. CASE stage[s] = "manual" /\ elapsed[s] < Timeout
  BY <1>0, <1>1, <1>3, ScanAssumption DEF Pass, Tick, Need, ScanTypes
<1>4. CASE stage[s] = "rts" /\ waits[s].pc = "select" /\ waits[s].left > 0
  <2>1. waits'[s] = [waits[s] EXCEPT !.left = @ - 1]
    BY <1>0, <1>4 DEF Pass, Tick, Cache!Tick
  <2>2. waits'[s].pc = "select" /\ waits'[s].left = waits[s].left - 1
    BY <1>0, <1>4, <2>1 DEF Cache!TypeOK, Cache!WaitRecord
  <2>3. stage' = stage
    BY <1>4 DEF Pass, Tick
  <2>4. QED
    BY <1>1, <1>4, <2>2, <2>3 DEF Need, Cache!Waiting
<1>5. QED
  BY <1>2, <1>3, <1>4

\* The watcher and the cleanup leave what the scans need.
LEMMA BackgroundKeepsTime ==
    ASSUME SafeInv, Background \/ Engines, NEW s \in Scans
    PROVE  Need(s)' = Need(s)
<1>0. ScanTypes /\ Cache!TypeOK
  BY IInvSplit DEF SafeInv
<1>1. UNCHANGED <<stage, elapsed>>
  BY DEF Background, Engines, OpenLog, WatchLine, WatcherFails, WatcherStops, CleanupStep,
         RealTimeScanner, RTSDetects, RTSQuarantines, RTSLogs, scanVars
<1>2. waits'[s].pc = waits[s].pc /\ waits'[s].left = waits[s].left
  <2>1. CASE WatchLine
    BY <1>0, <2>1 DEF WatchLine, Cache!Add, Cache!WakeAll, Cache!TypeOK, Cache!WaitRecord
  <2>2. CASE ~WatchLine
    <3>1. waits' = waits
      BY <2>2 DEF Background, Engines, OpenLog, WatcherFails, WatcherStops, CleanupStep,
         RealTimeScanner, RTSDetects, RTSQuarantines, RTSLogs, cacheVars, Cache!Cleanup,
         Cache!LoopReturns
    <3>2. QED
      BY <3>1
  <2>3. QED
    BY <2>1, <2>2
<1>3. QED
  BY <1>1, <1>2 DEF Need

\* Every step keeps the promise of a shutdown.
LEMMA PromiseStep == SafeInv /\ KeepsPromise /\ [LifeNext]_allVars => KeepsPromise'
<1> SUFFICES ASSUME SafeInv, KeepsPromise, [LifeNext]_allVars,
                    Engine # "mock", Timeout < Grace
             PROVE  /\ process' = "draining" => \A s \in promised' : OnTime(s)'
                    /\ process' \in {"stopped", "down"}
                          => \A s \in promised' : AnsweredScan(s)'
  BY DEF KeepsPromise
<1>0. /\ ScanTypes /\ LifeTypes
      /\ process = "draining" => \A s \in promised : OnTime(s)
      /\ process \in {"stopped", "down"} => \A s \in promised : AnsweredScan(s)
      /\ promised \in SUBSET Scans /\ grace \in Nat
  BY IInvSplit, LifecycleAssumption DEF SafeInv, KeepsPromise, LifeTypes
<1>01. \A s \in Scans : Need(s) \in Nat /\ Need(s) <= Timeout
  BY NeedBounded, ScanAssumption
<1>1. ASSUME UNCHANGED <<stage, answer, process, promised, grace>>,
             \A s \in promised : Need(s)' = Need(s)
      PROVE  /\ process' = "draining" => \A s \in promised' : OnTime(s)'
             /\ process' \in {"stopped", "down"} => \A s \in promised' : AnsweredScan(s)'
  BY <1>0, <1>1 DEF OnTime, AnsweredScan, UnderWay
<1>2. CASE UNCHANGED allVars
  BY <1>1, <1>2 DEF allVars, vars, scanVars, cacheVars, lifeVars, Need
<1>3. ASSUME NEW t \in Scans, Connect(t)
      PROVE  /\ process' = "draining" => \A s \in promised' : OnTime(s)'
             /\ process' \in {"stopped", "down"} => \A s \in promised' : AnsweredScan(s)'
  BY <1>1, <1>3 DEF Connect, vars, scanVars, cacheVars, Need
<1>4. ASSUME NEW t \in Scans, Serve(t)
      PROVE  /\ process' = "draining" => \A s \in promised' : OnTime(s)'
             /\ process' \in {"stopped", "down"} => \A s \in promised' : AnsweredScan(s)'
  <2>0. Handler(t) /\ UNCHANGED <<process, grace, promised>>
    BY <1>4 DEF Serve, lifeVars
  <2>1. ASSUME NEW s \in promised, AnsweredScan(s) PROVE AnsweredScan(s)'
    BY <1>0, <2>0, <2>1, AnsweredStays
  <2>2. ASSUME NEW s \in promised, UnderWay(s), grace > Need(s) PROVE OnTime(s)'
    <3>1. CASE s = t
      <4>1. AnsweredScan(s)' \/ (UnderWay(s)' /\ Need(s)' <= Need(s))
        BY <1>0, <2>0, <2>2, <3>1, HandlerKeepsTime
      <4>2. Need(s)' \in Int \/ AnsweredScan(s)'
        <5>1. SafeInv'
          BY NextSafeInv
        <5>2. ScanTypes' /\ Cache!TypeOK'
          BY <5>1 DEF SafeInv, IInv, TypeOK, ScanTypes
        <5>3. waits'[s].left \in Nat /\ elapsed'[s] \in Nat
          BY <1>0, <5>2, ScanAssumption DEF ScanTypes, Cache!TypeOK, Cache!WaitRecord
        <5>4. QED
          BY <5>3, ScanAssumption DEF Need
      <4>3. QED
        BY <1>0, <1>01, <2>0, <2>2, <4>1, <4>2 DEF OnTime
    <3>2. CASE s # t
      BY <1>0, <2>0, <2>2, <3>2, OthersKeepTime DEF OnTime, UnderWay
    <3>3. QED
      BY <3>1, <3>2
  <2>3. QED
    BY <1>0, <2>0, <2>1, <2>2 DEF OnTime
<1>5. CASE Background \/ Engines
  <2>1. UNCHANGED <<stage, answer, process, promised, grace>>
    BY <1>5, OthersLeaveScans DEF Background, Engines, lifeVars
  <2>2. QED
    BY <1>0, <1>1, <1>5, <2>1, BackgroundKeepsTime
<1>6. CASE Pass
  <2>1. /\ UNCHANGED <<stage, answer, process, promised>>
        /\ grace' = IF grace > 0 THEN grace - 1 ELSE 0
    BY <1>6, OthersLeaveScans DEF Pass
  <2>2. ASSUME NEW s \in promised, UnderWay(s), grace > Need(s) PROVE grace' > Need(s)'
    <3>1. Need(s) >= 1 /\ Need(s)' = Need(s) - 1
      BY <1>0, <1>6, <2>2, PassKeepsTime
    <3>2. QED
      BY <1>0, <1>01, <2>1, <2>2, <3>1
  <2>3. QED
    BY <1>0, <2>1, <2>2 DEF OnTime, AnsweredScan, UnderWay
<1>7. CASE Signal
  <2>1. /\ process' = "draining" /\ grace' = Grace /\ UNCHANGED vars
        /\ \A s \in promised' : s \in Scans /\ UnderWay(s)
    BY <1>0, <1>7 DEF Signal, LifeTypes
  <2>2. \A s \in Scans : Need(s)' = Need(s) /\ (UnderWay(s)' <=> UnderWay(s))
    BY <2>1 DEF vars, scanVars, cacheVars, Need, UnderWay
  <2>3. \A s \in Scans : Need(s) < Grace
    BY <1>01, ScanAssumption, LifecycleAssumption
  <2>4. QED
    BY <2>1, <2>2, <2>3 DEF OnTime
<1>8. CASE DrainEnds
  <2>1. /\ process = "draining" /\ process' = "stopped"
        /\ Drained \/ grace = 0
        /\ UNCHANGED <<stage, answer, promised>>
    BY <1>8 DEF DrainEnds, StopService, scanVars
  <2>2. ASSUME NEW s \in promised PROVE AnsweredScan(s)
    <3>1. OnTime(s)
      BY <1>0, <2>1
    <3>2. ~(UnderWay(s) /\ grace > Need(s))
      <4>1. CASE Drained
        BY <1>0, <4>1 DEF Drained, LifeTypes, UnderWay
      <4>2. CASE grace = 0
        BY <1>0, <1>01, <4>2
      <4>3. QED
        BY <2>1, <4>1, <4>2
    <3>3. QED
      BY <3>1, <3>2 DEF OnTime
  <2>3. QED
    BY <2>1, <2>2 DEF AnsweredScan
<1>9. CASE Exit
  <2>1. /\ process = "stopped" /\ process' = "down" /\ promised' = promised
        /\ stage' = [s \in Scans |-> IF s \in open THEN "done" ELSE stage[s]]
        /\ answer' = [s \in Scans |-> IF stage[s] = "done" THEN answer[s] ELSE None]
    BY <1>9 DEF Exit, Die, MemoryLost
  <2>2. QED
    BY <1>0, <2>1 DEF AnsweredScan
<1>10. CASE Crash \/ Boot
  BY <1>10 DEF Crash, Die, Boot
<1>11. QED
  BY <1>2, <1>3, <1>4, <1>5, <1>6, <1>7, <1>8, <1>9, <1>10 DEF LifeNext

LEMMA PromiseAlways == LifeSpec => []KeepsPromise
<1>1. LifeInit => KeepsPromise
  BY DEF LifeInit, KeepsPromise
<1>2. QED
  BY <1>1, PromiseStep, SafeAlways, PTL DEF LifeSpec

--------------------------------------------------------------------------------
(* The theorems. *)

\* Every variable keeps its type through crashes, shutdowns and restarts, and no
\* handler runs without its connection (main and the server's goroutines).
THEOREM LifeTypeCorrect == LifeSpec => []LifeTypeOK
<1>1. SafeInv => LifeTypeOK
  BY DEF SafeInv, IInv, LifeTypes, LifeTypeOK
<1>2. QED
  BY <1>1, SafeAlways, PTL

\* Fail closed across crashes and restarts: what the next process forgets (the
\* cache, the position in the log) never turns malware into a clean answer.
THEOREM FailClosedForLife == LifeSpec => []NeverFalseClean
<1>1. SafeInv => NeverFalseClean
  BY DEF SafeInv, IInv
<1>2. QED
  BY <1>1, SafeAlways, PTL

\* No false alarm across crashes and restarts: what stays (the log, quarantined
\* files) never makes a harmless file infected.
THEOREM NoFalseAlarmForLife == LifeSpec => []NeverFalseInfected
<1>1. SafeInv => NeverFalseInfected
  BY DEF SafeInv, IInv
<1>2. QED
  BY <1>1, SafeAlways, PTL

\* No crash comes between a verdict's answer and the upload's removal: whatever
\* main is interrupted in, an upload that is left behind has no verdict.
THEOREM CrashLeavesNoVerdict == LifeSpec => []VerdictLeavesNoUpload
<1>1. SafeInv => VerdictLeavesNoUpload
  BY DEF SafeInv, IInv
<1>2. QED
  BY <1>1, SafeAlways, PTL

\* server.Shutdown answers every scan under way, for any number of scans and any
\* real engine whose time budget is shorter than the grace period.
THEOREM ShutdownAnswers == LifeSpec => []DrainAnswers
<1>1. SafeInv /\ KeepsPromise => DrainAnswers
  BY DEF KeepsPromise, AnsweredScan, DrainAnswers
<1>2. QED
  BY <1>1, SafeAlways, PromiseAlways, PTL

\* The client's view, across crashes and restarts: what dies with the process is
\* never answered, and what has been answered is not answered again.
THEOREM LifeKeepsPromise == LifeSpec => ImplementsPromise
<1>1. LifeInit => Promise!Init
  BY InitSent DEF LifeInit
<1>2. SafeInv /\ SafeInv' /\ [LifeNext]_allVars => [Promise!Next]_(Promise!vars)
  <2> SUFFICES ASSUME SafeInv, SafeInv', [LifeNext]_allVars
               PROVE  [Promise!Next]_(Promise!vars)
    OBVIOUS
  <2>1. CASE [Next]_vars
    BY <2>1, NextSent DEF SafeInv
  <2>2. CASE MemoryLost
    <3>1. ScanTypes /\ LifeTypes
      BY IInvSplit DEF SafeInv
    <3>2. ASSUME NEW s \in Scans PROVE Sent'[s] = Sent[s]
      BY <2>2, <3>1 DEF MemoryLost, Sent, ScanTypes
    <3>3. Sent' = Sent
      BY <3>2 DEF Sent
    <3>4. QED
      BY <2>2, <3>3 DEF MemoryLost, Promise!vars
  <2>3. CASE Boot
    BY <2>3 DEF Boot, scanVars, Sent, Promise!vars
  <2>4. QED
    BY <2>1, <2>2, <2>3, LifeStep
<1>3. QED
  BY <1>1, <1>2, SafeAlways, PTL DEF LifeSpec, ImplementsPromise, Promise!Spec

\* A detection that is in the cache when ManualScan gives up decides the scan, in
\* a process that has been restarted or is being shut down, too.
THEOREM EarlyWinsForLife == LifeSpec => []EarlyDetectionWins
<1>1. SafeInv => EarlyDetectionWins
  BY DEF SafeInv, IInv
<1>2. QED
  BY <1>1, SafeAlways, PTL

--------------------------------------------------------------------------------
(* The cache, across the lives of the process. *)

\* Each process starts with the cache of Init, and then takes its steps.
LEMMA CacheLife ==
    ASSUME ScanTypes, [LifeNext]_allVars
    PROVE  [CP!Next]_(CP!vars) \/ CP!Init'
<1>1. CASE [Next]_vars
  BY <1>1, CacheUse, CacheStepIsNext
<1>2. CASE MemoryLost
  BY <1>2 DEF MemoryLost, CP!Init, CP!Empty, Cache!Empty, CP!Idle, Cache!Idle
<1>3. CASE Boot
  BY <1>3 DEF Boot, cacheVars, CP!vars
<1>4. QED
  BY <1>1, <1>2, <1>3, LifeStep

CacheInv == CP!TypeOK /\ CP!NoLostWakeup /\ CP!DeliveredOnce

\* No handler sleeps through the detection of its file and no detection goes to
\* two scans, whether or not a crash or a shutdown has come in between.
THEOREM CacheHoldsForLife == LifeSpec => [](Cache!NoLostWakeup /\ Cache!DeliveredOnce)
<1>1. CP!Init => CacheInv
  <2>1. CP!Init => CP!TypeOK
    BY CacheConstants, CP!InitTypeOK
  <2>2. CP!Init => CP!NoLostWakeup /\ CP!DeliveredOnce
    BY DEF CP!Init, CP!NoLostWakeup, CP!DeliveredOnce, CP!Present, CP!Idle, CP!Empty
  <2>3. QED
    BY <2>1, <2>2 DEF CacheInv
<1>2. CacheInv /\ [CP!Next]_(CP!vars) => CacheInv'
  BY CacheConstants, CP!NextTypeOK, CP!NextNoLostWakeup, CP!NextDeliveredOnce DEF CacheInv
<1>3. LifeInit => CP!Init
  BY SameCacheInit DEF LifeInit, Init
<1>4. (CP!Init => CacheInv)'
  BY <1>1, PTL
<1>5. SafeInv => ScanTypes
  BY DEF SafeInv, IInv, TypeOK, ScanTypes
<1>6. SafeInv /\ CacheInv /\ [LifeNext]_allVars => CacheInv'
  BY <1>2, <1>4, <1>5, CacheLife
<1>7. CacheInv => Cache!NoLostWakeup /\ Cache!DeliveredOnce
  BY SameCacheInvariants DEF CacheInv
<1>8. QED
  BY <1>1, <1>3, <1>6, <1>7, SafeAlways, PTL DEF LifeSpec

\* A restart reads nothing twice: the next process starts at the end of the log,
\* so every line it reads is about a detection that its cache has not had.
THEOREM WatcherNotHeldUpForLife == LifeSpec => []EveryLineFits
<1>1. ASSUME PInv, MemoryLost PROVE OwnPointers' /\ LoggedOnce'
  <2>1. \A s \in Scans : detections'[s].ref = None /\ waits'[s].got = None
    BY <1>1 DEF MemoryLost, Cache!Empty, Cache!Idle
  <2>2. log' = <<>> /\ Len(log') = 0
    BY <1>1 DEF MemoryLost
  <2>3. QED
    BY <2>1, <2>2 DEF OwnPointers, LoggedOnce, Pointed, Cache!Present
<1>2. ASSUME PInv, Boot PROVE OwnPointers' /\ LoggedOnce'
  <2>1. UNCHANGED <<rts, log, detections, waits>>
    BY <1>2 DEF Boot, cacheVars
  <2>2. OwnPointers /\ LoggedOnce
    BY <1>2 DEF PInv
  <2>3. QED
    BY <2>1, <2>2 DEF OwnPointers, LoggedOnce, Pointed, Cache!Present
<1>3. SafeInv /\ PInv /\ [LifeNext]_allVars => OwnPointers' /\ LoggedOnce'
  BY <1>1, <1>2, LifeStep, LoggedOnceStep
<1>4. SafeInv /\ PInv /\ [LifeNext]_allVars => PInv'
  BY <1>3, NextSafeInv DEF PInv, SafeInv
<1>5. LifeInit => PInv
  BY InitPInv DEF LifeInit
<1>6. QED
  BY <1>4, <1>5, FitsIfLoggedOnce, SafeAlways, PTL DEF LifeSpec
================================================================================
