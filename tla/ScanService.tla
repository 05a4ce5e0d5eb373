------------------------------ MODULE ScanService ------------------------------
(***************************************************************************)
(* One upload from the HTTP handler to its answer: handleScan saves the    *)
(* file, Scanner.Scan runs the engine on it (ManualScan), and when that    *)
(* gives no verdict waits for the real-time detection of the file          *)
(* (RTSWatch) for what is left of the time budget.  Meanwhile the engine's *)
(* real-time scanner, a process of its own, may take the file away at any  *)
(* moment and writes its detections to a log, which the driver's watcher   *)
(* follows and puts into the detection cache.                              *)
(*                                                                         *)
(* Every scan has its own path (a fresh UUID), so a scan also stands for   *)
(* its path, for its goroutine, and for the one detection of its file.     *)
(* The scan engine, its real-time scanner and the file system are external *)
(* and modelled from how the drivers use them.                             *)
(***************************************************************************)
EXTENDS EngineVerdict, Sequences

CONSTANTS Scans,            \* the uploads
          Engine,           \* the active engine
          None,             \* nothing
          Timeout,          \* the driver's timeout, in time units
          TTL,              \* the TTL of the detection cache
          CleanupInterval   \* and the period of its cleanup

ASSUME ScanAssumption ==
    /\ Engine \in {"clamav", "trendmicro", "mock"}
    /\ None \notin Scans \cup {"clean", "infected", "error", "refused", "unsaved"}
    /\ Timeout \in Nat
    /\ TTL \in Nat
    /\ CleanupInterval \in Nat \ {0}

VARIABLES stage,      \* stage[s]: where the handler of s is
          answer,     \* answer[s]: what it has decided to answer
          heard,      \* heard[s]: the verdict on what the engine printed for s
          elapsed,    \* elapsed[s]: time since Scan was called, up to Timeout
          file,       \* file[s]: the upload on disk
          malware,    \* the scans whose file the engine knows as malware
          rts,        \* rts[s]: what the real-time scanner has done about s
          log,        \* the detections in its log that the watcher has not read
          logExists,  \* the log file exists
          watcher,    \* the driver's log watcher
          early       \* history: detections in the cache before ManualScan returned

VARIABLES detections, waits, untilTick, tickReady, stopping, loop

cacheVars == <<detections, waits, untilTick, tickReady, stopping, loop>>
rtsVars == <<rts, log, logExists, watcher>>
scanVars == <<stage, answer, heard, elapsed>>
vars == <<scanVars, file, malware, rtsVars, early, cacheVars>>

Cache == INSTANCE DetectionCache WITH
    Paths <- Scans, Callers <- Scans, Refs <- Scans, MaxTimeout <- Timeout

Stages == {"idle", "saving", "manual", "rts", "cleanup", "done"}
Verdicts == {"clean", "infected"}
Answers == Verdicts \cup {"error", "refused", "unsaved"}

\* Start of a driver: it looks for the RTS log and, if it is there, starts the
\* watcher's goroutine.
Started == IF logExists THEN "starting" ELSE "absent"

\* Start of the service.  The mock engine has neither log nor watcher.
Init ==
    /\ stage = [s \in Scans |-> "idle"]
    /\ answer = [s \in Scans |-> None]
    /\ heard = [s \in Scans |-> None]
    /\ elapsed = [s \in Scans |-> 0]
    /\ file = [s \in Scans |-> "none"]
    /\ malware \in SUBSET Scans
    /\ rts = [s \in Scans |-> "quiet"]
    /\ log = <<>>
    /\ logExists \in (IF Engine = "mock" THEN {FALSE} ELSE BOOLEAN)
    /\ watcher = Started
    /\ early = {}
    /\ Cache!Init

--------------------------------------------------------------------------------
(* The engine's answers, external. *)

\* clamdscan: a missing file is an error; so is a failure, or a kill (-1).
ClamReplies(s) ==
    {[exit |-> 2, found |-> FALSE], [exit |-> -1, found |-> FALSE]} \cup
    (IF file[s] # "present" THEN {}
     ELSE IF s \in malware THEN {[exit |-> 1, found |-> TRUE]}
     ELSE {[exit |-> 0, found |-> FALSE]})

\* dsa_scan: agent unreachable; busy, with a clean-looking result; refused; no
\* JSON.  A missing file is a scan of no files, a locked one is skipped.
TrendReplies(s) ==
    {Result(253, FALSE, Count(0, 0, 0, 0)), Result(248, FALSE, Count(1, 0, 0, 0)),
     [Result(-1, FALSE, Count(0, 0, 0, 0)) EXCEPT !.json = FALSE]} \cup
    {Result(e, FALSE, Count(0, 0, 0, 0)) : e \in Refusals} \cup
    (IF file[s] # "present" THEN {Result(0, FALSE, Count(0, 0, 0, 0))}
     ELSE IF s \in malware
     THEN {Result(1, TRUE, Count(1, 0, 1, 0)), Result(2, FALSE, Count(0, 1, 0, 0))}
     ELSE {Result(0, FALSE, Count(1, 0, 0, 0))})

\* A mutant: a file that cannot be read is clean.
MockVerdicts_UnreadableClean(s) ==
    {"clean"} \cup (IF s \in malware /\ file[s] = "present" THEN {"infected"} ELSE {})

\* The mock driver's scan: the content holds the EICAR string or not, or the
\* file cannot be read.
MockVerdicts(s) ==
    {"error"} \cup (IF file[s] # "present" THEN {}
                    ELSE IF s \in malware THEN {"infected"} ELSE {"clean"})

\* What the driver makes of what the engine may print about s now.
VerdictsOn(s) ==
    CASE Engine = "clamav"     -> {ClamVerdict(r) : r \in ClamReplies(s)}
      [] Engine = "trendmicro" -> {TrendVerdict(r) : r \in TrendReplies(s)}
      [] Engine = "mock"       -> MockVerdicts(s)

--------------------------------------------------------------------------------
(* handleScan up to the call of Scan. *)

Answer(s, a) ==
    /\ stage' = [stage EXCEPT ![s] = "done"]
    /\ answer' = [answer EXCEPT ![s] = a]

\* The form does not parse, has no file (400), or the upload cannot be created
\* (500): nothing is on disk.
RefuseUpload(s) ==
    /\ stage[s] = "idle"
    /\ \/ Answer(s, "refused")
       \/ Answer(s, "unsaved")
    /\ UNCHANGED <<heard, elapsed, file, malware, rtsVars, early, cacheVars>>

CreateUpload(s) ==
    /\ stage[s] = "idle"
    /\ stage' = [stage EXCEPT ![s] = "saving"]
    /\ file' = [file EXCEPT ![s] = "present"]
    /\ UNCHANGED <<answer, heard, elapsed, malware, rtsVars, early, cacheVars>>

\* os.Remove, whose error nobody looks at: the file may be gone, may go, or
\* stays because the system refuses.
Removed(s) ==
    \E f \in (IF file[s] = "present" THEN {"removed", "stuck"} ELSE {file[s]}) :
        file' = [file EXCEPT ![s] = f]

\* io.Copy fails half-way: the partial upload is removed.
CopyFails(s) ==
    /\ stage[s] = "saving"
    /\ Removed(s)
    /\ Answer(s, "unsaved")
    /\ UNCHANGED <<heard, elapsed, malware, rtsVars, early, cacheVars>>

\* The upload is complete: Scan starts its clock and the engine's process.
CallScan(s) ==
    /\ stage[s] = "saving"
    /\ stage' = [stage EXCEPT ![s] = "manual"]
    /\ UNCHANGED <<answer, heard, elapsed, file, malware, rtsVars, early, cacheVars>>

--------------------------------------------------------------------------------
(* Scanner.Scan. *)

\* The engine's process has looked at the file and printed its result.
EngineReads(s) ==
    /\ stage[s] = "manual"
    /\ heard[s] = None
    /\ \E v \in VerdictsOn(s) : heard' = [heard EXCEPT ![s] = v]
    /\ UNCHANGED <<stage, answer, elapsed, file, malware, rtsVars, early, cacheVars>>

\* A mutant: with no time left the cache is not looked at.
WaitForRTS_NoBudget(s) ==
    IF elapsed[s] = Timeout
    THEN Answer(s, "error") /\ UNCHANGED <<elapsed, cacheVars>>
    ELSE /\ stage' = [stage EXCEPT ![s] = "rts"]
         /\ elapsed' = [elapsed EXCEPT ![s] = 0]
         /\ Cache!StartWait(s, s, Timeout - elapsed[s])
         /\ UNCHANGED answer

\* A mutant: the wait is given the whole budget again.
WaitForRTS_FullTimeout(s) ==
    /\ stage' = [stage EXCEPT ![s] = "rts"]
    /\ elapsed' = [elapsed EXCEPT ![s] = 0]
    /\ IF Engine = "mock" THEN UNCHANGED cacheVars
       ELSE Cache!StartWait(s, s, Timeout)
    /\ UNCHANGED answer

\* ManualScan does not tell: wait for the real-time detection for the rest of
\* the budget.  The mock driver does not use the cache.
WaitForRTS(s) ==
    /\ stage' = [stage EXCEPT ![s] = "rts"]
    /\ elapsed' = [elapsed EXCEPT ![s] = 0]
    /\ IF Engine = "mock" THEN UNCHANGED cacheVars
       ELSE Cache!StartWait(s, s, Timeout - elapsed[s])
    /\ UNCHANGED answer

\* ManualScan says clean or infected: that is the answer, once the file is gone.
Decide(s, v) ==
    /\ stage' = [stage EXCEPT ![s] = "cleanup"]
    /\ answer' = [answer EXCEPT ![s] = v]
    /\ elapsed' = [elapsed EXCEPT ![s] = 0]
    /\ UNCHANGED cacheVars

\* A mutant: the engine's process runs without a deadline.
Overdue_Never(s) == s \in Scans /\ Engine = None

\* The context of ManualScan has expired; the mock driver has none.
Overdue(s) == Engine # "mock" /\ elapsed[s] = Timeout

\* ManualScan returns before the deadline, with a verdict or without one.
ManualReturns(s) ==
    /\ stage[s] = "manual"
    /\ ~Overdue(s)
    /\ heard[s] # None
    /\ \/ heard[s] \in Verdicts /\ Decide(s, heard[s])
       \/ heard[s] \notin Verdicts /\ WaitForRTS(s)
    /\ UNCHANGED <<heard, file, malware, rtsVars, early>>

\* The process cannot be started: an error that is no exit code.
EngineNotStarted(s) ==
    /\ stage[s] = "manual"
    /\ heard[s] = None
    /\ Engine # "mock"
    /\ WaitForRTS(s)
    /\ UNCHANGED <<heard, file, malware, rtsVars, early>>

\* The deadline kills the process.  It is looked at first, so what the process
\* printed before does not count.
ManualTimesOut(s) ==
    /\ stage[s] = "manual"
    /\ Overdue(s)
    /\ WaitForRTS(s)
    /\ UNCHANGED <<heard, file, malware, rtsVars, early>>

\* DetectionCache.Wait, called by WatchRTS.
WaitStep(s) ==
    /\ Engine # "mock"
    /\ Cache!CheckCache(s) \/ Cache!WakeUp(s) \/ Cache!TimerFires(s)
    /\ UNCHANGED <<scanVars, file, malware, rtsVars, early>>

\* A mutant: the handler does not stay for the end of the wait.
WatchReturns_Abandons(s) ==
    /\ stage[s] = "rts"
    /\ \/ /\ waits[s].pc = "found"
          /\ stage' = [stage EXCEPT ![s] = "cleanup"]
          /\ answer' = [answer EXCEPT ![s] = "infected"]
       \/ waits[s].pc \in {"missed", "select"} /\ Answer(s, "error")
    /\ UNCHANGED <<heard, elapsed, file, malware, rtsVars, early, cacheVars>>

\* RTSWatch returns: a detection is an infected verdict, none is an error - and
\* the function returns without having removed the file.
WatchReturns(s) ==
    /\ stage[s] = "rts"
    /\ \/ /\ waits[s].pc = "found"
          /\ stage' = [stage EXCEPT ![s] = "cleanup"]
          /\ answer' = [answer EXCEPT ![s] = "infected"]
       \/ waits[s].pc = "missed" /\ Answer(s, "error")
    /\ UNCHANGED <<heard, elapsed, file, malware, rtsVars, early, cacheVars>>

\* A mutant: it waits for a detection.
MockWatch_Waits(s) ==
    /\ Engine = "mock"
    /\ stage[s] = "rts"
    /\ "infected" \in MockVerdicts(s)
    /\ stage' = [stage EXCEPT ![s] = "cleanup"]
    /\ answer' = [answer EXCEPT ![s] = "infected"]
    /\ UNCHANGED <<heard, elapsed, file, malware, rtsVars, early, cacheVars>>

\* The mock driver's RTSWatch reads the file again.
MockWatch(s) ==
    /\ Engine = "mock"
    /\ stage[s] = "rts"
    /\ \E v \in MockVerdicts(s) :
          \/ /\ v = "infected"
             /\ stage' = [stage EXCEPT ![s] = "cleanup"]
             /\ answer' = [answer EXCEPT ![s] = "infected"]
          \/ v # "infected" /\ Answer(s, "error")
    /\ UNCHANGED <<heard, elapsed, file, malware, rtsVars, early, cacheVars>>

\* A mutant: the answer is sent and the file forgotten.
FinishScan_KeepsFile(s) ==
    /\ stage[s] = "cleanup"
    /\ stage' = [stage EXCEPT ![s] = "done"]
    /\ UNCHANGED <<answer, heard, elapsed, file, malware, rtsVars, early, cacheVars>>

\* deleteFile, then the answer is sent.
FinishScan(s) ==
    /\ stage[s] = "cleanup"
    /\ Removed(s)
    /\ stage' = [stage EXCEPT ![s] = "done"]
    /\ UNCHANGED <<answer, heard, elapsed, malware, rtsVars, early, cacheVars>>

--------------------------------------------------------------------------------
(* The real-time scanner, external, and the driver's log watcher. *)

\* The real-time scanner recognises the file, at any moment it is on disk.
RTSDetects(s) ==
    /\ Engine # "mock"
    /\ s \in malware
    /\ file[s] \in {"present", "stuck"}
    /\ rts[s] = "quiet"
    /\ rts' = [rts EXCEPT ![s] = "detected"]
    /\ UNCHANGED <<scanVars, file, malware, log, logExists, watcher, early, cacheVars>>

\* It takes the file away, before or after it has logged the detection.
RTSQuarantines(s) ==
    /\ rts[s] # "quiet"
    /\ file[s] \in {"present", "stuck"}
    /\ file' = [file EXCEPT ![s] = "quarantined"]
    /\ UNCHANGED <<scanVars, malware, rtsVars, early, cacheVars>>

\* It writes a line to its log, which it creates if need be.
RTSLogs(s) ==
    /\ rts[s] = "detected"
    /\ rts' = [rts EXCEPT ![s] = "logged"]
    /\ log' = Append(log, s)
    /\ logExists' = TRUE
    /\ UNCHANGED <<scanVars, file, malware, watcher, early, cacheVars>>

\* The watcher opens the log at its end: what is there already is never read.
OpenLog ==
    /\ watcher = "starting"
    /\ watcher' = "running"
    /\ log' = <<>>
    /\ UNCHANGED <<scanVars, file, malware, rts, logExists, early, cacheVars>>

\* It reads a line and adds the detection to the cache.
WatchLine ==
    /\ watcher = "running"
    /\ log # <<>>
    /\ LET s == Head(log) IN
       /\ Cache!Add(s, s)
       /\ early' = IF stage[s] \in {"saving", "manual"} THEN early \cup {s} ELSE early
    /\ log' = Tail(log)
    /\ UNCHANGED <<scanVars, file, malware, rts, logExists, watcher>>

\* Scanner.Stop: the driver's context is cancelled and the cache stopped.  It
\* may come while scans are running, when the server's shutdown timed out.
StopService ==
    /\ Cache!Stop
    /\ UNCHANGED <<scanVars, file, malware, rtsVars, early>>

\* The log cannot be opened, and the goroutine returns; or the tailer dies: its
\* closed channel gives nothing but nil, at once and for ever.
WatcherFails ==
    /\ \/ watcher = "starting" /\ watcher' = "stopped"
       \/ watcher = "running" /\ watcher' = "deaf"
    /\ UNCHANGED <<scanVars, file, malware, rts, log, logExists, early, cacheVars>>

WatcherStops ==
    /\ stopping
    /\ watcher \in {"running", "deaf"}
    /\ watcher' = "stopped"
    /\ UNCHANGED <<scanVars, file, malware, rts, log, logExists, early, cacheVars>>

--------------------------------------------------------------------------------
\* The cleanup goroutine of the cache.
CleanupStep ==
    /\ Cache!Cleanup \/ Cache!LoopReturns
    /\ early' = early \ {s \in early : Cache!Present(s) /\ ~Cache!Present(s)'}
    /\ UNCHANGED <<scanVars, file, malware, rtsVars>>

\* Time passes for the cache and for the engine's processes.
Tick ==
    /\ Cache!Tick
    /\ elapsed' = [s \in Scans |->
         IF stage[s] = "manual" /\ elapsed[s] < Timeout
         THEN elapsed[s] + 1 ELSE elapsed[s]]
    /\ UNCHANGED <<stage, answer, heard, file, malware, rtsVars, early>>

Handler(s) ==
    \/ RefuseUpload(s) \/ CreateUpload(s) \/ CopyFails(s) \/ CallScan(s)
    \/ EngineReads(s) \/ ManualReturns(s) \/ EngineNotStarted(s) \/ ManualTimesOut(s)
    \/ WaitStep(s) \/ WatchReturns(s) \/ MockWatch(s) \/ FinishScan(s)

RealTimeScanner(s) == RTSDetects(s) \/ RTSQuarantines(s) \/ RTSLogs(s)

Next ==
    \/ \E s \in Scans : Handler(s) \/ RealTimeScanner(s)
    \/ OpenLog \/ WatchLine \/ WatcherFails \/ WatcherStops \/ StopService
    \/ CleanupStep
    \/ Tick

Spec == Init /\ [][Next]_vars

(***************************************************************************)
(* Fairness: time passes; the handler's goroutine, the watcher and the     *)
(* cleanup goroutine run when they can.  Nothing makes the engine print a  *)
(* result, the real-time scanner work or a client upload a file.           *)
(***************************************************************************)
Fairness ==
    /\ WF_vars(Tick)
    /\ WF_vars(CleanupStep)
    /\ WF_vars(OpenLog)
    /\ WF_vars(WatchLine)
    /\ WF_vars(WatcherStops)
    /\ \A s \in Scans :
          /\ WF_vars(CallScan(s) \/ CopyFails(s))
          /\ WF_vars(ManualReturns(s) \/ ManualTimesOut(s))
          /\ WF_vars(Engine # "mock" /\ (Cache!CheckCache(s) \/ Cache!WakeUp(s))
                     /\ UNCHANGED <<scanVars, file, malware, rtsVars, early>>)
          /\ SF_vars(Engine # "mock" /\ Cache!TimerFires(s)
                     /\ UNCHANGED <<scanVars, file, malware, rtsVars, early>>)
          /\ WF_vars(WatchReturns(s) \/ MockWatch(s))
          /\ WF_vars(FinishScan(s))
          /\ (Engine = "mock" => WF_vars(EngineReads(s)))

FairSpec == Spec /\ Fairness

--------------------------------------------------------------------------------
\* The variables have their types, and a scan waits in the cache only while its
\* handler is in RTSWatch.
TypeOK ==
    /\ stage \in [Scans -> Stages]
    /\ answer \in [Scans -> Answers \cup {None}]
    /\ heard \in [Scans -> Verdicts \cup {"error", None}]
    /\ elapsed \in [Scans -> 0..Timeout]
    /\ file \in [Scans -> {"none", "present", "quarantined", "removed", "stuck"}]
    /\ malware \in SUBSET Scans
    /\ rts \in [Scans -> {"quiet", "detected", "logged"}]
    /\ log \in Seq(Scans)
    /\ logExists \in BOOLEAN
    /\ watcher \in {"absent", "starting", "running", "deaf", "stopped"}
    /\ early \in SUBSET Scans
    /\ Cache!TypeOK
    /\ \A s \in Scans : waits[s].pc \in Cache!Waiting => stage[s] = "rts"

\* Fail closed: a file the engine knows as malware is never answered clean,
\* whatever the real-time scanner takes away under the manual scan, whatever
\* the engine fails to do, however late anything is.
NeverFalseClean ==
    \A s \in Scans : answer[s] = "clean" => s \notin malware

\* A file that is not malware is never answered infected: no scan is given the
\* detection of another file, and the absence of a file is not a detection.
NeverFalseInfected ==
    \A s \in Scans : answer[s] = "infected" => s \in malware

\* Once a verdict is out the upload is no longer on disk, unless the system
\* refused to remove it.
VerdictLeavesNoUpload ==
    \A s \in Scans :
        stage[s] = "done" /\ answer[s] \in Verdicts => file[s] # "present"

\* A real-time detection that reached the cache before the manual scan ended
\* without a verdict decides the scan, even when the whole budget is spent:
\* the wait looks into the cache before it looks at its timer.  (A detection
\* the cache has dropped, older than the TTL, does not count.)
EarlyDetectionWins ==
    \A s \in Scans :
        stage[s] = "done" /\ answer[s] = "error" => s \notin early

\* Every upload is answered, though the engine's process may hang, the
\* real-time scanner may never report and the service may be stopping.
EveryScanAnswered ==
    \A s \in Scans : stage[s] = "saving" ~> stage[s] = "done"

\* A response is out once the handler is done with its scan.
Sent == [s \in Scans |-> IF stage[s] = "done" THEN answer[s] ELSE None]

Promise == INSTANCE ScanPromise WITH Responses <- Answers, sent <- Sent

\* The whole of it, to the client: one response at most, never taken back, and
\* the one the file deserves, though two paths (the engine's verdict and the
\* real-time detection) may lead to it and the process may end on the way.
ImplementsPromise == Promise!Spec

\* What TestScanner_ScanDeletesFile says of a scan, for one that ends without a
\* verdict: the file should be deleted after the scan.
FailedScanLeavesNoUpload ==
    \A s \in Scans :
        stage[s] = "done" /\ answer[s] = "error" => file[s] # "present"

\* CheckHealth of the real drivers: the log file exists.
Healthy == Engine = "mock" \/ logExists

\* What docs/deployment.md says: when real-time detections are missed because
\* the log was not found, the health check reports it.
HealthReportsMissedDetections ==
    Engine # "mock" /\ watcher = "absent" => ~Healthy
================================================================================
