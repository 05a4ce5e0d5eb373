------------------------------- MODULE Lifecycle -------------------------------
(***************************************************************************)
(* The process around ScanService (main.go): it starts the scanner and the *)
(* HTTP server, drains the server when it is told to end, stops the        *)
(* scanner and exits; it may also crash at any moment, and the service     *)
(* manager (Restart=always) starts it again.  What is in memory is lost    *)
(* with the process; uploads, the real-time scanner and its log stay.      *)
(*                                                                         *)
(* Time is prompt here: it does not pass while a handler can go on, so     *)
(* that the grace period of the shutdown can be held against the time      *)
(* budget of a scan.                                                       *)
(***************************************************************************)
EXTENDS ScanService

CONSTANT Grace      \* the timeout of server.Shutdown, in time units

ASSUME LifecycleAssumption == Grace \in Nat

VARIABLES process,  \* "up", "draining", "stopped" (Stop was called), "down"
          grace,    \* what is left of the grace period
          open,     \* the scans whose connection is active
          promised  \* history: the scans under way when the drain began

lifeVars == <<process, grace, open, promised>>
allVars == <<vars, lifeVars>>

UnderWay(s) == stage[s] \in {"saving", "manual", "rts", "cleanup"}

LifeInit ==
    /\ Init
    /\ process = "up" /\ grace = 0
    /\ open = {} /\ promised = {}

--------------------------------------------------------------------------------
(* The service, while the process lives, and the engine beside it. *)

\* The server accepts a connection; its upload may take any time to arrive.
Connect(s) ==
    /\ process = "up"
    /\ s \notin open /\ stage[s] = "idle"
    /\ open' = open \cup {s}
    /\ UNCHANGED <<vars, process, grace, promised>>

Serve(s) ==
    /\ process # "down" /\ s \in open
    /\ Handler(s)
    /\ UNCHANGED lifeVars

Background ==
    /\ process # "down"
    /\ OpenLog \/ WatchLine \/ WatcherFails \/ WatcherStops \/ CleanupStep
    /\ UNCHANGED lifeVars

Engines ==
    /\ \E s \in Scans : RealTimeScanner(s)
    /\ UNCHANGED lifeVars

\* A handler, or the wait in the cache, has a step to take that waits for
\* nothing but the processor.
Urgent ==
    \E s \in open :
        \/ stage[s] \in {"saving", "cleanup"}
        \/ stage[s] = "manual" /\ Overdue(s)
        \/ stage[s] = "rts" /\ ~(waits[s].pc = "select" /\ waits[s].left > 0)

Pass ==
    /\ process # "down" /\ ~Urgent
    /\ Tick
    /\ grace' = IF grace > 0 THEN grace - 1 ELSE 0
    /\ UNCHANGED <<process, open, promised>>

--------------------------------------------------------------------------------
(* Shutdown, crash and restart. *)

\* SIGINT or SIGTERM: Shutdown closes the listener and waits.
Signal ==
    /\ process = "up"
    /\ process' = "draining" /\ grace' = Grace
    /\ promised' = {s \in open : UnderWay(s)}
    /\ UNCHANGED <<vars, open>>

Drained == \A s \in open : stage[s] = "done"

\* A mutant: without a deadline.
DrainEnds_Patient ==
    /\ process = "draining" /\ Drained
    /\ process' = "stopped"
    /\ StopService
    /\ UNCHANGED <<grace, open, promised>>

\* No connection is active, or the grace period is over: Scanner.Stop.
DrainEnds ==
    /\ process = "draining" /\ (Drained \/ grace = 0)
    /\ process' = "stopped"
    /\ StopService
    /\ UNCHANGED <<grace, open, promised>>

\* A mutant: it has written its answers to the disk and reads them back.
MemoryLost_KeepsAnswers ==
    /\ stage' = [s \in Scans |-> IF s \in open THEN "done" ELSE stage[s]]
    /\ UNCHANGED answer
    /\ heard' = [s \in Scans |-> None] /\ elapsed' = [s \in Scans |-> 0]
    /\ watcher' = "absent" /\ log' = <<>> /\ early' = {}
    /\ detections' = [s \in Scans |-> Cache!Empty]
    /\ waits' = [s \in Scans |-> Cache!Idle]
    /\ untilTick' = CleanupInterval /\ tickReady' = FALSE
    /\ stopping' = FALSE /\ loop' = "running"
    /\ UNCHANGED <<file, malware, rts, logExists>>

\* The handlers end with the process: their connections are cut, without an
\* answer.  The next process starts from empty memory, and at the end of the
\* log: what is in it already will not be read.
MemoryLost ==
    /\ stage' = [s \in Scans |-> IF s \in open THEN "done" ELSE stage[s]]
    /\ answer' = [s \in Scans |-> IF stage[s] = "done" THEN answer[s] ELSE None]
    /\ heard' = [s \in Scans |-> None] /\ elapsed' = [s \in Scans |-> 0]
    /\ watcher' = "absent" /\ log' = <<>> /\ early' = {}
    /\ detections' = [s \in Scans |-> Cache!Empty]
    /\ waits' = [s \in Scans |-> Cache!Idle]
    /\ untilTick' = CleanupInterval /\ tickReady' = FALSE
    /\ stopping' = FALSE /\ loop' = "running"
    /\ UNCHANGED <<file, malware, rts, logExists>>

\* A mutant: the process before still holds its connections.
Die_KeepsConnections ==
    /\ process' = "down" /\ grace' = 0 /\ open' = open
    /\ MemoryLost

\* The process ends; a crash keeps no promise.
Die ==
    /\ process' = "down" /\ grace' = 0 /\ open' = {}
    /\ MemoryLost

Exit ==
    /\ process = "stopped"
    /\ Die
    /\ UNCHANGED promised

Crash ==
    /\ process # "down"
    /\ Die
    /\ promised' = {}

\* main again: the driver's Start looks for the log.  Nobody looks for uploads
\* the process before has left.
Boot ==
    /\ process = "down"
    /\ process' = "up" /\ watcher' = Started /\ promised' = {}
    /\ UNCHANGED <<scanVars, file, malware, rts, log, logExists, early, cacheVars>>
    /\ UNCHANGED <<grace, open>>

LifeNext ==
    \/ \E s \in Scans : Connect(s) \/ Serve(s)
    \/ Background \/ Engines \/ Pass
    \/ Signal \/ DrainEnds \/ Exit \/ Crash \/ Boot

LifeSpec == LifeInit /\ [][LifeNext]_allVars

\* The steps of a handler that wait for nobody else.
Proceed(s) ==
    /\ process # "down" /\ s \in open
    /\ \/ CallScan(s) \/ CopyFails(s)
       \/ Engine = "mock" /\ EngineReads(s)
       \/ ManualReturns(s) \/ ManualTimesOut(s)
       \/ WaitStep(s) \/ WatchReturns(s) \/ MockWatch(s)
       \/ FinishScan(s)
    /\ UNCHANGED lifeVars

\* Fairness: time passes and every handler goes on when it can; Shutdown returns
\* and main goes on.  Nothing makes a client upload a file, an engine's process
\* read it or a signal come.
LifeFairness ==
    /\ WF_allVars(Pass)
    /\ WF_allVars(DrainEnds)
    /\ WF_allVars(Exit)
    /\ \A s \in Scans : WF_allVars(Proceed(s))

FairLifeSpec == LifeSpec /\ LifeFairness

--------------------------------------------------------------------------------
\* The variables have their types, and a scan under way has a connection.
LifeTypeOK ==
    /\ TypeOK
    /\ process \in {"up", "draining", "stopped", "down"}
    /\ grace \in 0..Grace
    /\ open \in SUBSET Scans
    /\ promised \in SUBSET Scans
    /\ \A s \in Scans : UnderWay(s) => s \in open
    /\ process = "down" => open = {}

\* A shutdown answers every scan that was under way when the signal came, for a
\* real engine whose time budget is shorter than the grace period.
DrainAnswers ==
    Engine # "mock" /\ Timeout < Grace /\ process \in {"stopped", "down"}
        => \A s \in promised : stage[s] = "done" /\ answer[s] # None

\* A shutdown ends: neither a scan nor a client that never finishes its upload
\* keeps the process for ever.
ShutdownEnds == process = "draining" ~> process = "down"
================================================================================
