----------------------------- MODULE DegradedReply -----------------------------
(***************************************************************************)
(* The verdict functions under an engine that answers less and less well.  *)
(* A reply starts as one the engine prints when all goes well with it - for *)
(* a clean file, an infected one, one it skips, one it finds gone, one it  *)
(* fails on - and loses one piece of information per step: a counter is     *)
(* absent, the JSON is cut short, the list of infected files or the FOUND   *)
(* line is not printed, the process ends with an error code or by a signal. *)
(* The properties say what the drivers' verdict may do along the way.       *)
(***************************************************************************)
EXTENDS EngineVerdict

VARIABLES clam, trend
vars == <<clam, trend>>

\* clamdscan's whole replies: clean, infected, error (file gone or unreadable).
ClamWhole ==
    {[exit |-> 0, found |-> FALSE], [exit |-> 1, found |-> TRUE],
     [exit |-> 2, found |-> FALSE]}

\* dsa_scan's whole replies: clean; infected, alone or with files skipped;
\* skipped; no file scanned; an error code in the JSON; agent unreachable;
\* refused.
TrendWhole ==
    {Result(0, FALSE, Count(1, 0, 0, 0)),
     Result(1, TRUE, Count(1, 0, 1, 0)),
     Result(3, TRUE, Count(1, 1, 1, 0)),
     Result(2, FALSE, Count(0, 1, 0, 0)),
     Result(0, FALSE, Count(0, 0, 0, 0)),
     Result(0, FALSE, Count(1, 0, 0, 1)),
     Result(253, FALSE, Count(0, 0, 0, 0))} \cup
    {Result(e, FALSE, Count(0, 0, 0, 0)) : e \in Refusals}

Init ==
    /\ clam \in ClamWhole
    /\ trend \in TrendWhole

\* clamdscan's output is cut before the FOUND line.
ClamOutputLost ==
    /\ clam.found
    /\ clam' = [clam EXCEPT !.found = FALSE]
    /\ UNCHANGED trend

\* clamdscan fails (2) or is killed (-1) after having written its output.
ClamFails ==
    /\ \E e \in {-1, 2} : clam' = [clam EXCEPT !.exit = e]
    /\ UNCHANGED trend

CounterLost ==
    /\ \E c \in Counters : trend' = [trend EXCEPT !.count[c] = Missing]
    /\ UNCHANGED clam

\* numOfFileInfected is zero although malware was found.
InfectedMiscounted ==
    /\ trend.count["infected"] = 1
    /\ trend' = [trend EXCEPT !.count["infected"] = 0]
    /\ UNCHANGED clam

NamesLost ==
    /\ trend.names
    /\ trend' = [trend EXCEPT !.names = FALSE]
    /\ UNCHANGED clam

JsonCut ==
    /\ trend.json
    /\ trend' = [trend EXCEPT !.json = FALSE]
    /\ UNCHANGED clam

\* dsa_scan ends skipping files, busy, refusing, without its agent, or killed.
TrendFails ==
    /\ \E e \in {-1, 2, 248, 253} \cup Refusals : trend' = [trend EXCEPT !.exit = e]
    /\ UNCHANGED clam

Next ==
    \/ ClamOutputLost \/ ClamFails
    \/ CounterLost \/ InfectedMiscounted \/ NamesLost \/ JsonCut \/ TrendFails

Spec == Init /\ [][Next]_vars

\* Every reply, however poor, gets one of the three statuses of drivers/types.go:
\* no path through the two functions leaves the status empty.
TypeOK ==
    /\ clam \in ClamReply
    /\ trend \in TrendReply
    /\ ClamVerdict(clam) \in {"clean", "infected", "error"}
    /\ TrendVerdict(trend) \in {"clean", "infected", "error"}

\* Losing information never turns a verdict that is not clean into a clean
\* one: a truncated or failing engine can only push a file towards "error".
\* About the order of the tests in ClamAV's ManualScan and in
\* parseManualScanOutput ("It never reports clean unless the scan definitively
\* finished clean").
LossNeverClears ==
    [][/\ ClamVerdict(clam) # "clean" => ClamVerdict(clam)' # "clean"
       /\ TrendVerdict(trend) # "clean" => TrendVerdict(trend)' # "clean"]_vars

\* Once a parsed Trend Micro result names an infected file, no counter that is
\* lost and no exit code that changes moves the verdict away from infected:
\* only losing the list or the JSON itself can.
NamedMalwareStaysInfected ==
    [][(trend.json /\ trend.names /\ trend'.json /\ trend'.names)
          => TrendVerdict(trend)' = "infected"]_vars

\* What the comment at the detection test of parseManualScanOutput says: a
\* detection - the exit code of dsa_scan says malware was found - is never
\* masked by an error.
DetectionNeverMasked ==
    trend.exit \in {1, 3} => TrendVerdict(trend) = "infected"
================================================================================
