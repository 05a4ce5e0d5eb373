----------------------------- MODULE EngineVerdict -----------------------------
(***************************************************************************)
(* What the drivers make of one answer of the scan engine: the pure part   *)
(* of ManualScan, after the process has exited.                            *)
(*                                                                         *)
(* A ClamAV reply is its exit code and whether a "FOUND" line was printed. *)
(* A Trend Micro reply is the exit code of dsa_scan and the JSON result:   *)
(* whether it parsed, its four counters, each of which may be absent, and  *)
(* whether it lists an infected file.  -1 is the exit code Go reports for  *)
(* a process ended by a signal.                                            *)
(***************************************************************************)
EXTENDS Integers

CONSTANT Missing            \* a JSON counter that is absent (a nil *int)
ASSUME MissingAssumption == Missing \notin Int

ClamExits  == {-1, 0, 1, 2}
\* dsa_scan refuses to scan: the policy does not permit it (249), there is no
\* manual scan configuration (250), Anti-Malware is off (251).
Refusals   == {249, 250, 251}
TrendExits == {-1, 0, 1, 2, 3, 248, 253} \cup Refusals
Counters   == {"scanned", "skipped", "infected", "errorCode"}

ClamReply == [exit : ClamExits, found : BOOLEAN]
TrendReply == [json : BOOLEAN, names : BOOLEAN, exit : TrendExits,
               count : [Counters -> {Missing, 0, 1}]]

\* The counters <<scanned, skipped, infected, errorCode>> of a JSON result.
Count(a, b, c, d) ==
    [n \in Counters |-> CASE n = "scanned" -> a [] n = "skipped" -> b
                          [] n = "infected" -> c [] n = "errorCode" -> d]

\* A complete JSON result.
Result(exit, names, count) ==
    [json |-> TRUE, names |-> names, exit |-> exit, count |-> count]

\* A mutant: exit codes above 1 fall through to the clean case.
ClamVerdict_AnyExitClean(r) ==
    IF r.found \/ r.exit = 1 THEN "infected" ELSE "clean"

\* A mutant: every exit code but 0 is a detection.
ClamVerdict_AnyFailureInfected(r) ==
    IF r.found \/ r.exit # 0 THEN "infected" ELSE "clean"

\* ClamAV: a FOUND line wins, whatever the exit code; otherwise the exit code.
ClamVerdict(r) ==
    CASE r.found \/ r.exit = 1      -> "infected"
      [] ~r.found /\ r.exit = 0     -> "clean"
      [] OTHER                      -> "error"

\* val(p): an absent counter reads as zero.
Val(c) == IF c = Missing THEN 0 ELSE c

\* A mutant: only the counter and the exit code are looked at.
MalwareSeen_NoNames(r) ==
    Val(r.count["infected"]) > 0 \/ r.exit \in {1, 3}

\* The evidence of malware in a parsed result: any one item is enough.
MalwareSeen(r) ==
    \/ Val(r.count["infected"]) > 0
    \/ r.names
    \/ r.exit \in {1, 3}

\* A mutant: an absent counter is as good as a zero one.
FinishedClean_NoComplete(r) ==
    /\ r.exit = 0
    /\ Val(r.count["errorCode"]) = 0
    /\ Val(r.count["skipped"]) <= 0
    /\ Val(r.count["scanned"]) # 0

\* A mutant: a scan that looked at no file counts as finished.
FinishedClean_NothingScanned(r) ==
    /\ \A c \in Counters : r.count[c] # Missing
    /\ r.exit = 0
    /\ Val(r.count["errorCode"]) = 0
    /\ Val(r.count["skipped"]) <= 0

\* All four counters are present and say that one file was scanned, entirely.
FinishedClean(r) ==
    /\ \A c \in Counters : r.count[c] # Missing
    /\ r.exit = 0
    /\ Val(r.count["errorCode"]) = 0
    /\ Val(r.count["skipped"]) <= 0
    /\ Val(r.count["scanned"]) # 0

\* A mutant: a scan that is refused comes back as infected.
TrendVerdict_RefusedInfected(r) ==
    CASE ~r.json                                          -> "error"
      [] r.json /\ (MalwareSeen(r) \/ r.exit \in Refusals) -> "infected"
      [] r.json /\ ~MalwareSeen(r) /\ FinishedClean(r)    -> "clean"
      [] OTHER                                            -> "error"

\* A mutant: an incomplete result falls out of the function without a status.
TrendVerdict_NoDefault(r) ==
    CASE ~r.json                                          -> "error"
      [] r.json /\ MalwareSeen(r)                         -> "infected"
      [] r.json /\ ~MalwareSeen(r) /\ FinishedClean(r)    -> "clean"
      [] OTHER                                            -> ""

\* Trend Micro: parseManualScanOutput.
TrendVerdict(r) ==
    CASE ~r.json                                          -> "error"
      [] r.json /\ MalwareSeen(r)                         -> "infected"
      [] r.json /\ ~MalwareSeen(r) /\ FinishedClean(r)    -> "clean"
      [] OTHER                                            -> "error"
================================================================================
