------------------------------ MODULE ScanPromise ------------------------------
(***************************************************************************)
(* What the service promises the client that uploads a file, without       *)
(* engines, watchers, caches and time: at most one response, which is      *)
(* never taken back, clean only for a file that is no malware, infected    *)
(* only for one that is.  A client may get no response at all: the process *)
(* may end.                                                                *)
(***************************************************************************)
CONSTANTS Scans,      \* the uploads
          None,       \* no response yet
          Responses   \* what the service may respond

VARIABLES malware,    \* the uploads that the engine knows as malware
          sent        \* sent[s]: the response to s

vars == <<malware, sent>>

Init ==
    /\ malware \in SUBSET Scans
    /\ sent = [s \in Scans |-> None]

\* A response that the file deserves.
Deserved(s, r) ==
    /\ r = "clean" => s \notin malware
    /\ r = "infected" => s \in malware

Respond(s, r) ==
    /\ sent[s] = None
    /\ Deserved(s, r)
    /\ sent' = [sent EXCEPT ![s] = r]
    /\ UNCHANGED malware

Next == \E s \in Scans, r \in Responses : Respond(s, r)

Spec == Init /\ [][Next]_vars
================================================================================
