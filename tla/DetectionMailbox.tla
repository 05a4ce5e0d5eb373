---------------------------- MODULE DetectionMailbox ----------------------------
(***************************************************************************)
(* What the detection cache promises its callers, without locks, channels, *)
(* timers or ages: one box per file path holding at most one detection,    *)
(* callers that ask for the detection of a path and get it, at most once,  *)
(* or give up.                                                             *)
(***************************************************************************)
CONSTANTS Paths,      \* absolute file paths
          Callers,    \* the goroutines that ask for a detection
          Refs,       \* the detections (pointers), reused when no longer held
          None        \* no detection, no path

VARIABLES box,        \* box[p]: the detection held for p, or None
          calls       \* calls[w]: what caller w is doing, and what it got

vars == <<box, calls>>

Call == [st : {"idle", "waiting", "found", "missed"},
         path : Paths \cup {None}, got : Refs \cup {None}]

\* The detections somebody still points to.
Held == {box[p] : p \in Paths} \cup {calls[w].got : w \in Callers}

Init ==
    /\ box = [p \in Paths |-> None]
    /\ calls = [w \in Callers |-> [st |-> "idle", path |-> None, got |-> None]]

\* The log watcher puts a new detection in the box, over an older one.
Deposit(p, r) ==
    /\ r \notin Held
    /\ box' = [box EXCEPT ![p] = r]
    /\ UNCHANGED calls

Ask(w, p) ==
    /\ calls[w].st # "waiting"
    /\ calls' = [calls EXCEPT ![w] = [st |-> "waiting", path |-> p, got |-> None]]
    /\ UNCHANGED box

\* The caller leaves with the detection; the box is empty afterwards.
Take(w) ==
    /\ calls[w].st = "waiting"
    /\ box[calls[w].path] # None
    /\ calls' = [calls EXCEPT ![w].st = "found", ![w].got = box[calls[w].path]]
    /\ box' = [box EXCEPT ![calls[w].path] = None]

\* The caller leaves with nothing, and takes nothing out of the box.
GiveUp(w) ==
    /\ calls[w].st = "waiting"
    /\ calls' = [calls EXCEPT ![w] = [st |-> "missed", path |-> @.path, got |-> None]]
    /\ UNCHANGED box

\* Ask and Take, or Ask and GiveUp on an empty box, in one step.
Poll(w, p) ==
    /\ calls[w].st # "waiting"
    /\ calls' = [calls EXCEPT ![w] =
                    [st |-> IF box[p] = None THEN "missed" ELSE "found",
                     path |-> p, got |-> box[p]]]
    /\ box' = [box EXCEPT ![p] = None]

\* Old detections are thrown away, all at once.
Discard(P) ==
    /\ box' = [p \in Paths |-> IF p \in P THEN None ELSE box[p]]
    /\ UNCHANGED calls

Next ==
    \/ \E p \in Paths : \E r \in Refs : Deposit(p, r)
    \/ \E w \in Callers : \E p \in Paths : Ask(w, p) \/ Poll(w, p)
    \/ \E w \in Callers : Take(w) \/ GiveUp(w)
    \/ \E P \in SUBSET Paths : Discard(P)

Spec == Init /\ [][Next]_vars

\* Every caller that waits is answered, one way or the other.
EveryCallReturns ==
    \A w \in Callers : (calls[w].st = "waiting") ~> (calls[w].st # "waiting")
================================================================================
