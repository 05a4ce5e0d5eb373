----------------------------- MODULE DetectionCache -----------------------------
(***************************************************************************)
(* internal/cache/detection.go: the map of real-time detections, filled by *)
(* the driver's log watcher (Add), emptied by the scans that look for the  *)
(* detection of their file (Wait, Get) and by the cleanup goroutine.       *)
(*                                                                         *)
(* Each critical section of c.mu is one step.  Time advances by Tick: the  *)
(* age of a detection counts up to Expired, the first age beyond the TTL,  *)
(* the timer of a caller counts down to zero, where it stays ready.  The   *)
(* channel c.added is closed and replaced by every Add, so all that can be *)
(* told of a captured channel is whether it has been closed since: woken.  *)
(***************************************************************************)
EXTENDS Integers

CONSTANTS Paths,            \* absolute file paths
          Callers,          \* the goroutines that call Wait or Get
          Refs,             \* *Detection pointers, reused when unreachable
          None,             \* nil
          TTL,              \* ttl, in time units
          CleanupInterval,  \* DefaultCleanupInterval, in time units
          MaxTimeout        \* the longest timeout given to Wait

ASSUME CacheAssumption ==
    /\ None \notin Refs \cup Paths
    /\ TTL \in Nat
    /\ CleanupInterval \in Nat \ {0}
    /\ MaxTimeout \in Nat

VARIABLES detections,  \* detections[p]: the entry of p, Empty when absent
          waits,       \* waits[w]: where caller w is, its timer and its result
          untilTick,   \* time left before the ticker fires
          tickReady,   \* ticker.C holds a tick
          stopping,    \* stopCh is closed
          loop         \* the cleanup goroutine: "running" or "returned"

vars == <<detections, waits, untilTick, tickReady, stopping, loop>>
loopVars == <<untilTick, tickReady, stopping, loop>>

Expired == TTL + 1
Empty == [ref |-> None, age |-> 0]

Entry == [ref : Refs \cup {None}, age : 0..Expired]
Waiting == {"check", "select"}
Settled == {"idle", "found", "missed"}
WaitRecord == [pc : Waiting \cup Settled, path : Paths \cup {None},
               left : 0..MaxTimeout, woken : BOOLEAN, got : Refs \cup {None}]

Present(p) == detections[p].ref # None

\* The detections reachable from the map or from a caller.
Live == {detections[p].ref : p \in Paths} \cup {waits[w].got : w \in Callers}

Idle == [pc |-> "idle", path |-> None, left |-> 0, woken |-> FALSE, got |-> None]

Init ==
    /\ detections = [p \in Paths |-> Empty]
    /\ waits = [w \in Callers |-> Idle]
    /\ untilTick = CleanupInterval
    /\ tickReady = FALSE
    /\ stopping = FALSE
    /\ loop = "running"

\* A mutant: one waiter is woken, as by a condition variable's Signal.
WakeAll_Signal ==
    LET asleep == {w \in Callers : waits[w].pc = "select" /\ ~waits[w].woken}
    IN  IF asleep = {} THEN UNCHANGED waits
        ELSE \E w \in asleep : waits' = [waits EXCEPT ![w].woken = TRUE]

\* Closing c.added wakes every caller that captured it.
WakeAll ==
    waits' = [w \in Callers |->
                [waits[w] EXCEPT !.woken = (waits[w].pc = "select")]]

\* Add: the entry is stored, over an older one, with a fresh timestamp.
Add(p, r) ==
    /\ r \notin Live
    /\ detections' = [detections EXCEPT ![p] = [ref |-> r, age |-> 0]]
    /\ WakeAll
    /\ UNCHANGED loopVars

\* Wait is called: the timer starts.
StartWait(w, p, timeout) ==
    /\ waits[w].pc \in Settled
    /\ waits' = [waits EXCEPT ![w] =
                    [pc |-> "check", path |-> p, left |-> timeout,
                     woken |-> FALSE, got |-> None]]
    /\ UNCHANGED <<detections, loopVars>>

\* The caller returns, with a detection or with nothing; its timer is stopped.
Return(w, result, ref) ==
    waits' = [waits EXCEPT ![w] = [pc |-> result, path |-> waits[w].path,
                                   left |-> 0, woken |-> FALSE, got |-> ref]]

\* A mutant: the entry is returned but stays in the map.
CheckCache_KeepsEntry(w) ==
    LET p == waits[w].path IN
    /\ waits[w].pc = "check"
    /\ \/ /\ Present(p)
          /\ Return(w, "found", detections[p].ref)
       \/ /\ ~Present(p)
          /\ waits' = [waits EXCEPT ![w].pc = "select", ![w].woken = FALSE]
    /\ UNCHANGED <<detections, loopVars>>

\* The critical section of Wait: take the entry, or capture c.added.
CheckCache(w) ==
    LET p == waits[w].path IN
    /\ waits[w].pc = "check"
    /\ \/ /\ Present(p)
          /\ detections' = [detections EXCEPT ![p] = Empty]
          /\ Return(w, "found", detections[p].ref)
       \/ /\ ~Present(p)
          /\ waits' = [waits EXCEPT ![w].pc = "select", ![w].woken = FALSE]
          /\ UNCHANGED detections
    /\ UNCHANGED loopVars

\* A mutant: the timer is made in the loop, so every wakeup starts it afresh.
WakeUp_RestartsTimer(w) ==
    /\ waits[w].pc = "select"
    /\ waits[w].woken
    /\ waits' = [waits EXCEPT ![w].pc = "check", ![w].woken = FALSE,
                              ![w].left = MaxTimeout]
    /\ UNCHANGED <<detections, loopVars>>

\* The select of Wait, case <-added: look again.
WakeUp(w) ==
    /\ waits[w].pc = "select"
    /\ waits[w].woken
    /\ waits' = [waits EXCEPT ![w].pc = "check", ![w].woken = FALSE]
    /\ UNCHANGED <<detections, loopVars>>

\* A mutant: the entry is deleted on the way out.
TimerFires_Deletes(w) ==
    /\ waits[w].pc = "select"
    /\ waits[w].left = 0
    /\ Return(w, "missed", None)
    /\ detections' = [detections EXCEPT ![waits[w].path] = Empty]
    /\ UNCHANGED loopVars

\* The select of Wait, case <-timer.C, which may be taken although c.added is
\* closed too: Go chooses at random among the ready cases.
TimerFires(w) ==
    /\ waits[w].pc = "select"
    /\ waits[w].left = 0
    /\ Return(w, "missed", None)
    /\ UNCHANGED <<detections, loopVars>>

\* Get: one critical section.
Get(w, p) ==
    /\ waits[w].pc \in Settled
    /\ waits' = [waits EXCEPT ![w] =
                    [pc |-> IF Present(p) THEN "found" ELSE "missed", path |-> p,
                     left |-> 0, woken |-> FALSE, got |-> detections[p].ref]]
    /\ detections' = [detections EXCEPT ![p] = Empty]
    /\ UNCHANGED loopVars

\* A mutant: off by one.
Stale_AtTTL(p) == Present(p) /\ detections[p].age >= TTL

\* cleanup drops what is older than the TTL.
Stale(p) == Present(p) /\ detections[p].age > TTL

\* A mutant: the first tick ends the goroutine.
Cleanup_Once ==
    /\ loop = "running"
    /\ tickReady
    /\ tickReady' = FALSE
    /\ detections' = [p \in Paths |-> IF Stale(p) THEN Empty ELSE detections[p]]
    /\ loop' = "returned"
    /\ UNCHANGED <<waits, untilTick, stopping>>

\* The cleanup goroutine takes a tick and runs cleanup.
Cleanup ==
    /\ loop = "running"
    /\ tickReady
    /\ tickReady' = FALSE
    /\ detections' = [p \in Paths |-> IF Stale(p) THEN Empty ELSE detections[p]]
    /\ UNCHANGED <<waits, untilTick, stopping, loop>>

\* Stop closes stopCh; a second call would panic and nobody makes one.
Stop ==
    /\ ~stopping
    /\ stopping' = TRUE
    /\ UNCHANGED <<detections, waits, untilTick, tickReady, loop>>

\* The goroutine sees stopCh closed and returns, its ticker stopped.
LoopReturns ==
    /\ loop = "running"
    /\ stopping
    /\ loop' = "returned"
    /\ tickReady' = FALSE
    /\ UNCHANGED <<detections, waits, untilTick, stopping>>

\* A mutant: a timer that has fired goes on.
Tick_PastZero ==
    /\ detections' = [p \in Paths |->
         IF Present(p) /\ detections[p].age < Expired
         THEN [detections[p] EXCEPT !.age = @ + 1] ELSE detections[p]]
    /\ waits' = [w \in Callers |->
         IF waits[w].pc \in Waiting THEN [waits[w] EXCEPT !.left = @ - 1] ELSE waits[w]]
    /\ UNCHANGED loopVars

\* One unit of time passes.  A tick nobody has taken yet is not doubled.
Tick ==
    /\ detections' = [p \in Paths |->
         IF Present(p) /\ detections[p].age < Expired
         THEN [detections[p] EXCEPT !.age = @ + 1] ELSE detections[p]]
    /\ waits' = [w \in Callers |->
         IF waits[w].left > 0 THEN [waits[w] EXCEPT !.left = @ - 1] ELSE waits[w]]
    /\ IF loop = "running" /\ untilTick = 1
       THEN untilTick' = CleanupInterval /\ tickReady' = TRUE
       ELSE /\ untilTick' = IF loop = "running" THEN untilTick - 1 ELSE untilTick
            /\ UNCHANGED tickReady
    /\ UNCHANGED <<stopping, loop>>

Next ==
    \/ \E p \in Paths : \E r \in Refs : Add(p, r)
    \/ \E w \in Callers : \E p \in Paths :
          \/ \E t \in 0..MaxTimeout : StartWait(w, p, t)
          \/ Get(w, p)
    \/ \E w \in Callers : CheckCache(w) \/ WakeUp(w) \/ TimerFires(w)
    \/ Cleanup \/ Stop \/ LoopReturns \/ Tick

Spec == Init /\ [][Next]_vars

(***************************************************************************)
(* Fairness: time passes, the goroutines that can run do run, and a select *)
(* that finds its timer ready again and again chooses it in the end (Go    *)
(* picks a ready case at random), hence the strong fairness.  Nothing      *)
(* makes anybody call Add, Wait, Get or Stop.                              *)
(***************************************************************************)
Fairness ==
    /\ WF_vars(Tick)
    /\ \A w \in Callers : /\ WF_vars(CheckCache(w))
                          /\ WF_vars(WakeUp(w))
                          /\ SF_vars(TimerFires(w))
    /\ WF_vars(Cleanup)
    /\ WF_vars(LoopReturns)

FairSpec == Spec /\ Fairness

--------------------------------------------------------------------------------
\* The variables have their types; a caller in Wait knows its path.
TypeOK ==
    /\ detections \in [Paths -> Entry]
    /\ waits \in [Callers -> WaitRecord]
    /\ \A w \in Callers : waits[w].pc \in Waiting => waits[w].path \in Paths
    /\ untilTick \in 1..CleanupInterval
    /\ tickReady \in BOOLEAN
    /\ stopping \in BOOLEAN
    /\ loop \in {"running", "returned"}

\* No lost wakeup: a caller asleep on a channel that is still open has nothing
\* to wait for in the map.  It is why Wait captures c.added in the critical
\* section that found no entry, and why Add closes the channel under the lock.
NoLostWakeup ==
    \A w \in Callers :
        waits[w].pc = "select" /\ ~waits[w].woken => ~Present(waits[w].path)

\* A detection decides one scan: it is never given to two callers, and never
\* both given and kept, however the calls interleave.
DeliveredOnce ==
    /\ \A p \in Paths, w \in Callers :
          waits[w].got # None => detections[p].ref # waits[w].got
    /\ \A v, w \in Callers :
          v # w /\ waits[v].got # None => waits[v].got # waits[w].got
    /\ \A p, q \in Paths :
          p # q /\ Present(p) => detections[p].ref # detections[q].ref

\* A detection that is not older than the TTL leaves the map only into the
\* hands of a caller or under a newer one: neither the cleanup, nor a caller
\* that gives up, nor a stopping service drops it.
FreshNotDropped ==
    [][\A p \in Paths :
         Present(p) /\ detections[p].age <= TTL /\ ~Present(p)'
            => \E w \in Callers : waits'[w].got = detections[p].ref]_vars

\* Every call of Wait returns, even while detections for other files keep
\* arriving and waking the caller.
EveryWaitReturns ==
    \A w \in Callers : waits[w].pc \in Waiting ~> waits[w].pc \in Settled

\* The map does not leak: a detection nobody asks for goes in the end, unless
\* the service is stopping.
ExpiredDropped ==
    \A p \in Paths :
        detections[p].age = Expired ~> (detections[p].age # Expired \/ stopping)

\* What the comment of Wait says: it returns the detection for the path if one
\* is added before the timeout.  (For the only caller on the path.)
ArrivalInTimeIsReturned ==
    \A w \in Callers :
        waits[w].pc = "select" /\ waits[w].left > 0 /\ Present(waits[w].path)
            ~> waits[w].pc = "found"

--------------------------------------------------------------------------------
\* The cache implements the mailbox: an entry is the box of its path, a caller
\* anywhere in Wait is waiting.
Mailbox == INSTANCE DetectionMailbox WITH
    box <- [p \in Paths |-> detections[p].ref],
    calls <- [w \in Callers |->
        [st |-> IF waits[w].pc \in Waiting THEN "waiting" ELSE waits[w].pc,
         path |-> waits[w].path, got |-> waits[w].got]]

\* Every step of the cache is a step of the mailbox or changes nothing there.
ImplementsMailbox == Mailbox!Spec
================================================================================
