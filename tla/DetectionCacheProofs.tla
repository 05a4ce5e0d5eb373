-------------------------- MODULE DetectionCacheProofs --------------------------
(***************************************************************************)
(* Proofs about DetectionCache, for any paths, callers, detections, TTL    *)
(* and timeouts: type correctness, the two safety invariants, the action   *)
(* property FreshNotDropped, and the refinement of DetectionMailbox.       *)
(***************************************************************************)
EXTENDS DetectionCache, TLAPS

--------------------------------------------------------------------------------
(* Type correctness. *)

\* The record of a caller that returns from Wait.
LEMMA ReturnTyped ==
    ASSUME NEW w \in Callers, waits \in [Callers -> WaitRecord],
           NEW result \in Settled, NEW ref \in Refs \cup {None},
           Return(w, result, ref)
    PROVE  waits' \in [Callers -> WaitRecord]
<1>1. [pc |-> result, path |-> waits[w].path, left |-> 0,
       woken |-> FALSE, got |-> ref] \in WaitRecord
  BY CacheAssumption DEF WaitRecord
<1>2. QED
  BY <1>1 DEF Return

\* The initial state is well-typed.
LEMMA InitTypeOK == Init => TypeOK
<1> SUFFICES ASSUME Init PROVE TypeOK
  OBVIOUS
<1>1. Empty \in Entry
  BY CacheAssumption DEF Empty, Entry, Expired
<1>2. Idle \in WaitRecord
  BY CacheAssumption DEF Idle, WaitRecord, Settled
<1>3. Idle.pc \notin Waiting
  BY DEF Idle, Waiting
<1>4. CleanupInterval \in 1..CleanupInterval
  BY CacheAssumption
<1>5. detections \in [Paths -> Entry] /\ waits \in [Callers -> WaitRecord]
  BY <1>1, <1>2 DEF Init
<1>6. \A w \in Callers : waits[w].pc \notin Waiting
  BY <1>3 DEF Init
<1>7. QED
  BY <1>4, <1>5, <1>6 DEF Init, TypeOK

\* Every step keeps the types: in particular no timer goes below zero and no
\* age beyond Expired.
LEMMA NextTypeOK == TypeOK /\ [Next]_vars => TypeOK'
<1> SUFFICES ASSUME TypeOK, [Next]_vars PROVE TypeOK'
  OBVIOUS
<1> USE DEF TypeOK, loopVars
<1>e. Empty \in Entry /\ Empty' = Empty
  BY CacheAssumption DEF Empty, Entry, Expired
<1>1. CASE UNCHANGED vars
  BY <1>1 DEF vars
<1>2. ASSUME NEW p \in Paths, NEW r \in Refs, Add(p, r) PROVE TypeOK'
  <2>1. [ref |-> r, age |-> 0] \in Entry
    BY CacheAssumption DEF Entry, Expired
  <2>2. detections' \in [Paths -> Entry]
    BY <1>2, <2>1 DEF Add
  <2>3. \A w \in Callers :
           [waits[w] EXCEPT !.woken = (waits[w].pc = "select")] \in WaitRecord
    BY DEF WaitRecord
  <2>4. waits' \in [Callers -> WaitRecord]
    BY <1>2, <2>3 DEF Add, WakeAll
  <2>5. \A w \in Callers : waits'[w].pc = waits[w].pc /\ waits'[w].path = waits[w].path
    BY <1>2 DEF Add, WakeAll, WaitRecord
  <2>6. QED
    BY <1>2, <2>2, <2>4, <2>5 DEF Add
<1>3. ASSUME NEW w \in Callers, NEW p \in Paths, NEW t \in 0..MaxTimeout,
             StartWait(w, p, t)
      PROVE  TypeOK'
  BY <1>3 DEF StartWait, WaitRecord, Waiting, Settled
<1>4. ASSUME NEW w \in Callers, NEW p \in Paths, Get(w, p) PROVE TypeOK'
  <2>1. detections[p].ref \in Refs \cup {None}
    BY DEF Entry
  <2>2. detections' \in [Paths -> Entry]
    BY <1>4, <1>e DEF Get
  <2>3. QED
    BY <1>4, <2>1, <2>2, CacheAssumption DEF Get, Present, WaitRecord, Waiting, Settled
<1>5. ASSUME NEW w \in Callers, CheckCache(w) PROVE TypeOK'
  <2> DEFINE p == waits[w].path
  <2>1. p \in Paths
    BY <1>5 DEF CheckCache, Waiting
  <2>2. CASE Present(p)
    <3>1. detections[p].ref \in Refs \cup {None}
      BY <2>1 DEF Entry
    <3>2. Return(w, "found", detections[p].ref)
      BY <1>5, <2>2 DEF CheckCache
    <3>3. waits' \in [Callers -> WaitRecord]
      BY <3>1, <3>2, ReturnTyped DEF Settled
    <3>4. \A v \in Callers : waits'[v].pc \in Waiting => waits'[v].path \in Paths
      <4>1. waits'[w].pc = "found" /\ \A v \in Callers \ {w} : waits'[v] = waits[v]
        BY <3>2 DEF Return
      <4>2. QED
        BY <4>1 DEF Waiting
    <3>5. detections' \in [Paths -> Entry]
      BY <1>5, <2>1, <2>2, <1>e DEF CheckCache
    <3>6. QED
      BY <1>5, <3>3, <3>4, <3>5 DEF CheckCache
  <2>3. CASE ~Present(p)
    BY <1>5, <2>3 DEF CheckCache, WaitRecord, Waiting
  <2>4. QED
    BY <2>2, <2>3
<1>6. ASSUME NEW w \in Callers, WakeUp(w) PROVE TypeOK'
  BY <1>6 DEF WakeUp, WaitRecord, Waiting
<1>7. ASSUME NEW w \in Callers, TimerFires(w) PROVE TypeOK'
  <2>1. Return(w, "missed", None)
    BY <1>7 DEF TimerFires
  <2>2. /\ waits' \in [Callers -> WaitRecord]
        /\ waits'[w].pc = "missed" /\ \A v \in Callers \ {w} : waits'[v] = waits[v]
    <3>1. waits' \in [Callers -> WaitRecord]
      BY <2>1, ReturnTyped DEF Settled
    <3>2. QED
      BY <2>1, <3>1 DEF Return
  <2>3. QED
    BY <1>7, <2>2 DEF TimerFires, Waiting
<1>8. CASE Cleanup
  BY <1>8, <1>e DEF Cleanup
<1>9. CASE Stop
  BY <1>9 DEF Stop
<1>10. CASE LoopReturns
  BY <1>10 DEF LoopReturns
<1>11. CASE Tick
  <2>1. detections' \in [Paths -> Entry]
    BY <1>11, CacheAssumption DEF Tick, Entry, Expired
  <2>2. \A w \in Callers :
           waits[w].left > 0 => [waits[w] EXCEPT !.left = @ - 1] \in WaitRecord
    BY CacheAssumption DEF WaitRecord
  <2>3. waits' \in [Callers -> WaitRecord]
    BY <1>11, <2>2 DEF Tick
  <2>4. \A w \in Callers : waits'[w].pc = waits[w].pc /\ waits'[w].path = waits[w].path
    BY <1>11 DEF Tick, WaitRecord
  <2>5. untilTick' \in 1..CleanupInterval /\ tickReady' \in BOOLEAN
    <3>1. CASE loop = "running" /\ untilTick = 1
      BY <1>11, <3>1, CacheAssumption DEF Tick
    <3>2. CASE loop = "running" /\ untilTick # 1
      BY <1>11, <3>2, CacheAssumption DEF Tick
    <3>3. CASE loop # "running"
      BY <1>11, <3>3, CacheAssumption DEF Tick
    <3>4. QED
      BY <3>1, <3>2, <3>3
  <2>6. QED
    BY <1>11, <2>1, <2>3, <2>4, <2>5 DEF Tick
<1>12. QED
  BY <1>1, <1>2, <1>3, <1>4, <1>5, <1>6, <1>7, <1>8, <1>9, <1>10, <1>11 DEF Next

\* Type correctness of the detection cache (internal/cache/detection.go).
THEOREM TypeCorrect == Spec => []TypeOK
<1>1. Init => TypeOK
  BY InitTypeOK
<1>2. TypeOK /\ [Next]_vars => TypeOK'
  BY NextTypeOK
<1>3. QED
  BY <1>1, <1>2, PTL DEF Spec
--------------------------------------------------------------------------------
(* No lost wakeup. *)

\* A step keeps NoLostWakeup: Add wakes whoever it might concern, a caller goes
\* to sleep only on an empty entry, and everything else removes entries or
\* leaves the sleeping callers alone.
LEMMA NextNoLostWakeup ==
    TypeOK /\ NoLostWakeup /\ [Next]_vars => NoLostWakeup'
<1> SUFFICES ASSUME TypeOK, NoLostWakeup, [Next]_vars,
                    NEW v \in Callers, waits'[v].pc = "select", ~waits'[v].woken
             PROVE  detections'[waits'[v].path].ref = None
  BY DEF NoLostWakeup, Present
<1> DEFINE q == waits'[v].path
<1> USE DEF NoLostWakeup, Present
<1>0. /\ detections \in [Paths -> Entry]
      /\ waits \in [Callers -> WaitRecord]
      /\ TypeOK'
  BY NextTypeOK DEF TypeOK
<1>q. q \in Paths
  BY <1>0 DEF TypeOK, Waiting
<1>e. Empty.ref = None
  BY DEF Empty
<1>1. CASE UNCHANGED vars
  BY <1>1 DEF vars
<1>2. ASSUME NEW p \in Paths, NEW r \in Refs, Add(p, r) PROVE detections'[q].ref = None
  BY <1>0, <1>2 DEF Add, WakeAll, WaitRecord
<1>3. ASSUME NEW w \in Callers, NEW p \in Paths, NEW t \in 0..MaxTimeout,
             StartWait(w, p, t)
      PROVE  detections'[q].ref = None
  BY <1>0, <1>3 DEF StartWait
<1>4. ASSUME NEW w \in Callers, NEW p \in Paths, Get(w, p) PROVE detections'[q].ref = None
  <2>1. v # w /\ waits'[v] = waits[v]
    BY <1>0, <1>4 DEF Get
  <2>2. QED
    BY <1>0, <1>4, <1>q, <1>e, <2>1 DEF Get
<1>5. ASSUME NEW w \in Callers, CheckCache(w) PROVE detections'[q].ref = None
  <2>1. CASE Present(waits[w].path)
    <3>1. v # w /\ waits'[v] = waits[v]
      BY <1>0, <1>5, <2>1 DEF CheckCache, Return
    <3>2. QED
      BY <1>0, <1>5, <1>q, <1>e, <2>1, <3>1 DEF CheckCache
  <2>2. CASE ~Present(waits[w].path)
    <3>1. CASE v = w
      BY <1>0, <1>5, <2>2, <3>1 DEF CheckCache, WaitRecord
    <3>2. CASE v # w
      BY <1>0, <1>5, <2>2, <3>2 DEF CheckCache
    <3>3. QED
      BY <3>1, <3>2
  <2>3. QED
    BY <2>1, <2>2
<1>6. ASSUME NEW w \in Callers, WakeUp(w) PROVE detections'[q].ref = None
  BY <1>0, <1>6 DEF WakeUp, WaitRecord
<1>7. ASSUME NEW w \in Callers, TimerFires(w) PROVE detections'[q].ref = None
  BY <1>0, <1>7 DEF TimerFires, Return
<1>8. CASE Cleanup
  BY <1>0, <1>8, <1>q, <1>e DEF Cleanup
<1>9. CASE Stop
  BY <1>9 DEF Stop
<1>10. CASE LoopReturns
  BY <1>10 DEF LoopReturns
<1>11. CASE Tick
  <2>1. waits'[v].pc = waits[v].pc /\ waits'[v].woken = waits[v].woken
        /\ waits'[v].path = waits[v].path
    BY <1>0, <1>11 DEF Tick, WaitRecord
  <2>2. detections'[q].ref = detections[q].ref
    BY <1>0, <1>11, <1>q DEF Tick, Entry
  <2>3. QED
    BY <2>1, <2>2
<1>12. QED
  BY <1>1, <1>2, <1>3, <1>4, <1>5, <1>6, <1>7, <1>8, <1>9, <1>10, <1>11 DEF Next

\* No caller of Wait sleeps on an open channel while its detection is in the
\* cache: the captured channel of detection.go is never the wrong one.
THEOREM LostWakeupFree == Spec => []NoLostWakeup
<1>1. Init => NoLostWakeup
  BY DEF Init, NoLostWakeup, Idle
<1>2. QED
  BY <1>1, NextNoLostWakeup, TypeCorrect, PTL DEF Spec

--------------------------------------------------------------------------------
(* One detection, one caller. *)

\* What DeliveredOnce says of the pointers alone: ref[p] is the detection in the
\* entry of p, got[w] the one caller w holds.
Unshared(ref, got) ==
    /\ \A p \in Paths, w \in Callers : got[w] # None => ref[p] # got[w]
    /\ \A v, w \in Callers : v # w /\ got[v] # None => got[v] # got[w]
    /\ \A p, q \in Paths : p # q /\ ref[p] # None => ref[p] # ref[q]

RefOf == [p \in Paths |-> detections[p].ref]
GotOf == [w \in Callers |-> waits[w].got]

\* DeliveredOnce in terms of the two maps of pointers.
LEMMA DeliveredOnceUnshared == DeliveredOnce <=> Unshared(RefOf, GotOf)
BY DEF DeliveredOnce, Unshared, RefOf, GotOf, Present

\* The steps on the pointers: every step of the cache is one of them.
Stored(p, r) ==
    /\ r \notin Live
    /\ RefOf' = [RefOf EXCEPT ![p] = r] /\ GotOf' = GotOf
Moved(p, w) ==
    RefOf' = [RefOf EXCEPT ![p] = None] /\ GotOf' = [GotOf EXCEPT ![w] = RefOf[p]]
Forgot(w) ==
    RefOf' = RefOf /\ GotOf' = [GotOf EXCEPT ![w] = None]
Dropped(P) ==
    /\ RefOf' = [p \in Paths |-> IF p \in P THEN None ELSE RefOf[p]]
    /\ GotOf' = GotOf

\* The effect on the pointers of every step of the cache.
LEMMA PointerStep ==
    ASSUME TypeOK, [Next]_vars
    PROVE  \/ \E p \in Paths : \E r \in Refs : Stored(p, r)
           \/ \E p \in Paths : \E w \in Callers : Moved(p, w)
           \/ \E w \in Callers : Forgot(w)
           \/ \E P \in SUBSET Paths : Dropped(P)
<1> DEFINE Goal == \/ \E p \in Paths : \E r \in Refs : Stored(p, r)
                   \/ \E p \in Paths : \E w \in Callers : Moved(p, w)
                   \/ \E w \in Callers : Forgot(w)
                   \/ \E P \in SUBSET Paths : Dropped(P)
<1>0. /\ detections \in [Paths -> Entry]
      /\ waits \in [Callers -> WaitRecord]
      /\ Empty.ref = None
  BY DEF TypeOK, Empty
<1>s. ASSUME RefOf' = RefOf, GotOf' = GotOf PROVE Goal
  <2>1. Dropped({})
    BY <1>s DEF Dropped, RefOf
  <2>2. QED
    BY <2>1
<1>1. CASE UNCHANGED vars
  BY <1>1, <1>s DEF vars, RefOf, GotOf
<1>2. ASSUME NEW p \in Paths, NEW r \in Refs, Add(p, r) PROVE Goal
  <2>1. RefOf' = [RefOf EXCEPT ![p] = r]
    BY <1>0, <1>2 DEF Add, RefOf
  <2>2. GotOf' = GotOf
    BY <1>0, <1>2 DEF Add, WakeAll, GotOf, WaitRecord
  <2>3. QED
    BY <1>2, <2>1, <2>2 DEF Add, Stored
<1>3. ASSUME NEW w \in Callers, NEW p \in Paths, NEW t \in 0..MaxTimeout,
             StartWait(w, p, t)
      PROVE  Goal
  <2>1. Forgot(w)
    BY <1>0, <1>3 DEF StartWait, Forgot, RefOf, GotOf
  <2>2. QED
    BY <2>1
<1>4. ASSUME NEW w \in Callers, NEW p \in Paths, Get(w, p) PROVE Goal
  <2>1. Moved(p, w)
    BY <1>0, <1>4 DEF Get, Moved, RefOf, GotOf
  <2>2. QED
    BY <2>1
<1>5. ASSUME NEW w \in Callers, CheckCache(w) PROVE Goal
  <2>1. waits[w].path \in Paths
    BY <1>5 DEF CheckCache, TypeOK, Waiting
  <2>2. CASE Present(waits[w].path)
    <3>1. Moved(waits[w].path, w)
      <4> DEFINE p == waits[w].path
      <4>1. detections' = [detections EXCEPT ![p] = Empty]
        BY <1>5, <2>2 DEF CheckCache
      <4>2. waits' = [waits EXCEPT ![w] = [pc |-> "found", path |-> p, left |-> 0,
                                  woken |-> FALSE, got |-> detections[p].ref]]
        BY <1>5, <2>2 DEF CheckCache, Return
      <4>3. RefOf' = [RefOf EXCEPT ![p] = None]
        BY <1>0, <2>1, <4>1 DEF RefOf
      <4>4. GotOf' = [GotOf EXCEPT ![w] = RefOf[p]]
        BY <1>0, <2>1, <4>2 DEF RefOf, GotOf
      <4>5. QED
        BY <4>3, <4>4 DEF Moved
    <3>2. QED
      BY <2>1, <3>1
  <2>3. CASE ~Present(waits[w].path)
    BY <1>0, <1>5, <2>3, <1>s DEF CheckCache, RefOf, GotOf, WaitRecord
  <2>4. QED
    BY <2>2, <2>3
<1>6. ASSUME NEW w \in Callers, WakeUp(w) PROVE Goal
  BY <1>0, <1>6, <1>s DEF WakeUp, RefOf, GotOf, WaitRecord
<1>7. ASSUME NEW w \in Callers, TimerFires(w) PROVE Goal
  <2>1. Forgot(w)
    BY <1>0, <1>7 DEF TimerFires, Return, Forgot, RefOf, GotOf
  <2>2. QED
    BY <2>1
<1>8. CASE Cleanup
  <2>1. Dropped({p \in Paths : Stale(p)})
    BY <1>0, <1>8 DEF Cleanup, Dropped, RefOf, GotOf
  <2>2. QED
    BY <2>1
<1>9. CASE Stop
  BY <1>9, <1>s DEF Stop, RefOf, GotOf
<1>10. CASE LoopReturns
  BY <1>10, <1>s DEF LoopReturns, RefOf, GotOf
<1>11. CASE Tick
  <2>1. \A p \in Paths : detections'[p].ref = detections[p].ref
    BY <1>0, <1>11 DEF Tick, Entry
  <2>2. \A w \in Callers : waits'[w].got = waits[w].got
    BY <1>0, <1>11 DEF Tick, WaitRecord
  <2>3. QED
    BY <2>1, <2>2, <1>s DEF RefOf, GotOf
<1>12. QED
  BY <1>1, <1>2, <1>3, <1>4, <1>5, <1>6, <1>7, <1>8, <1>9, <1>10, <1>11 DEF Next

\* A step keeps DeliveredOnce: a new detection is one nobody holds, and taking
\* one moves it.
LEMMA NextDeliveredOnce ==
    TypeOK /\ DeliveredOnce /\ [Next]_vars => DeliveredOnce'
<1> SUFFICES ASSUME TypeOK, Unshared(RefOf, GotOf), [Next]_vars
             PROVE  Unshared(RefOf, GotOf)'
  BY DeliveredOnceUnshared DEF DeliveredOnce, Unshared, RefOf, GotOf, Present
<1>0. DOMAIN RefOf = Paths /\ DOMAIN GotOf = Callers
  BY DEF RefOf, GotOf
<1>1. ASSUME NEW p \in Paths, NEW r \in Refs, Stored(p, r)
      PROVE  Unshared(RefOf, GotOf)'
  <2>1. /\ \A q \in Paths : RefOf[q] # r
        /\ \A w \in Callers : GotOf[w] # r
    BY <1>1 DEF Stored, Live, RefOf, GotOf
  <2> DEFINE newRef == RefOf' newGot == GotOf'
  <2>2. /\ \A q \in Paths : newRef[q] = IF q = p THEN r ELSE RefOf[q]
        /\ newGot = GotOf
    BY <1>0, <1>1 DEF Stored, RefOf
  <2> HIDE DEF newRef, newGot
  <2>3. Unshared(newRef, newGot)
    BY <2>1, <2>2 DEF Unshared
  <2>4. QED
    BY <2>3 DEF Unshared, newRef, newGot
<1>2. ASSUME NEW p \in Paths, NEW w \in Callers, Moved(p, w)
      PROVE  Unshared(RefOf, GotOf)'
  BY <1>0, <1>2 DEF Moved, Unshared
<1>3. ASSUME NEW w \in Callers, Forgot(w) PROVE Unshared(RefOf, GotOf)'
  BY <1>0, <1>3 DEF Forgot, Unshared
<1>4. ASSUME NEW P \in SUBSET Paths, Dropped(P) PROVE Unshared(RefOf, GotOf)'
  BY <1>0, <1>4 DEF Dropped, Unshared
<1>5. QED
  BY <1>1, <1>2, <1>3, <1>4, PointerStep

\* A detection of the cache is given to one caller at most, and is no longer in
\* the cache then: it decides one scan.
THEOREM OneDelivery == Spec => []DeliveredOnce
<1>1. Init => DeliveredOnce
  BY DEF Init, DeliveredOnce, Idle, Empty, Present
<1>2. QED
  BY <1>1, NextDeliveredOnce, TypeCorrect, PTL DEF Spec
--------------------------------------------------------------------------------
(* Fresh detections are not dropped. *)

\* The steps that take something out of the map: into a caller's hands, or by
\* the cleanup, which looks at the age.
LEMMA FreshStep ==
    ASSUME TypeOK, [Next]_vars, NEW q \in Paths,
           detections[q].ref # None, detections[q].age <= TTL,
           detections'[q].ref = None
    PROVE  \E w \in Callers : waits'[w].got = detections[q].ref
<1>0. /\ detections \in [Paths -> Entry]
      /\ waits \in [Callers -> WaitRecord]
      /\ Empty.ref = None
      /\ None \notin Refs
      /\ detections[q].age \in Int /\ TTL \in Int
  BY CacheAssumption DEF TypeOK, Empty, Entry, Expired
<1>1. ASSUME detections' = detections PROVE FALSE
  BY <1>1
<1>2. ASSUME NEW p \in Paths, NEW r \in Refs, Add(p, r) PROVE FALSE
  BY <1>0, <1>2 DEF Add
<1>3. ASSUME NEW w \in Callers, NEW p \in Paths, Get(w, p)
      PROVE  waits'[w].got = detections[q].ref
  <2>1. p = q
    BY <1>0, <1>3 DEF Get
  <2>2. QED
    BY <1>0, <1>3, <2>1 DEF Get
<1>4. ASSUME NEW w \in Callers, CheckCache(w)
      PROVE  waits'[w].got = detections[q].ref
  <2> DEFINE p == waits[w].path
  <2>1. CASE Present(p)
    <3>1. p = q
      BY <1>0, <1>4, <2>1 DEF CheckCache
    <3>2. waits' = [waits EXCEPT ![w] = [pc |-> "found", path |-> p, left |-> 0,
                                woken |-> FALSE, got |-> detections[p].ref]]
      BY <1>4, <2>1 DEF CheckCache, Return
    <3>3. QED
      BY <1>0, <3>1, <3>2
  <2>2. CASE ~Present(p)
    BY <1>1, <1>4, <2>2 DEF CheckCache
  <2>3. QED
    BY <2>1, <2>2
<1>5. CASE Cleanup
  <2>1. ~Stale(q)
    BY <1>0 DEF Stale
  <2>2. QED
    BY <1>0, <1>5, <2>1 DEF Cleanup
<1>6. CASE Tick
  BY <1>0, <1>6 DEF Tick, Entry
<1>7. QED
  BY <1>1, <1>2, <1>3, <1>4, <1>5, <1>6
     DEF Next, vars, StartWait, WakeUp, TimerFires, Stop, LoopReturns

\* A detection no older than the TTL leaves the cache only with a caller: no
\* verdict of the real-time scanner is lost to the cleanup goroutine early, to
\* a caller that gives up, or to the stopping of the cache.
THEOREM FreshKept == Spec => FreshNotDropped
<1>1. TypeOK /\ [Next]_vars =>
        [\A p \in Paths :
           Present(p) /\ detections[p].age <= TTL /\ ~Present(p)'
              => \E w \in Callers : waits'[w].got = detections[p].ref]_vars
  BY FreshStep DEF Present
<1>2. QED
  BY <1>1, TypeCorrect, PTL DEF Spec, FreshNotDropped

--------------------------------------------------------------------------------
(* The cache implements the mailbox. *)

\* What a caller is doing, as the mailbox sees it.
CallsOf == [w \in Callers |->
               [st |-> IF waits[w].pc \in Waiting THEN "waiting" ELSE waits[w].pc,
                path |-> waits[w].path, got |-> waits[w].got]]

\* The initial states are initial for the mailbox.
LEMMA MailboxInit == Init => Mailbox!Init
BY DEF Init, Mailbox!Init, Empty, Idle, Waiting

\* Every step of the cache is a step of the mailbox or leaves it alone: time,
\* wakeups and going to sleep do not show.
LEMMA MailboxStep == TypeOK /\ [Next]_vars => [Mailbox!Next]_(Mailbox!vars)
<1> SUFFICES ASSUME TypeOK, [Next]_vars
             PROVE  Mailbox!Next \/ (RefOf' = RefOf /\ CallsOf' = CallsOf)
  BY DEF Mailbox!vars, RefOf, CallsOf
<1>0. /\ detections \in [Paths -> Entry]
      /\ waits \in [Callers -> WaitRecord]
      /\ Empty.ref = None
  BY DEF TypeOK, Empty
<1>1. CASE UNCHANGED vars
  BY <1>1 DEF vars, RefOf, CallsOf
<1>2. ASSUME NEW p \in Paths, NEW r \in Refs, Add(p, r) PROVE Mailbox!Deposit(p, r)
  <2>1. r \notin Mailbox!Held
    BY <1>2 DEF Add, Live, Mailbox!Held
  <2>2. RefOf' = [RefOf EXCEPT ![p] = r]
    BY <1>0, <1>2 DEF Add, RefOf
  <2>3. CallsOf' = CallsOf
    BY <1>0, <1>2 DEF Add, WakeAll, CallsOf, WaitRecord
  <2>4. QED
    BY <2>1, <2>2, <2>3 DEF Mailbox!Deposit, RefOf, CallsOf
<1>3. ASSUME NEW w \in Callers, NEW p \in Paths, NEW t \in 0..MaxTimeout,
             StartWait(w, p, t)
      PROVE  Mailbox!Ask(w, p)
  <2>1. RefOf' = RefOf
    BY <1>3 DEF StartWait, RefOf
  <2>2. CallsOf' = [CallsOf EXCEPT ![w] = [st |-> "waiting", path |-> p, got |-> None]]
    BY <1>0, <1>3 DEF StartWait, CallsOf, Waiting
  <2>3. CallsOf[w].st # "waiting"
    BY <1>3 DEF StartWait, CallsOf, Waiting, Settled
  <2>4. QED
    BY <2>1, <2>2, <2>3 DEF Mailbox!Ask, RefOf, CallsOf
<1>4. ASSUME NEW w \in Callers, NEW p \in Paths, Get(w, p) PROVE Mailbox!Poll(w, p)
  <2>1. RefOf' = [RefOf EXCEPT ![p] = None]
    BY <1>0, <1>4 DEF Get, RefOf
  <2>2. CallsOf' = [CallsOf EXCEPT ![w] =
                      [st |-> IF RefOf[p] = None THEN "missed" ELSE "found",
                       path |-> p, got |-> RefOf[p]]]
    BY <1>0, <1>4 DEF Get, CallsOf, RefOf, Present, Waiting
  <2>3. CallsOf[w].st # "waiting"
    BY <1>4 DEF Get, CallsOf, Waiting, Settled
  <2>4. QED
    BY <2>1, <2>2, <2>3 DEF Mailbox!Poll, RefOf, CallsOf
<1>5. ASSUME NEW w \in Callers, CheckCache(w)
      PROVE  Mailbox!Take(w) \/ (RefOf' = RefOf /\ CallsOf' = CallsOf)
  <2> DEFINE p == waits[w].path
  <2>1. p \in Paths /\ waits[w].pc = "check"
    BY <1>5 DEF CheckCache, TypeOK, Waiting
  <2>2. CASE Present(p)
    <3>1. detections' = [detections EXCEPT ![p] = Empty]
      BY <1>5, <2>2 DEF CheckCache
    <3>2. waits' = [waits EXCEPT ![w] = [pc |-> "found", path |-> p, left |-> 0,
                                woken |-> FALSE, got |-> detections[p].ref]]
      BY <1>5, <2>2 DEF CheckCache, Return
    <3>3. RefOf' = [RefOf EXCEPT ![p] = None]
      BY <1>0, <2>1, <3>1 DEF RefOf
    <3>4. CallsOf' = [CallsOf EXCEPT ![w].st = "found", ![w].got = RefOf[p]]
      BY <1>0, <2>1, <3>2 DEF RefOf, CallsOf, Waiting
    <3>5. CallsOf[w].st = "waiting" /\ CallsOf[w].path = p /\ RefOf[p] # None
      BY <2>1, <2>2 DEF CallsOf, RefOf, Waiting, Present
    <3>6. QED
      BY <3>3, <3>4, <3>5 DEF Mailbox!Take, RefOf, CallsOf
  <2>3. CASE ~Present(p)
    <3>1. detections' = detections
      BY <1>5, <2>3 DEF CheckCache
    <3>2. waits' = [waits EXCEPT ![w].pc = "select", ![w].woken = FALSE]
      BY <1>5, <2>3 DEF CheckCache
    <3>3. QED
      BY <1>0, <2>1, <3>1, <3>2 DEF RefOf, CallsOf, Waiting, WaitRecord
  <2>4. QED
    BY <2>2, <2>3
<1>6. ASSUME NEW w \in Callers, WakeUp(w) PROVE RefOf' = RefOf /\ CallsOf' = CallsOf
  BY <1>0, <1>6 DEF WakeUp, RefOf, CallsOf, Waiting, WaitRecord
<1>7. ASSUME NEW w \in Callers, TimerFires(w) PROVE Mailbox!GiveUp(w)
  <2>1. CallsOf' = [CallsOf EXCEPT ![w] =
                      [st |-> "missed", path |-> waits[w].path, got |-> None]]
    BY <1>0, <1>7 DEF TimerFires, Return, CallsOf, Waiting
  <2>2. CallsOf[w].st = "waiting" /\ RefOf' = RefOf
    BY <1>7 DEF TimerFires, CallsOf, RefOf, Waiting
  <2>3. CallsOf[w].path = waits[w].path /\ DOMAIN CallsOf = Callers
    BY DEF CallsOf
  <2>4. QED
    BY <2>1, <2>2, <2>3 DEF Mailbox!GiveUp, RefOf, CallsOf
<1>8. CASE Cleanup
  <2> DEFINE S == {p \in Paths : Stale(p)}
  <2>1. S \in SUBSET Paths
    OBVIOUS
  <2>2. \A p \in Paths : p \in S <=> Stale(p)
    OBVIOUS
  <2> HIDE DEF S
  <2>3. Mailbox!Discard(S)
    BY <1>0, <1>8, <2>2 DEF Cleanup, Mailbox!Discard
  <2>4. QED
    BY <2>1, <2>3 DEF Mailbox!Next, Mailbox!Discard
<1>9. CASE Stop \/ LoopReturns
  BY <1>9 DEF Stop, LoopReturns, RefOf, CallsOf
<1>10. CASE Tick
  <2>1. \A p \in Paths : detections'[p].ref = detections[p].ref
    BY <1>0, <1>10 DEF Tick, Entry
  <2>2. \A w \in Callers : /\ waits'[w].pc = waits[w].pc
                           /\ waits'[w].path = waits[w].path
                           /\ waits'[w].got = waits[w].got
    BY <1>0, <1>10 DEF Tick, WaitRecord
  <2>3. QED
    BY <2>1, <2>2 DEF RefOf, CallsOf
<1>11. QED
  BY <1>1, <1>2, <1>3, <1>4, <1>5, <1>6, <1>7, <1>8, <1>9, <1>10
     DEF Next, Mailbox!Next

\* The detection cache, with its lock, channel, timers, ages and goroutine, does
\* nothing a box per path with deliver-once calls would not do.
THEOREM Refinement == Spec => ImplementsMailbox
<1>1. QED
  BY MailboxInit, MailboxStep, TypeCorrect, PTL
     DEF Spec, ImplementsMailbox, Mailbox!Spec
================================================================================
