--------------------------- MODULE RateLimiterProofs ---------------------------
(***************************************************************************)
(* Proofs about RateLimiter, for any accounts, requests, limits and        *)
(* allowlists: the counting invariants of the limiter and the bound on the *)
(* scans an account may have running.                                      *)
(***************************************************************************)
EXTENDS RateLimiter, FiniteSetTheorems, TLAPS

\* Counting is right only together with the tracking of permits: a permit is
\* counted in the entry the map has for its account, and nowhere else.
IInv == TypeOK /\ PermitsTracked /\ InflightExact /\ StrangersGo

--------------------------------------------------------------------------------
(* Type correctness. *)

\* Limits in force are natural numbers, with a burst where there is a rate.
LEMMA LimitsTyped ==
    ASSUME NEW c \in Configs \cup {None}, Loadable(c), NEW a \in Accounts
    PROVE  /\ LimitsOf(c, a) \in [Fields -> Nat]
           /\ LimitsOf(c, a)["requestsPerMinute"] > 0 => LimitsOf(c, a)["burst"] > 0
<1>1. CASE c = None
  BY <1>1 DEF LimitsOf, Unlimited, Fields
<1>2. CASE c # None
  <2>1. c \in Config /\ ValidLimits(For(c, a))
    BY <1>2, LimiterAssumption DEF Loadable, Validate
  <2>2. For(c, a) \in [Fields -> Int]
    BY <2>1 DEF Config, For, Limits
  <2>3. QED
    BY <1>2, <2>1, <2>2 DEF LimitsOf, ValidLimits, Fields
<1>3. QED
  BY <1>1, <1>2

\* Buckets made or adjusted from such limits are buckets; a new one has a token.
LEMMA BucketTyped ==
    ASSUME NEW l \in [Fields -> Nat], NEW b \in Bucket,
           l["requestsPerMinute"] > 0 => l["burst"] > 0
    PROVE  /\ ApplyRate(l, b) \in Bucket
           /\ HasToken(ApplyRate(l, NoBucket))
<1>1. /\ l["requestsPerMinute"] \in Nat /\ l["burst"] \in Nat
      /\ Minute \in Nat
      /\ b.rpm \in Nat /\ b.tokens \in Int
  BY LimiterAssumption DEF Fields, Bucket
<1>2. l["burst"] * Minute \in Int
  BY <1>1
<1>3. l["burst"] > 0 => l["burst"] * Minute >= Minute
  BY <1>1, SMTT(30)
<1>4. QED
  BY <1>1, <1>2, <1>3 DEF ApplyRate, Bucket, NoBucket, HasToken, AtMost

\* The state Acquire works on.
LEMMA StateOfTyped ==
    ASSUME TypeOK, NEW a \in Accounts
    PROVE  /\ StateOf(a) \in State
           /\ accounts[a] = None => StateOf(a).inflight = 0 /\ HasToken(StateOf(a).rate)
           /\ LimitsOf(cfg, a)["maxConcurrent"] \in Nat
<1>1. /\ LimitsOf(cfg, a) \in [Fields -> Nat]
      /\ LimitsOf(cfg, a)["requestsPerMinute"] > 0 => LimitsOf(cfg, a)["burst"] > 0
  BY LimitsTyped DEF TypeOK, Loadable
<1>2. NoBucket \in Bucket
  BY DEF NoBucket, Bucket
<1>3. /\ ApplyRate(LimitsOf(cfg, a), NoBucket) \in Bucket
      /\ HasToken(ApplyRate(LimitsOf(cfg, a), NoBucket))
  BY <1>1, <1>2, BucketTyped
<1>4. Fresh(a) \in State /\ Fresh(a).inflight = 0 /\ HasToken(Fresh(a).rate)
  BY <1>3 DEF Fresh, State
<1>5. accounts[a] # None => heap[accounts[a]] \in State
  BY DEF TypeOK
<1>6. QED
  BY <1>1, <1>4, <1>5 DEF StateOf, Fields

\* The entry Acquire works on.
LEMMA EntryTyped ==
    ASSUME TypeOK, NEW a \in Accounts, NEW r \in Entry(a)
    PROVE  /\ r \in Refs /\ r # None
           /\ accounts[a] # None => r = accounts[a]
           /\ accounts[a] = None => /\ \A b \in Accounts : accounts[b] # r
                                    /\ \A q \in Requests : permits[q].ref # r
BY LimiterAssumption DEF Entry, TypeOK, Reachable

\* A rejection stores the state of the account as it was, and nothing else.
Rejected(q, a) == RejectConcurrency(q, a) \/ RejectRate(q, a)

LEMMA StoreTyped ==
    ASSUME TypeOK, NEW a \in Accounts, NEW r \in Entry(a), NEW st \in State,
           Store(a, r, st)
    PROVE  accounts' \in [Accounts -> Refs \cup {None}] /\ heap' \in [Refs -> State]
BY EntryTyped DEF Store, TypeOK

\* The initial state is well-typed.
LEMMA InitTypeOK == Init => TypeOK
<1>1. NoBucket \in Bucket
  BY DEF NoBucket, Bucket
<1>2. [inflight |-> 0, rate |-> NoBucket] \in State
  BY <1>1 DEF State
<1>3. QED
  BY <1>2 DEF Init, TypeOK

\* Every step keeps the types and loads only valid limits.
LEMMA NextTypeOK == TypeOK /\ [Next]_vars => TypeOK'
<1> SUFFICES ASSUME TypeOK, [Next]_vars PROVE TypeOK'
  OBVIOUS
<1>1. CASE UNCHANGED vars
  BY <1>1 DEF vars, TypeOK, Validate, ValidLimits, For
<1>2. ASSUME NEW c \in Configs \cup {None}, NEW al \in Allowlists, Update(c, al)
      PROVE  TypeOK'
  <2>1. \A a \in Accounts : \A r \in Refs :
           ApplyRate(LimitsOf(c, a), heap[r].rate) \in Bucket
    <3> TAKE a \in Accounts
    <3> TAKE r \in Refs
    <3>1. heap[r].rate \in Bucket
      BY DEF TypeOK, State
    <3>2. QED
      BY <1>2, <3>1, LimitsTyped, BucketTyped DEF Update
  <2>2. ASSUME NEW r \in Refs PROVE heap'[r] \in State
    <3>1. CASE \E a \in Accounts : accounts[a] = r /\ ~Dropped(al, a)
      <4> DEFINE a == CHOOSE x \in Accounts : accounts[x] = r
      <4>1. a \in Accounts
        BY <3>1
      <4>2. ApplyRate(LimitsOf(c, a), heap[r].rate) \in Bucket
        BY <2>1, <4>1
      <4>3. heap'[r] = [heap[r] EXCEPT !.rate = ApplyRate(LimitsOf(c, a), heap[r].rate)]
        BY <1>2, <3>1 DEF Update
      <4>4. heap[r] \in State
        BY DEF TypeOK
      <4> HIDE DEF a
      <4>5. QED
        BY <4>2, <4>3, <4>4 DEF State
    <3>2. CASE ~\E a \in Accounts : accounts[a] = r /\ ~Dropped(al, a)
      <4>1. heap'[r] = heap[r]
        BY <1>2, <3>2 DEF Update
      <4>2. QED
        BY <4>1 DEF TypeOK
    <3>3. QED
      BY <3>1, <3>2
  <2>3. heap' \in [Refs -> State]
    BY <1>2, <2>2 DEF Update
  <2>4. accounts' \in [Accounts -> Refs \cup {None}]
    BY <1>2 DEF Update, TypeOK
  <2>5. cfg' # None => Validate(cfg)'
    BY <1>2 DEF Update, Loadable, Validate, ValidLimits, For
  <2>6. QED
    BY <1>2, <2>3, <2>4, <2>5 DEF Update, TypeOK
<1>3. ASSUME NEW q \in Requests, NEW a \in Accounts, Rejected(q, a) PROVE TypeOK'
  <2>1. PICK r \in Entry(a) : Store(a, r, StateOf(a))
    BY <1>3 DEF Rejected, RejectConcurrency, RejectRate
  <2>2. accounts' \in [Accounts -> Refs \cup {None}] /\ heap' \in [Refs -> State]
    BY <2>1, StateOfTyped, StoreTyped
  <2>3. promise' \in [Accounts -> Nat \cup {None}]
    <3>1. CASE RejectConcurrency(q, a)
      BY <3>1 DEF RejectConcurrency, TypeOK
    <3>2. CASE RejectRate(q, a)
      <4>1. /\ StateOf(a).rate.rpm \in Nat /\ StateOf(a).rate.rpm # 0
            /\ StateOf(a).rate.tokens \in Int /\ StateOf(a).rate.tokens < Minute
            /\ Minute \in Nat
        BY <3>2, StateOfTyped, LimiterAssumption
           DEF RejectRate, HasToken, State, Bucket
      <4>2. RetryAfter(StateOf(a).rate) \in Nat
        BY <4>1, SMTT(30) DEF RetryAfter
      <4>3. QED
        BY <3>2, <4>2 DEF RejectRate, TypeOK
    <3>3. QED
      BY <1>3, <3>1, <3>2 DEF Rejected
  <2>4. UNCHANGED <<cfg, allowed, permits, gauge>>
    BY <1>3 DEF Rejected, RejectConcurrency, RejectRate
  <2>5. QED
    BY <2>2, <2>3, <2>4 DEF TypeOK, Validate, ValidLimits, For
<1>4. ASSUME NEW q \in Requests, NEW a \in Accounts, Admit(q, a) PROVE TypeOK'
  <2>1. PICK r \in Entry(a) :
           /\ Store(a, r, Counted(StateOf(a)))
           /\ permits' = [permits EXCEPT ![q] = [account |-> a, ref |-> r]]
    BY <1>4 DEF Admit
  <2>2. Counted(StateOf(a)) \in State
    BY StateOfTyped, LimiterAssumption DEF Counted, Charge, State, Bucket
  <2>3. accounts' \in [Accounts -> Refs \cup {None}] /\ heap' \in [Refs -> State]
    BY <2>1, <2>2, StoreTyped
  <2>4. gauge' \in [Accounts -> Int]
    BY <1>4, <2>2 DEF Admit, State, TypeOK
  <2>5. permits' \in [Requests -> [account : Accounts, ref : Refs] \cup {NoPermit}]
    BY <2>1, EntryTyped DEF TypeOK
  <2>6. promise' \in [Accounts -> Nat \cup {None}] /\ UNCHANGED <<cfg, allowed>>
    BY <1>4 DEF Admit, TypeOK
  <2>7. QED
    BY <2>3, <2>4, <2>5, <2>6 DEF TypeOK, Validate, ValidLimits, For
<1>5. ASSUME NEW q \in Requests, Release(q) PROVE TypeOK'
  <2> DEFINE a == permits[q].account r == permits[q].ref left == heap[r].inflight - 1
  <2>1. a \in Accounts /\ r \in Refs
    BY <1>5 DEF Release, TypeOK
  <2>2. heap[r] \in State /\ left \in Int
    BY <2>1 DEF TypeOK, State
  <2>3. /\ permits' = [permits EXCEPT ![q] = NoPermit]
        /\ heap' = [heap EXCEPT ![r].inflight = left]
        /\ gauge' = [gauge EXCEPT ![a] = left]
        /\ accounts' = [accounts EXCEPT ![a] = None] \/ accounts' = accounts
        /\ UNCHANGED <<cfg, allowed, promise>>
    BY <1>5 DEF Release
  <2>4. [heap[r] EXCEPT !.inflight = left] \in State
    BY <2>2 DEF State
  <2> HIDE DEF a, r, left
  <2>5. QED
    BY <2>1, <2>2, <2>3, <2>4 DEF TypeOK, Validate, ValidLimits, For
<1>6. CASE Tick
  <2>1. ASSUME NEW r \in Refs PROVE heap'[r] \in State
    <3>1. heap[r] \in State
      BY DEF TypeOK
    <3>2. /\ heap[r].rate.burst * Minute \in Int
          /\ heap[r].rate.tokens + heap[r].rate.rpm \in Int
      BY <3>1, LimiterAssumption DEF State, Bucket
    <3>3. QED
      BY <1>6, <3>1, <3>2 DEF Tick, State, Bucket, AtMost
  <2>2. heap' \in [Refs -> State]
    BY <1>6, <2>1 DEF Tick
  <2>3. promise' \in [Accounts -> Nat \cup {None}]
    <3>1. ASSUME NEW a \in Accounts PROVE promise'[a] \in Nat \cup {None}
      <4>1. promise[a] \in Nat \cup {None}
        BY DEF TypeOK
      <4>2. CASE promise[a] = None
        BY <1>6, <4>2 DEF Tick
      <4>3. CASE promise[a] # None
        BY <1>6, <4>1, <4>3 DEF Tick
      <4>4. QED
        BY <4>2, <4>3
    <3>2. QED
      BY <1>6, <3>1 DEF Tick
  <2>4. QED
    BY <1>6, <2>2, <2>3 DEF Tick, TypeOK, Validate, ValidLimits, For
<1>7. QED
  BY <1>1, <1>2, <1>3, <1>4, <1>5, <1>6 DEF Next, Rejected

\* Type correctness of the limiter, and validity of whatever limits are in force.
THEOREM TypeCorrect == Spec => []TypeOK
<1>1. QED
  BY InitTypeOK, NextTypeOK, PTL DEF Spec
--------------------------------------------------------------------------------
(* The counting invariants. *)

\* The permits counted in an entry are finitely many.
LEMMA HoldersFinite ==
    ASSUME NEW r
    PROVE  IsFiniteSet(Holders(r)) /\ Cardinality(Holders(r)) \in Nat
BY LimiterAssumption, FS_Subset, FS_CardinalityType DEF Holders

\* A permit more, a permit less.
LEMMA HoldersChange ==
    ASSUME NEW r, NEW q \in Requests
    PROVE  /\ q \notin Holders(r) =>
                Cardinality(Holders(r) \cup {q}) = Cardinality(Holders(r)) + 1
           /\ q \in Holders(r) =>
                Cardinality(Holders(r) \ {q}) = Cardinality(Holders(r)) - 1
BY HoldersFinite, FS_AddElement, FS_RemoveElement

\* What a rejection, whatever its reason, leaves as it was.  An entry that did
\* not exist would have been admitted, so no entry is made.
LEMMA RejectedEffect ==
    ASSUME TypeOK, NEW q \in Requests, NEW a \in Accounts, Rejected(q, a)
    PROVE  /\ accounts[a] # None
           /\ UNCHANGED <<allowed, cfg, permits, gauge, accounts, heap>>
<1>1. accounts[a] # None
  <2> SUFFICES ASSUME accounts[a] = None PROVE FALSE
    OBVIOUS
  <2>1. /\ StateOf(a).inflight = 0 /\ HasToken(StateOf(a).rate)
        /\ LimitsOf(cfg, a)["maxConcurrent"] \in Nat
    BY StateOfTyped
  <2>2. ~AtLimit(a)
    BY <2>1 DEF AtLimit
  <2>3. QED
    BY <2>1, <2>2 DEF Rejected, RejectConcurrency, RejectRate
<1>2. Store(a, accounts[a], heap[accounts[a]])
  BY <1>1 DEF Rejected, RejectConcurrency, RejectRate, Entry, StateOf
<1>3. accounts' = accounts /\ heap' = heap
  BY <1>1, <1>2 DEF Store, TypeOK
<1>4. QED
  BY <1>1, <1>3 DEF Rejected, RejectConcurrency, RejectRate

\* What an admission does: one more holder of the account's one entry.
LEMMA AdmitEffect ==
    ASSUME IInv, NEW q \in Requests, NEW a \in Accounts, Admit(q, a)
    PROVE  \E r \in Refs :
              /\ accounts' = [accounts EXCEPT ![a] = r]
              /\ permits' = [permits EXCEPT ![q] = [account |-> a, ref |-> r]]
              /\ heap'[r].inflight = Cardinality(Holders(r)) + 1
              /\ heap'[r].inflight = StateOf(a).inflight + 1
              /\ \A s \in Refs \ {r} : heap'[s] = heap[s]
              /\ \A b \in Accounts \ {a} : accounts[b] # r
              /\ accounts[a] = None => Holders(r) = {}
              /\ accounts[a] # None => accounts[a] = r
              /\ q \notin Holders(r)
              /\ allowed' = allowed
<1> USE DEF IInv
<1>1. PICK r \in Entry(a) :
         /\ Store(a, r, Counted(StateOf(a)))
         /\ permits' = [permits EXCEPT ![q] = [account |-> a, ref |-> r]]
  BY DEF Admit
<1>2. r \in Refs /\ r # None
  BY EntryTyped
<1>3. heap'[r] = Counted(StateOf(a)) /\ \A s \in Refs \ {r} : heap'[s] = heap[s]
  BY <1>1, <1>2 DEF Store, TypeOK
<1>4. heap'[r].inflight = StateOf(a).inflight + 1
  BY <1>3 DEF Counted
<1>5. accounts[a] = None => Holders(r) = {}
  BY EntryTyped DEF Holders
<1>6. accounts[a] # None => accounts[a] = r
  BY EntryTyped
<1>7. StateOf(a).inflight = Cardinality(Holders(r))
  <2>1. CASE accounts[a] = None
    BY <1>5, <2>1, StateOfTyped, FS_EmptySet
  <2>2. CASE accounts[a] # None
    BY <1>6, <2>2 DEF StateOf, InflightExact
  <2>3. QED
    BY <2>1, <2>2
<1>8. \A b \in Accounts \ {a} : accounts[b] # r
  BY <1>2, <1>6, EntryTyped DEF PermitsTracked
<1>9. q \notin Holders(r)
  BY <1>2 DEF Admit, Holders, NoPermit
<1>10. QED
  BY <1>1, <1>2, <1>3, <1>4, <1>5, <1>6, <1>7, <1>8, <1>9 DEF Store, Admit

\* What a release does: one holder less of the account's one entry.
LEMMA ReleaseEffect ==
    ASSUME IInv, NEW q \in Requests, Release(q)
    PROVE  \E a \in Accounts : \E r \in Refs :
              /\ permits[q] = [account |-> a, ref |-> r]
              /\ accounts[a] = r
              /\ q \in Holders(r)
              /\ permits' = [permits EXCEPT ![q] = NoPermit]
              /\ heap'[r].inflight = Cardinality(Holders(r)) - 1
              /\ gauge' = [gauge EXCEPT ![a] = Cardinality(Holders(r)) - 1]
              /\ \A s \in Refs \ {r} : heap'[s] = heap[s]
              /\ \/ /\ accounts' = accounts
                    /\ Cardinality(Holders(r)) = 1 => allowed = None \/ a \in allowed
                 \/ /\ accounts' = [accounts EXCEPT ![a] = None]
                    /\ Cardinality(Holders(r)) = 1
              /\ allowed' = allowed
<1> USE DEF IInv
<1> DEFINE a == permits[q].account r == permits[q].ref
<1>1. a \in Accounts /\ r \in Refs /\ permits[q] = [account |-> a, ref |-> r]
  BY DEF Release, TypeOK
<1>2. accounts[a] = r /\ r # None
  BY <1>1, LimiterAssumption DEF Release, PermitsTracked
<1>3. heap[r].inflight = Cardinality(Holders(r)) /\ Cardinality(Holders(r)) \in Nat
  BY <1>1, <1>2, HoldersFinite DEF InflightExact
<1>4. /\ permits' = [permits EXCEPT ![q] = NoPermit]
      /\ heap' = [heap EXCEPT ![r].inflight = heap[r].inflight - 1]
      /\ gauge' = [gauge EXCEPT ![a] = heap[r].inflight - 1]
      /\ accounts' = IF heap[r].inflight - 1 = 0 /\ allowed # None
                         /\ a \notin allowed /\ accounts[a] = r
                     THEN [accounts EXCEPT ![a] = None] ELSE accounts
      /\ allowed' = allowed
  BY DEF Release
<1>5. heap[r] \in State /\ heap \in [Refs -> State]
  BY <1>1 DEF TypeOK
<1>6. heap'[r].inflight = heap[r].inflight - 1 /\ \A s \in Refs \ {r} : heap'[s] = heap[s]
  BY <1>1, <1>4, <1>5 DEF State
<1>7. q \in Holders(r)
  BY DEF Holders
<1>8. \/ /\ accounts' = accounts
         /\ Cardinality(Holders(r)) = 1 => allowed = None \/ a \in allowed
      \/ /\ accounts' = [accounts EXCEPT ![a] = None]
         /\ Cardinality(Holders(r)) = 1
  BY <1>2, <1>3, <1>4
<1> HIDE DEF a, r
<1>9. QED
  BY <1>1, <1>2, <1>3, <1>4, <1>6, <1>7, <1>8

\* What a reload does to the entries: it drops strangers nobody is counted in,
\* and leaves every counter alone.
LEMMA UpdateEffect ==
    ASSUME IInv, NEW c \in Configs \cup {None}, NEW al \in Allowlists, Update(c, al)
    PROVE  /\ permits' = permits /\ gauge' = gauge
           /\ allowed' = al
           /\ \A r \in Refs : heap'[r].inflight = heap[r].inflight
           /\ \A a \in Accounts :
                 \/ accounts'[a] = accounts[a] /\ (a \in al \/ accounts[a] = None
                                                 \/ Holders(accounts[a]) # {})
                 \/ /\ accounts'[a] = None /\ accounts[a] # None
                    /\ Holders(accounts[a]) = {}
<1> USE DEF IInv
<1>1. ASSUME NEW r \in Refs PROVE heap'[r].inflight = heap[r].inflight
  <2>1. heap[r] \in State
    BY DEF TypeOK
  <2>2. CASE \E a \in Accounts : accounts[a] = r /\ ~Dropped(al, a)
    <3> DEFINE b == ApplyRate(LimitsOf(c, CHOOSE x \in Accounts : accounts[x] = r),
                              heap[r].rate)
    <3>1. heap'[r] = [heap[r] EXCEPT !.rate = b]
      BY <2>2 DEF Update
    <3> HIDE DEF b
    <3>2. QED
      BY <2>1, <3>1 DEF State
  <2>3. CASE ~\E a \in Accounts : accounts[a] = r /\ ~Dropped(al, a)
    BY <2>3 DEF Update
  <2>4. QED
    BY <2>2, <2>3
<1>2. ASSUME NEW a \in Accounts
      PROVE  \/ accounts'[a] = accounts[a] /\ (a \in al \/ accounts[a] = None
                                              \/ Holders(accounts[a]) # {})
             \/ /\ accounts'[a] = None /\ accounts[a] # None
                /\ Holders(accounts[a]) = {}
  <2>1. accounts'[a] = IF Dropped(al, a) THEN None ELSE accounts[a]
    BY DEF Update
  <2>2. CASE accounts[a] = None
    BY <2>1, <2>2 DEF Dropped
  <2>3. CASE accounts[a] # None
    <3>1. heap[accounts[a]].inflight = Cardinality(Holders(accounts[a]))
      BY <2>3 DEF InflightExact
    <3>2. heap[accounts[a]].inflight = 0 <=> Holders(accounts[a]) = {}
      BY <3>1, HoldersFinite, FS_EmptySet
    <3>3. QED
      BY <2>1, <2>3, <3>2 DEF Dropped
  <2>4. QED
    BY <2>2, <2>3
<1>3. QED
  BY <1>1, <1>2 DEF Update

\* The permits of one entry after a step on another permit.
LEMMA HoldersAfter ==
    ASSUME NEW q \in Requests, NEW p, NEW s,
           DOMAIN permits = Requests, permits' = [permits EXCEPT ![q] = p]
    PROVE  Holders(s)' = IF p.ref = s THEN Holders(s) \cup {q} ELSE Holders(s) \ {q}
BY DEF Holders

\* The three counting invariants are kept by every step.
LEMMA NextIInv == IInv /\ [Next]_vars => IInv'
<1> SUFFICES ASSUME IInv, [Next]_vars PROVE IInv'
  OBVIOUS
<1>t. /\ TypeOK /\ TypeOK' /\ PermitsTracked /\ InflightExact /\ StrangersGo
      /\ None \notin Refs \cup Accounts
      /\ DOMAIN permits = Requests
      /\ permits \in [Requests -> [account : Accounts, ref : Refs] \cup {NoPermit}]
      /\ accounts \in [Accounts -> Refs \cup {None}]
      /\ NoPermit.ref = None /\ NoPermit.account = None
  BY NextTypeOK, LimiterAssumption DEF IInv, TypeOK, NoPermit
<1>1. CASE UNCHANGED vars
  BY <1>1, <1>t DEF vars, IInv, PermitsTracked, InflightExact, StrangersGo, Holders
<1>2. ASSUME NEW c \in Configs \cup {None}, NEW al \in Allowlists, Update(c, al)
      PROVE  IInv'
  <2>1. /\ permits' = permits
        /\ allowed' = al
        /\ \A r \in Refs : heap'[r].inflight = heap[r].inflight
        /\ \A a \in Accounts :
              \/ accounts'[a] = accounts[a] /\ (a \in al \/ accounts[a] = None
                                              \/ Holders(accounts[a]) # {})
              \/ /\ accounts'[a] = None /\ accounts[a] # None
                 /\ Holders(accounts[a]) = {}
    BY <1>2, UpdateEffect
  <2>2. \A r : Holders(r)' = Holders(r)
    BY <2>1 DEF Holders
  <2>3. PermitsTracked'
    BY <1>t, <2>1 DEF PermitsTracked, Holders
  <2>4. InflightExact'
    BY <1>t, <2>1, <2>2 DEF InflightExact
  <2>5. StrangersGo'
    BY <1>t, <2>1, <2>2 DEF StrangersGo
  <2>6. QED
    BY <1>t, <2>3, <2>4, <2>5 DEF IInv
<1>3. ASSUME NEW q \in Requests, NEW a \in Accounts, Rejected(q, a) PROVE IInv'
  BY <1>t, <1>3, RejectedEffect
     DEF IInv, PermitsTracked, InflightExact, StrangersGo, Holders
<1>4. ASSUME NEW q \in Requests, NEW a \in Accounts, Admit(q, a) PROVE IInv'
  <2>1. PICK r \in Refs :
              /\ accounts' = [accounts EXCEPT ![a] = r]
              /\ permits' = [permits EXCEPT ![q] = [account |-> a, ref |-> r]]
              /\ heap'[r].inflight = Cardinality(Holders(r)) + 1
              /\ heap'[r].inflight = StateOf(a).inflight + 1
              /\ \A s \in Refs \ {r} : heap'[s] = heap[s]
              /\ \A b \in Accounts \ {a} : accounts[b] # r
              /\ accounts[a] = None => Holders(r) = {}
              /\ accounts[a] # None => accounts[a] = r
              /\ q \notin Holders(r)
              /\ allowed' = allowed
    BY <1>4, AdmitEffect
  <2>2. permits[q] = NoPermit
    BY <1>4 DEF Admit
  <2>3. Holders(r)' = Holders(r) \cup {q}
    BY <1>t, <2>1 DEF Holders
  <2>4. \A s \in Refs \ {r} : Holders(s)' = Holders(s)
    BY <1>t, <2>1, <2>2 DEF Holders
  <2>5. PermitsTracked'
    BY <1>t, <2>1, <2>2 DEF PermitsTracked
  <2>6. InflightExact'
    <3> SUFFICES ASSUME NEW b \in Accounts, accounts'[b] # None
                 PROVE  heap'[accounts'[b]].inflight = Cardinality(Holders(accounts[b])')
      BY DEF InflightExact
    <3>1. CASE b = a
      <4>1. accounts'[b] = r
        BY <1>t, <2>1, <3>1
      <4>2. Cardinality(Holders(r)') = Cardinality(Holders(r)) + 1
        BY <2>1, <2>3, HoldersChange
      <4>3. QED
        BY <2>1, <4>1, <4>2 DEF Holders
    <3>2. CASE b # a
      <4>1. accounts'[b] = accounts[b] /\ accounts[b] \in Refs \ {r}
        BY <1>t, <2>1, <3>2
      <4>2. Holders(accounts[b])' = Holders(accounts[b])
        BY <1>t, <2>1, <2>2, <4>1 DEF Holders
      <4>3. QED
        BY <1>t, <2>1, <4>1, <4>2 DEF InflightExact
    <3>3. QED
      BY <3>1, <3>2
  <2>7. StrangersGo'
    <3> SUFFICES ASSUME NEW b \in Accounts, accounts'[b] # None,
                        allowed # None, b \notin allowed
                 PROVE  \E p \in Requests : permits'[p].ref = accounts'[b]
      BY <2>1 DEF StrangersGo, Holders
    <3>1. CASE b = a
      BY <1>t, <2>1, <3>1
    <3>2. CASE b # a
      <4>1. accounts'[b] = accounts[b] /\ accounts[b] # r
        BY <1>t, <2>1, <3>2
      <4>2. PICK p \in Requests : permits[p].ref = accounts[b]
        BY <1>t, <4>1 DEF StrangersGo, Holders
      <4>3. p # q
        BY <1>t, <2>2, <4>1, <4>2
      <4>4. QED
        BY <1>t, <2>1, <4>1, <4>2, <4>3
    <3>3. QED
      BY <3>1, <3>2
  <2>8. QED
    BY <1>t, <2>5, <2>6, <2>7 DEF IInv
<1>5. ASSUME NEW q \in Requests, Release(q) PROVE IInv'
  <2>1. PICK a \in Accounts : \E r \in Refs :
              /\ permits[q] = [account |-> a, ref |-> r]
              /\ accounts[a] = r
              /\ q \in Holders(r)
              /\ permits' = [permits EXCEPT ![q] = NoPermit]
              /\ heap'[r].inflight = Cardinality(Holders(r)) - 1
              /\ gauge' = [gauge EXCEPT ![a] = Cardinality(Holders(r)) - 1]
              /\ \A s \in Refs \ {r} : heap'[s] = heap[s]
              /\ \/ /\ accounts' = accounts
                    /\ Cardinality(Holders(r)) = 1 => allowed = None \/ a \in allowed
                 \/ /\ accounts' = [accounts EXCEPT ![a] = None]
                    /\ Cardinality(Holders(r)) = 1
              /\ allowed' = allowed
    BY <1>5, ReleaseEffect
  <2>2. PICK r \in Refs :
              /\ permits[q] = [account |-> a, ref |-> r]
              /\ accounts[a] = r
              /\ q \in Holders(r)
              /\ permits' = [permits EXCEPT ![q] = NoPermit]
              /\ heap'[r].inflight = Cardinality(Holders(r)) - 1
              /\ gauge' = [gauge EXCEPT ![a] = Cardinality(Holders(r)) - 1]
              /\ \A s \in Refs \ {r} : heap'[s] = heap[s]
              /\ \/ /\ accounts' = accounts
                    /\ Cardinality(Holders(r)) = 1 => allowed = None \/ a \in allowed
                 \/ /\ accounts' = [accounts EXCEPT ![a] = None]
                    /\ Cardinality(Holders(r)) = 1
              /\ allowed' = allowed
    BY <2>1
  <2>3. \A b \in Accounts \ {a} : accounts'[b] = accounts[b] /\ accounts[b] # r
    BY <1>t, <2>2 DEF PermitsTracked
  <2>4. Holders(r)' = Holders(r) \ {q}
    BY <1>t, <2>2 DEF Holders
  <2>5. Cardinality(Holders(r)') = Cardinality(Holders(r)) - 1
    BY <2>2, <2>4, HoldersChange
  <2>6. Cardinality(Holders(r)) = 1 => \A p \in Requests \ {q} : permits[p].ref # r
    <3> SUFFICES ASSUME Cardinality(Holders(r)) = 1
                 PROVE  \A p \in Requests \ {q} : permits[p].ref # r
      OBVIOUS
    <3>1. Cardinality(Holders(r) \ {q}) = 0
      BY <2>2, HoldersChange
    <3>2. IsFiniteSet(Holders(r) \ {q})
      BY HoldersFinite, FS_RemoveElement
    <3>3. Holders(r) \ {q} = {}
      BY <3>1, <3>2, FS_EmptySet
    <3>4. QED
      BY <3>3 DEF Holders
  <2>7. PermitsTracked'
    <3>1. ASSUME NEW p \in Requests, permits'[p] # NoPermit
          PROVE  accounts'[permits'[p].account] = permits'[p].ref
      <4>1. p # q /\ permits'[p] = permits[p]
        BY <1>t, <2>2, <3>1
      <4>2. accounts[permits[p].account] = permits[p].ref
        BY <1>t, <3>1, <4>1 DEF PermitsTracked
      <4>3. permits[p].account \in Accounts
        BY <1>t, <3>1, <4>1
      <4>4. CASE permits[p].account # a
        BY <2>3, <4>1, <4>2, <4>3, <4>4
      <4>5. CASE permits[p].account = a
        BY <2>2, <2>6, <4>1, <4>2, <4>5
      <4>6. QED
        BY <4>4, <4>5
    <3>2. ASSUME NEW b \in Accounts, NEW d \in Accounts, b # d, accounts'[b] # None
          PROVE  accounts'[b] # accounts'[d]
      BY <1>t, <2>2, <3>2 DEF PermitsTracked
    <3>3. QED
      BY <3>1, <3>2 DEF PermitsTracked
  <2>8. InflightExact'
    <3> SUFFICES ASSUME NEW b \in Accounts, accounts'[b] # None
                 PROVE  heap'[accounts'[b]].inflight = Cardinality(Holders(accounts[b])')
      BY DEF InflightExact
    <3>1. CASE b = a
      <4>1. accounts'[b] = r
        BY <1>t, <2>2, <3>1
      <4>2. QED
        BY <2>2, <2>5, <4>1 DEF Holders
    <3>2. CASE b # a
      <4>1. accounts'[b] = accounts[b] /\ accounts[b] \in Refs \ {r}
        BY <1>t, <2>3, <3>2
      <4>2. Holders(accounts[b])' = Holders(accounts[b])
        BY <1>t, <2>2, <4>1 DEF Holders
      <4>3. QED
        BY <1>t, <2>2, <4>1, <4>2 DEF InflightExact
    <3>3. QED
      BY <3>1, <3>2
  <2>9. StrangersGo'
    <3> SUFFICES ASSUME NEW b \in Accounts, accounts'[b] # None,
                        allowed # None, b \notin allowed
                 PROVE  \E p \in Requests : permits'[p].ref = accounts'[b]
      BY <2>2 DEF StrangersGo, Holders
    <3>1. CASE b = a
      <4>1. accounts'[b] = r /\ Cardinality(Holders(r)) # 1
        BY <1>t, <2>2, <3>1
      <4>2. Holders(r) \ {q} # {}
        <5>1. Cardinality(Holders(r) \ {q}) = Cardinality(Holders(r)) - 1
          BY <2>2, HoldersChange
        <5>2. Cardinality(Holders(r)) - 1 # 0
          BY <4>1, HoldersFinite
        <5>3. Cardinality({}) = 0
          BY FS_EmptySet
        <5>4. QED
          BY <5>1, <5>2, <5>3
      <4>3. PICK p \in Requests \ {q} : permits[p].ref = r
        BY <4>2 DEF Holders
      <4>4. QED
        BY <1>t, <2>2, <4>1, <4>3
    <3>2. CASE b # a
      <4>1. accounts'[b] = accounts[b] /\ accounts[b] # r
        BY <2>3, <3>2
      <4>2. PICK p \in Requests : permits[p].ref = accounts[b]
        BY <1>t, <4>1 DEF StrangersGo, Holders
      <4>3. QED
        BY <1>t, <2>2, <4>1, <4>2
    <3>3. QED
      BY <3>1, <3>2
  <2>10. QED
    BY <1>t, <2>7, <2>8, <2>9 DEF IInv
<1>6. CASE Tick
  <2>1. \A r \in Refs : heap'[r].inflight = heap[r].inflight
    BY <1>6, <1>t DEF Tick, TypeOK, State
  <2>2. UNCHANGED <<accounts, permits, allowed>>
    BY <1>6 DEF Tick
  <2>3. QED
    BY <1>t, <2>1, <2>2 DEF IInv, PermitsTracked, InflightExact, StrangersGo, Holders
<1>7. QED
  BY <1>1, <1>2, <1>3, <1>4, <1>5, <1>6 DEF Next, Rejected

LEMMA InitIInv == Init => IInv
<1> SUFFICES ASSUME Init PROVE IInv
  OBVIOUS
<1>1. TypeOK
  BY InitTypeOK
<1>2. QED
  BY <1>1 DEF Init, IInv, PermitsTracked, InflightExact, StrangersGo

LEMMA Invariance == Spec => []IInv
<1>1. QED
  BY InitIInv, NextIInv, PTL DEF Spec

\* Every permit is counted in the entry the map has for its account: reloads
\* and dropped accounts never orphan a counter a request still holds.
THEOREM Tracking == Spec => []PermitsTracked
<1>1. QED
  BY Invariance, PTL DEF IInv

\* The counter of every entry is the number of permits out.
THEOREM Counting == Spec => []InflightExact
<1>1. QED
  BY Invariance, PTL DEF IInv

\* An account off the allowlist keeps an entry only while a scan of its runs, so
\* the map is bounded by the allowlist and the running requests.
THEOREM Bounded == Spec => []StrangersGo
<1>1. QED
  BY Invariance, PTL DEF IInv
--------------------------------------------------------------------------------
(* The bound and the metric. *)

\* The requests of an account are the holders of its entry.
LEMMA HoldersOfAccount ==
    ASSUME IInv, NEW a \in Accounts
    PROVE  /\ accounts[a] # None => HoldersOf(a) = Holders(accounts[a])
           /\ accounts[a] = None => HoldersOf(a) = {}
<1>1. \A q \in Requests :
         permits[q].account = a => accounts[a] = permits[q].ref /\ accounts[a] # None
  BY LimiterAssumption DEF IInv, TypeOK, PermitsTracked, NoPermit
<1>2. \A q \in Requests :
         accounts[a] # None /\ permits[q].ref = accounts[a] => permits[q].account = a
  BY LimiterAssumption DEF IInv, TypeOK, PermitsTracked, NoPermit
<1>3. QED
  BY <1>1, <1>2 DEF Holders, HoldersOf

\* Only an admission gives a request a permit of account a, and it looks at the
\* counter, which is the number of the account's scans really running.
LEMMA BoundStep ==
    ASSUME IInv, [Next]_vars, NEW q \in Requests, NEW a \in Accounts,
           permits[q] = NoPermit, permits'[q].account = a,
           LimitsOf(cfg, a)["maxConcurrent"] > 0
    PROVE  Cardinality(HoldersOf(a)') <= LimitsOf(cfg, a)["maxConcurrent"]
<1>0. /\ permits \in [Requests -> [account : Accounts, ref : Refs] \cup {NoPermit}]
      /\ None \notin Refs \cup Accounts
      /\ NoPermit.account = None /\ NoPermit.ref = None
      /\ TypeOK
  BY LimiterAssumption DEF IInv, TypeOK, NoPermit
<1>1. ASSUME permits' = permits PROVE FALSE
  BY <1>0, <1>1
<1>2. ASSUME NEW p \in Requests, Release(p) PROVE FALSE
  BY <1>0, <1>2 DEF Release
<1>3. ASSUME NEW p \in Requests, NEW b \in Accounts, Admit(p, b)
      PROVE  Cardinality(HoldersOf(a)') <= LimitsOf(cfg, a)["maxConcurrent"]
  <2>1. permits' = [permits EXCEPT ![p] = [account |-> b, ref |-> permits'[p].ref]]
        /\ ~AtLimit(b)
    BY <1>0, <1>3 DEF Admit
  <2>2. p = q /\ b = a
    BY <1>0, <2>1
  <2>3. PICK r \in Refs :
           /\ accounts' = [accounts EXCEPT ![a] = r]
           /\ permits' = [permits EXCEPT ![q] = [account |-> a, ref |-> r]]
           /\ heap'[r].inflight = Cardinality(Holders(r)) + 1
           /\ heap'[r].inflight = StateOf(a).inflight + 1
           /\ q \notin Holders(r)
    BY <1>3, <2>2, AdmitEffect
  <2>4. HoldersOf(a)' = Holders(r)'
    <3>1. IInv' /\ accounts'[a] = r /\ r # None
      BY <1>0, <2>3, NextIInv DEF TypeOK
    <3>2. \A s \in Requests : permits'[s].account = a <=> permits'[s].ref = r
      <4>1. /\ permits' \in [Requests -> [account : Accounts, ref : Refs] \cup {NoPermit}]
            /\ \A s \in Requests : permits'[s] # NoPermit
                  => accounts'[permits'[s].account] = permits'[s].ref
            /\ \A b1, b2 \in Accounts :
                  b1 # b2 /\ accounts'[b1] # None => accounts'[b1] # accounts'[b2]
        BY <3>1 DEF IInv, TypeOK, PermitsTracked
      <4>2. QED
        BY <1>0, <3>1, <4>1
    <3>3. QED
      BY <3>2 DEF HoldersOf, Holders
  <2>5. Holders(r)' = Holders(r) \cup {q}
    BY <1>0, <2>3 DEF Holders
  <2>6. Cardinality(Holders(r)') = StateOf(a).inflight + 1
    BY <2>3, <2>5, HoldersChange
  <2>7. StateOf(a).inflight < LimitsOf(cfg, a)["maxConcurrent"]
        /\ StateOf(a).inflight \in Int /\ LimitsOf(cfg, a)["maxConcurrent"] \in Int
    BY <1>0, <2>1, <2>2, StateOfTyped DEF AtLimit, State
  <2>8. QED
    BY <2>4, <2>6, <2>7
<1>4. ASSUME NEW p \in Requests, NEW b \in Accounts, Rejected(p, b) PROVE FALSE
  BY <1>0, <1>1, <1>4, RejectedEffect
<1>5. QED
  BY <1>1, <1>2, <1>3, <1>4 DEF Next, vars, Update, Tick, Rejected

\* The concurrency limit holds of the scans really running, across reloads,
\* lowered limits and limits switched on while scans are running.
THEOREM Bound == Spec => ConcurrencyBound
<1>1. IInv /\ [Next]_vars =>
        [\A q \in Requests, a \in Accounts :
           LET max == LimitsOf(cfg, a)["maxConcurrent"] IN
           permits[q] = NoPermit /\ permits'[q].account = a /\ max > 0
              => Cardinality(HoldersOf(a)') <= max]_vars
  BY BoundStep
<1>2. QED
  BY <1>1, Invariance, PTL DEF Spec, ConcurrencyBound

\* The metric is set to the counter, which is the number of running requests of
\* the one account that a step is about.
LEMMA GaugeStep == IInv /\ GaugeExact /\ [Next]_vars => GaugeExact'
<1> SUFFICES ASSUME IInv, GaugeExact, [Next]_vars, NEW b \in Accounts
             PROVE  gauge'[b] = Cardinality(HoldersOf(b)')
  BY DEF GaugeExact
<1>0. /\ permits \in [Requests -> [account : Accounts, ref : Refs] \cup {NoPermit}]
      /\ DOMAIN permits = Requests /\ gauge \in [Accounts -> Int]
      /\ None \notin Refs \cup Accounts /\ NoPermit.account = None
      /\ TypeOK /\ gauge[b] = Cardinality(HoldersOf(b))
  BY LimiterAssumption DEF IInv, TypeOK, NoPermit, GaugeExact
<1>1. ASSUME permits' = permits, gauge' = gauge
      PROVE  gauge'[b] = Cardinality(HoldersOf(b)')
  BY <1>0, <1>1 DEF HoldersOf
<1>2. ASSUME NEW q \in Requests, NEW a \in Accounts, Admit(q, a)
      PROVE  gauge'[b] = Cardinality(HoldersOf(b)')
  <2>1. PICK r \in Refs :
           /\ permits' = [permits EXCEPT ![q] = [account |-> a, ref |-> r]]
           /\ StateOf(a).inflight + 1 = Cardinality(Holders(r)) + 1
           /\ accounts[a] = None => Holders(r) = {}
           /\ accounts[a] # None => accounts[a] = r
           /\ q \notin Holders(r)
    <3>1. \E r \in Refs :
             /\ permits' = [permits EXCEPT ![q] = [account |-> a, ref |-> r]]
             /\ heap'[r].inflight = Cardinality(Holders(r)) + 1
             /\ heap'[r].inflight = StateOf(a).inflight + 1
             /\ accounts[a] = None => Holders(r) = {}
             /\ accounts[a] # None => accounts[a] = r
             /\ q \notin Holders(r)
      BY <1>2, AdmitEffect
    <3>2. QED
      BY <3>1
  <2>2. HoldersOf(a) = Holders(r)
    BY <2>1, HoldersOfAccount
  <2>3. gauge' = [gauge EXCEPT ![a] = StateOf(a).inflight + 1] /\ permits[q] = NoPermit
    BY <1>2 DEF Admit, Counted
  <2>6. permits'[q].account = a /\ \A p \in Requests \ {q} : permits'[p] = permits[p]
    BY <1>0, <2>1
  <2>4. CASE a = b
    <3>1. HoldersOf(b)' = HoldersOf(b) \cup {q}
      BY <1>0, <2>4, <2>6 DEF HoldersOf
    <3>2. Cardinality(Holders(r) \cup {q}) = Cardinality(Holders(r)) + 1
      BY <2>1, HoldersChange
    <3>3. gauge'[b] = StateOf(a).inflight + 1
      BY <1>0, <2>3, <2>4
    <3>4. QED
      BY <2>1, <2>2, <2>4, <3>1, <3>2, <3>3
  <2>5. CASE a # b
    <3>1. q \notin HoldersOf(b)
      BY <1>0, <2>3 DEF HoldersOf
    <3>2. HoldersOf(b)' = HoldersOf(b)
      <4>1. HoldersOf(b)' = HoldersOf(b) \ {q}
        BY <1>0, <2>5, <2>6 DEF HoldersOf
      <4>2. QED
        BY <3>1, <4>1
    <3>3. QED
      BY <1>0, <2>3, <2>5, <3>2
  <2>7. QED
    BY <2>4, <2>5
<1>3. ASSUME NEW q \in Requests, Release(q) PROVE gauge'[b] = Cardinality(HoldersOf(b)')
  <2>1. PICK a \in Accounts, r \in Refs :
           /\ permits[q] = [account |-> a, ref |-> r]
           /\ accounts[a] = r /\ q \in Holders(r)
           /\ permits' = [permits EXCEPT ![q] = NoPermit]
           /\ gauge' = [gauge EXCEPT ![a] = Cardinality(Holders(r)) - 1]
    BY <1>3, ReleaseEffect
  <2>2. HoldersOf(a) = Holders(r)
    BY <1>0, <2>1, HoldersOfAccount
  <2>3. HoldersOf(b)' = HoldersOf(b) \ {q}
    <3>1. permits'[q].account # b /\ \A p \in Requests \ {q} : permits'[p] = permits[p]
      BY <1>0, <2>1
    <3>2. QED
      BY <3>1 DEF HoldersOf
  <2>4. CASE a = b
    <3>1. Cardinality(Holders(r) \ {q}) = Cardinality(Holders(r)) - 1
      BY <2>1, HoldersChange
    <3>2. gauge'[b] = Cardinality(Holders(r)) - 1
      BY <1>0, <2>1, <2>4
    <3>3. QED
      BY <2>2, <2>3, <2>4, <3>1, <3>2
  <2>5. CASE a # b
    <3>1. q \notin HoldersOf(b)
      BY <2>1, <2>5 DEF HoldersOf
    <3>2. QED
      BY <1>0, <2>1, <2>3, <2>5, <3>1
  <2>6. QED
    BY <2>4, <2>5
<1>4. ASSUME NEW q \in Requests, NEW a \in Accounts, Rejected(q, a)
      PROVE  gauge'[b] = Cardinality(HoldersOf(b)')
  BY <1>0, <1>1, <1>4, RejectedEffect
<1>5. QED
  BY <1>1, <1>2, <1>3, <1>4 DEF Next, vars, Update, Tick, Rejected

\* The in-flight metric of every account is the number of its scans running, also
\* across entries that are dropped and made again (the gauge's Set under l.mu).
THEOREM Metric == Spec => []GaugeExact
<1>1. Init => GaugeExact
  <2> SUFFICES ASSUME Init, NEW a \in Accounts PROVE gauge[a] = Cardinality(HoldersOf(a))
    BY DEF GaugeExact
  <2>1. HoldersOf(a) = {}
    BY LimiterAssumption DEF Init, HoldersOf, NoPermit
  <2>2. QED
    BY <2>1, FS_EmptySet DEF Init
<1>2. QED
  BY <1>1, GaugeStep, Invariance, PTL DEF Spec

\* No bucket is in debt: a token is taken only where there is one.
NoDebt == \A r \in Refs : heap[r].rate.tokens >= 0

LEMMA ApplyRateNoDebt ==
    ASSUME NEW l \in [Fields -> Nat], NEW b \in Bucket, b.tokens >= 0
    PROVE  ApplyRate(l, b).tokens >= 0
<1>1. l["burst"] \in Nat /\ Minute \in Nat
  BY LimiterAssumption DEF Fields
<1>2. l["burst"] * Minute \in Nat /\ b.tokens \in Int
  BY <1>1 DEF Bucket
<1>3. QED
  BY <1>2 DEF ApplyRate, NoBucket, AtMost

LEMMA NoDebtStep == IInv /\ NoDebt /\ [Next]_vars => NoDebt'
<1> SUFFICES ASSUME IInv, NoDebt, [Next]_vars, NEW s \in Refs
             PROVE  heap'[s].rate.tokens >= 0
  BY DEF NoDebt
<1>0. /\ TypeOK /\ TypeOK' /\ Minute \in Nat \ {0}
      /\ \A r \in Refs : heap[r] \in State /\ heap[r].rate \in Bucket
                         /\ heap[r].rate.tokens >= 0
  BY NextTypeOK, LimiterAssumption DEF IInv, NoDebt, TypeOK, State
<1>1. ASSUME heap' = heap PROVE heap'[s].rate.tokens >= 0
  BY <1>0, <1>1
<1>2. ASSUME NEW c \in Configs \cup {None}, NEW al \in Allowlists, Update(c, al)
      PROVE  heap'[s].rate.tokens >= 0
  <2>1. CASE \E a \in Accounts : accounts[a] = s /\ ~Dropped(al, a)
    <3> DEFINE a == CHOOSE x \in Accounts : accounts[x] = s
    <3>1. a \in Accounts
      BY <2>1
    <3>2. heap'[s] = [heap[s] EXCEPT !.rate = ApplyRate(LimitsOf(c, a), heap[s].rate)]
      BY <1>2, <2>1 DEF Update
    <3> HIDE DEF a
    <3>3. heap'[s].rate = ApplyRate(LimitsOf(c, a), heap[s].rate)
      BY <1>0, <3>2 DEF State
    <3>4. LimitsOf(c, a) \in [Fields -> Nat]
      BY <1>2, <3>1, LimitsTyped DEF Update
    <3>5. QED
      BY <1>0, <3>3, <3>4, ApplyRateNoDebt
  <2>2. CASE ~\E a \in Accounts : accounts[a] = s /\ ~Dropped(al, a)
    <3>1. heap'[s] = heap[s]
      BY <1>2, <2>2 DEF Update
    <3>2. QED
      BY <1>0, <3>1
  <2>3. QED
    BY <2>1, <2>2
<1>3. ASSUME NEW q \in Requests, NEW a \in Accounts, Rejected(q, a)
      PROVE  heap'[s].rate.tokens >= 0
  BY <1>0, <1>1, <1>3, RejectedEffect
<1>4. ASSUME NEW q \in Requests, NEW a \in Accounts, Admit(q, a)
      PROVE  heap'[s].rate.tokens >= 0
  <2>1. PICK r \in Entry(a) : heap' = [heap EXCEPT ![r] = Counted(StateOf(a))]
    BY <1>4 DEF Admit, Store
  <2>2. StateOf(a) \in State /\ HasToken(StateOf(a).rate)
    BY <1>0, <1>4, StateOfTyped DEF Admit
  <2>3. StateOf(a).rate.tokens >= 0
    <3>1. CASE accounts[a] # None
      BY <1>0, <3>1 DEF StateOf, TypeOK
    <3>2. CASE accounts[a] = None
      <4>1. LimitsOf(cfg, a) \in [Fields -> Nat]
        BY <1>0, LimitsTyped DEF TypeOK, Loadable
      <4>2. NoBucket \in Bucket /\ NoBucket.tokens >= 0
        BY DEF NoBucket, Bucket
      <4>3. QED
        BY <3>2, <4>1, <4>2, ApplyRateNoDebt DEF StateOf, Fresh
    <3>3. QED
      BY <3>1, <3>2
  <2>4. StateOf(a).rate.tokens \in Int /\ StateOf(a).rate \in Bucket
    BY <2>2 DEF State, Bucket
  <2>5. Counted(StateOf(a)).rate.tokens >= 0
    <3>1. CASE StateOf(a).rate.rpm = 0
      BY <2>3, <3>1 DEF Counted, Charge
    <3>2. CASE StateOf(a).rate.rpm # 0
      <4>1. StateOf(a).rate.tokens >= Minute
        BY <2>2, <3>2 DEF HasToken
      <4>2. Charge(StateOf(a).rate).tokens = StateOf(a).rate.tokens - Minute
        BY <2>4, <3>2 DEF Charge, Bucket
      <4>3. QED
        BY <1>0, <2>4, <4>1, <4>2 DEF Counted
    <3>3. QED
      BY <3>1, <3>2
  <2>6. heap'[s] \in {heap[s], Counted(StateOf(a))}
    BY <1>0, <2>1 DEF TypeOK
  <2>7. QED
    BY <1>0, <2>5, <2>6
<1>5. ASSUME NEW q \in Requests, Release(q) PROVE heap'[s].rate.tokens >= 0
  <2>1. heap'[s].rate = heap[s].rate
    <3>1. PICK n : heap' = [heap EXCEPT ![permits[q].ref].inflight = n]
      BY <1>5 DEF Release
    <3>2. QED
      BY <1>0, <3>1 DEF TypeOK, State
  <2>2. QED
    BY <1>0, <2>1
<1>6. CASE Tick
  <2>1. heap'[s].rate.tokens =
           IF heap[s].rate.rpm = 0 THEN heap[s].rate.tokens
           ELSE AtMost(heap[s].rate.tokens + heap[s].rate.rpm, heap[s].rate.burst * Minute)
    BY <1>0, <1>6 DEF Tick, State, Bucket
  <2>2. heap[s].rate.rpm \in Nat /\ heap[s].rate.burst \in Nat /\ heap[s].rate.tokens \in Nat
    BY <1>0 DEF Bucket
  <2>3. heap[s].rate.burst * Minute \in Nat
    BY <1>0, <2>2
  <2>4. QED
    BY <2>1, <2>2, <2>3 DEF AtMost
<1>7. QED
  BY <1>1, <1>2, <1>3, <1>4, <1>5, <1>6 DEF Next, vars, Rejected

\* A reload that keeps an account's bucket does not add to its tokens.
LEMMA ReloadStep ==
    ASSUME IInv, NoDebt, [Next]_vars, NEW a \in Accounts,
           NEW c \in Configs \cup {None}, NEW al \in Allowlists, Update(c, al),
           accounts[a] # None, accounts'[a] # None, heap[accounts[a]].rate.rpm # 0
    PROVE  heap'[accounts[a]].rate.tokens <= heap[accounts[a]].rate.tokens
<1>0. TypeOK /\ TypeOK' /\ PermitsTracked /\ accounts[a] \in Refs
  BY NextTypeOK DEF IInv, TypeOK
<1> DEFINE r == accounts[a]
<1>3. heap[r] \in State /\ heap[r].rate.tokens \in Int
  BY <1>0 DEF TypeOK, State, Bucket
<1>4. ~Dropped(al, a)
  BY DEF Update
<1>5. (CHOOSE x \in Accounts : accounts[x] = r) = a
  <2>1. \A x \in Accounts : accounts[x] = r => x = a
    BY <1>0 DEF PermitsTracked
  <2>2. QED
    BY <2>1
<1>6. heap'[r] = [heap[r] EXCEPT !.rate = ApplyRate(LimitsOf(c, a), heap[r].rate)]
  BY <1>0, <1>4, <1>5 DEF Update
<1>7. heap'[r].rate = ApplyRate(LimitsOf(c, a), heap[r].rate)
  BY <1>3, <1>6 DEF State
<1>8. heap'[r] \in State
  BY <1>0 DEF TypeOK
<1>9. heap'[r].rate.tokens \in Int
  BY <1>8 DEF State, Bucket
<1>10. QED
  <2>1. CASE LimitsOf(c, a)["requestsPerMinute"] = 0
    BY <1>0, <1>3, <1>7, <2>1 DEF ApplyRate, NoBucket, NoDebt
  <2>2. CASE LimitsOf(c, a)["requestsPerMinute"] # 0
    <3>1. heap'[r].rate.tokens =
             AtMost(heap[r].rate.tokens, LimitsOf(c, a)["burst"] * Minute)
      BY <1>7, <2>2 DEF ApplyRate
    <3>2. QED
      BY <1>3, <1>9, <3>1 DEF AtMost
  <2>3. QED
    BY <2>1, <2>2

\* No reload of the allowlist file gives an account that is short of tokens more
\* of them, whatever the old and the new limits, equal ones included (applyRate).
THEOREM NoBurstOnReload == Spec => ReloadGrantsNothing
<1>1. Init => NoDebt
  BY DEF Init, NoDebt, NoBucket
<1>2. IInv /\ NoDebt /\ [Next]_vars =>
        [(\E c \in Configs \cup {None}, al \in Allowlists : Update(c, al)) =>
         \A a \in Accounts :
           accounts[a] # None /\ accounts'[a] # None /\ heap[accounts[a]].rate.rpm # 0
              => heap'[accounts[a]].rate.tokens <= heap[accounts[a]].rate.tokens]_vars
  <2> SUFFICES ASSUME IInv, NoDebt, [Next]_vars,
                      NEW c \in Configs \cup {None}, NEW al \in Allowlists, Update(c, al),
                      NEW a \in Accounts, accounts[a] # None, accounts'[a] # None,
                      heap[accounts[a]].rate.rpm # 0
               PROVE  heap'[accounts[a]].rate.tokens <= heap[accounts[a]].rate.tokens
    OBVIOUS
  <2> QED
    BY ReloadStep
<1>3. QED
  BY <1>1, <1>2, NoDebtStep, Invariance, PTL DEF Spec, ReloadGrantsNothing

--------------------------------------------------------------------------------
(* Retry-After. *)

\* A division rounded up, and a multiple less.
LEMMA RoundedUp ==
    ASSUME NEW d \in Int, NEW r \in Nat \ {0}
    PROVE  ((d + r - 1) \div r) * r >= d
<1> DEFINE n == d + r - 1
<1>1. n \in Int
  OBVIOUS
<1>2. n = (r * (n \div r)) + (n % r) /\ n % r \in 0..(r - 1) /\ n \div r \in Int
  BY <1>1, SMTT(30)
<1>3. r * (n \div r) = (n \div r) * r
  BY <1>2
<1>4. QED
  BY <1>2, <1>3

LEMMA OneLess ==
    ASSUME NEW p \in Nat, NEW r \in Nat
    PROVE  (p - 1) * r = p * r - r /\ p * r \in Nat
OBVIOUS

\* A bucket has room for a token: limits with a rate have a burst.
HasBurst == \A r \in Refs : heap[r].rate.rpm # 0 => heap[r].rate.burst >= 1

LEMMA ApplyRateHasBurst ==
    ASSUME NEW c \in Configs \cup {None}, Loadable(c), NEW a \in Accounts, NEW b \in Bucket,
           ApplyRate(LimitsOf(c, a), b).rpm # 0
    PROVE  ApplyRate(LimitsOf(c, a), b).burst >= 1
<1>1. /\ LimitsOf(c, a)["requestsPerMinute"] \in Nat /\ LimitsOf(c, a)["burst"] \in Nat
      /\ LimitsOf(c, a)["requestsPerMinute"] > 0 => LimitsOf(c, a)["burst"] > 0
  BY LimitsTyped DEF Fields
<1>2. QED
  BY <1>1 DEF ApplyRate, NoBucket

LEMMA HasBurstStep == IInv /\ HasBurst /\ [Next]_vars => HasBurst'
<1> SUFFICES ASSUME IInv, HasBurst, [Next]_vars, NEW s \in Refs, heap'[s].rate.rpm # 0
             PROVE  heap'[s].rate.burst >= 1
  BY DEF HasBurst
<1>0. /\ TypeOK
      /\ \A r \in Refs : heap[r] \in State /\ heap[r].rate \in Bucket
                         /\ (heap[r].rate.rpm # 0 => heap[r].rate.burst >= 1)
  BY DEF IInv, HasBurst, TypeOK, State
<1>1. ASSUME heap'[s].rate.rpm = heap[s].rate.rpm, heap'[s].rate.burst = heap[s].rate.burst
      PROVE  heap'[s].rate.burst >= 1
  BY <1>0, <1>1
<1>2. ASSUME NEW c \in Configs \cup {None}, NEW al \in Allowlists, Update(c, al)
      PROVE  heap'[s].rate.burst >= 1
  <2>1. CASE \E a \in Accounts : accounts[a] = s /\ ~Dropped(al, a)
    <3> DEFINE a == CHOOSE x \in Accounts : accounts[x] = s
    <3>1. a \in Accounts
      BY <2>1
    <3>2. heap'[s] = [heap[s] EXCEPT !.rate = ApplyRate(LimitsOf(c, a), heap[s].rate)]
      BY <1>2, <2>1 DEF Update
    <3> HIDE DEF a
    <3>3. heap'[s].rate = ApplyRate(LimitsOf(c, a), heap[s].rate)
      BY <1>0, <3>2 DEF State
    <3>4. Loadable(c)
      BY <1>2 DEF Update
    <3>5. QED
      BY <1>0, <3>1, <3>3, <3>4, ApplyRateHasBurst
  <2>2. CASE ~\E a \in Accounts : accounts[a] = s /\ ~Dropped(al, a)
    <3>1. heap'[s] = heap[s]
      BY <1>2, <2>2 DEF Update
    <3>2. QED
      BY <1>1, <3>1
  <2>3. QED
    BY <2>1, <2>2
<1>3. ASSUME NEW q \in Requests, NEW a \in Accounts, Rejected(q, a)
      PROVE  heap'[s].rate.burst >= 1
  BY <1>0, <1>1, <1>3, RejectedEffect
<1>4. ASSUME NEW q \in Requests, NEW a \in Accounts, Admit(q, a)
      PROVE  heap'[s].rate.burst >= 1
  <2>1. PICK r \in Entry(a) : heap' = [heap EXCEPT ![r] = Counted(StateOf(a))]
    BY <1>4 DEF Admit, Store
  <2>2. StateOf(a).rate \in Bucket
    BY <1>0, StateOfTyped DEF State
  <2>3. StateOf(a).rate.rpm # 0 => StateOf(a).rate.burst >= 1
    <3>1. CASE accounts[a] # None
      BY <1>0, <3>1 DEF StateOf, TypeOK
    <3>2. CASE accounts[a] = None
      <4>1. cfg \in Configs \cup {None} /\ Loadable(cfg) /\ NoBucket \in Bucket
        BY <1>0 DEF TypeOK, Loadable, NoBucket, Bucket
      <4>2. StateOf(a).rate = ApplyRate(LimitsOf(cfg, a), NoBucket)
        BY <3>2 DEF StateOf, Fresh
      <4>3. QED
        BY <4>1, <4>2, ApplyRateHasBurst
    <3>3. QED
      BY <3>1, <3>2
  <2>4. /\ Counted(StateOf(a)).rate.rpm = StateOf(a).rate.rpm
        /\ Counted(StateOf(a)).rate.burst = StateOf(a).rate.burst
    BY <2>2 DEF Counted, Charge, Bucket
  <2>5. heap'[s] \in {heap[s], Counted(StateOf(a))}
    BY <1>0, <2>1 DEF TypeOK
  <2>6. QED
    BY <1>0, <2>3, <2>4, <2>5
<1>5. ASSUME NEW q \in Requests, Release(q) PROVE heap'[s].rate.burst >= 1
  <2>1. PICK n : heap' = [heap EXCEPT ![permits[q].ref].inflight = n]
    BY <1>5 DEF Release
  <2>2. heap'[s].rate = heap[s].rate
    BY <1>0, <2>1 DEF TypeOK, State
  <2>3. QED
    BY <1>1, <2>2
<1>6. CASE Tick
  <2>1. /\ heap'[s].rate.rpm = heap[s].rate.rpm
        /\ heap'[s].rate.burst = heap[s].rate.burst
    BY <1>0, <1>6 DEF Tick, State, Bucket
  <2>2. QED
    BY <1>1, <2>1
<1>7. QED
  BY <1>1, <1>2, <1>3, <1>4, <1>5, <1>6 DEF Next, vars, Rejected

\* In p units of time the bucket b has a token.
Covered(b, p) == b.rpm = 0 \/ b.tokens + p * b.rpm >= Minute

PromisesCovered ==
    \A a \in Accounts :
        promise[a] # None /\ accounts[a] # None => Covered(heap[accounts[a]].rate, promise[a])

\* The time that RetryAfter names is enough.
LEMMA RetryAfterCovers ==
    ASSUME NEW b \in Bucket
    PROVE  Covered(b, RetryAfter(b))
<1>1. CASE b.rpm = 0
  BY <1>1 DEF Covered
<1>2. CASE b.rpm # 0
  <2>1. b.rpm \in Nat \ {0} /\ b.tokens \in Int /\ Minute \in Int
    BY <1>2, LimiterAssumption DEF Bucket
  <2>2. RetryAfter(b) = ((Minute - b.tokens) + b.rpm - 1) \div b.rpm
    BY DEF RetryAfter
  <2> DEFINE d == Minute - b.tokens
  <2>3. d \in Int
    BY <2>1
  <2>4. RetryAfter(b) * b.rpm >= d
    BY <2>1, <2>2, <2>3, RoundedUp
  <2>5. RetryAfter(b) * b.rpm \in Int
    <3>1. RetryAfter(b) \in Int
      BY <2>1, <2>2, SMTT(30)
    <3>2. QED
      BY <2>1, <3>1
  <2>6. QED
    BY <2>1, <2>4, <2>5 DEF Covered
<1>3. QED
  BY <1>1, <1>2

LEMMA PromisesStep == IInv /\ HasBurst /\ PromisesCovered /\ [Next]_vars => PromisesCovered'
<1> SUFFICES ASSUME IInv, HasBurst, PromisesCovered, [Next]_vars, NEW b \in Accounts,
                    promise'[b] # None, accounts'[b] # None
             PROVE  Covered(heap'[accounts'[b]].rate, promise'[b])
  BY DEF PromisesCovered, Covered
<1>0. /\ TypeOK /\ Minute \in Nat \ {0} /\ None \notin Refs
      /\ \A r \in Refs : heap[r] \in State /\ heap[r].rate \in Bucket
      /\ promise[b] # None /\ accounts[b] # None
            => Covered(heap[accounts[b]].rate, promise[b])
  BY LimiterAssumption DEF IInv, PromisesCovered, TypeOK, State
<1>1. ASSUME promise'[b] = promise[b], accounts'[b] = accounts[b],
             heap'[accounts[b]].rate = heap[accounts[b]].rate
      PROVE  Covered(heap'[accounts'[b]].rate, promise'[b])
  BY <1>0, <1>1
<1>2. ASSUME NEW c \in Configs \cup {None}, NEW al \in Allowlists, Update(c, al)
      PROVE  FALSE
  BY <1>2 DEF Update
<1>3. ASSUME NEW q \in Requests, NEW a \in Accounts, Rejected(q, a)
      PROVE  Covered(heap'[accounts'[b]].rate, promise'[b])
  <2>1. accounts' = accounts /\ heap' = heap /\ accounts[a] # None
    BY <1>0, <1>3, RejectedEffect
  <2>2. CASE promise'[b] = promise[b]
    BY <1>1, <2>1, <2>2
  <2>3. CASE promise'[b] # promise[b]
    <3>1. b = a /\ promise'[b] = RetryAfter(StateOf(a).rate)
      BY <1>0, <1>3, <2>3 DEF Rejected, RejectConcurrency, RejectRate, TypeOK
    <3>2. StateOf(a).rate = heap[accounts[a]].rate /\ StateOf(a).rate \in Bucket
      BY <1>0, <2>1 DEF StateOf, TypeOK
    <3>3. QED
      BY <2>1, <3>1, <3>2, RetryAfterCovers
  <2>4. QED
    BY <2>2, <2>3
<1>4. ASSUME NEW q \in Requests, NEW a \in Accounts, Admit(q, a)
      PROVE  Covered(heap'[accounts'[b]].rate, promise'[b])
  <2>1. promise' = [promise EXCEPT ![a] = None]
    BY <1>4 DEF Admit
  <2>2. b # a /\ promise'[b] = promise[b]
    BY <1>0, <2>1 DEF TypeOK
  <2>3. PICK r \in Refs :
           /\ accounts' = [accounts EXCEPT ![a] = r]
           /\ \A s \in Refs \ {r} : heap'[s] = heap[s]
           /\ \A x \in Accounts \ {a} : accounts[x] # r
    BY <1>4, AdmitEffect
  <2>4. accounts'[b] = accounts[b] /\ accounts[b] \in Refs \ {r}
    BY <1>0, <2>2, <2>3 DEF TypeOK
  <2>5. heap'[accounts[b]] = heap[accounts[b]]
    BY <2>3, <2>4
  <2>6. QED
    BY <1>1, <2>2, <2>4, <2>5
<1>5. ASSUME NEW q \in Requests, Release(q)
      PROVE  Covered(heap'[accounts'[b]].rate, promise'[b])
  <2>1. /\ \E n : heap' = [heap EXCEPT ![permits[q].ref].inflight = n]
        /\ \E a : accounts' \in {accounts, [accounts EXCEPT ![a] = None]}
        /\ promise' = promise
    BY <1>5 DEF Release
  <2>2. accounts'[b] = accounts[b] /\ accounts[b] \in Refs
    BY <1>0, <2>1 DEF TypeOK
  <2>3. heap'[accounts[b]].rate = heap[accounts[b]].rate
    BY <1>0, <2>1, <2>2 DEF TypeOK, State
  <2>4. QED
    BY <1>1, <2>1, <2>2, <2>3
<1>6. CASE Tick
  <2>1. accounts' = accounts /\ accounts[b] \in Refs
    BY <1>0, <1>6 DEF Tick, TypeOK
  <2>2. promise[b] \in Nat /\ promise'[b] = IF promise[b] = 0 THEN 0 ELSE promise[b] - 1
    BY <1>0, <1>6 DEF Tick, TypeOK
  <2>3. Covered(heap[accounts[b]].rate, promise[b])
    <3>1. promise[b] # None
      BY <2>2, LimiterAssumption
    <3>2. QED
      BY <1>0, <2>1, <3>1
  <2>4. PICK o : o = heap[accounts[b]].rate
    OBVIOUS
  <2>5. o.rpm \in Nat /\ o.burst \in Nat /\ o.tokens \in Int
    BY <1>0, <2>1, <2>4 DEF Bucket
  <2>6. /\ heap'[accounts[b]].rate.rpm = o.rpm
        /\ heap'[accounts[b]].rate.tokens =
             IF o.rpm = 0 THEN o.tokens ELSE AtMost(o.tokens + o.rpm, o.burst * Minute)
    BY <1>0, <1>6, <2>1, <2>4 DEF Tick, State, Bucket
  <2>7. CASE o.rpm = 0
    BY <2>1, <2>6, <2>7 DEF Covered
  <2>8. CASE o.rpm # 0
    <3>1. o.burst * Minute >= Minute /\ o.burst * Minute \in Nat
      <4>1. o.burst >= 1
        BY <2>1, <2>4, <2>8 DEF HasBurst
      <4>2. QED
        BY <1>0, <2>5, <4>1
    <3>2. /\ (promise[b] - 1) * o.rpm = promise[b] * o.rpm - o.rpm
          /\ promise[b] * o.rpm \in Nat
      BY <2>2, <2>5, OneLess
    <3>3. o.tokens + promise[b] * o.rpm >= Minute
      BY <2>3, <2>4, <2>8 DEF Covered
    <3>4. promise'[b] * o.rpm \in Nat /\ promise'[b] * o.rpm >= promise[b] * o.rpm - o.rpm
      <4>1. CASE promise[b] = 0
        BY <2>2, <2>5, <4>1
      <4>2. CASE promise[b] # 0
        <5>1. promise'[b] = promise[b] - 1 /\ promise'[b] \in Nat
          BY <2>2, <4>2
        <5>2. QED
          BY <2>5, <3>2, <5>1, OneLess
      <4>3. QED
        BY <4>1, <4>2
    <3>5. PICK m : m = o.burst * Minute
      OBVIOUS
    <3>6. PICK k : k = promise'[b] * o.rpm
      OBVIOUS
    <3>7. PICK j : j = promise[b] * o.rpm
      OBVIOUS
    <3>8. AtMost(o.tokens + o.rpm, m) + k >= Minute
      <4>1. m \in Nat /\ m >= Minute
        BY <3>1, <3>5
      <4>2. k \in Nat /\ k >= j - o.rpm /\ j \in Nat /\ o.tokens + j >= Minute
        BY <3>2, <3>3, <3>4, <3>6, <3>7
      <4>3. QED
        BY <1>0, <2>5, <4>1, <4>2 DEF AtMost
    <3>9. QED
      BY <2>1, <2>6, <2>8, <3>5, <3>6, <3>8 DEF Covered
  <2>9. QED
    BY <2>7, <2>8
<1>7. ASSUME UNCHANGED vars PROVE Covered(heap'[accounts'[b]].rate, promise'[b])
  BY <1>1, <1>7 DEF vars
<1>8. QED
  BY <1>2, <1>3, <1>4, <1>5, <1>6, <1>7 DEF Next, Rejected

--------------------------------------------------------------------------------
(* The limits in force. *)

\* The bucket b is one of limits l, and no fuller than its burst.
FitsLimits(b, l) ==
    /\ b.rpm = l["requestsPerMinute"]
    /\ b.rpm # 0 => b.burst = l["burst"] /\ b.tokens <= l["burst"] * Minute

\* Every account of the map is under the limits in force.
LimitsApplied ==
    \A a \in Accounts :
        accounts[a] # None => FitsLimits(heap[accounts[a]].rate, LimitsOf(cfg, a))

\* What applyRate makes of any bucket.
LEMMA ApplyRateFits ==
    ASSUME NEW l \in [Fields -> Nat], NEW b \in Bucket
    PROVE  FitsLimits(ApplyRate(l, b), l)
<1>1. /\ l["requestsPerMinute"] \in Nat /\ l["burst"] \in Nat
      /\ l["burst"] * Minute \in Nat /\ b.tokens \in Int
  BY LimiterAssumption DEF Fields, Bucket
<1>2. QED
  BY <1>1 DEF FitsLimits, ApplyRate, NoBucket, AtMost

\* What Acquire works on, an entry of the map or a fresh one.
LEMMA StateOfFits ==
    ASSUME TypeOK, LimitsApplied, NEW a \in Accounts
    PROVE  FitsLimits(StateOf(a).rate, LimitsOf(cfg, a))
<1>1. CASE accounts[a] # None
  BY <1>1 DEF StateOf, LimitsApplied
<1>2. CASE accounts[a] = None
  <2>1. LimitsOf(cfg, a) \in [Fields -> Nat] /\ NoBucket \in Bucket
    BY LimitsTyped DEF TypeOK, Loadable, NoBucket, Bucket
  <2>2. StateOf(a).rate = ApplyRate(LimitsOf(cfg, a), NoBucket)
    BY <1>2 DEF StateOf, Fresh
  <2>3. QED
    BY <2>1, <2>2, ApplyRateFits
<1>3. QED
  BY <1>1, <1>2

\* Taking a token.
LEMMA ChargeFits ==
    ASSUME NEW l \in [Fields -> Nat], NEW b \in Bucket, FitsLimits(b, l), HasToken(b)
    PROVE  /\ FitsLimits(Charge(b), l)
           /\ b.rpm # 0 => Charge(b).tokens = b.tokens - Minute
<1>1. CASE b.rpm = 0
  BY <1>1 DEF Charge
<1>2. CASE b.rpm # 0
  <2>1. /\ Charge(b).rpm = b.rpm /\ Charge(b).burst = b.burst
        /\ Charge(b).tokens = b.tokens - Minute
    BY <1>2 DEF Charge, Bucket
  <2>2. Minute \in Nat /\ b.tokens \in Int /\ l["burst"] \in Nat
    BY LimiterAssumption DEF Bucket, Fields
  <2>3. l["burst"] * Minute \in Nat
    BY <2>2
  <2>4. QED
    BY <1>2, <2>1, <2>2, <2>3 DEF FitsLimits
<1>3. QED
  BY <1>1, <1>2

\* A step of time, for one account.
LEMMA TickRate ==
    ASSUME TypeOK, Tick, NEW r \in Refs
    PROVE  /\ heap'[r].rate.rpm = heap[r].rate.rpm /\ heap'[r].rate.burst = heap[r].rate.burst
           /\ heap[r].rate.rpm # 0 =>
                heap'[r].rate.tokens = AtMost(heap[r].rate.tokens + heap[r].rate.rpm,
                                              heap[r].rate.burst * Minute)
<1>1. heap[r] \in State /\ heap[r].rate \in Bucket
  BY DEF TypeOK, State
<1>2. QED
  BY <1>1 DEF Tick, State, Bucket

LEMMA LimitsAppliedStep == IInv /\ LimitsApplied /\ [Next]_vars => LimitsApplied'
<1> SUFFICES ASSUME IInv, LimitsApplied, [Next]_vars,
                    NEW a \in Accounts, accounts'[a] # None
             PROVE  FitsLimits(heap'[accounts'[a]].rate, LimitsOf(cfg, a)')
  BY DEF LimitsApplied
<1> DEFINE Goal == FitsLimits(heap'[accounts'[a]].rate, LimitsOf(cfg, a)')
<1>0. /\ TypeOK /\ TypeOK' /\ PermitsTracked
      /\ accounts[a] # None => accounts[a] \in Refs
      /\ \A r \in Refs : heap[r] \in State /\ heap[r].rate \in Bucket
      /\ LimitsOf(cfg, a) \in [Fields -> Nat]
  BY NextTypeOK, LimitsTyped DEF IInv, TypeOK, State, Loadable
<1>1. ASSUME cfg' = cfg PROVE LimitsOf(cfg, a)' = LimitsOf(cfg, a)
  BY <1>1 DEF LimitsOf
<1>2. ASSUME cfg' = cfg, accounts'[a] = accounts[a],
             heap'[accounts[a]].rate = heap[accounts[a]].rate
      PROVE  Goal
  BY <1>1, <1>2 DEF LimitsApplied
<1>3. ASSUME NEW c \in Configs \cup {None}, NEW al \in Allowlists, Update(c, al)
      PROVE  Goal
  <2> DEFINE r == accounts[a]
  <2>1. ~Dropped(al, a) /\ accounts'[a] = r /\ r # None /\ r \in Refs
    BY <1>0, <1>3 DEF Update
  <2>2. (CHOOSE x \in Accounts : accounts[x] = r) = a
    <3>1. \A x \in Accounts : accounts[x] = r => x = a
      BY <1>0, <2>1 DEF PermitsTracked
    <3>2. QED
      BY <3>1
  <2>3. heap'[r] = [heap[r] EXCEPT !.rate = ApplyRate(LimitsOf(c, a), heap[r].rate)]
    BY <1>3, <2>1, <2>2 DEF Update
  <2>4. heap'[r].rate = ApplyRate(LimitsOf(c, a), heap[r].rate)
    BY <1>0, <2>1, <2>3 DEF State
  <2>5. LimitsOf(cfg, a)' = LimitsOf(c, a) /\ LimitsOf(c, a) \in [Fields -> Nat]
    BY <1>3, LimitsTyped DEF Update, LimitsOf
  <2> HIDE DEF r
  <2>6. QED
    BY <1>0, <2>1, <2>4, <2>5, ApplyRateFits
<1>4. ASSUME NEW q \in Requests, NEW b \in Accounts, Rejected(q, b) PROVE Goal
  BY <1>0, <1>2, <1>4, RejectedEffect
<1>5. ASSUME NEW q \in Requests, NEW b \in Accounts, Admit(q, b) PROVE Goal
  <2>1. PICK r \in Entry(b) : Store(b, r, Counted(StateOf(b))) /\ cfg' = cfg
    BY <1>5 DEF Admit
  <2>2. r \in Refs /\ r # None
    BY <1>0, EntryTyped
  <2>3. CASE a = b
    <3>1. StateOf(a) \in State /\ StateOf(a).rate \in Bucket
      BY <1>0, StateOfTyped DEF State
    <3>2. FitsLimits(StateOf(a).rate, LimitsOf(cfg, a)) /\ HasToken(StateOf(a).rate)
      BY <1>0, <1>5, <2>3, StateOfFits DEF Admit
    <3>3. accounts'[a] = r /\ heap'[r].rate = Charge(StateOf(a).rate)
      BY <1>0, <2>1, <2>2, <2>3 DEF Store, TypeOK, Counted
    <3>4. FitsLimits(Charge(StateOf(a).rate), LimitsOf(cfg, a))
      BY <1>0, <3>1, <3>2, ChargeFits
    <3>5. QED
      BY <1>1, <2>1, <3>3, <3>4
  <2>4. CASE a # b
    <3>1. accounts'[a] = accounts[a] /\ accounts[a] # None
      BY <1>0, <2>1, <2>4 DEF Store, TypeOK
    <3>2. accounts[a] # r
      <4>1. CASE accounts[b] = None
        BY <1>0, <4>1, EntryTyped
      <4>2. CASE accounts[b] # None
        BY <1>0, <2>4, <4>2, EntryTyped DEF PermitsTracked
      <4>3. QED
        BY <4>1, <4>2
    <3>3. heap'[accounts[a]] = heap[accounts[a]]
      BY <1>0, <2>1, <3>1, <3>2 DEF Store, TypeOK
    <3>4. QED
      BY <1>2, <2>1, <3>1, <3>3
  <2>5. QED
    BY <2>3, <2>4
<1>6. ASSUME NEW q \in Requests, Release(q) PROVE Goal
  <2>1. accounts'[a] = accounts[a] /\ cfg' = cfg
    BY <1>0, <1>6 DEF Release, TypeOK
  <2>2. \A s \in Refs : heap'[s].rate = heap[s].rate
    <3>1. PICK n : heap' = [heap EXCEPT ![permits[q].ref].inflight = n]
      BY <1>6 DEF Release
    <3>2. QED
      BY <1>0, <3>1 DEF TypeOK, State
  <2>3. QED
    BY <1>0, <1>2, <2>1, <2>2
<1>7. CASE Tick
  <2> DEFINE r == accounts[a]
  <2>1. accounts'[a] = r /\ r \in Refs /\ cfg' = cfg /\ r # None
    BY <1>0, <1>7 DEF Tick
  <2> HIDE DEF r
  <2>2. FitsLimits(heap[r].rate, LimitsOf(cfg, a))
    BY <2>1 DEF LimitsApplied, r
  <2>3. /\ heap'[r].rate.rpm = heap[r].rate.rpm /\ heap'[r].rate.burst = heap[r].rate.burst
        /\ heap[r].rate.rpm # 0 =>
             heap'[r].rate.tokens = AtMost(heap[r].rate.tokens + heap[r].rate.rpm,
                                           heap[r].rate.burst * Minute)
    BY <1>0, <1>7, <2>1, TickRate
  <2>4. /\ LimitsOf(cfg, a)["burst"] * Minute \in Nat
        /\ heap[r].rate.tokens \in Int /\ heap[r].rate.rpm \in Nat
    BY <1>0, <2>1, LimiterAssumption DEF Fields, Bucket
  <2>5. FitsLimits(heap'[r].rate, LimitsOf(cfg, a))
    BY <2>2, <2>3, <2>4 DEF FitsLimits, AtMost
  <2>6. QED
    BY <1>1, <2>1, <2>5
<1>8. CASE UNCHANGED vars
  BY <1>2, <1>8 DEF vars
<1>9. QED
  BY <1>3, <1>4, <1>5, <1>6, <1>7, <1>8 DEF Next, Rejected

--------------------------------------------------------------------------------
(* All of it as one invariant, for the modules the limiter is a part of. *)

Sound == IInv /\ GaugeExact /\ NoDebt /\ HasBurst /\ PromisesCovered /\ LimitsApplied

LEMMA InitSound == Init => Sound
<1> SUFFICES ASSUME Init PROVE Sound
  OBVIOUS
<1>1. GaugeExact
  <2> SUFFICES ASSUME NEW a \in Accounts PROVE gauge[a] = Cardinality(HoldersOf(a))
    BY DEF GaugeExact
  <2>1. HoldersOf(a) = {}
    BY LimiterAssumption DEF Init, HoldersOf, NoPermit
  <2>2. QED
    BY <2>1, FS_EmptySet DEF Init
<1>2. NoDebt /\ HasBurst /\ PromisesCovered /\ LimitsApplied
  BY DEF Init, NoDebt, HasBurst, PromisesCovered, LimitsApplied, NoBucket
<1>3. QED
  BY <1>1, <1>2, InitIInv DEF Sound

LEMMA NextSound == Sound /\ [Next]_vars => Sound'
BY NextIInv, GaugeStep, NoDebtStep, HasBurstStep, PromisesStep, LimitsAppliedStep DEF Sound

\* What the invariant says of the properties.
LEMMA SoundImplies ==
    Sound => /\ TypeOK /\ PermitsTracked /\ InflightExact /\ StrangersGo
             /\ GaugeExact /\ RetryAfterHonest /\ LimitsApplied
<1>1. Sound => RetryAfterHonest
  <2> SUFFICES ASSUME IInv, PromisesCovered, NEW a \in Accounts,
                      promise[a] = 0, accounts[a] # None
               PROVE  HasToken(heap[accounts[a]].rate)
    BY DEF Sound, RetryAfterHonest
  <2>1. Covered(heap[accounts[a]].rate, 0)
    BY LimiterAssumption DEF PromisesCovered
  <2>2. heap[accounts[a]].rate.rpm \in Nat /\ heap[accounts[a]].rate.tokens \in Int
    BY DEF IInv, TypeOK, State, Bucket
  <2>3. QED
    BY <2>1, <2>2 DEF Covered, HasToken
<1>2. QED
  BY <1>1 DEF Sound, IInv

LEMMA SoundInvariance == Spec => []Sound
<1>1. QED
  BY InitSound, NextSound, PTL DEF Spec

\* A client that waits as long as Retry-After told it finds a token, for any
\* limits, unless a reload or a request of the same account comes between
\* (Acquire and writeRejection).
THEOREM HonestRetryAfter == Spec => []RetryAfterHonest
<1>1. QED
  BY SoundInvariance, SoundImplies, PTL

\* Every bucket of the map is under the limits that were loaded last, and no
\* fuller than their burst (Update and applyRate).
THEOREM LimitsInForce == Spec => []LimitsApplied
<1>1. Sound => LimitsApplied
  BY DEF Sound
<1>2. QED
  BY <1>1, SoundInvariance, PTL

--------------------------------------------------------------------------------
(* The supply of pointers. *)

EnoughPointers ==
    IsFiniteSet(Accounts) /\ IsFiniteSet(Refs) /\ Cardinality(Accounts) <= Cardinality(Refs)

\* Whatever a request still holds is in the map, so pointers are taken by the
\* accounts of the map only, and the account that needs one is not among them.
LEMMA EntryFound ==
    ASSUME EnoughPointers, IInv, NEW a \in Accounts
    PROVE  Entry(a) # {}
<1> SUFFICES ASSUME Entry(a) = {} PROVE FALSE
  OBVIOUS
<1> DEFINE g == [r \in Refs |-> CHOOSE b \in Accounts : accounts[b] = r]
<1>1. accounts[a] = None /\ Refs \subseteq Reachable /\ None \notin Refs
  BY LimiterAssumption DEF Entry
<1>2. ASSUME NEW r \in Refs PROVE \E b \in Accounts : accounts[b] = r
  <2>1. CASE \E q \in Requests : permits[q].ref = r
    <3>1. PICK q \in Requests : permits[q].ref = r
      BY <2>1
    <3>2. permits[q] # NoPermit /\ permits[q].account \in Accounts
      BY <1>1, <3>1 DEF IInv, TypeOK, NoPermit
    <3>3. QED
      BY <3>1, <3>2 DEF IInv, PermitsTracked
  <2>2. QED
    BY <1>1, <2>1 DEF Reachable
<1>3. \A r \in Refs : g[r] \in Accounts /\ accounts[g[r]] = r
  BY <1>2
<1>4. g \in [Refs -> Accounts \ {a}]
  BY <1>1, <1>3
<1>5. /\ IsFiniteSet(Accounts \ {a})
      /\ Cardinality(Accounts \ {a}) = Cardinality(Accounts) - 1
      /\ Cardinality(Accounts) \in Nat /\ Cardinality(Refs) \in Nat
  BY FS_RemoveElement, FS_CardinalityType DEF EnoughPointers
<1>6. Cardinality(Accounts \ {a}) < Cardinality(Refs) /\ IsFiniteSet(Refs)
  BY <1>5 DEF EnoughPointers
<1> HIDE DEF g
<1>7. PICK x \in Refs, y \in Refs : x # y /\ g[x] = g[y]
  BY <1>4, <1>5, <1>6, FS_PigeonHole
<1>8. QED
  BY <1>3, <1>7

\* Go makes an accountState whenever one is missing; the model draws it from
\* Refs.  As many pointers as accounts are enough for that: Acquire always finds
\* an entry to work on, whatever reloads have dropped under running requests.
THEOREM PointersSuffice ==
    ASSUME EnoughPointers
    PROVE  Spec => [](\A a \in Accounts : Entry(a) # {})
<1>1. IInv => \A a \in Accounts : Entry(a) # {}
  BY EntryFound
<1>2. QED
  BY <1>1, Invariance, PTL

--------------------------------------------------------------------------------
(* The rate. *)

\* Over a window of time in which the limits of an account do not change and its
\* entry is not dropped: n of its requests have been admitted and t units of time
\* have passed.  A window may be begun at any step.
WindowStep(a, n, n1, t, t1) ==
    \/ [Next]_vars /\ n1 = 0 /\ t1 = 0
    \/ Tick /\ n1 = n /\ t1 = t + 1
    \/ \E q \in Requests : Admit(q, a) /\ n1 = n + 1 /\ t1 = t
    \/ /\ [Next]_vars /\ ~Tick /\ ~\E q \in Requests : Admit(q, a)
       /\ cfg' = cfg /\ (accounts[a] # None => accounts'[a] # None)
       /\ n1 = n /\ t1 = t

\* Every token of the window was in the bucket when it began, or has come since.
Paid(l, b, n, t) ==
    l["requestsPerMinute"] > 0 =>
        n * Minute + b.tokens <= l["burst"] * Minute + l["requestsPerMinute"] * t

LEMMA BucketFits ==
    TypeOK /\ LimitsApplied =>
        \A a \in Accounts : /\ FitsLimits(StateOf(a).rate, LimitsOf(cfg, a))
                            /\ StateOf(a).rate \in Bucket
                            /\ LimitsOf(cfg, a) \in [Fields -> Nat]
BY StateOfFits, StateOfTyped, LimitsTyped DEF State, TypeOK, Loadable

LEMMA BucketFitsNext ==
    IInv /\ LimitsApplied /\ [Next]_vars =>
        (\A a \in Accounts : /\ FitsLimits(StateOf(a).rate, LimitsOf(cfg, a))
                             /\ StateOf(a).rate \in Bucket
                             /\ LimitsOf(cfg, a) \in [Fields -> Nat])'
<1>1. (TypeOK /\ LimitsApplied =>
        \A a \in Accounts : /\ FitsLimits(StateOf(a).rate, LimitsOf(cfg, a))
                            /\ StateOf(a).rate \in Bucket
                            /\ LimitsOf(cfg, a) \in [Fields -> Nat])'
  BY BucketFits, PTL
<1>2. IInv /\ LimitsApplied /\ [Next]_vars => TypeOK' /\ LimitsApplied'
  BY NextTypeOK, LimitsAppliedStep DEF IInv
<1>3. QED
  BY <1>1, <1>2

\* The products of Paid, one request or one unit of time later.
LEMMA OneMore ==
    ASSUME NEW n \in Nat, NEW m \in Nat
    PROVE  (n + 1) * m = n * m + m /\ m * (n + 1) = m * n + m /\ n * m \in Nat /\ m * n \in Nat
OBVIOUS

\* The bucket of an account whose entry and limits stay as they are.
LEMMA SameBucket ==
    ASSUME NEW a \in Accounts, cfg' = cfg, accounts'[a] = accounts[a],
           accounts[a] # None => heap'[accounts[a]].rate = heap[accounts[a]].rate
    PROVE  (StateOf(a).rate)' = StateOf(a).rate
BY DEF StateOf, Fresh, LimitsOf, For, ApplyRate, NoBucket, AtMost

\* A unit of time brings requestsPerMinute at most.
LEMMA TickGain ==
    ASSUME IInv, LimitsApplied, Tick, NEW a \in Accounts,
           LimitsOf(cfg, a)["requestsPerMinute"] > 0
    PROVE  (StateOf(a).rate.tokens)' <=
              StateOf(a).rate.tokens + LimitsOf(cfg, a)["requestsPerMinute"]
<1>0. /\ TypeOK /\ cfg' = cfg /\ accounts'[a] = accounts[a]
      /\ accounts[a] # None => accounts[a] \in Refs
      /\ LimitsOf(cfg, a)["requestsPerMinute"] \in Nat
      /\ StateOf(a).rate.tokens \in Int
      /\ FitsLimits(StateOf(a).rate, LimitsOf(cfg, a))
  BY BucketFits DEF IInv, TypeOK, Tick, Fields, Bucket
<1>1. CASE accounts[a] = None
  BY <1>0, <1>1, SameBucket
<1>2. CASE accounts[a] # None
  <2>1. /\ (StateOf(a).rate.tokens)' = heap'[accounts[a]].rate.tokens
        /\ StateOf(a).rate = heap[accounts[a]].rate
    BY <1>0, <1>2 DEF StateOf
  <2>2. /\ heap[accounts[a]].rate \in Bucket
        /\ heap[accounts[a]].rate.rpm = LimitsOf(cfg, a)["requestsPerMinute"]
    BY <1>0, <1>2, <2>1 DEF FitsLimits, TypeOK, State
  <2>3. heap'[accounts[a]].rate.tokens =
           AtMost(heap[accounts[a]].rate.tokens + heap[accounts[a]].rate.rpm,
                  heap[accounts[a]].rate.burst * Minute)
    BY <1>0, <1>2, <2>2, TickRate
  <2>4. heap[accounts[a]].rate.burst * Minute \in Int
    BY <2>2, LimiterAssumption DEF Bucket
  <2>5. QED
    BY <1>0, <2>1, <2>2, <2>3, <2>4 DEF AtMost
<1>3. QED
  BY <1>1, <1>2

\* An admission takes a token.
LEMMA AdmitPays ==
    ASSUME IInv, LimitsApplied, NEW q \in Requests, NEW a \in Accounts, Admit(q, a),
           LimitsOf(cfg, a)["requestsPerMinute"] > 0
    PROVE  cfg' = cfg /\ (StateOf(a).rate.tokens)' = StateOf(a).rate.tokens - Minute
<1>1. PICK r \in Entry(a) : Store(a, r, Counted(StateOf(a))) /\ cfg' = cfg
  BY DEF Admit
<1>2. r \in Refs /\ r # None
  BY EntryTyped DEF IInv
<1>3. /\ StateOf(a).rate \in Bucket /\ StateOf(a).rate.rpm # 0
  BY BucketFits DEF IInv, FitsLimits, Fields
<1>4. accounts'[a] = r /\ heap'[r].rate = Charge(StateOf(a).rate)
  BY <1>1, <1>2 DEF Store, IInv, TypeOK, Counted
<1>5. (StateOf(a).rate.tokens)' = heap'[r].rate.tokens
  BY <1>2, <1>4 DEF StateOf
<1>6. Charge(StateOf(a).rate).tokens = StateOf(a).rate.tokens - Minute
  BY <1>3 DEF Charge, Bucket
<1>7. QED
  BY <1>1, <1>4, <1>5, <1>6

\* Nothing else brings tokens to an account whose limits stay and whose entry is
\* not dropped.
LEMMA NoOtherGain ==
    ASSUME IInv, LimitsApplied, [Next]_vars, NEW a \in Accounts,
           ~Tick, ~\E q \in Requests : Admit(q, a),
           cfg' = cfg, accounts[a] # None => accounts'[a] # None,
           LimitsOf(cfg, a)["requestsPerMinute"] > 0
    PROVE  (StateOf(a).rate.tokens)' <= StateOf(a).rate.tokens
<1> DEFINE Goal == (StateOf(a).rate.tokens)' <= StateOf(a).rate.tokens
<1>0. /\ TypeOK /\ PermitsTracked
      /\ accounts[a] # None => accounts[a] \in Refs
      /\ \A r \in Refs : heap[r] \in State /\ heap[r].rate \in Bucket
      /\ StateOf(a).rate.tokens \in Int
      /\ FitsLimits(StateOf(a).rate, LimitsOf(cfg, a))
      /\ LimitsOf(cfg, a) \in [Fields -> Nat]
  BY BucketFits DEF IInv, TypeOK, State, Bucket
<1>1. ASSUME accounts'[a] = accounts[a],
             accounts[a] # None => heap'[accounts[a]].rate = heap[accounts[a]].rate
      PROVE  Goal
  BY <1>0, <1>1, SameBucket
<1>2. ASSUME NEW c \in Configs \cup {None}, NEW al \in Allowlists, Update(c, al)
      PROVE  Goal
  <2>1. CASE accounts[a] = None
    BY <1>1, <1>2, <2>1 DEF Update
  <2>2. CASE accounts[a] # None
    <3> DEFINE r == accounts[a]
    <3>1. ~Dropped(al, a) /\ accounts'[a] = r /\ r # None /\ r \in Refs /\ c = cfg
      BY <1>0, <1>2, <2>2 DEF Update
    <3>2. (CHOOSE x \in Accounts : accounts[x] = r) = a
      <4>1. \A x \in Accounts : accounts[x] = r => x = a
        BY <1>0, <3>1 DEF PermitsTracked
      <4>2. QED
        BY <4>1
    <3>3. heap'[r] = [heap[r] EXCEPT !.rate = ApplyRate(LimitsOf(cfg, a), heap[r].rate)]
      BY <1>2, <3>1, <3>2 DEF Update
    <3>4. heap'[r].rate = ApplyRate(LimitsOf(cfg, a), heap[r].rate)
      BY <1>0, <3>1, <3>3 DEF State
    <3> HIDE DEF r
    <3>5. StateOf(a).rate = heap[r].rate /\ (StateOf(a).rate)' = heap'[r].rate
      BY <3>1 DEF StateOf, r
    <3>6. /\ LimitsOf(cfg, a)["burst"] * Minute \in Int
          /\ LimitsOf(cfg, a)["requestsPerMinute"] # 0
      BY <1>0, LimiterAssumption DEF Fields
    <3>7. QED
      BY <1>0, <3>4, <3>5, <3>6 DEF ApplyRate, FitsLimits, AtMost
  <2>3. QED
    BY <2>1, <2>2
<1>3. ASSUME NEW q \in Requests, NEW b \in Accounts, Rejected(q, b) PROVE Goal
  BY <1>0, <1>1, <1>3, RejectedEffect
<1>4. ASSUME NEW q \in Requests, NEW b \in Accounts, Admit(q, b) PROVE Goal
  <2>1. PICK r \in Entry(b) : Store(b, r, Counted(StateOf(b)))
    BY <1>4 DEF Admit
  <2>2. r \in Refs /\ r # None /\ a # b
    BY <1>0, <1>4, EntryTyped
  <2>3. accounts'[a] = accounts[a]
    BY <1>0, <2>1, <2>2 DEF Store, TypeOK
  <2>4. ASSUME accounts[a] # None PROVE heap'[accounts[a]] = heap[accounts[a]]
    <3>1. accounts[a] # r
      <4>1. CASE accounts[b] = None
        BY <1>0, <4>1, EntryTyped
      <4>2. CASE accounts[b] # None
        BY <1>0, <2>2, <2>4, <4>2, EntryTyped DEF PermitsTracked
      <4>3. QED
        BY <4>1, <4>2
    <3>2. QED
      BY <1>0, <2>1, <2>4, <3>1 DEF Store, TypeOK
  <2>5. QED
    BY <1>1, <2>3, <2>4
<1>5. ASSUME NEW q \in Requests, Release(q) PROVE Goal
  <2>1. accounts'[a] = accounts[a]
    BY <1>0, <1>5 DEF Release, TypeOK
  <2>2. \A s \in Refs : heap'[s].rate = heap[s].rate
    <3>1. PICK n : heap' = [heap EXCEPT ![permits[q].ref].inflight = n]
      BY <1>5 DEF Release
    <3>2. QED
      BY <1>0, <3>1 DEF TypeOK, State
  <2>3. QED
    BY <1>0, <1>1, <2>1, <2>2
<1>6. CASE UNCHANGED vars
  BY <1>1, <1>6 DEF vars
<1>7. QED
  BY <1>2, <1>3, <1>4, <1>5, <1>6 DEF Next, Rejected

\* A step of the window keeps the account.
LEMMA PaidStep ==
    ASSUME IInv, NoDebt, LimitsApplied, NEW a \in Accounts,
           NEW n \in Nat, NEW t \in Nat, NEW n1, NEW t1,
           Paid(LimitsOf(cfg, a), StateOf(a).rate, n, t), WindowStep(a, n, n1, t, t1)
    PROVE  n1 \in Nat /\ t1 \in Nat /\ Paid((LimitsOf(cfg, a))', (StateOf(a).rate)', n1, t1)
<1> DEFINE l == LimitsOf(cfg, a)
           l1 == (LimitsOf(cfg, a))'
           b == StateOf(a).rate
           b1 == (StateOf(a).rate)'
<1>0. [Next]_vars
  BY DEF WindowStep, Next
<1>1. /\ FitsLimits(b, l) /\ b \in Bucket /\ l \in [Fields -> Nat]
      /\ FitsLimits(b1, l1) /\ b1 \in Bucket /\ l1 \in [Fields -> Nat]
  BY <1>0, BucketFits, BucketFitsNext DEF IInv, FitsLimits
<1>2. cfg' = cfg => l1 = l
  BY DEF LimitsOf
<1>3. Tick => cfg' = cfg
  BY DEF Tick
<1>4. l["requestsPerMinute"] > 0 => (Tick => b1.tokens <= b.tokens + l["requestsPerMinute"])
  BY TickGain
<1>5. l["requestsPerMinute"] > 0 =>
        \A q \in Requests : Admit(q, a) => cfg' = cfg /\ b1.tokens = b.tokens - Minute
  BY AdmitPays
<1>6. ASSUME ~Tick, ~\E q \in Requests : Admit(q, a), cfg' = cfg,
             accounts[a] # None => accounts'[a] # None, l["requestsPerMinute"] > 0
      PROVE  b1.tokens <= b.tokens
  BY <1>0, <1>6, NoOtherGain
<1>7. \A q \in Requests : Admit(q, a) => cfg' = cfg
  BY DEF Admit
<1> HIDE DEF l, l1, b, b1
<1>8. /\ l["requestsPerMinute"] \in Nat /\ l["burst"] \in Nat /\ b.tokens \in Int
      /\ l1["requestsPerMinute"] \in Nat /\ l1["burst"] \in Nat /\ b1.tokens \in Int
      /\ Minute \in Nat
  BY <1>1, LimiterAssumption DEF Fields, Bucket
<1>9. l["burst"] * Minute \in Nat /\ l1["burst"] * Minute \in Nat
  BY <1>8
<1>10. Paid(l, b, n, t)
  BY DEF l, b
<1>11. CASE n1 = 0 /\ t1 = 0
  <2>1. 0 * Minute = 0 /\ l1["requestsPerMinute"] * 0 = 0
    BY <1>8
  <2>2. l1["requestsPerMinute"] > 0 => b1.tokens <= l1["burst"] * Minute
    BY <1>1, <1>8 DEF FitsLimits
  <2>3. Paid(l1, b1, 0, 0)
    BY <1>8, <1>9, <2>1, <2>2 DEF Paid
  <2>4. QED
    BY <1>11, <2>3 DEF l1, b1
<1>12. CASE Tick /\ n1 = n /\ t1 = t + 1
  <2>1. /\ n * Minute \in Nat /\ l["requestsPerMinute"] * t \in Nat
        /\ l["requestsPerMinute"] * (t + 1) =
             l["requestsPerMinute"] * t + l["requestsPerMinute"]
    BY <1>8, OneMore
  <2>2. Paid(l, b1, n, t + 1)
    BY <1>4, <1>8, <1>9, <1>10, <1>12, <2>1 DEF Paid
  <2>3. QED
    BY <1>2, <1>3, <1>12, <2>2 DEF l1, b1
<1>13. CASE \E q \in Requests : Admit(q, a) /\ n1 = n + 1 /\ t1 = t
  <2>1. /\ n * Minute \in Nat /\ l["requestsPerMinute"] * t \in Nat
        /\ (n + 1) * Minute = n * Minute + Minute
    BY <1>8, OneMore
  <2>2. l["requestsPerMinute"] > 0 => b1.tokens = b.tokens - Minute
    BY <1>5, <1>13
  <2>3. Paid(l, b1, n + 1, t)
    BY <1>8, <1>9, <1>10, <2>1, <2>2 DEF Paid
  <2>4. QED
    BY <1>2, <1>7, <1>13, <2>3 DEF l1, b1
<1>14. CASE /\ [Next]_vars /\ ~Tick /\ ~\E q \in Requests : Admit(q, a)
            /\ cfg' = cfg /\ (accounts[a] # None => accounts'[a] # None)
            /\ n1 = n /\ t1 = t
  <2>1. n * Minute \in Nat /\ l["requestsPerMinute"] * t \in Nat
    BY <1>8, OneMore
  <2>2. l["requestsPerMinute"] > 0 => b1.tokens <= b.tokens
    BY <1>6, <1>14
  <2>3. Paid(l, b1, n, t)
    BY <1>8, <1>9, <1>10, <2>1, <2>2 DEF Paid
  <2>4. QED
    BY <1>2, <1>14, <2>3 DEF l1, b1
<1>15. QED
  BY <1>11, <1>12, <1>13, <1>14 DEF WindowStep

\* The rate limit bounds a rate: in a window of time in which the limits of an
\* account stay and its entry is not dropped, no more of its requests are admitted
\* than the burst and what the elapsed time earns, however they come, with
\* whatever reloads, rejections and other accounts' requests in between.
THEOREM RateBounded ==
    ASSUME NEW a \in Accounts, NEW VARIABLE admitted, NEW VARIABLE passed
    PROVE  Init /\ admitted = 0 /\ passed = 0
           /\ [][WindowStep(a, admitted, admitted', passed, passed')
                ]_<<vars, admitted, passed>>
           => [](LET l == LimitsOf(cfg, a)
                 IN  l["requestsPerMinute"] > 0 =>
                        admitted * Minute <= l["burst"] * Minute
                                             + l["requestsPerMinute"] * passed)
<1> DEFINE Inv == /\ IInv /\ NoDebt /\ LimitsApplied /\ admitted \in Nat /\ passed \in Nat
                  /\ Paid(LimitsOf(cfg, a), StateOf(a).rate, admitted, passed)
           Rate == LET l == LimitsOf(cfg, a)
                   IN  l["requestsPerMinute"] > 0 =>
                          admitted * Minute <= l["burst"] * Minute
                                               + l["requestsPerMinute"] * passed
           w == <<vars, admitted, passed>>
<1>1. Init /\ admitted = 0 /\ passed = 0 => Inv
  <2> SUFFICES ASSUME Init, admitted = 0, passed = 0 PROVE Inv
    OBVIOUS
  <2>1. IInv /\ NoDebt /\ LimitsApplied
    BY InitSound DEF Sound, Init, LimitsApplied
  <2>2. LimitsOf(cfg, a)["requestsPerMinute"] = 0
    BY DEF Init, LimitsOf, Unlimited, Fields
  <2>3. QED
    BY <2>1, <2>2 DEF Paid
<1>2. Inv /\ [WindowStep(a, admitted, admitted', passed, passed')]_w => Inv'
  <2> SUFFICES ASSUME Inv, [WindowStep(a, admitted, admitted', passed, passed')]_w
               PROVE  Inv'
    OBVIOUS
  <2>1. CASE WindowStep(a, admitted, admitted', passed, passed')
    <3>1. /\ admitted' \in Nat /\ passed' \in Nat
          /\ Paid((LimitsOf(cfg, a))', (StateOf(a).rate)', admitted', passed')
      BY <2>1, PaidStep
    <3>2. [Next]_vars
      BY <2>1 DEF WindowStep, Next
    <3>3. IInv' /\ NoDebt' /\ LimitsApplied'
      BY <3>2, NextIInv, NoDebtStep, LimitsAppliedStep
    <3>4. QED
      BY <3>1, <3>3 DEF Paid
  <2>2. CASE UNCHANGED w
    BY <2>2, NextIInv, NoDebtStep, LimitsAppliedStep
       DEF vars, StateOf, Fresh, LimitsOf, For, ApplyRate, Paid
  <2>3. QED
    BY <2>1, <2>2
<1>3. Inv => Rate
  <2> SUFFICES ASSUME Inv, LimitsOf(cfg, a)["requestsPerMinute"] > 0 PROVE Rate
    OBVIOUS
  <2>1. /\ LimitsOf(cfg, a)["requestsPerMinute"] \in Nat
        /\ LimitsOf(cfg, a)["burst"] \in Nat /\ Minute \in Nat
        /\ StateOf(a).rate.tokens \in Int
    BY BucketFits, LimiterAssumption DEF IInv, Fields, Bucket
  <2>2. /\ admitted * Minute \in Nat /\ LimitsOf(cfg, a)["burst"] * Minute \in Nat
        /\ LimitsOf(cfg, a)["requestsPerMinute"] * passed \in Nat
    BY <2>1, OneMore
  <2>3. StateOf(a).rate.tokens >= 0
    <3>1. CASE accounts[a] # None
      BY <3>1 DEF StateOf, NoDebt, IInv, TypeOK
    <3>2. CASE accounts[a] = None
      <4>1. StateOf(a).rate = ApplyRate(LimitsOf(cfg, a), NoBucket)
        BY <3>2 DEF StateOf, Fresh
      <4>2. LimitsOf(cfg, a) \in [Fields -> Nat] /\ NoBucket \in Bucket /\ NoBucket.tokens >= 0
        BY BucketFits DEF IInv, NoBucket, Bucket
      <4>3. QED
        BY <4>1, <4>2, ApplyRateNoDebt
    <3>3. QED
      BY <3>1, <3>2
  <2>4. QED
    BY <2>1, <2>2, <2>3 DEF Paid
<1>4. QED
  BY <1>1, <1>2, <1>3, PTL
================================================================================
