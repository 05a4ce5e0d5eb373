---------------------------- MODULE AuthProxyProofs ----------------------------
(***************************************************************************)
(* Proofs about AuthProxy, for any refresh interval, token lifetime,       *)
(* rotation margin and number of failures that is tolerated.               *)
(***************************************************************************)
EXTENDS AuthProxy, TLAPS

\* What the copy may have lost since it was read, beside the failed intervals.
Spent == IF tickReady \/ data # None THEN Interval ELSE Interval - untilTick

\* While a tick is being dealt with the ticker is at its start, and the copy is
\* no older than the intervals that have failed and the one that is running.
CopyIsRecent ==
    /\ tickReady => data = None
    /\ tickReady \/ data # None => untilTick = Interval
    /\ token >= Margin - Interval * failures - Spent

IInv == ProxyTypeOK /\ CopyIsRecent

LEMMA Times ==
    ASSUME NEW i \in Nat, NEW m \in Nat, NEW n \in Nat, m <= n
    PROVE  i * m \in Nat /\ i * (m + 1) = i * m + i /\ i * m <= i * n
<1>1. PICK k \in Nat : n = m + k
  <2>1. n - m \in Nat /\ n = m + (n - m)
    OBVIOUS
  <2>2. QED
    BY <2>1
<1>2. i * n = i * m + i * k /\ i * k \in Nat /\ i * m \in Nat
  BY <1>1
<1>3. i * (m + 1) = i * m + i
  OBVIOUS
<1>4. QED
  BY <1>2, <1>3

LEMMA InitIInv == ProxyInit => IInv
<1> SUFFICES ASSUME ProxyInit PROVE IInv
  OBVIOUS
<1>1. ProxyTypeOK
  <2>1. tickReady \in BOOLEAN /\ data \in Margin..Validity \cup {None}
    BY DEF ProxyInit
  <2>2. /\ inFile \in Margin..Validity /\ token \in 0..Validity
        /\ untilTick \in 1..Interval /\ failures \in 0..MaxFailures
    BY ProxyAssumption DEF ProxyInit
  <2>3. QED
    BY <2>1, <2>2 DEF ProxyTypeOK
<1>2. Interval * failures = 0
  BY ProxyAssumption DEF ProxyInit
<1>3. CopyIsRecent
  BY ProxyAssumption, <1>2 DEF ProxyInit, CopyIsRecent, Spent
<1>4. QED
  BY <1>1, <1>3 DEF IInv

LEMMA NextIInv == IInv /\ [ProxyNext]_proxyVars => IInv'
<1> SUFFICES ASSUME ProxyTypeOK, CopyIsRecent, [ProxyNext]_proxyVars
             PROVE  ProxyTypeOK' /\ CopyIsRecent'
  BY DEF IInv
<1> USE ProxyAssumption DEF ProxyTypeOK
<1>1. Interval * failures \in Nat /\ Interval * (failures + 1) = Interval * failures + Interval
  BY Times
<1>2. CASE Rotate
  BY <1>2 DEF Rotate, CopyIsRecent, Spent
<1>3. CASE ReadToken
  <2>1. ProxyTypeOK'
    BY <1>3 DEF ReadToken
  <2>2. CopyIsRecent'
    BY <1>3 DEF ReadToken, CopyIsRecent, Spent
  <2>3. QED
    BY <2>1, <2>2
<1>4. CASE ReadFails
  <2>1. ProxyTypeOK'
    BY <1>4 DEF ReadFails
  <2>2. untilTick = Interval /\ Spent = Interval /\ Spent' = 0
    BY <1>4 DEF ReadFails, CopyIsRecent, Spent
  <2>3. Interval * failures' = Interval * failures + Interval
    BY <1>1, <1>4 DEF ReadFails
  <2>4. token' >= Margin - Interval * failures' - Spent'
    BY <1>1, <1>4, <2>2, <2>3 DEF ReadFails, CopyIsRecent
  <2>5. QED
    BY <1>4, <2>1, <2>4 DEF ReadFails, CopyIsRecent
<1>5. CASE StoreToken
  <2>1. ProxyTypeOK'
    BY <1>5 DEF StoreToken
  <2>2. Interval * failures' = 0 /\ Spent' = 0 /\ token' >= Margin
    BY <1>5 DEF StoreToken, CopyIsRecent, Spent
  <2>3. QED
    BY <1>5, <2>1, <2>2 DEF StoreToken, CopyIsRecent
<1>6. CASE ProxyTick
  <2>1. ProxyTypeOK'
    BY <1>6 DEF ProxyTick, Aged
  <2>2. Spent' = Spent + 1
    BY <1>6 DEF ProxyTick, Spent
  <2>3. token' >= token - 1 /\ failures' = failures
    BY <1>6 DEF ProxyTick, Aged
  <2>4. Spent \in Int
    BY DEF Spent
  <2>5. token' >= Margin - Interval * failures' - Spent'
    BY <1>1, <2>2, <2>3, <2>4, <2>1 DEF CopyIsRecent
  <2>6. QED
    BY <1>6, <2>1, <2>5 DEF ProxyTick, CopyIsRecent
<1>7. CASE UNCHANGED proxyVars
  BY <1>7 DEF proxyVars, CopyIsRecent, Spent
<1>8. QED
  BY <1>2, <1>3, <1>4, <1>5, <1>6, <1>7 DEF ProxyNext

LEMMA Invariance == ProxySpec => []IInv
BY InitIInv, NextIInv, PTL DEF ProxySpec

\* The variables have their types, whatever is read and when.
THEOREM TypeCorrect == ProxySpec => []ProxyTypeOK
<1>1. IInv => ProxyTypeOK
  BY DEF IInv
<1>2. QED
  BY <1>1, Invariance, PTL

\* The copy that requests are given has not expired, for any interval, lifetime
\* and number of failed refreshes, if kubelet rotates early enough.
THEOREM Fresh == ProxySpec => []NeverServesExpired
<1>1. IInv => NeverServesExpired
  <2> SUFFICES ASSUME IInv, Margin > Interval * (MaxFailures + 1) PROVE token > 0
    BY DEF NeverServesExpired
  <2> USE ProxyAssumption DEF IInv, ProxyTypeOK
  <2>1. Spent \in Int /\ Spent <= Interval
    BY DEF Spent
  <2>2. /\ Interval * failures \in Nat /\ Interval * failures <= Interval * MaxFailures
        /\ Interval * MaxFailures \in Nat
        /\ Interval * (MaxFailures + 1) = Interval * MaxFailures + Interval
    BY Times
  <2>3. QED
    BY <2>1, <2>2 DEF CopyIsRecent
<1>2. QED
  BY <1>1, Invariance, PTL
================================================================================
