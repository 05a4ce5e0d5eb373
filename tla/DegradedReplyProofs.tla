-------------------------- MODULE DegradedReplyProofs --------------------------
(***************************************************************************)
(* Proofs about DegradedReply: whatever an engine's reply loses, and in    *)
(* whatever order, the drivers' verdict functions answer with a status, do *)
(* not turn another verdict into clean, and keep to the malware a result   *)
(* names.                                                                  *)
(***************************************************************************)
EXTENDS DegradedReply, TLAPS

LEMMA CountType ==
    ASSUME NEW a \in {0, 1}, NEW b \in {0, 1}, NEW c \in {0, 1}, NEW d \in {0, 1}
    PROVE  Count(a, b, c, d) \in [Counters -> {Missing, 0, 1}]
<1>1. \A n \in Counters : Count(a, b, c, d)[n] \in {Missing, 0, 1}
  BY DEF Count, Counters
<1>2. QED
  BY <1>1 DEF Count

LEMMA ResultType ==
    ASSUME NEW e \in TrendExits, NEW n \in BOOLEAN,
           NEW c \in [Counters -> {Missing, 0, 1}]
    PROVE  Result(e, n, c) \in TrendReply
BY DEF Result, TrendReply

\* Both functions answer with a status, and clean has one case each.
LEMMA ClamStatus ==
    ASSUME NEW r
    PROVE  /\ ClamVerdict(r) \in {"clean", "infected", "error"}
           /\ ClamVerdict(r) = "clean" <=> ~r.found /\ r.exit = 0
<1>1. CASE r.found \/ r.exit = 1
  BY <1>1 DEF ClamVerdict
<1>2. CASE ~r.found /\ r.exit = 0
  BY <1>2 DEF ClamVerdict
<1>3. CASE ~r.found /\ r.exit # 0 /\ r.exit # 1
  BY <1>3 DEF ClamVerdict
<1>4. QED
  BY <1>1, <1>2, <1>3

LEMMA TrendStatus ==
    ASSUME NEW r
    PROVE  /\ TrendVerdict(r) \in {"clean", "infected", "error"}
           /\ TrendVerdict(r) = "clean" <=> r.json /\ ~MalwareSeen(r) /\ FinishedClean(r)
           /\ r.json /\ r.names => TrendVerdict(r) = "infected"
<1>1. CASE ~r.json
  BY <1>1 DEF TrendVerdict
<1>2. CASE r.json /\ MalwareSeen(r)
  BY <1>2 DEF TrendVerdict
<1>3. CASE r.json /\ ~MalwareSeen(r) /\ FinishedClean(r)
  BY <1>3 DEF TrendVerdict, MalwareSeen
<1>4. CASE r.json /\ ~MalwareSeen(r) /\ ~FinishedClean(r)
  BY <1>4 DEF TrendVerdict, MalwareSeen
<1>5. QED
  BY <1>1, <1>2, <1>3, <1>4

\* The inductive invariant: the replies are replies, and one with exit code 0
\* counts, names and prints no malware.  Whole replies are so, and no loss puts an exit
\* code of 0 where there was another, or a counter or a name where there was none.
Quiet(r) == r.exit = 0 => r.count["infected"] # 1 /\ ~r.names

Replies ==
    /\ clam \in ClamReply /\ (clam.exit = 0 => ~clam.found)
    /\ trend \in TrendReply /\ Quiet(trend)

LEMMA WholeReply ==
    ASSUME NEW e \in TrendExits, NEW n \in BOOLEAN,
           NEW a \in {0, 1}, NEW b \in {0, 1}, NEW c \in {0, 1}, NEW d \in {0, 1},
           trend = Result(e, n, Count(a, b, c, d))
    PROVE  /\ trend \in TrendReply
           /\ trend.exit = e /\ trend.names = n /\ trend.count["infected"] = c
<1>1. trend \in TrendReply
  BY CountType, ResultType
<1>2. trend.exit = e /\ trend.names = n /\ trend.count = Count(a, b, c, d)
  BY DEF Result
<1>3. Count(a, b, c, d)["infected"] = c
  BY DEF Count, Counters
<1>4. QED
  BY <1>1, <1>2, <1>3

LEMMA InitReplies == Init => Replies
<1> SUFFICES ASSUME Init PROVE Replies
  OBVIOUS
<1> USE DEF TrendExits
<1>1. clam \in ClamReply /\ (clam.exit = 0 => ~clam.found)
  <2>1. CASE clam = [exit |-> 0, found |-> FALSE]
    BY <2>1 DEF ClamReply, ClamExits
  <2>2. CASE clam = [exit |-> 1, found |-> TRUE]
    BY <2>2 DEF ClamReply, ClamExits
  <2>3. CASE clam = [exit |-> 2, found |-> FALSE]
    BY <2>3 DEF ClamReply, ClamExits
  <2>4. QED
    BY <2>1, <2>2, <2>3, Zenon DEF Init, ClamWhole
<1>2. \A e \in {0, 1, 2, 3, 253} \cup Refusals : e \in TrendExits
  OBVIOUS
<1>3. 1 # 0 /\ 2 # 0 /\ 3 # 0 /\ \A e \in {253} \cup Refusals : e # 0
  BY DEF Refusals
<1> HIDE DEF TrendExits
<1>4. ASSUME NEW e \in TrendExits, e # 0, NEW n \in BOOLEAN,
             NEW a \in {0, 1}, NEW b \in {0, 1}, NEW c \in {0, 1}, NEW d \in {0, 1},
             trend = Result(e, n, Count(a, b, c, d))
      PROVE  Replies
  <2>1. trend \in TrendReply /\ trend.exit = e
    BY <1>4, WholeReply, Zenon
  <2>2. QED
    BY <1>1, <1>4, <2>1 DEF Replies, Quiet
<1>5. ASSUME NEW a \in {0, 1}, NEW d \in {0, 1}, trend = Result(0, FALSE, Count(a, 0, 0, d))
      PROVE  Replies
  <2>1. 0 \in TrendExits /\ 0 \in {0, 1}
    BY <1>2
  <2>2. FALSE \in BOOLEAN
    OBVIOUS
  <2>3. trend \in TrendReply /\ trend.names = FALSE /\ trend.count["infected"] = 0
    BY <1>5, <2>1, <2>2, WholeReply, Zenon
  <2>4. QED
    BY <1>1, <2>3 DEF Replies, Quiet
<1>6. CASE trend = Result(0, FALSE, Count(1, 0, 0, 0))
  BY <1>5, <1>6, Zenon
<1>7. CASE trend = Result(1, TRUE, Count(1, 0, 1, 0))
  BY <1>2, <1>3, <1>4, <1>7, Zenon
<1>8. CASE trend = Result(3, TRUE, Count(1, 1, 1, 0))
  BY <1>2, <1>3, <1>4, <1>8, Zenon
<1>9. CASE trend = Result(2, FALSE, Count(0, 1, 0, 0))
  BY <1>2, <1>3, <1>4, <1>9, Zenon
<1>10. CASE trend = Result(0, FALSE, Count(0, 0, 0, 0))
  BY <1>5, <1>10, Zenon
<1>11. CASE trend = Result(0, FALSE, Count(1, 0, 0, 1))
  BY <1>5, <1>11, Zenon
<1>12. CASE \E e \in {253} \cup Refusals : trend = Result(e, FALSE, Count(0, 0, 0, 0))
  <2>1. PICK e \in {253} \cup Refusals : trend = Result(e, FALSE, Count(0, 0, 0, 0))
    BY <1>12
  <2>2. e \in TrendExits /\ e # 0
    BY <1>2, <1>3
  <2>3. FALSE \in BOOLEAN /\ 0 \in {0, 1}
    OBVIOUS
  <2>4. QED
    BY <1>4, <2>1, <2>2, <2>3, Zenon
<1>13. trend \in TrendWhole
  BY DEF Init
<1>14. \/ trend = Result(0, FALSE, Count(1, 0, 0, 0))
       \/ trend = Result(1, TRUE, Count(1, 0, 1, 0))
       \/ trend = Result(3, TRUE, Count(1, 1, 1, 0))
       \/ trend = Result(2, FALSE, Count(0, 1, 0, 0))
       \/ trend = Result(0, FALSE, Count(0, 0, 0, 0))
       \/ trend = Result(0, FALSE, Count(1, 0, 0, 1))
       \/ \E e \in {253} \cup Refusals : trend = Result(e, FALSE, Count(0, 0, 0, 0))
  BY <1>13 DEF TrendWhole
<1>15. QED
  BY <1>6, <1>7, <1>8, <1>9, <1>10, <1>11, <1>12, <1>14

LEMMA NextReplies == Replies /\ [Next]_vars => Replies'
<1> SUFFICES ASSUME Replies, [Next]_vars PROVE Replies'
  OBVIOUS
<1> USE DEF Replies, Quiet
<1>1. CASE ClamOutputLost
  BY <1>1 DEF ClamOutputLost, ClamReply
<1>2. CASE ClamFails
  BY <1>2 DEF ClamFails, ClamReply, ClamExits
<1>3. CASE CounterLost
  BY <1>3, MissingAssumption DEF CounterLost, TrendReply, Counters
<1>4. CASE InfectedMiscounted
  BY <1>4 DEF InfectedMiscounted, TrendReply, Counters
<1>5. CASE NamesLost
  BY <1>5 DEF NamesLost, TrendReply
<1>6. CASE JsonCut
  BY <1>6 DEF JsonCut, TrendReply
<1>7. CASE TrendFails
  BY <1>7 DEF TrendFails, TrendReply, TrendExits, Refusals
<1>8. CASE UNCHANGED vars
  BY <1>8 DEF vars
<1>9. QED
  BY <1>1, <1>2, <1>3, <1>4, <1>5, <1>6, <1>7, <1>8 DEF Next

LEMMA Invariance == Spec => []Replies
BY InitReplies, NextReplies, PTL DEF Spec

\* Every reply, however poor, gets one of the three statuses.
THEOREM TypeCorrect == Spec => []TypeOK
<1>1. Replies => TypeOK
  BY ClamStatus, TrendStatus DEF Replies, TypeOK
<1>2. QED
  BY <1>1, Invariance, PTL

\* A reply that reads as clean after a step read as clean before: what is lost
\* is an exit code of 0, or a counter that has to be there, or it was evidence
\* that a reply with exit code 0 does not have.
LEMMA ClamClears ==
    ASSUME Replies, [Next]_vars, ClamVerdict(clam') = "clean"
    PROVE  ClamVerdict(clam) = "clean"
<1>1. ~clam'.found /\ clam'.exit = 0
  BY ClamStatus
<1>2. ~clam.found /\ clam.exit = 0
  <2>1. CASE ClamOutputLost
    BY <2>1, <1>1 DEF ClamOutputLost, Replies, ClamReply
  <2>2. CASE ClamFails
    BY <2>2, <1>1 DEF ClamFails, Replies, ClamReply
  <2>3. CASE UNCHANGED clam
    BY <2>3, <1>1
  <2>4. QED
    BY <2>1, <2>2, <2>3
    DEF Next, CounterLost, InfectedMiscounted, NamesLost, JsonCut, TrendFails, vars
<1>3. QED
  BY <1>2, ClamStatus

LEMMA TrendClears ==
    ASSUME Replies, [Next]_vars, TrendVerdict(trend') = "clean"
    PROVE  TrendVerdict(trend) = "clean"
<1>1. trend'.json /\ ~MalwareSeen(trend') /\ FinishedClean(trend')
  BY TrendStatus
<1>2. trend'.exit = 0 /\ \A c \in Counters : trend'.count[c] # Missing
  BY <1>1 DEF FinishedClean
<1>3. trend' = trend
  <2> USE <1>2 DEF Replies, TrendReply
  <2>1. CASE CounterLost
    <3>1. PICK c \in Counters : trend' = [trend EXCEPT !.count[c] = Missing]
      BY <2>1 DEF CounterLost
    <3>2. trend'.count[c] = Missing
      BY <3>1
    <3>3. QED
      BY <3>2
  <2>2. CASE InfectedMiscounted
    BY <2>2 DEF InfectedMiscounted, Quiet
  <2>3. CASE NamesLost
    BY <2>3 DEF NamesLost, Quiet
  <2>4. CASE JsonCut
    BY <2>4, <1>1 DEF JsonCut
  <2>5. CASE TrendFails
    BY <2>5 DEF TrendFails, Refusals
  <2>6. CASE UNCHANGED trend
    BY <2>6
  <2>7. QED
    BY <2>1, <2>2, <2>3, <2>4, <2>5, <2>6 DEF Next, ClamOutputLost, ClamFails, vars
<1>4. QED
  BY <1>3

\* No loss, in any order and number, turns another verdict of either driver into
\* clean: the drivers fail closed.
THEOREM FailClosed == Spec => LossNeverClears
<1>1. Replies /\ [Next]_vars
        => [/\ ClamVerdict(clam) # "clean" => ClamVerdict(clam)' # "clean"
            /\ TrendVerdict(trend) # "clean" => TrendVerdict(trend)' # "clean"]_vars
  BY ClamClears, TrendClears
<1>2. QED
  BY <1>1, Invariance, PTL DEF Spec, LossNeverClears

\* A result that parses and names an infected file is a detection, whatever the
\* counters and the exit code say before and after.
THEOREM NamesDecide == Spec => NamedMalwareStaysInfected
<1>1. [Next]_vars
        => [(trend.json /\ trend.names /\ trend'.json /\ trend'.names)
              => TrendVerdict(trend)' = "infected"]_vars
  BY TrendStatus
<1>2. QED
  BY <1>1, PTL DEF Spec, NamedMalwareStaysInfected
================================================================================
