--------------------------- MODULE TokenRefreshProofs ---------------------------
(***************************************************************************)
(* Proofs about TokenRefresh, for any number of VMs, token lifetime,       *)
(* schedule, deadline and number of attempts.                              *)
(***************************************************************************)
EXTENDS TokenRefresh, FiniteSetTheorems, TLAPS

\* A token outlives the periods of the runs that may be missed, one more, and
\* the time of the run that comes.
LongLived == FoundTokens = {Missing} /\ Lifetime > Period * (MaxMissed + 1) + Deadline

\* What a token must outlive beside the time until the next run and that run.
Reserve == Period * (MaxMissed - missed)

Before ==
    ~installed =>
        /\ job.pc = "none" /\ missed = 0 /\ untilRun > 0
        /\ FoundTokens = {Missing} => life = [v \in VMs |-> Missing]

Between ==
    installed /\ job.pc = "none" =>
        \A v \in VMs : life[v] > untilRun + Reserve + Deadline

\* The Job has run for Deadline - left; the VMs it is done with have its token.
During ==
    job.pc # "none" =>
        /\ untilRun = Period - (Deadline - job.left)
        /\ \A v \in VMs : life[v] > Reserve + job.left
        /\ job.pc # "mint" =>
              /\ job.token >= Lifetime - (Deadline - job.left)
              /\ \A v \in VMs :
                    v < job.at \/ (v = job.at /\ job.pc = "wait")
                        => life[v] >= Lifetime - (Deadline - job.left)

IInv == TypeOK /\ Before /\ (LongLived => Between /\ During)

\* The Job's record.
Jobs == [pc : {"none", "mint", "copy", "wait"}, at : VMs, attempt : 1..Attempts,
         token : 0..Lifetime, left : 0..Deadline]

LEMMA Reserves ==
    ASSUME NEW p \in Nat, NEW n \in Nat, NEW m \in 0..n
    PROVE  /\ p * (n - m) \in Nat
           /\ p * (n - (m + 1)) = p * (n - m) - p
           /\ p * (n + 1) = p * n + p
           /\ p * (n - 0) = p * n
<1>1. n - m \in Nat
  OBVIOUS
<1>2. PICK k \in Nat : k = n - m
  BY <1>1
<1>3. p * k \in Nat /\ p * (k - 1) = p * k - p
  OBVIOUS
<1>4. n - (m + 1) = k - 1 /\ n - 0 = n
  BY <1>2
<1>5. p * (n + 1) = p * n + p
  OBVIOUS
<1>6. QED
  BY <1>2, <1>3, <1>4, <1>5

LEMMA NoJobTyped == NoJob \in Jobs
BY RefreshAssumption DEF NoJob, Jobs, VMs

\* A step of the Job gives its record typed fields.
LEMMA JobTyped ==
    ASSUME NEW pc \in {"none", "mint", "copy", "wait"}, NEW at \in VMs,
           NEW attempt \in 1..Attempts, NEW token \in 0..Lifetime, NEW left \in 0..Deadline
    PROVE  [pc |-> pc, at |-> at, attempt |-> attempt, token |-> token, left |-> left] \in Jobs
BY DEF Jobs

LEMMA JobFields ==
    ASSUME job \in Jobs
    PROVE  /\ job.pc \in {"none", "mint", "copy", "wait"} /\ job.at \in VMs
           /\ job.attempt \in 1..Attempts /\ job.token \in 0..Lifetime
           /\ job.left \in 0..Deadline
           /\ job = [pc |-> job.pc, at |-> job.at, attempt |-> job.attempt,
                     token |-> job.token, left |-> job.left]
BY DEF Jobs

--------------------------------------------------------------------------------
(* Types. *)

LEMMA InitTypeOK == Init => TypeOK
<1> SUFFICES ASSUME Init PROVE TypeOK
  OBVIOUS
<1>1. life \in [VMs -> {Missing} \cup 0..Lifetime]
  BY RefreshAssumption DEF Init
<1>2. untilRun \in 0..Period /\ missed \in 0..MaxMissed
  BY RefreshAssumption DEF Init
<1>3. job \in Jobs
  BY NoJobTyped DEF Init
<1>4. installed = FALSE /\ service \in [VMs -> {"up", "restarting", "down"}]
  BY DEF Init
<1>5. QED
  BY <1>1, <1>2, <1>3, <1>4 DEF TypeOK, Jobs

LEMMA LeftBehindTyped ==
    ASSUME service \in [VMs -> {"up", "restarting", "down"}], LeftBehind
    PROVE  service' \in [VMs -> {"up", "restarting", "down"}]
BY DEF LeftBehind

LEMMA TypeOKStep == TypeOK /\ Before /\ [Next]_vars => TypeOK'
<1> SUFFICES ASSUME TypeOK, Before, [Next]_vars PROVE TypeOK'
  OBVIOUS
<1> USE RefreshAssumption
<1>0. /\ life \in [VMs -> {Missing} \cup 0..Lifetime]
      /\ installed => life \in [VMs -> 0..Lifetime]
      /\ service \in [VMs -> {"up", "restarting", "down"}]
      /\ untilRun \in 0..Period /\ missed \in 0..MaxMissed
      /\ job \in Jobs /\ installed \in BOOLEAN
  BY DEF TypeOK, Jobs
<1>1. ASSUME Install PROVE TypeOK'
  <2>1. life' \in [VMs -> 0..Lifetime]
    BY <1>0, <1>1 DEF Install
  <2>2. life' \in [VMs -> {Missing} \cup 0..Lifetime]
    BY <2>1
  <2>3. service' \in [VMs -> {"up", "restarting", "down"}]
    BY <1>1 DEF Install
  <2>4. QED
    BY <1>0, <1>1, <2>1, <2>2, <2>3, Zenon DEF Install, TypeOK, Jobs
<1>2. ASSUME StartRun PROVE TypeOK'
  <2>1. job' = [pc |-> "mint", at |-> 1, attempt |-> 1, token |-> 0, left |-> Deadline]
    BY <1>2 DEF StartRun, NoJob
  <2>4. job' \in Jobs
    BY <2>1, JobTyped DEF VMs
  <2>2. untilRun' \in 0..Period
    BY <1>2 DEF StartRun
  <2>3. QED
    BY <1>0, <1>2, <2>4, <2>2, Zenon DEF StartRun, TypeOK, Jobs
<1>3. ASSUME MissRun PROVE TypeOK'
  <2>1. untilRun' \in 0..Period /\ missed' \in 0..MaxMissed
    BY <1>0, <1>3 DEF MissRun
  <2>2. QED
    BY <1>0, <1>3, <2>1, Zenon DEF MissRun, TypeOK, Jobs
<1>4. ASSUME Mint PROVE TypeOK'
  <2>1. job' = [pc |-> "copy", at |-> 1, attempt |-> job.attempt, token |-> Lifetime,
                left |-> job.left]
    BY <1>0, <1>4, JobFields DEF Mint
  <2>2. job' \in Jobs
    BY <1>0, <2>1, JobFields, JobTyped DEF VMs
  <2>3. QED
    BY <1>0, <1>4, <2>2, Zenon DEF Mint, TypeOK, Jobs
<1>5. ASSUME CopyToken PROVE TypeOK'
  <2>1. job.at \in VMs /\ job.token \in 0..Lifetime
    BY <1>0 DEF Jobs
  <2>2. job' \in Jobs
    BY <1>0, <1>5 DEF CopyToken, Jobs
  <2>3. /\ life' \in [VMs -> {Missing} \cup 0..Lifetime]
        /\ installed => life' \in [VMs -> 0..Lifetime]
        /\ service' \in [VMs -> {"up", "restarting", "down"}]
    BY <1>0, <1>5, <2>1 DEF CopyToken
  <2>4. QED
    BY <1>0, <1>5, <2>2, <2>3, Zenon DEF CopyToken, TypeOK, Jobs
<1>6. ASSUME Ready PROVE TypeOK'
  <2>1. job' \in Jobs
    <3>1. CASE job.at < Size
      <4>1. job' = [pc |-> "copy", at |-> job.at + 1, attempt |-> job.attempt,
                    token |-> job.token, left |-> job.left]
        BY <1>0, <1>6, <3>1, JobFields DEF Ready
      <4>2. job.at + 1 \in VMs
        BY <1>0, <3>1, JobFields DEF VMs
      <4>3. QED
        BY <1>0, <4>1, <4>2, JobFields, JobTyped
    <3>2. CASE ~(job.at < Size)
      BY <1>6, <3>2, NoJobTyped DEF Ready
    <3>3. QED
      BY <3>1, <3>2
  <2>2. missed' \in 0..MaxMissed
    BY <1>0, <1>6 DEF Ready
  <2>3. service' \in [VMs -> {"up", "restarting", "down"}]
    BY <1>0, <1>6 DEF Ready
  <2>4. QED
    BY <1>0, <1>6, <2>1, <2>2, <2>3, Zenon DEF Ready, TypeOK, Jobs
<1>7. ASSUME AttemptFails PROVE TypeOK'
  <2>1. job' = [pc |-> "mint", at |-> 1, attempt |-> job.attempt + 1,
                token |-> job.token, left |-> job.left]
    BY <1>0, <1>7, JobFields DEF AttemptFails
  <2>2. job.attempt + 1 \in 1..Attempts /\ 1 \in VMs
    BY <1>0, <1>7, JobFields DEF AttemptFails, VMs
  <2>3. job' \in Jobs
    BY <1>0, <2>1, <2>2, JobFields, JobTyped
  <2>4. QED
    BY <1>0, <1>7, <2>3, LeftBehindTyped, Zenon DEF AttemptFails, TypeOK, Jobs
<1>8. ASSUME RunFails PROVE TypeOK'
  <2>1. job' \in Jobs
    BY <1>8, NoJobTyped DEF RunFails
  <2>2. missed' \in 0..MaxMissed
    BY <1>0, <1>8 DEF RunFails
  <2>3. QED
    BY <1>0, <1>8, <2>1, <2>2, LeftBehindTyped, Zenon DEF RunFails, TypeOK, Jobs
<1>9. ASSUME NEW v \in VMs, Repair(v) PROVE TypeOK'
  <2>1. service' \in [VMs -> {"up", "restarting", "down"}]
    BY <1>0, <1>9 DEF Repair
  <2>2. QED
    BY <1>0, <1>9, <2>1, Zenon DEF Repair, TypeOK, Jobs
<1>10. ASSUME Tick PROVE TypeOK'
  <2>1. job' \in Jobs
    <3>1. CASE job.pc = "none"
      BY <1>0, <1>10, <3>1 DEF Tick
    <3>2. CASE job.pc # "none"
      <4>1. job' = [pc |-> job.pc, at |-> job.at, attempt |-> job.attempt,
                    token |-> Older(job.token), left |-> job.left - 1]
        BY <1>0, <1>10, <3>2, JobFields DEF Tick
      <4>2. Older(job.token) \in 0..Lifetime /\ job.left - 1 \in 0..Deadline
        BY <1>0, <1>10, <3>2, JobFields DEF Tick, Older
      <4>3. QED
        BY <1>0, <4>1, <4>2, JobFields, JobTyped
    <3>3. QED
      BY <3>1, <3>2
  <2>2. untilRun' \in 0..Period
    BY <1>0, <1>10 DEF Tick
  <2>3. life' \in [VMs -> 0..Lifetime]
    BY <1>0, <1>10 DEF Tick, Older
  <2>4. life' \in [VMs -> {Missing} \cup 0..Lifetime]
    BY <2>3
  <2>5. QED
    BY <1>0, <1>10, <2>1, <2>2, <2>3, <2>4, Zenon DEF Tick, TypeOK, Jobs
<1>11. ASSUME UNCHANGED vars PROVE TypeOK'
  BY <1>0, <1>11, Zenon DEF vars, TypeOK, Jobs
<1>12. QED
  BY <1>1, <1>2, <1>3, <1>4, <1>5, <1>6, <1>7, <1>8, <1>9, <1>10, <1>11 DEF Next

--------------------------------------------------------------------------------
(* Before the installation, and the validity of the tokens after it. *)

LEMMA BeforeStep == TypeOK /\ Before /\ [Next]_vars => Before'
<1> SUFFICES ASSUME TypeOK, Before, [Next]_vars, ~installed' PROVE Before'
  BY DEF Before
<1>1. CASE installed
  <2>1. ~Install /\ ~UNCHANGED vars
    BY <1>1 DEF Install, vars
  <2>2. installed' = installed
    BY <2>1 DEF Next, StartRun, MissRun, Mint, CopyToken, Ready, AttemptFails, RunFails,
                Repair, Tick
  <2>3. QED
    BY <1>1, <2>2
<1>2. CASE ~installed
  <2>1. job.pc = "none"
    BY <1>2 DEF Before
  <2>2. UNCHANGED vars
    BY <1>2, <2>1 DEF Next, Install, StartRun, MissRun, Mint, CopyToken, Ready,
                      AttemptFails, RunFails, Repair, Tick
  <2>3. QED
    BY <2>2 DEF vars, Before
<1>3. QED
  BY <1>1, <1>2

LEMMA InitIInv == Init => IInv
<1> SUFFICES ASSUME Init PROVE IInv
  OBVIOUS
<1>1. job.pc = "none" /\ ~installed
  BY DEF Init, NoJob
<1>2. Before
  <2>1. untilRun > 0 /\ missed = 0
    BY RefreshAssumption DEF Init
  <2>2. FoundTokens = {Missing} => life = [v \in VMs |-> Missing]
    BY DEF Init
  <2>3. QED
    BY <1>1, <2>1, <2>2 DEF Before
<1>3. Between /\ During
  BY <1>1 DEF Between, During
<1>4. QED
  BY <1>2, <1>3, InitTypeOK DEF IInv

LEMMA TokensLast ==
    TypeOK /\ Before /\ Between /\ During /\ LongLived /\ [Next]_vars => Between' /\ During'
<1> SUFFICES ASSUME TypeOK, Before, Between, During, LongLived, [Next]_vars
             PROVE  Between' /\ During'
  OBVIOUS
<1> USE RefreshAssumption
<1>0. /\ installed => \A v \in VMs : life[v] \in 0..Lifetime
      /\ untilRun \in 0..Period /\ missed \in 0..MaxMissed
      /\ job.pc \in {"none", "mint", "copy", "wait"} /\ job.at \in VMs
      /\ job.token \in 0..Lifetime /\ job.left \in 0..Deadline
      /\ job \in Jobs /\ life \in [VMs -> {Missing} \cup 0..Lifetime]
  BY DEF TypeOK, Jobs
<1>01. /\ Reserve \in Nat /\ Period * (MaxMissed - (missed + 1)) = Reserve - Period
       /\ Period * (MaxMissed + 1) = Period * MaxMissed + Period
       /\ Period * (MaxMissed - 0) = Period * MaxMissed
       /\ Period * MaxMissed \in Nat
  <2>1. 0 \in 0..MaxMissed
    OBVIOUS
  <2>2. QED
    BY <1>0, <2>1, Reserves DEF Reserve
<1>02. job.pc # "none" => installed
  BY DEF Before
<1>03. Lifetime > Period * MaxMissed + Period + Deadline /\ Missing \notin Int
  BY <1>01 DEF LongLived
<1>04. missed' = missed => Reserve' = Reserve
  BY DEF Reserve
<1>1. ASSUME Install PROVE Between' /\ During'
  <2>1. job'.pc = "none" /\ missed' = 0 /\ untilRun' = untilRun
    BY <1>1 DEF Install, Before
  <2>2. \A v \in VMs : life'[v] = Lifetime
    BY <1>1 DEF Install, Before, LongLived
  <2>3. Reserve' = Period * MaxMissed
    BY <2>1, <1>01 DEF Reserve
  <2>4. \A v \in VMs : life'[v] > untilRun' + Reserve' + Deadline
    BY <1>0, <1>01, <1>03, <2>1, <2>2, <2>3
  <2>5. QED
    BY <2>1, <2>4 DEF Between, During
<1>2. ASSUME StartRun PROVE Between' /\ During'
  <2>1. job'.pc = "mint" /\ job'.left = Deadline
    BY <1>2 DEF StartRun, NoJob
  <2>2. \A v \in VMs : life[v] > untilRun + Reserve + Deadline
    <3>1. CASE job.pc = "none"
      BY <1>2, <3>1 DEF StartRun, Between
    <3>2. CASE job.pc # "none"
      BY <1>0, <1>2, <3>2 DEF StartRun, During
    <3>3. QED
      BY <3>1, <3>2
  <2>3. \A v \in VMs : life'[v] > Reserve' + job'.left
    BY <1>0, <1>01, <1>04, <1>2, <2>1, <2>2 DEF StartRun
  <2>4. untilRun' = Period - (Deadline - job'.left)
    BY <1>2, <2>1 DEF StartRun
  <2>5. QED
    BY <2>1, <2>3, <2>4 DEF Between, During
<1>3. ASSUME MissRun PROVE Between' /\ During'
  <2>1. job.pc = "none"
    BY <1>0, <1>3 DEF MissRun, During
  <2>2. \A v \in VMs : life[v] > Reserve + Deadline
    BY <1>0, <1>01, <1>3, <2>1 DEF MissRun, Between
  <2>3. Reserve' = Reserve - Period
    BY <1>01, <1>3 DEF MissRun, Reserve
  <2>4. \A v \in VMs : life'[v] > untilRun' + Reserve' + Deadline
    BY <1>0, <1>01, <1>3, <2>2, <2>3 DEF MissRun
  <2>5. QED
    BY <1>3, <2>1, <2>4 DEF MissRun, Between, During
<1>4. ASSUME Mint PROVE Between' /\ During'
  <2>1. job' = [pc |-> "copy", at |-> 1, attempt |-> job.attempt, token |-> Lifetime,
                left |-> job.left]
    BY <1>0, <1>4, JobFields DEF Mint
  <2>2. /\ untilRun' = Period - (Deadline - job'.left)
        /\ \A v \in VMs : life'[v] > Reserve' + job'.left
    BY <1>4, <1>04, <2>1 DEF Mint, During
  <2>3. job'.token >= Lifetime - (Deadline - job'.left)
    BY <1>0, <2>1
  <2>4. \A v \in VMs : ~(v < job'.at) /\ job'.pc = "copy"
    BY <2>1 DEF VMs
  <2>5. QED
    BY <2>2, <2>3, <2>4 DEF Between, During
<1>5. ASSUME CopyToken PROVE Between' /\ During'
  <2>1. job' = [pc |-> "wait", at |-> job.at, attempt |-> job.attempt, token |-> job.token,
                left |-> job.left]
    BY <1>0, <1>5, JobFields DEF CopyToken
  <2>2. /\ untilRun' = Period - (Deadline - job'.left) /\ Reserve' = Reserve
        /\ job'.token >= Lifetime - (Deadline - job'.left)
    BY <1>5, <1>04, <2>1 DEF CopyToken, During
  <2>3. \A v \in VMs : life'[v] = IF v = job.at THEN job.token ELSE life[v]
    BY <1>0, <1>5 DEF CopyToken
  <2>4. Period * MaxMissed >= Reserve
    <3>1. PICK k \in Nat : k = missed /\ MaxMissed - missed \in Nat
      BY <1>0
    <3>2. Period * (MaxMissed - k) = Period * MaxMissed - Period * k /\ Period * k \in Nat
      BY <3>1
    <3>3. QED
      BY <3>1, <3>2, <1>01 DEF Reserve
  <2>5. \A v \in VMs : life'[v] > Reserve' + job'.left
    <3>1. job.token > Reserve + job.left
      BY <1>0, <1>01, <1>03, <2>1, <2>2, <2>4
    <3>2. \A v \in VMs : life[v] > Reserve + job.left
      BY <1>5 DEF CopyToken, During
    <3>3. QED
      BY <2>1, <2>2, <2>3, <3>1, <3>2
  <2>6. \A v \in VMs : v <= job.at => life'[v] >= Lifetime - (Deadline - job'.left)
    <3>1. \A v \in VMs : v < job.at => life[v] >= Lifetime - (Deadline - job.left)
      BY <1>5 DEF CopyToken, During
    <3>2. \A v \in VMs : v <= job.at => v < job.at \/ v = job.at
      BY <1>0 DEF VMs
    <3>3. QED
      BY <2>1, <2>2, <2>3, <3>1, <3>2
  <2>7. \A v \in VMs : v < job.at \/ v = job.at => v <= job.at
    BY <1>0 DEF VMs
  <2>8. QED
    BY <2>1, <2>2, <2>5, <2>6, <2>7 DEF Between, During
<1>6. ASSUME Ready PROVE Between' /\ During'
  <2>0. /\ untilRun = Period - (Deadline - job.left)
        /\ \A v \in VMs : life[v] > Reserve + job.left
        /\ job.token >= Lifetime - (Deadline - job.left)
        /\ \A v \in VMs : v < job.at \/ v = job.at
                            => life[v] >= Lifetime - (Deadline - job.left)
    BY <1>6 DEF Ready, During
  <2>1. CASE job.at < Size
    <3>1. job' = [pc |-> "copy", at |-> job.at + 1, attempt |-> job.attempt,
                  token |-> job.token, left |-> job.left]
      BY <1>0, <1>6, <2>1, JobFields DEF Ready
    <3>2. \A v \in VMs : v < job.at + 1 => v < job.at \/ v = job.at
      BY <1>0 DEF VMs
    <3>3. untilRun' = untilRun /\ life' = life /\ Reserve' = Reserve
      BY <1>6, <1>04, <2>1 DEF Ready
    <3>4. QED
      BY <2>0, <3>1, <3>2, <3>3 DEF Between, During
  <2>2. CASE ~(job.at < Size)
    <3>1. job'.pc = "none" /\ missed' = 0 /\ untilRun' = untilRun /\ life' = life
      BY <1>6, <2>2 DEF Ready, NoJob
    <3>2. Reserve' = Period * MaxMissed
      BY <3>1, <1>01 DEF Reserve
    <3>3. \A v \in VMs : v < job.at \/ v = job.at
      BY <1>0, <2>2 DEF VMs
    <3>4. \A v \in VMs : life'[v] >= Lifetime - (Deadline - job.left)
      BY <2>0, <3>1, <3>3
    <3>5. \A v \in VMs : life[v] \in 0..Lifetime
      BY <1>0, <1>02, <1>6 DEF Ready
    <3>6. \A v \in VMs : life'[v] > untilRun' + Reserve' + Deadline
      BY <1>0, <1>01, <1>03, <2>0, <3>1, <3>2, <3>4, <3>5
    <3>7. QED
      BY <3>1, <3>6 DEF Between, During
  <2>3. QED
    BY <2>1, <2>2
<1>7. ASSUME AttemptFails PROVE Between' /\ During'
  <2>1. job' = [pc |-> "mint", at |-> 1, attempt |-> job.attempt + 1,
                token |-> job.token, left |-> job.left]
    BY <1>0, <1>7, JobFields DEF AttemptFails
  <2>2. /\ untilRun' = Period - (Deadline - job'.left)
        /\ \A v \in VMs : life'[v] > Reserve' + job'.left
    BY <1>7, <1>04, <2>1 DEF AttemptFails, During
  <2>3. QED
    BY <2>1, <2>2 DEF Between, During
<1>8. ASSUME RunFails PROVE Between' /\ During'
  <2>1. job'.pc = "none" /\ untilRun' = untilRun /\ life' = life
    BY <1>8 DEF RunFails, NoJob
  <2>2. Reserve' = Reserve - Period
    BY <1>8, <1>01 DEF RunFails, Reserve
  <2>3. \A v \in VMs : life[v] > Reserve + job.left /\ life[v] \in 0..Lifetime
    BY <1>0, <1>02, <1>8 DEF RunFails, During
  <2>4. untilRun = Period - (Deadline - job.left)
    BY <1>8 DEF RunFails, During
  <2>5. \A v \in VMs : life'[v] > untilRun' + Reserve' + Deadline
    BY <1>0, <1>01, <2>1, <2>2, <2>3, <2>4
  <2>6. QED
    BY <2>1, <2>5 DEF Between, During
<1>9. ASSUME NEW v \in VMs, Repair(v) PROVE Between' /\ During'
  BY <1>9, <1>04 DEF Repair, Between, During
<1>10. ASSUME Tick PROVE Between' /\ During'
  <2>0. \A v \in VMs : life[v] \in 0..Lifetime
    BY <1>0, <1>10 DEF Tick
  <2>1. /\ \A v \in VMs : life'[v] \in Nat /\ life'[v] >= life[v] - 1
        /\ untilRun' = untilRun - 1 /\ Reserve' = Reserve
    BY <1>0, <1>04, <1>10, <2>0 DEF Tick, Older
  <2>2. CASE job.pc = "none"
    <3>1. job' = job /\ installed
      BY <1>10, <2>2 DEF Tick
    <3>2. \A v \in VMs : life'[v] > untilRun' + Reserve' + Deadline
      BY <1>0, <1>01, <2>0, <2>1, <2>2, <3>1 DEF Between
    <3>3. QED
      BY <2>2, <3>1, <3>2 DEF Between, During
  <2>3. CASE job.pc # "none"
    <3>1. job' = [pc |-> job.pc, at |-> job.at, attempt |-> job.attempt,
                  token |-> Older(job.token), left |-> job.left - 1]
      BY <1>0, <1>10, <2>3, JobFields DEF Tick
    <3>2. Older(job.token) \in Nat /\ Older(job.token) >= job.token - 1
      BY <1>0 DEF Older
    <3>3. /\ untilRun' = Period - (Deadline - job'.left)
          /\ \A v \in VMs : life'[v] > Reserve' + job'.left
      <4>1. untilRun = Period - (Deadline - job.left) /\ job'.left = job.left - 1
        BY <2>3, <3>1 DEF During
      <4>2. \A v \in VMs : life[v] > Reserve + job.left
        BY <2>3 DEF During
      <4>3. untilRun' = Period - (Deadline - job'.left)
        BY <1>0, <2>1, <4>1
      <4>4. \A v \in VMs : life'[v] > Reserve' + job'.left
        BY <1>0, <1>01, <2>0, <2>1, <4>1, <4>2
      <4>5. QED
        BY <4>3, <4>4
    <3>4. job'.pc # "mint" => job'.token >= Lifetime - (Deadline - job'.left)
      BY <1>0, <2>3, <3>1, <3>2 DEF During
    <3>5. job'.pc # "mint" =>
            \A v \in VMs : v < job'.at \/ (v = job'.at /\ job'.pc = "wait")
                            => life'[v] >= Lifetime - (Deadline - job'.left)
      BY <1>0, <2>0, <2>1, <2>3, <3>1 DEF During
    <3>6. QED
      BY <2>3, <3>1, <3>3, <3>4, <3>5 DEF Between, During
  <2>4. QED
    BY <2>2, <2>3
<1>11. ASSUME UNCHANGED vars PROVE Between' /\ During'
  BY <1>11, <1>04 DEF vars, Between, During
<1>12. QED
  BY <1>1, <1>2, <1>3, <1>4, <1>5, <1>6, <1>7, <1>8, <1>9, <1>10, <1>11 DEF Next

LEMMA Invariance == Spec => []IInv
<1>1. IInv /\ [Next]_vars => IInv'
  <2> SUFFICES ASSUME IInv, [Next]_vars PROVE IInv'
    OBVIOUS
  <2>1. TypeOK' /\ Before'
    BY TypeOKStep, BeforeStep DEF IInv
  <2>2. LongLived' <=> LongLived
    BY DEF LongLived
  <2>3. LongLived => Between' /\ During'
    BY TokensLast DEF IInv
  <2>4. QED
    BY <2>1, <2>2, <2>3 DEF IInv
<1>2. QED
  BY <1>1, InitIInv, PTL DEF Spec

--------------------------------------------------------------------------------
\* The variables have their types for any inventory and schedule; the Job never
\* goes beyond the last VM.
THEOREM TypeCorrect == Spec => []TypeOK
<1>1. IInv => TypeOK
  BY DEF IInv
<1>2. QED
  BY <1>1, Invariance, PTL

\* No VM's token expires, for any number of VMs and attempts, if a token outlives
\* the periods of the runs that may be missed, one more, and the deadline.
THEOREM NeverExpire == Spec => []TokensValid
<1>1. IInv => TokensValid
  <2> SUFFICES ASSUME IInv, LongLived, installed, NEW v \in VMs PROVE life[v] > 0
    BY DEF TokensValid, LongLived
  <2>1. /\ untilRun \in Nat /\ Reserve \in Nat /\ job.left \in Nat /\ Deadline \in Nat
        /\ life[v] \in Nat
    BY RefreshAssumption, Reserves DEF IInv, TypeOK, Reserve
  <2>2. CASE job.pc = "none"
    BY <2>1, <2>2 DEF IInv, Between
  <2>3. CASE job.pc # "none"
    BY <2>1, <2>3 DEF IInv, During
  <2>4. QED
    BY <2>2, <2>3
<1>2. QED
  BY <1>1, Invariance, PTL

\* The VMs that the Job is done with are up.
DoneAreUp ==
    /\ service \in [VMs -> {"up", "restarting", "down"}]
    /\ job.pc \in {"copy", "wait"} => \A u \in VMs : u < job.at => service[u] = "up"

LEMMA InitDoneAreUp == Init => DoneAreUp
BY DEF Init, DoneAreUp, NoJob

LEMMA DoneAreUpStep == TypeOK /\ DoneAreUp /\ [Next]_vars => DoneAreUp'
<1> SUFFICES ASSUME TypeOK, DoneAreUp, [Next]_vars PROVE DoneAreUp'
  OBVIOUS
<1>1. job \in Jobs
  BY DEF TypeOK, Jobs
<1>2. job.at \in VMs /\ job.pc \in {"none", "mint", "copy", "wait"}
  BY <1>1, JobFields
<1> USE <1>1, <1>2 DEF DoneAreUp, VMs
<1>3. CASE Install
  BY <1>3 DEF Install
<1>4. CASE StartRun
  <2>1. job'.pc = "mint" /\ service' = service
    BY <1>4 DEF StartRun, NoJob
  <2>2. QED
    BY <2>1
<1>5. CASE MissRun
  BY <1>5 DEF MissRun
<1>6. CASE Mint
  <2>1. job'.at = 1 /\ service' = service
    BY <1>6 DEF Mint, Jobs
  <2>2. QED
    BY <2>1
<1>7. CASE CopyToken
  BY <1>7 DEF CopyToken, Jobs
<1>8. CASE Ready
  <2>1. service' = [service EXCEPT ![job.at] = "up"]
    BY <1>8 DEF Ready
  <2>2. \A u \in VMs : u < job.at + 1 => service'[u] = "up"
    <3> SUFFICES ASSUME NEW u \in VMs, u < job.at + 1 PROVE service'[u] = "up"
      OBVIOUS
    <3>1. CASE u = job.at
      BY <2>1, <3>1
    <3>2. CASE u # job.at
      <4>1. u < job.at /\ job.pc = "wait"
        BY <1>8, <3>2, RefreshAssumption DEF Ready
      <4>2. QED
        BY <2>1, <3>2, <4>1
    <3>3. QED
      BY <3>1, <3>2
  <2>3. job'.pc = "none" \/ job'.at = job.at + 1
    <3>1. CASE job.at < Size
      BY <1>8, <3>1 DEF Ready, Jobs
    <3>2. CASE ~(job.at < Size)
      BY <1>8, <3>2 DEF Ready, NoJob
    <3>3. QED
      BY <3>1, <3>2
  <2>4. QED
    BY <2>1, <2>2, <2>3
<1>9. CASE AttemptFails
  BY <1>9 DEF AttemptFails, LeftBehind, Jobs
<1>10. CASE RunFails
  BY <1>10 DEF RunFails, LeftBehind, NoJob
<1>11. ASSUME NEW v \in VMs, Repair(v) PROVE DoneAreUp'
  BY <1>11 DEF Repair
<1>12. CASE Tick
  BY <1>12 DEF Tick, Jobs
<1>13. CASE UNCHANGED vars
  BY <1>13 DEF vars
<1>14. QED
  BY <1>3, <1>4, <1>5, <1>6, <1>7, <1>8, <1>9, <1>10, <1>11, <1>12, <1>13 DEF Next

\* A restart is the start of a VM's turn, and its turn comes only when those
\* before it are up, for any number of VMs, attempts and failures.
LEMMA OnlyInTurn ==
    ASSUME DoneAreUp, [Next]_vars, NEW u \in VMs, NEW v \in VMs, u < v,
           service[v] # "restarting", service'[v] = "restarting"
    PROVE  service[u] = "up"
<1> USE DEF DoneAreUp
<1>1. CASE CopyToken
  BY <1>1 DEF CopyToken
<1>2. CASE Install
  BY <1>2 DEF Install
<1>3. CASE Ready
  BY <1>3 DEF Ready
<1>4. CASE AttemptFails \/ RunFails
  BY <1>4 DEF AttemptFails, RunFails, LeftBehind
<1>5. CASE \E w \in VMs : Repair(w)
  BY <1>5 DEF Repair
<1>6. CASE StartRun \/ MissRun \/ Mint \/ Tick \/ UNCHANGED vars
  BY <1>6 DEF StartRun, MissRun, Mint, Tick, vars
<1>7. QED
  BY <1>1, <1>2, <1>3, <1>4, <1>5, <1>6 DEF Next

\* A VM is restarted only when those before it are up: a failure ends the rollout, for
\* any number of VMs and attempts (token-refresh.yaml, serial: 1).
THEOREM RolloutStops == Spec => FailureStopsRollout
<1>1. DoneAreUp /\ [Next]_vars
        => [\A u, v \in VMs :
              u < v /\ service[v] # "restarting" /\ service'[v] = "restarting"
                 => service[u] = "up"]_vars
  BY OnlyInTurn
<1>2. QED
  BY <1>1, InitDoneAreUp, DoneAreUpStep, TypeCorrect, PTL DEF Spec, FailureStopsRollout

--------------------------------------------------------------------------------
(* One run, whatever the lifetimes. *)

\* The Job's clock and the schedule's.
RunsInPeriod == job.pc # "none" => untilRun = Period - (Deadline - job.left)

\* A service restarts only in its VM's turn.
RestartsInTurn ==
    \A v \in VMs : service[v] = "restarting" => job.pc = "wait" /\ v = job.at

\* The token that was minted, and the VMs that have it, have lost no more time
\* than the run has taken.
RunTokens ==
    job.pc \in {"copy", "wait"} =>
        /\ job.token >= Lifetime - (Deadline - job.left)
        /\ \A v \in VMs :
              v < job.at \/ (v = job.at /\ job.pc = "wait")
                  => life[v] >= Lifetime - (Deadline - job.left)

OneRun == TypeOK /\ Before /\ DoneAreUp /\ RunsInPeriod /\ RestartsInTurn /\ RunTokens

\* The schedule is not due while a Job runs, for it is killed before that.
LEMMA NotDue ==
    ASSUME TypeOK, RunsInPeriod, job.pc # "none"
    PROVE  untilRun > 0 /\ ~StartRun /\ ~MissRun
<1>1. job.left \in 0..Deadline /\ untilRun = Period - (Deadline - job.left)
  BY DEF TypeOK, RunsInPeriod
<1>2. untilRun > 0
  BY <1>1, RefreshAssumption
<1>3. QED
  BY <1>2 DEF StartRun, MissRun

\* A VM is done: the next one, or none is left.
LEMMA ReadyEffect ==
    ASSUME TypeOK, Ready
    PROVE  /\ job.pc = "wait" /\ UNCHANGED <<life, untilRun>>
           /\ service' = [service EXCEPT ![job.at] = "up"]
           /\ \/ job'.pc = "copy" /\ job'.at = job.at + 1 /\ job'.token = job.token
                 /\ job'.left = job.left
              \/ job.at = Size /\ job'.pc = "none"
<1>1. job \in Jobs /\ job.at \in Int /\ job.at <= Size /\ Size \in Int
  BY RefreshAssumption DEF TypeOK, Jobs, VMs
<1>2. CASE job.at < Size
  <2>1. job' = [job EXCEPT !.pc = "copy", !.at = @ + 1]
    BY <1>2 DEF Ready
  <2>2. QED
    BY <1>1, <2>1 DEF Ready, Jobs
<1>3. CASE ~(job.at < Size)
  BY <1>1, <1>3 DEF Ready, NoJob
<1>4. QED
  BY <1>2, <1>3

LEMMA RunsInPeriodStep == TypeOK /\ Before /\ RunsInPeriod /\ [Next]_vars => RunsInPeriod'
<1> SUFFICES ASSUME TypeOK, Before, RunsInPeriod, [Next]_vars, job'.pc # "none"
             PROVE  untilRun' = Period - (Deadline - job'.left)
  BY DEF RunsInPeriod
<1>0. /\ job \in Jobs /\ job.left \in 0..Deadline /\ untilRun \in 0..Period
      /\ job.pc # "none" => untilRun = Period - (Deadline - job.left)
      /\ Period \in Nat /\ Deadline \in Nat
  BY RefreshAssumption DEF TypeOK, Jobs, RunsInPeriod
<1>1. CASE StartRun
  BY <1>0, <1>1 DEF StartRun, NoJob
<1>2. CASE Install
  BY <1>0, <1>2 DEF Install, Before
<1>3. CASE Mint \/ CopyToken \/ AttemptFails
  BY <1>0, <1>3 DEF Mint, CopyToken, AttemptFails, Jobs
<1>4. CASE Ready
  BY <1>0, <1>4, ReadyEffect
<1>5. CASE RunFails
  BY <1>5 DEF RunFails, NoJob
<1>6. CASE MissRun
  <2>1. job.pc = "none"
    BY <1>6, NotDue
  <2>2. QED
    BY <1>6, <2>1 DEF MissRun
<1>7. CASE Tick
  <2>1. job.pc # "none" /\ untilRun' = untilRun - 1
    BY <1>7 DEF Tick
  <2>2. job'.left = job.left - 1
    BY <1>0, <1>7, <2>1 DEF Tick, Jobs
  <2>3. QED
    BY <1>0, <2>1, <2>2
<1>8. CASE UNCHANGED vars \/ \E w \in VMs : Repair(w)
  BY <1>0, <1>8 DEF vars, Repair
<1>9. QED
  BY <1>1, <1>2, <1>3, <1>4, <1>5, <1>6, <1>7, <1>8 DEF Next

LEMMA RestartsStep ==
    TypeOK /\ RunsInPeriod /\ RestartsInTurn /\ [Next]_vars => RestartsInTurn'
<1> SUFFICES ASSUME TypeOK, RunsInPeriod, RestartsInTurn, [Next]_vars, NEW v \in VMs,
                    service'[v] = "restarting"
             PROVE  job'.pc = "wait" /\ v = job'.at
  BY DEF RestartsInTurn
<1>0. /\ service \in [VMs -> {"up", "restarting", "down"}] /\ job \in Jobs
      /\ service[v] = "restarting" => job.pc = "wait" /\ v = job.at
  BY DEF TypeOK, Jobs, RestartsInTurn
<1>1. CASE CopyToken
  BY <1>0, <1>1 DEF CopyToken, Jobs
<1>2. CASE Install
  BY <1>2 DEF Install
<1>3. CASE Ready
  BY <1>0, <1>3 DEF Ready
<1>4. CASE AttemptFails \/ RunFails
  BY <1>0, <1>4 DEF AttemptFails, RunFails, LeftBehind
<1>5. CASE StartRun
  BY <1>0, <1>5, NotDue DEF StartRun
<1>6. CASE Mint \/ MissRun \/ \E w \in VMs : Repair(w)
  BY <1>0, <1>6 DEF Mint, MissRun, Repair
<1>7. CASE Tick
  BY <1>0, <1>7 DEF Tick, Jobs
<1>8. CASE UNCHANGED vars
  BY <1>0, <1>8 DEF vars
<1>9. QED
  BY <1>1, <1>2, <1>3, <1>4, <1>5, <1>6, <1>7, <1>8 DEF Next

LEMMA RunTokensStep ==
    TypeOK /\ Before /\ RunsInPeriod /\ RunTokens /\ [Next]_vars => RunTokens'
<1> SUFFICES ASSUME TypeOK, Before, RunsInPeriod, RunTokens, [Next]_vars,
                    job'.pc \in {"copy", "wait"}
             PROVE  /\ job'.token >= Lifetime - (Deadline - job'.left)
                    /\ \A v \in VMs :
                          v < job'.at \/ (v = job'.at /\ job'.pc = "wait")
                              => life'[v] >= Lifetime - (Deadline - job'.left)
  BY DEF RunTokens
<1>0. /\ job \in Jobs /\ job.left \in 0..Deadline /\ job.at \in VMs
      /\ job.token \in 0..Lifetime /\ Lifetime \in Nat /\ Deadline \in Nat
      /\ \A v \in VMs : v \in Nat /\ v >= 1
      /\ life \in [VMs -> {Missing} \cup 0..Lifetime]
  BY RefreshAssumption DEF TypeOK, Jobs, VMs
<1>1. CASE Mint
  BY <1>0, <1>1 DEF Mint, Jobs
<1>2. CASE CopyToken
  <2>1. /\ job'.at = job.at /\ job'.token = job.token /\ job'.left = job.left
        /\ life'[job.at] = job.token
        /\ \A v \in VMs \ {job.at} : life'[v] = life[v]
    BY <1>0, <1>2 DEF CopyToken, Jobs
  <2>2. job.pc = "copy" /\ job.token >= Lifetime - (Deadline - job.left)
    BY <1>2 DEF CopyToken, RunTokens
  <2>3. \A v \in VMs : v < job.at => life[v] >= Lifetime - (Deadline - job.left)
    BY <2>2 DEF RunTokens
  <2>4. ASSUME NEW v \in VMs, v < job.at \/ v = job.at
        PROVE  life'[v] >= Lifetime - (Deadline - job.left)
    BY <1>0, <2>1, <2>2, <2>3, <2>4
  <2>5. QED
    BY <1>0, <2>1, <2>2, <2>4
<1>3. CASE Ready
  <2>1. /\ job.pc = "wait" /\ life' = life /\ job'.pc = "copy"
        /\ job'.at = job.at + 1 /\ job'.token = job.token /\ job'.left = job.left
    BY <1>3, ReadyEffect
  <2>2. /\ job.token >= Lifetime - (Deadline - job.left)
        /\ \A v \in VMs : v < job.at \/ v = job.at
                             => life[v] >= Lifetime - (Deadline - job.left)
    BY <2>1 DEF RunTokens
  <2>3. \A v \in VMs : v < job.at + 1 => v < job.at \/ v = job.at
    BY <1>0
  <2>4. QED
    BY <2>1, <2>2, <2>3
<1>4. CASE Tick
  <2>1. job.pc = job'.pc /\ job.pc # "none" /\ installed
    BY <1>0, <1>4 DEF Tick, Jobs
  <2>2. /\ job'.at = job.at /\ job'.left = job.left - 1 /\ job'.token = Older(job.token)
        /\ \A v \in VMs : life'[v] = Older(life[v])
    BY <1>0, <1>4, <2>1 DEF Tick, Jobs
  <2>3. \A v \in VMs : life[v] \in 0..Lifetime
    BY <2>1 DEF TypeOK
  <2>4. /\ job.token >= Lifetime - (Deadline - job.left)
        /\ \A v \in VMs : v < job.at \/ (v = job.at /\ job.pc = "wait")
                             => life[v] >= Lifetime - (Deadline - job.left)
    BY <2>1 DEF RunTokens
  <2>5. \A n \in 0..Lifetime : Older(n) >= n - 1
    BY <1>0 DEF Older
  <2>6. Older(job.token) >= Lifetime - (Deadline - (job.left - 1))
    <3>1. Older(job.token) >= job.token - 1 /\ Older(job.token) \in Int
      BY <1>0, <2>5 DEF Older
    <3>2. QED
      BY <1>0, <2>4, <3>1
  <2>7. ASSUME NEW v \in VMs, v < job.at \/ (v = job.at /\ job.pc = "wait")
        PROVE  Older(life[v]) >= Lifetime - (Deadline - (job.left - 1))
    <3>1. Older(life[v]) >= life[v] - 1 /\ Older(life[v]) \in Int /\ life[v] \in Int
      BY <1>0, <2>3, <2>5 DEF Older
    <3>2. life[v] >= Lifetime - (Deadline - job.left)
      BY <2>4, <2>7
    <3>3. QED
      BY <1>0, <3>1, <3>2
  <2>8. QED
    BY <2>1, <2>2, <2>6, <2>7
<1>5. ASSUME Install \/ StartRun \/ AttemptFails \/ RunFails PROVE FALSE
  <2>1. CASE Install
    BY <2>1 DEF Install, Before
  <2>2. StartRun => job'.pc = "mint"
    BY DEF StartRun, NoJob
  <2>3. AttemptFails => job'.pc = "mint"
    BY <1>0 DEF AttemptFails, Jobs
  <2>4. RunFails => job'.pc = "none"
    BY DEF RunFails, NoJob
  <2>5. QED
    BY <1>5, <2>1, <2>2, <2>3, <2>4
<1>6. CASE MissRun \/ (\E w \in VMs : Repair(w)) \/ UNCHANGED vars
  <2>1. job' = job /\ life' = life
    BY <1>6 DEF MissRun, Repair, vars
  <2>2. QED
    BY <2>1 DEF RunTokens
<1>7. QED
  BY <1>1, <1>2, <1>3, <1>4, <1>5, <1>6 DEF Next

LEMMA OneRunInvariance == Spec => []OneRun
<1>1. Init => OneRun
  <2> SUFFICES ASSUME Init PROVE OneRun
    OBVIOUS
  <2>1. job.pc = "none" /\ \A v \in VMs : service[v] = "down"
    BY DEF Init, NoJob
  <2>2. QED
    BY <2>1, InitIInv, InitDoneAreUp
       DEF OneRun, IInv, RunsInPeriod, RestartsInTurn, RunTokens
<1>2. OneRun /\ [Next]_vars => OneRun'
  BY TypeOKStep, BeforeStep, DoneAreUpStep, RunsInPeriodStep, RestartsStep, RunTokensStep
     DEF OneRun
<1>3. QED
  BY <1>1, <1>2, PTL DEF Spec

\* Runs do not overlap, for any deadline below the period: the schedule is never
\* due while a Job still runs (cronjob.activeDeadlineSeconds and the schedule; the
\* concurrencyPolicy has nothing to forbid).
THEOREM RunsDoNotOverlap == Spec => [](job.pc # "none" => untilRun > 0)
<1>1. OneRun => (job.pc # "none" => untilRun > 0)
  BY NotDue DEF OneRun
<1>2. QED
  BY <1>1, OneRunInvariance, PTL

\* serial: 1 in token-refresh.yaml: never do two VMs restart at the same time, for
\* any inventory, whatever attempts fail and are started over.
THEOREM OneAtATime ==
    Spec => [](\A u, v \in VMs :
                 service[u] = "restarting" /\ service[v] = "restarting" => u = v)
<1>1. OneRun => \A u, v \in VMs :
                  service[u] = "restarting" /\ service[v] = "restarting" => u = v
  BY DEF OneRun, RestartsInTurn
<1>2. QED
  BY <1>1, OneRunInvariance, PTL

\* A run ends well only when every VM is up and has a token of this run, one that
\* has lost no more of its lifetime than the run has taken: no attempt before the
\* good one, and no VM skipped or repaired meanwhile, leaves an old token behind.
GoodRunRenews ==
    [][job.pc # "none" /\ job'.pc = "none" /\ missed' = 0
         => \A v \in VMs : /\ service'[v] = "up"
                           /\ life'[v] >= Lifetime - (Deadline - job.left)]_vars

\* Only the last VM's Ready ends a run without counting it as failed.
LEMMA GoodRunEnd ==
    ASSUME OneRun, [Next]_vars, job.pc # "none", job'.pc = "none", missed' = 0, NEW v \in VMs
    PROVE  service'[v] = "up" /\ life'[v] >= Lifetime - (Deadline - job.left)
<1>0. /\ job \in Jobs /\ missed \in 0..MaxMissed /\ MaxMissed \in Nat /\ Size \in Nat
      /\ v \in Nat /\ v <= Size /\ job.at \in Nat /\ job.at <= Size
      /\ service \in [VMs -> {"up", "restarting", "down"}]
  BY RefreshAssumption DEF OneRun, TypeOK, Jobs, VMs
<1>1. CASE Ready
  <2>1. /\ job.pc = "wait" /\ job.at = Size /\ life' = life
        /\ service' = [service EXCEPT ![job.at] = "up"]
    BY <1>1, ReadyEffect DEF OneRun
  <2>2. v < job.at \/ v = job.at
    BY <1>0, <2>1
  <2>3. life[v] >= Lifetime - (Deadline - job.left)
    BY <2>1, <2>2 DEF OneRun, RunTokens
  <2>4. service'[v] = "up"
    BY <1>0, <2>1, <2>2 DEF OneRun, DoneAreUp
  <2>5. QED
    BY <2>1, <2>3, <2>4
<1>2. ASSUME RunFails PROVE FALSE
  <2>1. missed' = missed + 1
    BY <1>2 DEF RunFails
  <2>2. QED
    BY <1>0, <2>1
<1>3. ASSUME Mint \/ CopyToken \/ AttemptFails \/ Tick \/ StartRun PROVE FALSE
  BY <1>0, <1>3 DEF Mint, CopyToken, AttemptFails, Tick, StartRun, NoJob, Jobs
<1>4. ASSUME Install \/ MissRun \/ (\E w \in VMs : Repair(w)) \/ UNCHANGED vars PROVE FALSE
  BY <1>4 DEF Install, MissRun, Repair, vars
<1>5. QED
  BY <1>1, <1>2, <1>3, <1>4 DEF Next

\* After a run that ends well every VM is served with one of the run's own tokens, for
\* any number of VMs and of attempts before the good one (token-refresh.yaml).
THEOREM GoodRun == Spec => GoodRunRenews
<1>1. OneRun /\ [Next]_vars
        => [job.pc # "none" /\ job'.pc = "none" /\ missed' = 0
              => \A v \in VMs : /\ service'[v] = "up"
                                /\ life'[v] >= Lifetime - (Deadline - job.left)]_vars
  BY GoodRunEnd
<1>2. QED
  BY <1>1, OneRunInvariance, PTL DEF Spec, GoodRunRenews

--------------------------------------------------------------------------------
(* How many VMs are out of service. *)

\* The attempts of the run under way that may have cost a VM.
Current == IF job.pc = "none" THEN 0
           ELSE IF job.pc = "wait" THEN job.attempt ELSE job.attempt - 1

Allowed == Attempts * missed + Current

\* The VM that is waited for is the one that restarts, and it is counted.
Losses ==
    /\ job.pc = "wait" => service[job.at] = "restarting"
    /\ installed => Cardinality(OutOfService) <= Allowed

LEMMA OutFinite == IsFiniteSet(OutOfService) /\ Cardinality(OutOfService) \in Nat
<1>1. IsFiniteSet(VMs)
  BY RefreshAssumption, FS_Interval DEF VMs
<1>2. OutOfService \in SUBSET VMs
  BY DEF OutOfService
<1>3. IsFiniteSet(OutOfService)
  BY <1>1, <1>2, FS_Subset
<1>4. QED
  BY <1>3, FS_CardinalityType

\* One VM more, or one less.
LEMMA OutPlusMinus ==
    ASSUME NEW v
    PROVE  /\ Cardinality(OutOfService \cup {v}) <= Cardinality(OutOfService) + 1
           /\ Cardinality(OutOfService \cup {v}) \in Nat
           /\ Cardinality(OutOfService \ {v}) <= Cardinality(OutOfService)
           /\ v \in OutOfService =>
                  Cardinality(OutOfService \ {v}) = Cardinality(OutOfService) - 1
           /\ Cardinality(OutOfService \ {v}) \in Nat
<1>1. /\ IsFiniteSet(OutOfService \cup {v}) /\ IsFiniteSet(OutOfService \ {v})
      /\ Cardinality(OutOfService \cup {v}) =
            IF v \in OutOfService THEN Cardinality(OutOfService)
            ELSE Cardinality(OutOfService) + 1
      /\ Cardinality(OutOfService \ {v}) =
            IF v \in OutOfService THEN Cardinality(OutOfService) - 1
            ELSE Cardinality(OutOfService)
  BY OutFinite, FS_AddElement, FS_RemoveElement
<1>2. /\ Cardinality(OutOfService \cup {v}) \in Nat
      /\ Cardinality(OutOfService \ {v}) \in Nat
  BY <1>1, FS_CardinalityType
<1>3. QED
  BY <1>1, <1>2, OutFinite

LEMMA LossesStep == OneRun /\ Losses /\ [Next]_vars => Losses'
<1> SUFFICES ASSUME OneRun, Losses, [Next]_vars PROVE Losses'
  OBVIOUS
<1> DEFINE n == Cardinality(OutOfService)
           a == Attempts * missed
<1>0. /\ job \in Jobs /\ job.at \in VMs /\ job.attempt \in 1..Attempts
      /\ job.pc \in {"none", "mint", "copy", "wait"}
      /\ service \in [VMs -> {"up", "restarting", "down"}]
      /\ missed \in 0..MaxMissed /\ MaxMissed \in Nat /\ Attempts \in Nat
      /\ Size \in Nat /\ n \in Nat
  BY RefreshAssumption, OutFinite DEF OneRun, TypeOK, Jobs
<1>01. a \in Nat /\ Attempts * (missed + 1) = a + Attempts /\ Attempts * 0 = 0
  <2>1. PICK m \in Nat : m = missed
    BY <1>0
  <2>2. Attempts * m \in Nat /\ Attempts * (m + 1) = Attempts * m + Attempts
    BY <1>0
  <2>3. Attempts * 0 = 0
    BY <1>0
  <2>4. QED
    BY <2>1, <2>2, <2>3
<1>02. job.pc # "none" => installed
  BY DEF OneRun, Before
<1>03. installed => n <= a + Current
  BY DEF Losses, Allowed
<1>04. Current \in 0..Attempts
  BY <1>0 DEF Current
<1> HIDE DEF n, a
<1>1. CASE Install
  <2>1. OutOfService' = {} /\ job'.pc = "none"
    BY <1>1 DEF Install, OutOfService, OneRun, Before
  <2>2. missed' = 0
    BY <1>1 DEF Install, OneRun, Before
  <2>3. Allowed' = 0
    BY <1>01, <2>1, <2>2 DEF Allowed, Current
  <2>4. Cardinality(OutOfService') = 0
    BY <2>1, FS_EmptySet
  <2>5. QED
    BY <2>1, <2>3, <2>4 DEF Losses
<1>2. CASE StartRun
  <2>1. job.pc = "none"
    BY <1>2, NotDue DEF OneRun
  <2>2. job'.pc = "mint" /\ job'.attempt = 1 /\ missed' = missed /\ service' = service
    BY <1>2 DEF StartRun, NoJob
  <2>3. Current' = Current /\ OutOfService' = OutOfService
    BY <2>1, <2>2 DEF Current, OutOfService
  <2>4. QED
    BY <1>2, <2>2, <2>3 DEF StartRun, Losses, Allowed
<1>3. CASE MissRun
  <2>1. missed' = missed + 1 /\ job' = job /\ service' = service /\ installed' = installed
    BY <1>3 DEF MissRun
  <2>2. OutOfService' = OutOfService /\ Current' = Current
    BY <2>1 DEF OutOfService, Current
  <2>3. Allowed' = a + Attempts + Current
    BY <1>01, <2>1, <2>2 DEF Allowed
  <2>4. installed => n <= Allowed'
    BY <1>0, <1>01, <1>03, <1>04, <2>3
  <2>5. QED
    BY <2>1, <2>2, <2>4 DEF Losses, n
<1>4. CASE Mint
  <2>1. /\ job.pc = "mint" /\ job'.pc = "copy" /\ job'.attempt = job.attempt
        /\ missed' = missed /\ service' = service /\ installed' = installed
    BY <1>0, <1>4 DEF Mint, Jobs
  <2>2. Current' = Current /\ OutOfService' = OutOfService
    BY <2>1 DEF Current, OutOfService
  <2>3. QED
    BY <2>1, <2>2 DEF Losses, Allowed
<1>5. CASE CopyToken
  <2>1. /\ job.pc = "copy" /\ job'.pc = "wait" /\ job'.attempt = job.attempt
        /\ job'.at = job.at /\ missed' = missed /\ installed' = installed
        /\ service' = [service EXCEPT ![job.at] = "restarting"]
    BY <1>0, <1>5 DEF CopyToken, Jobs
  <2>2. OutOfService' = OutOfService \cup {job.at}
    BY <1>0, <2>1 DEF OutOfService
  <2>3. Allowed' = a + Current + 1
    <3>1. Current' = Current + 1
      BY <1>0, <2>1 DEF Current
    <3>2. QED
      BY <1>0, <1>01, <1>04, <2>1, <3>1 DEF Allowed, a
  <2>4. Cardinality(OutOfService') <= n + 1 /\ Cardinality(OutOfService') \in Nat
    BY <2>2, OutPlusMinus DEF n
  <2>5. installed => Cardinality(OutOfService') <= Allowed'
    BY <1>0, <1>01, <1>03, <1>04, <2>3, <2>4
  <2>6. service'[job'.at] = "restarting"
    BY <1>0, <2>1
  <2>7. QED
    BY <2>1, <2>5, <2>6 DEF Losses
<1>6. CASE Ready
  <2>1. /\ job.pc = "wait" /\ installed' = installed /\ installed
        /\ service' = [service EXCEPT ![job.at] = "up"]
    BY <1>02, <1>6 DEF Ready
  <2>2. CASE job.at < Size
    <3>1. job'.pc = "copy" /\ job'.attempt = job.attempt /\ missed' = missed
      BY <1>0, <1>6, <2>2 DEF Ready, Jobs
    <3>2. OutOfService' = OutOfService \ {job.at} /\ job.at \in OutOfService
      BY <1>0, <2>1 DEF OutOfService, Losses
    <3>3. Cardinality(OutOfService') = n - 1
      BY <3>2, OutPlusMinus DEF n
    <3>4. Allowed' = a + Current - 1
      <4>1. Current' = Current - 1
        BY <1>0, <2>1, <3>1 DEF Current
      <4>2. QED
        BY <1>0, <1>01, <1>04, <3>1, <4>1 DEF Allowed, a
    <3>5. Cardinality(OutOfService') <= Allowed'
      BY <1>0, <1>01, <1>03, <1>04, <2>1, <3>3, <3>4
    <3>6. QED
      BY <3>1, <3>5 DEF Losses
  <2>3. CASE ~(job.at < Size)
    <3>1. job'.pc = "none" /\ missed' = 0
      BY <1>6, <2>3 DEF Ready, NoJob
    <3>2. \A v \in VMs : v < job.at \/ v = job.at
      BY <1>0, <2>3 DEF VMs
    <3>3. OutOfService' = {}
      BY <1>0, <2>1, <3>2 DEF OutOfService, OneRun, DoneAreUp
    <3>4. Cardinality(OutOfService') = 0
      BY <3>3, FS_EmptySet
    <3>5. Allowed' = 0
      BY <1>01, <3>1 DEF Allowed, Current
    <3>6. QED
      BY <3>1, <3>4, <3>5 DEF Losses
  <2>4. QED
    BY <2>2, <2>3
<1>7. ASSUME LeftBehind PROVE OutOfService' = OutOfService
  BY <1>0, <1>7 DEF LeftBehind, OutOfService, Losses
<1>8. CASE AttemptFails
  <2>1. /\ job.pc # "none" /\ job'.pc = "mint" /\ job'.attempt = job.attempt + 1
        /\ missed' = missed /\ installed' = installed
    BY <1>0, <1>8 DEF AttemptFails, Jobs
  <2>2. Current <= job.attempt /\ Current' = job.attempt
    BY <1>0, <2>1 DEF Current
  <2>3. Allowed' = a + job.attempt
    BY <1>0, <2>1, <2>2 DEF Allowed, a
  <2>4. installed => n <= Allowed'
    BY <1>0, <1>01, <1>03, <1>04, <2>2, <2>3
  <2>5. OutOfService' = OutOfService
    BY <1>7, <1>8 DEF AttemptFails
  <2>6. QED
    BY <2>1, <2>4, <2>5 DEF Losses, n
<1>9. CASE RunFails
  <2>1. job'.pc = "none" /\ missed' = missed + 1 /\ installed' = installed
    BY <1>9 DEF RunFails, NoJob
  <2>2. Allowed' = a + Attempts
    <3>1. Current' = 0
      BY <2>1 DEF Current
    <3>2. QED
      BY <1>0, <1>01, <2>1, <3>1 DEF Allowed
  <2>3. installed => n <= Allowed'
    BY <1>0, <1>01, <1>03, <1>04, <2>2
  <2>4. OutOfService' = OutOfService
    BY <1>7, <1>9 DEF RunFails
  <2>5. QED
    BY <2>1, <2>3, <2>4 DEF Losses, n
<1>10. ASSUME NEW v \in VMs, Repair(v) PROVE Losses'
  <2>1. /\ job' = job /\ missed' = missed /\ installed' = installed
        /\ service[v] = "down" /\ service' = [service EXCEPT ![v] = "up"]
    BY <1>10 DEF Repair
  <2>2. OutOfService' = OutOfService \ {v} /\ Allowed' = Allowed
    BY <1>0, <2>1 DEF OutOfService, Allowed, Current
  <2>3. Cardinality(OutOfService') <= n /\ Cardinality(OutOfService') \in Nat
    BY <2>2, OutPlusMinus DEF n
  <2>4. installed => Cardinality(OutOfService') <= Allowed'
    <3>1. installed => n <= Allowed /\ Allowed \in Int
      BY <1>0, <1>01, <1>03, <1>04 DEF Allowed, a
    <3>2. QED
      BY <1>0, <2>2, <2>3, <3>1
  <2>5. job.pc = "wait" => service'[job.at] = "restarting"
    BY <1>0, <2>1 DEF Losses
  <2>6. QED
    BY <2>1, <2>4, <2>5 DEF Losses
<1>11. CASE Tick
  <2>1. /\ job'.pc = job.pc /\ job'.attempt = job.attempt /\ job'.at = job.at
        /\ missed' = missed /\ installed' = installed /\ service' = service
    BY <1>0, <1>11 DEF Tick, Jobs
  <2>2. Current' = Current /\ OutOfService' = OutOfService
    BY <2>1 DEF Current, OutOfService
  <2>3. QED
    BY <2>1, <2>2 DEF Losses, Allowed
<1>12. CASE UNCHANGED vars
  BY <1>12 DEF vars, Losses, Allowed, Current, OutOfService
<1>13. QED
  BY <1>1, <1>2, <1>3, <1>4, <1>5, <1>6, <1>8, <1>9, <1>10, <1>11, <1>12 DEF Next

LEMMA LossesInvariance == Spec => []Losses
<1>1. Init => Losses
  BY DEF Init, NoJob, Losses
<1>2. QED
  BY <1>1, LossesStep, OneRunInvariance, PTL DEF Spec

\* No more VMs are out of service than the attempts made since the last good run can
\* have cost, one each, for any inventory and any number of attempts: a retry
\* restarts what is up, but one VM at a time and none beyond the next failure
\* (token-refresh.yaml with the Job's backoffLimit).
THEOREM LossesBounded == Spec => []OneVMPerAttempt
<1>1. Losses => OneVMPerAttempt
  BY DEF Losses, OneVMPerAttempt, Allowed, Current
<1>2. QED
  BY <1>1, LossesInvariance, PTL

\* Zero downtime, with enough VMs: where there are more of them than attempts in
\* all the runs that may fail one after the other and the run after those, one VM
\* answers at any moment (docs/deployment.md, on rolling restarts).
THEOREM SomeVMServes ==
    ASSUME Size > Attempts * (MaxMissed + 1)
    PROVE  Spec => []ZeroDowntime
<1>1. OneRun /\ Losses => ZeroDowntime
  <2> SUFFICES ASSUME OneRun, Losses, installed, \A v \in VMs : service[v] # "up"
               PROVE  FALSE
    BY DEF ZeroDowntime
  <2>1. /\ missed \in 0..MaxMissed /\ MaxMissed \in Nat /\ Attempts \in Nat
        /\ Size \in Nat /\ Size > 0 /\ job.attempt \in 1..Attempts
    BY RefreshAssumption DEF OneRun, TypeOK
  <2>2. OutOfService = 1..Size
    BY DEF OutOfService, VMs
  <2>3. Cardinality(OutOfService) = Size
    BY <2>1, <2>2, FS_Interval
  <2>4. Current \in 0..Attempts
    BY <2>1 DEF Current
  <2>5. Attempts * missed <= Attempts * MaxMissed
    <3>1. PICK m \in Nat, k \in Nat : m = missed /\ k = MaxMissed - missed
      BY <2>1
    <3>2. Attempts * (m + k) = Attempts * m + Attempts * k /\ Attempts * k \in Nat
      BY <2>1
    <3>3. Attempts * m \in Nat /\ m + k = MaxMissed
      BY <2>1, <3>1
    <3>4. QED
      BY <3>1, <3>2, <3>3
  <2>6. Attempts * (MaxMissed + 1) = Attempts * MaxMissed + Attempts
    BY <2>1
  <2>7. Attempts * missed \in Nat /\ Attempts * MaxMissed \in Nat
    BY <2>1
  <2>8. Size <= Attempts * missed + Current
    BY <2>3 DEF Losses, Allowed
  <2>9. QED
    BY <2>1, <2>4, <2>5, <2>6, <2>7, <2>8
<1>2. QED
  BY <1>1, OneRunInvariance, LossesInvariance, PTL
================================================================================
