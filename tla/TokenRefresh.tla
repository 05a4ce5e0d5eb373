----------------------------- MODULE TokenRefresh -----------------------------
(***************************************************************************)
(* The service account token on every VM, which av-scanner sends with each *)
(* TokenReview: the post-install hook gives the VMs their first token      *)
(* (ansible/playbooks/deploy.yaml), a CronJob then runs token-refresh.yaml *)
(* every Period: it mints a token and takes the VMs one by one, in the     *)
(* order of the inventory: copy, restart, wait until the service answers.  *)
(* A VM that fails ends the play; the Job starts it over, Attempts times   *)
(* in all, and is killed at its Deadline.                                  *)
(*                                                                         *)
(* Kubernetes, Ansible's play and the VMs are modelled from how the chart  *)
(* and the playbooks use them; VMs are numbered in inventory order.        *)
(***************************************************************************)
EXTENDS Integers, FiniteSets

CONSTANTS Size,         \* how many VMs the inventory has
          Missing,      \* the VM has no token file
          FoundTokens,  \* what the installation may find on a VM
          Lifetime,     \* token.duration
          Period,       \* cronjob.schedule
          Deadline,     \* cronjob.activeDeadlineSeconds
          Attempts,     \* cronjob.backoffLimit, and the first attempt
          MaxMissed     \* runs that may be missed or fail one after the other

VMs == 1..Size

ASSUME RefreshAssumption ==
    /\ Size \in Nat \ {0}
    /\ Missing \notin Int
    /\ FoundTokens \subseteq {Missing} \cup 0..Lifetime
    /\ Lifetime \in Nat /\ Period \in Nat /\ Deadline \in Nat
    /\ Attempts \in Nat \ {0} /\ MaxMissed \in Nat
    /\ Deadline < Period

VARIABLES installed,    \* the post-install hook has run
          life,         \* validity left of each VM's token, in time units
          service,      \* av-scanner on each VM: "up", "restarting", "down"
          untilRun,     \* time until the schedule is due
          missed,       \* runs missed or failed since the last good one
          job           \* the Job of the CronJob

vars == <<installed, life, service, untilRun, missed, job>>

\* at: the VM it works on; token: validity left of the one it has minted; left:
\* of its deadline.
NoJob == [pc |-> "none", at |-> 1, attempt |-> 1, token |-> 0, left |-> 0]

Init ==
    /\ installed = FALSE
    /\ life \in [VMs -> FoundTokens]
    /\ service = [v \in VMs |-> "down"]
    /\ untilRun \in 1..Period
    /\ missed = 0
    /\ job = NoJob

\* The post-install hook: a token is minted if a VM has none, and copied to the
\* VMs that have none; the service is started everywhere.
Install ==
    /\ ~installed
    /\ installed' = TRUE
    /\ life' = [v \in VMs |-> IF life[v] = Missing THEN Lifetime ELSE life[v]]
    /\ service' = [v \in VMs |-> "up"]
    /\ UNCHANGED <<untilRun, missed, job>>

--------------------------------------------------------------------------------
(* A run of the CronJob. *)

StartRun ==
    /\ installed /\ untilRun = 0
    /\ untilRun' = Period
    /\ job' = [NoJob EXCEPT !.pc = "mint", !.left = Deadline]
    /\ UNCHANGED <<installed, life, service, missed>>

\* The cluster is down, the image cannot be pulled: the run does not happen.
MissRun ==
    /\ installed /\ untilRun = 0
    /\ missed < MaxMissed
    /\ untilRun' = Period
    /\ missed' = missed + 1
    /\ UNCHANGED <<installed, life, service, job>>

Mint ==
    /\ job.pc = "mint"
    /\ job' = [job EXCEPT !.pc = "copy", !.at = 1, !.token = Lifetime]
    /\ UNCHANGED <<installed, life, service, untilRun, missed>>

\* A mutant: the copy fails and the handler restarts the service all the same.
CopyToken_Lost ==
    /\ job.pc = "copy"
    /\ service' = [service EXCEPT ![job.at] = "restarting"]
    /\ job' = [job EXCEPT !.pc = "wait"]
    /\ UNCHANGED <<installed, life, untilRun, missed>>

\* A mutant: without serial, the play takes all VMs at once.
CopyToken_AllAtOnce ==
    /\ job.pc = "copy"
    /\ life' = [v \in VMs |-> job.token]
    /\ service' = [v \in VMs |-> "restarting"]
    /\ job' = [job EXCEPT !.pc = "wait"]
    /\ UNCHANGED <<installed, untilRun, missed>>

\* The token is copied; the handler it notifies restarts the service.
CopyToken ==
    /\ job.pc = "copy"
    /\ life' = [life EXCEPT ![job.at] = job.token]
    /\ service' = [service EXCEPT ![job.at] = "restarting"]
    /\ job' = [job EXCEPT !.pc = "wait"]
    /\ UNCHANGED <<installed, untilRun, missed>>

\* A mutant: off by one.
Ready_OneMore ==
    /\ job.pc = "wait"
    /\ service' = [service EXCEPT ![job.at] = "up"]
    /\ IF job.at <= Size
       THEN job' = [job EXCEPT !.pc = "copy", !.at = @ + 1] /\ UNCHANGED missed
       ELSE job' = NoJob /\ missed' = 0
    /\ UNCHANGED <<installed, life, untilRun>>

\* The service answers on /live: the next VM, or the run is done.
Ready ==
    /\ job.pc = "wait"
    /\ service' = [service EXCEPT ![job.at] = "up"]
    /\ IF job.at < Size
       THEN job' = [job EXCEPT !.pc = "copy", !.at = @ + 1] /\ UNCHANGED missed
       ELSE job' = NoJob /\ missed' = 0
    /\ UNCHANGED <<installed, life, untilRun>>

\* The service that was being waited for has not come back.
LeftBehind ==
    service' = IF job.pc = "wait" THEN [service EXCEPT ![job.at] = "down"] ELSE service

\* A mutant: the next attempt resumes the play behind the VM that failed.
AttemptFails_Resumes ==
    /\ job.pc \in {"copy", "wait"} /\ job.at < Size /\ job.attempt < Attempts
    /\ LeftBehind
    /\ job' = [job EXCEPT !.pc = "copy", !.at = @ + 1, !.attempt = @ + 1]
    /\ UNCHANGED <<installed, life, untilRun, missed>>

\* No token, a VM that cannot be reached, a service that does not answer: with
\* serial 1 the play ends there, and the Job starts it over.
AttemptFails ==
    /\ job.pc # "none" /\ job.attempt < Attempts
    /\ LeftBehind
    /\ job' = [job EXCEPT !.pc = "mint", !.at = 1, !.attempt = @ + 1]
    /\ UNCHANGED <<installed, life, untilRun, missed>>

\* The last attempt fails, or the deadline kills the Job.
RunFails ==
    /\ job.pc # "none" /\ (job.attempt = Attempts \/ job.left = 0)
    /\ missed < MaxMissed
    /\ LeftBehind
    /\ missed' = missed + 1
    /\ job' = NoJob
    /\ UNCHANGED <<installed, life, untilRun>>

\* A service that is down is repaired.
Repair(v) ==
    /\ service[v] = "down" /\ installed
    /\ service' = [service EXCEPT ![v] = "up"]
    /\ UNCHANGED <<installed, life, untilRun, missed, job>>

Older(l) == IF l > 0 THEN l - 1 ELSE 0

\* Time passes, until the schedule is due or the Job at its deadline.
Tick ==
    /\ installed /\ untilRun > 0
    /\ job.pc = "none" \/ job.left > 0
    /\ untilRun' = untilRun - 1
    /\ life' = [v \in VMs |-> Older(life[v])]
    /\ job' = IF job.pc = "none" THEN job
              ELSE [job EXCEPT !.left = @ - 1, !.token = Older(@)]
    /\ UNCHANGED <<installed, service, missed>>

Next ==
    \/ Install
    \/ StartRun \/ MissRun \/ Mint \/ CopyToken \/ Ready \/ AttemptFails \/ RunFails
    \/ \E v \in VMs : Repair(v)
    \/ Tick

Spec == Init /\ [][Next]_vars

--------------------------------------------------------------------------------
\* The variables have their types, and the Job knows its VM.
TypeOK ==
    /\ installed \in BOOLEAN
    /\ life \in [VMs -> {Missing} \cup 0..Lifetime]
    /\ installed => life \in [VMs -> 0..Lifetime]
    /\ service \in [VMs -> {"up", "restarting", "down"}]
    /\ untilRun \in 0..Period
    /\ missed \in 0..MaxMissed
    /\ job \in [pc : {"none", "mint", "copy", "wait"}, at : VMs, attempt : 1..Attempts,
                token : 0..Lifetime, left : 0..Deadline]

\* No VM's token expires, although MaxMissed runs in a row are missed or end
\* half-way, if a token outlives the periods of those runs, the period of the
\* good one and the good one's own time.
TokensValid ==
    /\ FoundTokens = {Missing} /\ Lifetime > Period * (MaxMissed + 1) + Deadline
    /\ installed
    => \A v \in VMs : life[v] > 0

\* A rollout goes no further than a VM that has not come back, so a token or a
\* service that does not work reaches one VM per attempt.
FailureStopsRollout ==
    [][\A u, v \in VMs :
         u < v /\ service[v] # "restarting" /\ service'[v] = "restarting"
            => service[u] = "up"]_vars

OutOfService == {v \in VMs : service[v] # "up"}

\* Each attempt since the last good run has put at most one VM out of service, and
\* the attempt under way one more while it waits for it: so many may be down
\* together, although every attempt restarts VMs that are up, whatever VMs the
\* failed attempts have left behind and whichever of them are repaired.
OneVMPerAttempt ==
    LET current == IF job.pc = "none" THEN 0
                   ELSE IF job.pc = "wait" THEN job.attempt ELSE job.attempt - 1
    IN  installed => Cardinality(OutOfService) <= Attempts * missed + current

\* What docs/deployment.md says: MaxMissed consecutive missed runs can be
\* tolerated before tokens expire.  (A run that is due may still come in time.)
MissedRunsTolerated ==
    installed /\ untilRun > 0 => \A v \in VMs : life[v] > 0

\* What docs/deployment.md says: one VM at a time, ensuring zero downtime when a
\* load balancer is in front.
ZeroDowntime == installed => \E v \in VMs : service[v] = "up"

\* What docs/deployment.md says: the post-install hook mints a fresh token, then
\* deploys it.
InstalledFresh ==
    [][installed' /\ ~installed => \A v \in VMs : life'[v] = Lifetime]_vars
================================================================================
