------------------------------- MODULE AuthProxy -------------------------------
(***************************************************************************)
(* auth-proxy: a reverse proxy that adds a service account token to every  *)
(* request.  Kubelet keeps the token in a file and rotates it before it    *)
(* expires; the proxy serves from a copy in memory that a goroutine        *)
(* refreshes every Interval, and keeps the old copy when the file cannot   *)
(* be read.  A token stands for its remaining validity, which counts down. *)
(* The file, its rotation and its read errors are external.                *)
(*                                                                         *)
(* Time is prompt: it does not pass while the goroutine has a tick to      *)
(* take, that is, reading the file takes less than a unit of time.         *)
(***************************************************************************)
EXTENDS Integers

CONSTANTS Interval,     \* tokenRefreshInterval, in time units
          Validity,     \* of a new token
          Margin,       \* validity left when kubelet rotates, at the latest
          MaxFailures,  \* reads that may fail one after the other
          None          \* nothing read

ASSUME ProxyAssumption ==
    /\ Interval \in Nat \ {0}
    /\ Validity \in Nat /\ Margin \in Nat /\ Margin <= Validity
    /\ MaxFailures \in Nat
    /\ None \notin Int

VARIABLES inFile,       \* validity left of the token in the file
          token,        \* and of the one in memory
          data,         \* what refresh has read and not yet stored
          untilTick,    \* time until the ticker fires
          tickReady,    \* ticker.C holds a tick
          failures      \* reads that have failed since the last good one

proxyVars == <<inFile, token, data, untilTick, tickReady, failures>>

\* newTokenProvider has read the file, or the program has ended.
ProxyInit ==
    /\ inFile \in Margin..Validity
    /\ token = inFile
    /\ data = None
    /\ untilTick = Interval /\ tickReady = FALSE
    /\ failures = 0

\* Kubelet puts a new token into the file.
Rotate ==
    /\ inFile' = Validity
    /\ UNCHANGED <<token, data, untilTick, tickReady, failures>>

\* A mutant: the file is read once.
ReadToken_Once ==
    /\ tickReady /\ data = None
    /\ data' = token /\ tickReady' = FALSE
    /\ UNCHANGED <<inFile, token, untilTick, failures>>

\* refresh: os.ReadFile.
ReadToken ==
    /\ tickReady /\ data = None
    /\ data' = inFile /\ tickReady' = FALSE
    /\ UNCHANGED <<inFile, token, untilTick, failures>>

\* It fails: the error is logged, the copy in memory stays.
ReadFails ==
    /\ tickReady /\ data = None
    /\ failures < MaxFailures
    /\ failures' = failures + 1 /\ tickReady' = FALSE
    /\ UNCHANGED <<inFile, token, data, untilTick>>

\* refresh: the copy is replaced under the lock.
StoreToken ==
    /\ data # None
    /\ token' = data /\ data' = None
    /\ failures' = 0
    /\ UNCHANGED <<inFile, untilTick, tickReady>>

Aged(l) == IF l > 0 THEN l - 1 ELSE 0

\* Time passes, not beyond the moment at which kubelet has to rotate.
ProxyTick ==
    /\ ~tickReady /\ data = None /\ inFile > Margin
    /\ inFile' = Aged(inFile) /\ token' = Aged(token)
    /\ IF untilTick = 1 THEN tickReady' = TRUE /\ untilTick' = Interval
       ELSE untilTick' = untilTick - 1 /\ UNCHANGED tickReady
    /\ UNCHANGED <<data, failures>>

ProxyNext == Rotate \/ ReadToken \/ ReadFails \/ StoreToken \/ ProxyTick

ProxySpec == ProxyInit /\ [][ProxyNext]_proxyVars

--------------------------------------------------------------------------------
\* The variables have their types.
ProxyTypeOK ==
    /\ inFile \in Margin..Validity
    /\ token \in 0..Validity
    /\ data \in Margin..Validity \cup {None}
    /\ untilTick \in 1..Interval
    /\ tickReady \in BOOLEAN
    /\ failures \in 0..MaxFailures

\* A request never carries an expired token (the Director takes the copy at any
\* moment), although MaxFailures refreshes in a row fail and however late the
\* rotation is noticed, if kubelet rotates that many intervals ahead.
NeverServesExpired == Margin > Interval * (MaxFailures + 1) => token > 0
================================================================================
