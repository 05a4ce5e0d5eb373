------------------------------- MODULE MCTokens -------------------------------
(* The two machines that keep a token fresh, side by side: the rollout on the   *)
(* VMs of one client and the proxy of another.  They share nothing, so any of   *)
(* them may take the next step.                                                 *)
EXTENDS MCTokenRefresh, AuthProxy

SideBySideInit == Init /\ ProxyInit

SideBySideNext ==
    \/ Next /\ UNCHANGED proxyVars
    \/ ProxyNext /\ UNCHANGED vars

SideBySide == SideBySideInit /\ [][SideBySideNext]_<<vars, proxyVars>>
================================================================================
