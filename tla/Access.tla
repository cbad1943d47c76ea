-------------------------------- MODULE Access --------------------------------
(***************************************************************************)
(* The two ways into the server, the administrator's and the users', on    *)
(* one clock and in one process: what it counts is lost when it restarts,  *)
(* what it has signed is not.                                              *)
(***************************************************************************)
EXTENDS AdminLogin, Sessions

vars == <<now, loginAttempts, verdict, log, wallet, signing, refresh, cookie, access, lastHeld>>

Init == now = 0 /\ AdminInit /\ SessionsInit

\* Time passes; signing takes none of it.
Tick ==
    /\ Advance
    /\ signing = NoToken
    /\ UNCHANGED adminVars /\ UNCHANGED sessionVars

\* The process ends and is started again: a sign-in that was not answered is
\* lost, and so is what has been counted.
Restart ==
    /\ AdminForget
    /\ signing' = NoToken
    /\ UNCHANGED <<now, wallet, refresh, cookie, access, lastHeld>>

Next ==
    \/ Tick
    \/ \E ip \in Ips : Login(ip) /\ UNCHANGED now /\ UNCHANGED sessionVars
    \/ SessionStep /\ UNCHANGED now /\ UNCHANGED adminVars
    \/ Restart

Spec == Init /\ [][Next]_vars

TypeOK == now \in Times /\ AdminTypeOK /\ SessionsTypeOK
=============================================================================
