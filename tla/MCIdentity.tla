------------------------------- MODULE MCIdentity -------------------------------
(***************************************************************************)
(* The parts of the system that decide who somebody is and what he may do, *)
(* side by side.  They share the clock and nothing else (each keeps rows   *)
(* or a document of its own), so one behaviour exercises one of them: the  *)
(* initial state chooses the part, and the others stay as they began.      *)
(***************************************************************************)
EXTENDS RateLimiter, OtpLogin, Sessions, AreaLock, MachineTokens, Passkeys, TLC

VARIABLE part

\* Two hits in a window of three ticks, one tick apart; a lock of four.
MCLimitRule == Rule(2, 3, 1, 4)

\* One try in a window of two ticks.
MCVerifyRule == Rule(1, 2, 0, 2)

\* Bound: how far each part's clock runs.
Horizon ==
    [limiter |-> 16, otp |-> 3, sessions |-> 4, area |-> 3, tokens |-> 2, passkeys |-> 2]

MCInit ==
    /\ part \in DOMAIN Horizon
    /\ ClockInit /\ LimiterInit /\ OtpInit /\ SessionsInit /\ AreaInit /\ TokensInit /\ PasskeysInit
    /\ part # "limiter" => driver = "memory"       \* which of the two is all one

Only(p) ==
    /\ now' <= Horizon[p]
    /\ UNCHANGED part
    /\ p # "limiter" => UNCHANGED limiterVars
    /\ p # "otp" => UNCHANGED otpVars
    /\ p # "sessions" => UNCHANGED sessionVars
    /\ p # "area" => UNCHANGED areaVars
    /\ p # "tokens" => UNCHANGED tokenVars
    /\ p # "passkeys" => UNCHANGED passkeyVars

MCNext ==
    \/ part = "limiter" /\ LimiterNext /\ Only("limiter")
    \/ part = "otp" /\ OtpNext /\ Only("otp")
    \/ part = "sessions" /\ SessionsNext /\ Only("sessions")
    \/ part = "area" /\ AreaNext /\ Only("area")
    \/ part = "tokens" /\ TokensNext /\ Only("tokens")
    \/ part = "passkeys" /\ PasskeysNext /\ Only("passkeys")

MCSpec ==
    MCInit /\ [][MCNext]_<<part, now, limiterVars, otpVars, sessionVars, areaVars,
                           tokenVars, passkeyVars>>

\* Type correctness of every part's state: rows, stores, requests, budgets.
IdentityTypeOK ==
    /\ LimiterTypeOK
    /\ OtpTypeOK
    /\ SessionsTypeOK
    /\ AreaTypeOK
    /\ TokensTypeOK
    /\ PasskeysTypeOK

\* The two channels of OtpLogin take the same steps under two names.
Symmetry ==
    Permutations(Logins) \cup Permutations(Destinations)
=================================================================================
