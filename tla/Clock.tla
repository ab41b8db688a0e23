-------------------------------- MODULE Clock --------------------------------
(***************************************************************************)
(* The wall clock the components read with Date.now().  One variable,      *)
(* shared by the modules that compose; a tick is the unit in which a       *)
(* configuration states its windows and lifetimes.                         *)
(***************************************************************************)
EXTENDS Naturals

CONSTANT MaxClock       \* bound: the last instant explored

ASSUME MaxClockAssumption ==
    MaxClock \in Nat \ {0}

VARIABLE now

ClockInit ==
    now = 1

Tick ==
    /\ now < MaxClock
    /\ now' = now + 1
==============================================================================
