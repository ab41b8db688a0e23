---------------------------- MODULE WalletLedger ----------------------------
(***************************************************************************)
(* What a wallet promises, whatever it is built on (ADR-015, ADR-028):     *)
(*  - a top-up session belongs to one user and one amount from its start;  *)
(*  - it is credited only after the gateway holds the money, at most once, *)
(*    to that user and with that amount;                                   *)
(*  - a debit never takes a balance below zero;                            *)
(*  - money moves in no other way.                                         *)
(***************************************************************************)
EXTENDS Integers

CONSTANTS Users, Sessions, Amounts

VARIABLES
  balance,   \* balance[u]: Toman user u can spend
  opened,    \* top-ups started: the session, its user and its amount
  paid,      \* sessions whose money the gateway holds
  credited   \* sessions whose money reached the wallet

ledgerVars == <<balance, opened, paid, credited>>

Init ==
  /\ balance = [u \in Users |-> 0]
  /\ opened = {} /\ paid = {} /\ credited = {}

Open(s, u, a) ==
  /\ \A t \in opened : t.session # s
  /\ opened' = opened \cup {[session |-> s, user |-> u, amount |-> a]}
  /\ UNCHANGED <<balance, paid, credited>>

Pay(s) ==
  /\ paid' = paid \cup {s}
  /\ UNCHANGED <<balance, opened, credited>>

Credit(t) ==
  /\ t.session \in paid \ credited
  /\ credited' = credited \cup {t.session}
  /\ balance' = [balance EXCEPT ![t.user] = @ + t.amount]
  /\ UNCHANGED <<opened, paid>>

Debit(u, a) ==
  /\ balance[u] >= a
  /\ balance' = [balance EXCEPT ![u] = @ - a]
  /\ UNCHANGED <<opened, paid, credited>>

Refund(u, a) ==
  /\ balance' = [balance EXCEPT ![u] = @ + a]
  /\ UNCHANGED <<opened, paid, credited>>

Next ==
  \/ \E s \in Sessions, u \in Users, a \in Amounts : Open(s, u, a)
  \/ \E s \in Sessions : Pay(s)
  \/ \E t \in opened : Credit(t)
  \/ \E u \in Users, a \in Amounts : Debit(u, a) \/ Refund(u, a)

Spec == Init /\ [][Next]_ledgerVars
=============================================================================
