---------------------------- MODULE MCJsonWallet ----------------------------
(* JsonWallet on a small instance: the cfg files give the constants values. *)
EXTENDS JsonWallet

CONSTANTS u1, u2

\* One wallet goes through truncation and tears; the other is there to confirm
\* what is not its own.
RowBound == [u \in Users |-> IF u = u1 THEN 4 ELSE 0]
=============================================================================
