--------------------------- MODULE PaymentGateway ---------------------------
(***************************************************************************)
(* The payment port as the wallet sees it: sessions are opened at the      *)
(* gateway, a payer settles them or lets them lapse, and verifyCallback    *)
(* reads the outcome back.  Two adapters stand behind the port: ZarinPal,  *)
(* which talks HTTP and may fail, and the in-process mock, which has no    *)
(* payer but a devMarkPaid switch.                                         *)
(***************************************************************************)
EXTENDS Integers

CONSTANTS
  Sessions,   \* gateway session ids (ZarinPal's "authority")
  Amounts,    \* sums of money in Toman
  Adapters    \* adapters considered: a subset of {"zarinpal", "mock"}

ASSUME AmountsArePositive == Amounts \subseteq Nat \ {0}
ASSUME KnownAdapters == Adapters \subseteq {"zarinpal", "mock"}

VARIABLES
  adapter,    \* the adapter this deployment was started with
  gateway     \* gateway[s]: status, and the amount the gateway holds for s

gatewayVars == <<adapter, gateway>>

Statuses == {"unused", "pending", "paid", "failed"}

GatewayTypeOK ==
  /\ adapter \in Adapters
  /\ gateway \in [Sessions -> [status : Statuses, amount : Nat]]

GatewayInit ==
  /\ adapter \in Adapters
  /\ gateway = [s \in Sessions |-> [status |-> "unused", amount |-> 0]]

\* createPaymentSession: a fresh id, pending, for the amount asked.
PendingSession(a) == [status |-> "pending", amount |-> a]
CreatePaymentSession(s, a) ==
  /\ gateway[s].status = "unused"
  /\ gateway' = [gateway EXCEPT ![s] = PendingSession(a)]
  /\ UNCHANGED adapter

\* The payer settles the session.  The amount ZarinPal later reports
\* (data.amount) is the gateway's word, so any amount is possible here.
UserPays(s) ==
  /\ adapter = "zarinpal"
  /\ gateway[s].status = "pending"
  /\ \E reported \in Amounts :
       gateway' = [gateway EXCEPT ![s] = [status |-> "paid", amount |-> reported]]
  /\ UNCHANGED adapter

SessionLapses(s) ==
  /\ adapter = "zarinpal"
  /\ gateway[s].status = "pending"
  /\ gateway' = [gateway EXCEPT ![s].status = "failed"]
  /\ UNCHANGED adapter

\* devMarkPaid exists on the mock alone, and flips only a pending session.
DevMarkPaid(s) ==
  /\ gateway' = IF adapter = "mock" /\ gateway[s].status = "pending"
                THEN [gateway EXCEPT ![s].status = "paid"]
                ELSE gateway
  /\ UNCHANGED adapter

\* What verifyCallback may answer when the wallet sends the amount it expects.
\* ZarinPal reports an amount of its own or none; the mock reports none; without
\* one the wallet takes the expected amount.  A network failure is a failed
\* request, and belongs to the caller.  (A mock that was restarted knows no
\* session and says yes to any; so it would, had it not been: see DevMarkPaid.)
ZarinpalReplies(s, expected) ==
  [valid : {gateway[s].status = "paid"}, amount : {gateway[s].amount, expected}]
MockReplies(s, expected) ==
  [valid : {gateway[s].status = "paid"}, amount : {expected}]
VerifyReplies(s, expected) ==
  IF adapter = "zarinpal" THEN ZarinpalReplies(s, expected) ELSE MockReplies(s, expected)
=============================================================================
