------------------------------- MODULE Billing -------------------------------
(***************************************************************************)
(* BillingService: consultation purchases, kept in the memory of one API   *)
(* process, paid from the wallet or by a redirect to the gateway, and      *)
(* refunded to the wallet.  Each operator here is one stretch of code      *)
(* between two awaits; the module that extends this one orders them.       *)
(*                                                                         *)
(* The wallet is its promise (WalletLedger): a debit happens at once or    *)
(* not at all, a refund adds.  One consultation plan, at one price.        *)
(***************************************************************************)
EXTENDS Integers, FiniteSets

CONSTANTS
  Users,
  Purchases,    \* purchase ids
  PayMethods,   \* how clients pay: a subset of {"wallet", "gateway"}
  Price,        \* the plan's price
  Funds         \* what each wallet holds at the start

ASSUME PurchasesAreFinite == IsFiniteSet(Purchases)
ASSUME KnownPayMethods == PayMethods \subseteq {"wallet", "gateway"}
ASSUME PriceIsPositive == Price \in Nat \ {0}
ASSUME FundsAreNat == Funds \in Nat

VARIABLES
  balance,      \* the wallets
  purchases,    \* the purchases map; an id is "new", "live", or "lost" by a restart
  settled       \* history: refunds paid out, by purchase

billingVars == <<balance, purchases, settled>>

NoPurchase(status) == [status |-> status]
New == {p \in Purchases : purchases[p].status = "new"}
Live == {p \in Purchases : purchases[p].status = "live"}

BillingInit ==
  /\ balance = [u \in Users |-> Funds]
  /\ purchases = [p \in Purchases |-> NoPurchase("new")]
  /\ settled = [p \in Purchases |-> 0]

CanAlwaysPay(u) == TRUE      \* variant: the balance is not looked at
CanPay(u) == balance[u] >= Price
Debit(u) ==
  /\ balance' = [balance EXCEPT ![u] = @ - Price]
  /\ UNCHANGED <<purchases, settled>>

\* The end of record(): a gateway purchase is stored as it is, before any payment.
Record(p, u, via) ==
  /\ purchases' = [purchases EXCEPT ![p] =
                    [status |-> "live", user |-> u, via |-> via, consumed |-> FALSE, refunded |-> FALSE]]
  /\ UNCHANGED <<balance, settled>>

\* markConsumed(): nothing, for a purchase that is not there.
MarkConsumed(p) ==
  /\ purchases' = IF p \in Live THEN [purchases EXCEPT ![p].consumed = TRUE] ELSE purchases
  /\ UNCHANGED <<balance, settled>>

Refundable(p) == p \in Live /\ ~purchases[p].refunded

\* Variant: the flag is not set.
ClaimNothing(p) == UNCHANGED billingVars

\* The first half of refundPurchase(): the flag goes up before the wallet is asked.
ClaimRefund(p) ==
  /\ purchases' = [purchases EXCEPT ![p].refunded = TRUE]
  /\ UNCHANGED <<balance, settled>>

\* The second half: the wallet pays.
PayRefund(p, u) ==
  /\ balance' = [balance EXCEPT ![u] = @ + Price]
  /\ settled' = [settled EXCEPT ![p] = @ + 1]
  /\ UNCHANGED purchases

\* A restart: the map was in memory only.
ForgetPurchases ==
  /\ purchases' = [p \in Purchases |-> IF p \in Live THEN NoPurchase("lost") ELSE purchases[p]]
  /\ UNCHANGED <<balance, settled>>

BillingTypeOK ==
  /\ balance \in [Users -> Nat]
  /\ \A p \in Purchases :
       /\ purchases[p].status \in {"new", "live", "lost"}
       /\ p \in Live => /\ purchases[p].user \in Users /\ purchases[p].via \in PayMethods
                        /\ {purchases[p].consumed, purchases[p].refunded} \subseteq BOOLEAN
  /\ settled \in [Purchases -> Nat]
=============================================================================
