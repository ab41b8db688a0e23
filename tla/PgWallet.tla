------------------------------ MODULE PgWallet ------------------------------
(***************************************************************************)
(* PgWalletService: the wallet as a Postgres ledger.  Requests run on any  *)
(* number of replicas; each takes a pooled connection, opens a             *)
(* transaction, row-locks the account (SELECT ... FOR UPDATE), stages one  *)
(* ledger row and the new balance, and commits both.                       *)
(*                                                                         *)
(* An uncommitted row is visible to its own transaction only, so a         *)
(* transaction's writes are kept in staged[r] and reach the tables at      *)
(* COMMIT.  A ROLLBACK, an error and a lost connection all drop them.      *)
(***************************************************************************)
EXTENDS PaymentGateway, Sequences, FiniteSets

CONSTANTS
  Users,
  Requests,     \* request slots, over all replicas
  None,         \* "no request" in a lock, "no reference" in a row
  Prices,       \* sums debited and refunded: what the shop sells at
  MinTopup,     \* smallest top-up accepted (10_000 Toman)
  PoolSize,     \* connections of the pg pool
  MaxEntries    \* bound: debits and refunds start below this many ledger rows

ASSUME NoneIsNoRequest == None \notin Requests \cup Sessions
ASSUME PricesArePositive == Prices \subseteq Nat \ {0}
ASSUME PoolNotEmpty == PoolSize \in Nat \ {0}
ASSUME MinTopupIsPositive == MinTopup \in Nat \ {0}
ASSUME MaxEntriesIsNat == MaxEntries \in Nat

VARIABLES
  accounts,   \* wallet_accounts.balance_toman by user (no row reads as 0)
  entries,    \* wallet_entries, append-only, in commit order
  rowLock,    \* rowLock[u]: the request holding user u's account row, or None
  pc,         \* where each request stands
  req,        \* its operation and arguments
  seen,       \* the balance its FOR UPDATE returned
  staged      \* the row its transaction has inserted

vars == <<accounts, entries, rowLock, pc, req, seen, staged, gatewayVars>>

Entry == [user : Users, kind : {"topup", "debit", "refund"}, amount : Int,
          ref : Sessions \cup {None}, expected : Nat]
Request == [op : {"topupStart", "topupConfirm", "debit", "refund"}, user : Users,
            ref : Sessions \cup {None}, amount : Nat]
Steps == {"idle", "connect", "begin", "locked", "verify", "insert", "commit"}

NoRequest == [op |-> "none"]
NoRow == [kind |-> "none"]

\* The rows of a top-up: amount 0 is the intent its start recorded, a positive
\* amount is its credit.
IsTopup(e, s) == e.kind = "topup" /\ e.ref = s
IsCredit(e, s) == IsTopup(e, s) /\ e.amount > 0
\* Variant: the SELECT forgets user_id.
TopupRowsOfAnyone(u, s) == {i \in DOMAIN entries : IsTopup(entries[i], s)}

TopupRows(u, s) == {i \in DOMAIN entries : entries[i].user = u /\ IsTopup(entries[i], s)}

NeverCredited(u, s) == FALSE        \* variant: a repeated confirm goes unnoticed
AlreadyCredited(u, s) == \E i \in TopupRows(u, s) : entries[i].amount > 0
Expected(u, s) == entries[CHOOSE i \in TopupRows(u, s) : TRUE].expected

\* The unique partial index wallet_entries_topup_idem spans every user.
BreaksTopupIndex(e) == \E i \in DOMAIN entries : IsCredit(entries[i], e.ref)

Init ==
  /\ GatewayInit
  /\ accounts = [u \in Users |-> 0]
  /\ entries = <<>>
  /\ rowLock = [u \in Users |-> None]
  /\ pc = [r \in Requests |-> "idle"]
  /\ req = [r \in Requests |-> NoRequest]
  /\ seen = [r \in Requests |-> 0]
  /\ staged = [r \in Requests |-> NoRow]

-----------------------------------------------------------------------------
(* Requests arriving.                                                      *)

Submit(r, op, u, s, a) ==
  /\ pc[r] = "idle"
  /\ pc' = [pc EXCEPT ![r] = "connect"]
  /\ req' = [req EXCEPT ![r] = [op |-> op, user |-> u, ref |-> s, amount |-> a]]
  /\ UNCHANGED <<accounts, entries, rowLock, seen, staged>>

\* The gateway session exists before the wallet has a row for it.
TopupStart(r, u, s, a) ==
  /\ a >= MinTopup
  /\ CreatePaymentSession(s, a)
  /\ Submit(r, "topupStart", u, s, a)

TopupConfirm(r, u, s) ==
  /\ DevMarkPaid(s)
  /\ Submit(r, "topupConfirm", u, s, 0)

DebitRequest(r, u, a) ==
  /\ Len(entries) < MaxEntries
  /\ Submit(r, "debit", u, None, a)
  /\ UNCHANGED gatewayVars

RefundRequest(r, u, a) ==
  /\ Len(entries) < MaxEntries
  /\ Submit(r, "refund", u, None, a)
  /\ UNCHANGED gatewayVars

-----------------------------------------------------------------------------
(* One transaction.                                                        *)

InTransaction == {r \in Requests : pc[r] \notin {"idle", "connect"}}

\* pool.connect() and BEGIN.
Connect(r) ==
  /\ pc[r] = "connect"
  /\ Cardinality(InTransaction) < PoolSize
  /\ pc' = [pc EXCEPT ![r] = "begin"]
  /\ UNCHANGED <<accounts, entries, rowLock, req, seen, staged, gatewayVars>>

\* Variant: SELECT without FOR UPDATE.
LockAccountShared(r) ==
  /\ pc[r] = "begin" /\ req[r].op # "topupStart"
  /\ seen' = [seen EXCEPT ![r] = accounts[req[r].user]]
  /\ pc' = [pc EXCEPT ![r] = "locked"]
  /\ UNCHANGED <<accounts, entries, rowLock, req, staged, gatewayVars>>

\* ensureAccount, then SELECT balance_toman ... FOR UPDATE.
LockAccount(r) ==
  LET u == req[r].user
  IN  /\ pc[r] = "begin" /\ req[r].op # "topupStart"
      /\ rowLock[u] = None
      /\ rowLock' = [rowLock EXCEPT ![u] = r]
      /\ seen' = [seen EXCEPT ![r] = accounts[u]]
      /\ pc' = [pc EXCEPT ![r] = "locked"]
      /\ UNCHANGED <<accounts, entries, req, staged, gatewayVars>>

\* Variant: a path that never ends its transaction.
ReleaseKeepingLock(r) ==
  /\ pc' = [pc EXCEPT ![r] = "idle"]
  /\ req' = [req EXCEPT ![r] = NoRequest]
  /\ seen' = [seen EXCEPT ![r] = 0]
  /\ staged' = [staged EXCEPT ![r] = NoRow]
  /\ UNCHANGED rowLock

\* The transaction is over and the client released: locks and uncommitted
\* rows go with it.
Release(r) ==
  /\ pc' = [pc EXCEPT ![r] = "idle"]
  /\ req' = [req EXCEPT ![r] = NoRequest]
  /\ seen' = [seen EXCEPT ![r] = 0]
  /\ staged' = [staged EXCEPT ![r] = NoRow]
  /\ rowLock' = [u \in Users |-> IF rowLock[u] = r THEN None ELSE rowLock[u]]

\* ROLLBACK, or a COMMIT of a transaction that wrote nothing.
EndWithoutWrites(r) ==
  /\ Release(r)
  /\ UNCHANGED <<accounts, entries, gatewayVars>>

Stage(r, row, next) ==
  /\ staged' = [staged EXCEPT ![r] = row]
  /\ pc' = [pc EXCEPT ![r] = next]
  /\ UNCHANGED <<accounts, entries, rowLock, req, seen, gatewayVars>>

\* topupStart inserts its intent without a row lock: it touches no balance.
InsertIntent(r) ==
  /\ pc[r] = "begin" /\ req[r].op = "topupStart"
  /\ Stage(r, [user |-> req[r].user, kind |-> "topup", amount |-> 0,
               ref |-> req[r].ref, expected |-> req[r].amount], "commit")

\* Under the lock: refuse an unknown session, answer a repeated confirm without
\* crediting, otherwise go and verify.
ReadTopup(r) ==
  LET u == req[r].user
      s == req[r].ref
  IN  /\ pc[r] = "locked" /\ req[r].op = "topupConfirm"
      /\ IF TopupRows(u, s) = {} \/ AlreadyCredited(u, s)
         THEN EndWithoutWrites(r)
         ELSE /\ pc' = [pc EXCEPT ![r] = "verify"]
              /\ UNCHANGED <<accounts, entries, rowLock, req, seen, staged, gatewayVars>>

\* Variant: whatever amount the gateway names is credited.
VerifyAnyAmount(r) ==
  /\ pc[r] = "verify"
  /\ \E reply \in VerifyReplies(req[r].ref, Expected(req[r].user, req[r].ref)) :
       IF reply.valid
       THEN Stage(r, [user |-> req[r].user, kind |-> "topup", amount |-> reply.amount,
                      ref |-> req[r].ref, expected |-> 0], "insert")
       ELSE EndWithoutWrites(r)

\* The gateway is asked while the lock is held; an amount other than the
\* recorded one is refused.
Verify(r) ==
  LET u == req[r].user
      s == req[r].ref
      expected == Expected(u, s)
  IN  /\ pc[r] = "verify"
      /\ \E reply \in VerifyReplies(s, expected) :
           IF reply.valid /\ reply.amount = expected
           THEN Stage(r, [user |-> u, kind |-> "topup", amount |-> reply.amount,
                          ref |-> s, expected |-> 0], "insert")
           ELSE EndWithoutWrites(r)

\* INSERT of the credit row, which the unique index may reject.
InsertCredit(r) ==
  /\ pc[r] = "insert"
  /\ IF BreaksTopupIndex(staged[r])
     THEN EndWithoutWrites(r)
     ELSE Stage(r, staged[r], "commit")

\* Variant: the balance is not looked at.
InsertDebitUnchecked(r) ==
  /\ pc[r] = "locked" /\ req[r].op = "debit"
  /\ Stage(r, [user |-> req[r].user, kind |-> "debit", amount |-> -req[r].amount,
               ref |-> req[r].ref, expected |-> 0], "commit")

InsertDebit(r) ==
  LET q == req[r]
  IN  /\ pc[r] = "locked" /\ q.op = "debit"
      /\ IF seen[r] < q.amount
         THEN EndWithoutWrites(r)
         ELSE Stage(r, [user |-> q.user, kind |-> "debit", amount |-> -q.amount,
                        ref |-> q.ref, expected |-> 0], "commit")

InsertRefund(r) ==
  LET q == req[r]
  IN  /\ pc[r] = "locked" /\ q.op = "refund"
      /\ Stage(r, [user |-> q.user, kind |-> "refund", amount |-> q.amount,
                   ref |-> q.ref, expected |-> 0], "commit")

\* A confirm writes the balance it computed from the one it read; debit and
\* refund update the row in place.
NewBalance(r) ==
  LET base == IF req[r].op = "topupConfirm" THEN seen[r] ELSE accounts[staged[r].user]
  IN  base + staged[r].amount

\* UPDATE wallet_accounts and COMMIT.
Commit(r) ==
  /\ pc[r] = "commit"
  /\ entries' = Append(entries, staged[r])
  /\ accounts' = [accounts EXCEPT ![staged[r].user] = NewBalance(r)]
  /\ Release(r)
  /\ UNCHANGED gatewayVars

\* A replica crash, a lost connection, a failed statement, a gateway that does
\* not answer: the server rolls the transaction back.
Abort(r) ==
  /\ pc[r] # "idle"
  /\ EndWithoutWrites(r)

-----------------------------------------------------------------------------
\* A payer needs the redirect, which the start returns after its commit.
Payment ==
  /\ \E s \in Sessions : /\ \E i \in DOMAIN entries : IsTopup(entries[i], s)
                         /\ UserPays(s) \/ SessionLapses(s)
  /\ UNCHANGED <<accounts, entries, rowLock, pc, req, seen, staged>>

Arrival(r) ==
  \/ \E u \in Users, s \in Sessions, a \in Amounts : TopupStart(r, u, s, a)
  \/ \E u \in Users, s \in Sessions : TopupConfirm(r, u, s)
  \/ \E u \in Users, a \in Prices : DebitRequest(r, u, a) \/ RefundRequest(r, u, a)

\* What a request does: wait for a connection, for the row, or go on.
Progress(r) ==
  \/ Connect(r) \/ LockAccount(r)
  \/ InsertIntent(r) \/ ReadTopup(r) \/ Verify(r) \/ InsertCredit(r)
  \/ InsertDebit(r) \/ InsertRefund(r) \/ Commit(r)

Next ==
  \/ \E r \in Requests : Arrival(r) \/ Progress(r) \/ Abort(r)
  \/ Payment

\* pg hands out connections and row locks in order of arrival, so a request
\* that keeps being able to go on is not passed over for ever; statements and
\* the gateway call end (AbortSignal.timeout).  Nothing makes clients call or
\* payers pay.
Fairness == \A r \in Requests : SF_vars(Progress(r))

Spec == Init /\ [][Next]_vars
FairSpec == Spec /\ Fairness

-----------------------------------------------------------------------------
(* Why the properties below hold: what the row lock and the session ids give *)
(* every transaction.  Proved inductive in PgWallet_proofs.                  *)

HoldsLock(r) ==
  \/ pc[r] \in {"locked", "verify", "insert"}
  \/ pc[r] = "commit" /\ req[r].op # "topupStart"

\* Between its read and its COMMIT a transaction holds the row, and the balance
\* it read is still the account's.
ReadsStayFresh ==
  \A r \in Requests : HoldsLock(r) =>
    /\ rowLock[req[r].user] = r
    /\ seen[r] = accounts[req[r].user]

\* A transaction that got past its checks carries the row they justify.
Justifies(r, row) ==
  LET q == req[r]
  IN  /\ row \in Entry /\ row.user = q.user /\ row.ref = q.ref
      /\ q.op = "topupStart" =>
           row.kind = "topup" /\ row.amount = 0 /\ row.expected = q.amount
      /\ q.op = "topupConfirm" =>
           /\ row.kind = "topup" /\ row.amount > 0
           /\ gateway[q.ref].status = "paid"
           /\ \E i \in TopupRows(q.user, q.ref) :
                entries[i].amount = 0 /\ entries[i].expected = row.amount
      /\ q.op = "debit" =>
           row.kind = "debit" /\ row.amount = -q.amount /\ seen[r] >= q.amount
      /\ q.op = "refund" => row.kind = "refund" /\ row.amount = q.amount

StepsFollowChecks ==
  \A r \in Requests :
    /\ pc[r] # "idle" => /\ req[r] \in Request
                         /\ req[r].op \in {"topupStart", "topupConfirm"} <=> req[r].ref \in Sessions
                         /\ req[r].op = "topupStart" => req[r].amount \in Amounts
                         /\ req[r].op \in {"debit", "refund"} => req[r].amount \in Prices
    /\ pc[r] = "locked" => req[r].op # "topupStart"
    /\ pc[r] \in {"verify", "insert"} => req[r].op = "topupConfirm"
    /\ pc[r] \in {"insert", "commit"} => Justifies(r, staged[r])

\* While a confirm is past its read, its session has an intent and no credit.
Crediting(r) ==
  \/ pc[r] \in {"verify", "insert"}
  \/ pc[r] = "commit" /\ req[r].op = "topupConfirm"
NothingCreditedYet ==
  \A r \in Requests : Crediting(r) =>
    /\ TopupRows(req[r].user, req[r].ref) # {}
    /\ \A i \in DOMAIN entries : ~IsCredit(entries[i], req[r].ref)

\* A session belongs to one start, hence to one user, from the moment the
\* gateway issues it.
Starting(r, s) == pc[r] # "idle" /\ req[r].op = "topupStart" /\ req[r].ref = s
SessionsHaveOneOwner ==
  \A s \in Sessions :
    /\ \A i, j \in DOMAIN entries :
         IsTopup(entries[i], s) /\ IsTopup(entries[j], s) => entries[i].user = entries[j].user
    /\ \A i \in DOMAIN entries : IsTopup(entries[i], s) =>
         /\ gateway[s].status # "unused"
         /\ entries[i].amount = 0 => entries[i].expected > 0
         /\ entries[i].amount >= 0
    /\ \A r \in Requests : Starting(r, s) =>
         /\ gateway[s].status # "unused"
         /\ \A i \in DOMAIN entries : ~IsTopup(entries[i], s)
         /\ \A q \in Requests : Starting(q, s) => q = r

Inv == /\ ReadsStayFresh /\ StepsFollowChecks
       /\ NothingCreditedYet /\ SessionsHaveOneOwner

-----------------------------------------------------------------------------
TypeOK ==
  /\ GatewayTypeOK
  /\ accounts \in [Users -> Nat]
  /\ entries \in Seq(Entry)
  /\ rowLock \in [Users -> Requests \cup {None}]
  /\ pc \in [Requests -> Steps]
  /\ req \in [Requests -> Request \cup {NoRequest}]
  /\ seen \in [Requests -> Nat]
  /\ staged \in [Requests -> Entry \cup {NoRow}]

\* "Balance is a projection" of the ledger (migration 009, law 1): a balance
\* changes only together with one new ledger row of that user, by exactly the
\* row's amount, and no row is ever changed.
BalanceFollowsLedger ==
  [][ \/ UNCHANGED <<accounts, entries>>
      \/ /\ Len(entries') = Len(entries) + 1
         /\ LET e == entries'[Len(entries) + 1]
            IN  /\ entries' = Append(entries, e)
                /\ accounts' = [accounts EXCEPT ![e.user] = @ + e.amount] ]_vars

\* The row lock alone makes confirming idempotent: no confirm ever reaches its
\* INSERT with the session already credited, so the unique index, the second
\* wall, is never hit.
IndexNeverHit == \A r \in Requests : pc[r] = "insert" => ~BreaksTopupIndex(staged[r])

\* "Verification is the only credit source" for top-ups: a credit row has an
\* intent row of the same user and session, carries the amount recorded there,
\* the gateway holds that session's money, and no other row credits it.
CreditsAreVerified ==
  \A i \in DOMAIN entries : \A s \in Sessions : IsCredit(entries[i], s) =>
    /\ gateway[s].status = "paid"
    /\ \E k \in TopupRows(entries[i].user, s) :
         entries[k].amount = 0 /\ entries[k].expected = entries[i].amount
    /\ \A j \in DOMAIN entries : IsCredit(entries[j], s) => j = i

\* The ledger implements the wallet's promise.
Intents == {i \in DOMAIN entries : entries[i].kind = "topup" /\ entries[i].amount = 0}
Opened == {[session |-> entries[i].ref, user |-> entries[i].user,
            amount |-> entries[i].expected] : i \in Intents}
Paid == {s \in Sessions : gateway[s].status = "paid"}
Credited == {s \in Sessions : \E i \in DOMAIN entries : IsCredit(entries[i], s)}
Ledger == INSTANCE WalletLedger WITH
  Amounts <- Amounts \cup Prices, balance <- accounts,
  opened <- Opened, paid <- Paid, credited <- Credited
ImplementsLedger == Ledger!Spec

\* No request waits for ever on the pool, on a row lock or on the gateway:
\* every transaction gives back what it holds on every path.
EveryRequestEnds == \A r \in Requests : pc[r] # "idle" ~> pc[r] = "idle"
=============================================================================
