----------------------------- MODULE JsonWallet -----------------------------
(***************************************************************************)
(* WalletService: the wallet as one JSON document per user, in one API     *)
(* process.  exclusive() chains a user's operations one after the other;   *)
(* each reads the document, computes, and puts it back whole.  A confirm   *)
(* enters the chain twice and asks the gateway in between, unserialized.   *)
(***************************************************************************)
EXTENDS PaymentGateway, SequencesExt

CONSTANTS
  Users,
  Requests,
  None,         \* "no reference" in a row
  Prices,       \* sums debited and refunded
  MinTopup,     \* smallest top-up accepted
  TxnCap,       \* TXN_CAP: rows a document keeps
  MaxRows       \* bound, by user: starts, debits and refunds begin below this many rows

ASSUME TxnCapIsPositive == TxnCap \in Nat \ {0}
ASSUME WalletPricesArePositive == Prices \subseteq Nat \ {0}
ASSUME NoneIsNoSession == None \notin Sessions

VARIABLES
  file,       \* the document in storage: Missing, Torn or a wallet
  chain,      \* chain[u]: requests in exclusive(u), the running one first
  pc,         \* where each request stands
  req,        \* its operation and arguments
  expected,   \* the amount a confirm's first pass found
  draft,      \* the row a running request is about to put
  lineage,    \* history: every row put since the wallet last began empty
  started     \* history: top-ups whose start returned a redirect

vars == <<file, chain, pc, req, expected, draft, lineage, started, gatewayVars>>

Row == [kind : {"topup", "debit", "refund"}, amount : Int, ref : Sessions \cup {None},
        expected : Nat]
Topup == [session : Sessions, user : Users, amount : Amounts]
NoRequest == [op |-> "none"]
NoRow == [kind |-> "none"]
Missing == [status |-> "missing"]
Torn == [status |-> "torn"]
Wallet(b, rows) == [status |-> "wallet", balance |-> b, txns |-> rows]
EmptyWallet == Wallet(0, <<>>)

\* state(): what cannot be read or parsed is an empty wallet.
Load(u) == IF file[u].status = "wallet" THEN file[u] ELSE EmptyWallet

TruncateNewest(rows) ==        \* variant: slice(0, TXN_CAP) keeps the oldest
  IF Len(rows) > TxnCap THEN SubSeq(rows, 1, TxnCap) ELSE rows
Truncate(rows) ==
  IF Len(rows) > TxnCap THEN SubSeq(rows, Len(rows) - TxnCap + 1, Len(rows)) ELSE rows

IsCredit(t, s) == t.ref = s /\ t.amount > 0
IsIntent(t, s) == t.ref = s /\ t.amount = 0
AlreadyCredited(w, s) == \E i \in DOMAIN w.txns : IsCredit(w.txns[i], s)
Intents(w, s) == {i \in DOMAIN w.txns : IsIntent(w.txns[i], s)}

Init ==
  /\ GatewayInit
  /\ file = [u \in Users |-> Missing]
  /\ chain = [u \in Users |-> <<>>]
  /\ pc = [r \in Requests |-> "idle"]
  /\ req = [r \in Requests |-> NoRequest]
  /\ expected = [r \in Requests |-> 0]
  /\ draft = [r \in Requests |-> NoRow]
  /\ lineage = [u \in Users |-> <<>>]
  /\ started = {}

-----------------------------------------------------------------------------
(* Requests arriving: each queues up in its user's chain.                  *)

Submit(r, op, u, s, a) ==
  /\ pc[r] = "idle"
  /\ pc' = [pc EXCEPT ![r] = "queued"]
  /\ req' = [req EXCEPT ![r] = [op |-> op, user |-> u, ref |-> s, amount |-> a]]
  /\ chain' = [chain EXCEPT ![u] = Append(@, r)]
  /\ UNCHANGED <<file, expected, draft, lineage, started>>

TopupStart(r, u, s, a) ==
  /\ Len(lineage[u]) < MaxRows[u]
  /\ a >= MinTopup
  /\ CreatePaymentSession(s, a)
  /\ Submit(r, "topupStart", u, s, a)

TopupConfirm(r, u, s) ==
  /\ DevMarkPaid(s)
  /\ Submit(r, "topupConfirm", u, s, 0)

Spend(r, op, u, a) ==
  /\ Len(lineage[u]) < MaxRows[u]
  /\ Submit(r, op, u, None, a)
  /\ UNCHANGED gatewayVars

-----------------------------------------------------------------------------
(* Inside exclusive().                                                     *)

\* Variant: the chain's next link is not waited for.
RunningAtOnce(r) == pc[r] \in {"queued", "crediting"}

Running(r) ==
  /\ pc[r] \in {"queued", "crediting"}
  /\ Head(chain[req[r].user]) = r

\* The promise settles, whatever the outcome, and the next one runs.
Leave(r) ==
  LET u == req[r].user
  IN  chain' = [chain EXCEPT ![u] = IF @ # <<>> /\ Head(@) = r THEN Tail(@) ELSE @]

\* Variant: a path that leaves the promise unsettled.
EndUnsettled(r) ==
  /\ pc' = [pc EXCEPT ![r] = "idle"]
  /\ req' = [req EXCEPT ![r] = NoRequest]
  /\ expected' = [expected EXCEPT ![r] = 0]
  /\ draft' = [draft EXCEPT ![r] = NoRow]
  /\ UNCHANGED chain

End(r) ==
  /\ Leave(r)
  /\ pc' = [pc EXCEPT ![r] = "idle"]
  /\ req' = [req EXCEPT ![r] = NoRequest]
  /\ expected' = [expected EXCEPT ![r] = 0]
  /\ draft' = [draft EXCEPT ![r] = NoRow]

EndUnwritten(r) == End(r) /\ UNCHANGED <<file, lineage, started, gatewayVars>>

\* The row is computed from the document just read; what will be put is that
\* document, its balance moved by the row's amount and the row appended.
Prepare(r, row) ==
  /\ draft' = [draft EXCEPT ![r] = [row |-> row, base |-> Load(req[r].user)]]
  /\ pc' = [pc EXCEPT ![r] = "put"]
  /\ UNCHANGED <<file, chain, req, expected, lineage, started, gatewayVars>>

ReadForStart(r) ==
  /\ Running(r) /\ req[r].op = "topupStart"
  /\ Prepare(r, [kind |-> "topup", amount |-> 0, ref |-> req[r].ref, expected |-> req[r].amount])

\* A confirm's first pass: answer what is already credited, refuse what has no
\* intent, else remember the amount and leave the chain to ask the gateway.
Preflight(r) ==
  LET w == Load(req[r].user)
      s == req[r].ref
  IN  /\ Running(r) /\ pc[r] = "queued" /\ req[r].op = "topupConfirm"
      /\ IF AlreadyCredited(w, s) \/ Intents(w, s) = {}
         THEN EndUnwritten(r)
         ELSE LET i == CHOOSE k \in Intents(w, s) : \A j \in Intents(w, s) : k <= j
              IN  /\ expected' = [expected EXCEPT ![r] = w.txns[i].expected]
                  /\ pc' = [pc EXCEPT ![r] = "verify"]
                  /\ Leave(r)
                  /\ UNCHANGED <<file, req, draft, lineage, started, gatewayVars>>

\* Variant: the amount the gateway names is not compared.
VerifyAnyAmount(r) ==
  /\ pc[r] = "verify"
  /\ \E reply \in VerifyReplies(req[r].ref, expected[r]) :
       IF reply.valid
       THEN /\ pc' = [pc EXCEPT ![r] = "crediting"]
            /\ chain' = [chain EXCEPT ![req[r].user] = Append(@, r)]
            /\ expected' = [expected EXCEPT ![r] = reply.amount]
            /\ UNCHANGED <<file, req, draft, lineage, started, gatewayVars>>
       ELSE EndUnwritten(r)

\* The gateway is asked outside the chain; other operations of the user run.
Verify(r) ==
  /\ pc[r] = "verify"
  /\ \E reply \in VerifyReplies(req[r].ref, expected[r]) :
       IF reply.valid /\ reply.amount = expected[r]
       THEN /\ pc' = [pc EXCEPT ![r] = "crediting"]
            /\ chain' = [chain EXCEPT ![req[r].user] = Append(@, r)]
            /\ UNCHANGED <<file, req, expected, draft, lineage, started, gatewayVars>>
       ELSE EndUnwritten(r)

\* Variant: the second pass trusts the first.
CreditUnchecked(r) ==
  /\ Running(r) /\ pc[r] = "crediting"
  /\ Prepare(r, [kind |-> "topup", amount |-> expected[r], ref |-> req[r].ref, expected |-> 0])

\* The second pass looks again before it credits.
ReadForCredit(r) ==
  /\ Running(r) /\ pc[r] = "crediting"
  /\ IF AlreadyCredited(Load(req[r].user), req[r].ref)
     THEN EndUnwritten(r)
     ELSE Prepare(r, [kind |-> "topup", amount |-> expected[r], ref |-> req[r].ref, expected |-> 0])

\* Variant: the balance is not looked at.
DebitUnchecked(r) ==
  /\ Running(r) /\ req[r].op = "debit"
  /\ Prepare(r, [kind |-> "debit", amount |-> -req[r].amount, ref |-> None, expected |-> 0])

ReadForDebit(r) ==
  /\ Running(r) /\ req[r].op = "debit"
  /\ IF Load(req[r].user).balance < req[r].amount
     THEN EndUnwritten(r)
     ELSE Prepare(r, [kind |-> "debit", amount |-> -req[r].amount, ref |-> None, expected |-> 0])

ReadForRefund(r) ==
  /\ Running(r) /\ req[r].op = "refund"
  /\ Prepare(r, [kind |-> "refund", amount |-> req[r].amount, ref |-> None, expected |-> 0])

\* put(): the whole document, the newest TxnCap rows of it.
Put(r) ==
  LET u == req[r].user
      base == draft[r].base
      row == draft[r].row
  IN  /\ pc[r] = "put"
      /\ file' = [file EXCEPT ![u] = Wallet(base.balance + row.amount, Truncate(Append(base.txns, row)))]
      /\ lineage' = [lineage EXCEPT ![u] = Append(@, row)]
      /\ started' = IF req[r].op = "topupStart"
                    THEN started \cup {[session |-> row.ref, user |-> u, amount |-> row.expected]}
                    ELSE started
      /\ End(r)
      /\ UNCHANGED gatewayVars

\* A file cut short has no history any more.
Tear(u) ==
  /\ file' = [file EXCEPT ![u] = Torn]
  /\ lineage' = [lineage EXCEPT ![u] = <<>>]

\* writeFileSync truncates the file first: a failing write (a full disk) leaves
\* the old document or a torn one.
PutFails(r) ==
  /\ pc[r] = "put"
  /\ Tear(req[r].user) \/ UNCHANGED <<file, lineage>>
  /\ End(r)
  /\ UNCHANGED <<started, gatewayVars>>

\* The process dies, perhaps half way through a write.
Crash ==
  /\ \/ UNCHANGED <<file, lineage>>
     \/ \E r \in Requests : pc[r] = "put" /\ Tear(req[r].user)
  /\ chain' = [u \in Users |-> <<>>]
  /\ pc' = [r \in Requests |-> "idle"]
  /\ req' = [r \in Requests |-> NoRequest]
  /\ expected' = [r \in Requests |-> 0]
  /\ draft' = [r \in Requests |-> NoRow]
  /\ UNCHANGED <<started, gatewayVars>>

-----------------------------------------------------------------------------
\* The payer acts on the redirect, which the start returns after its put.
Payment ==
  /\ \E t \in started : UserPays(t.session) \/ SessionLapses(t.session)
  /\ UNCHANGED <<file, chain, pc, req, expected, draft, lineage, started>>

Arrival(r) ==
  \/ \E u \in Users, s \in Sessions, a \in Amounts : TopupStart(r, u, s, a)
  \/ \E u \in Users, s \in Sessions : TopupConfirm(r, u, s)
  \/ \E u \in Users, a \in Prices, op \in {"debit", "refund"} : Spend(r, op, u, a)

Progress(r) ==
  \/ ReadForStart(r) \/ Preflight(r) \/ Verify(r) \/ ReadForCredit(r)
  \/ ReadForDebit(r) \/ ReadForRefund(r) \/ Put(r)

Next ==
  \/ \E r \in Requests : Arrival(r) \/ Progress(r) \/ PutFails(r)
  \/ Payment
  \/ Crash

\* The event loop runs what is runnable, and the gateway call times out.
Fairness == \A r \in Requests : WF_vars(Progress(r))

Spec == Init /\ [][Next]_vars
FairSpec == Spec /\ Fairness

-----------------------------------------------------------------------------
TypeOK ==
  /\ GatewayTypeOK
  /\ \A u \in Users : /\ file[u].status \in {"missing", "torn", "wallet"}
                      /\ file[u].status = "wallet" =>
                           file[u].balance \in Nat /\ file[u].txns \in Seq(Row)
  /\ chain \in [Users -> Seq(Requests)]
  /\ pc \in [Requests -> {"idle", "queued", "verify", "crediting", "put"}]
  /\ expected \in [Requests -> Nat]
  /\ lineage \in [Users -> Seq(Row)]
  /\ started \subseteq Topup

Sum(rows) ==
  LET total[i \in 0 .. Len(rows)] == IF i = 0 THEN 0 ELSE total[i - 1] + rows[i].amount
  IN  total[Len(rows)]

\* "Balance math is never racy" (exclusive): whatever ran together, the stored
\* balance is the sum of every row ever put, the kept rows are the newest of
\* them, and none was lost to another operation's put.
DocumentIsTheHistory ==
  \A u \in Users : file[u].status = "wallet" =>
    /\ file[u].balance = Sum(lineage[u])
    /\ Len(file[u].txns) = Min({Len(lineage[u]), TxnCap})
    /\ \A k \in 1 .. Len(file[u].txns) :
         file[u].txns[k] = lineage[u][Len(lineage[u]) - Len(file[u].txns) + k]

\* Truncation does not undo idempotence: while a session's intent is still
\* among the kept rows of a wallet that credited it, so is the credit.
NoOrphanIntent ==
  \A u \in Users, s \in Sessions :
    /\ file[u].status = "wallet" /\ Intents(file[u], s) # {}
    /\ \E i \in DOMAIN lineage[u] : IsCredit(lineage[u][i], s)
    => AlreadyCredited(file[u], s)

\* A session is credited again only if its credit has left the kept rows while
\* the second confirm was out at the gateway.
CreditedOnceWithinCap ==
  \A u \in Users, s \in Sessions : \A i, j \in DOMAIN lineage[u] :
    i < j /\ IsCredit(lineage[u][i], s) /\ IsCredit(lineage[u][j], s) => j - i > TxnCap

\* "Never trust a start", "never a guess": what is credited was started by that
\* user with that amount and is paid at the gateway.
CreditsAreVerified ==
  \A u \in Users : \A i \in DOMAIN lineage[u] : \A s \in Sessions :
    IsCredit(lineage[u][i], s) =>
      /\ gateway[s].status = "paid"
      /\ [session |-> s, user |-> u, amount |-> lineage[u][i].amount] \in started

\* An operation that fails does not hold up those chained behind it.
EveryRequestEnds == \A r \in Requests : pc[r] # "idle" ~> pc[r] = "idle"

\* FIELD_REVIEW_2026-09-05.md:44: after a crash mid-write "every wallet read
\* fails-closed", the wallet is "bricked until manual repair".
TornStaysTorn == [][\A u \in Users : file[u] = Torn => file'[u] = Torn]_vars
=============================================================================
