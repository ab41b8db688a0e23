-------------------------- MODULE PgWallet_proofs --------------------------
(***************************************************************************)
(* Proofs about PgWallet for every value of its constants: types, the      *)
(* inductive invariant Inv, and the safety properties it implies.          *)
(***************************************************************************)
EXTENDS PgWallet, TLAPS, SequenceTheorems

USE NoneIsNoRequest, PricesArePositive, PoolNotEmpty, MinTopupIsPositive,
    MaxEntriesIsNat, AmountsArePositive, KnownAdapters

-----------------------------------------------------------------------------
(* Appending the committed row.                                            *)

\* What Commit's Append does to the ledger: one new row at the end, the others
\* where they were.
LEMMA AppendFacts ==
  ASSUME NEW S, NEW q \in Seq(S), NEW e \in S
  PROVE  /\ Append(q, e) \in Seq(S)
         /\ Len(q) \in Nat
         /\ Len(Append(q, e)) = Len(q) + 1
         /\ DOMAIN Append(q, e) = DOMAIN q \cup {Len(q) + 1}
         /\ Len(q) + 1 \notin DOMAIN q
         /\ \A i \in DOMAIN q : Append(q, e)[i] = q[i]
         /\ Append(q, e)[Len(q) + 1] = e
  BY AppendProperties, LenProperties

-----------------------------------------------------------------------------
(* Types.                                                                  *)

\* A request that ends gives everything back, and nothing else changes.
LEMMA ReleaseTypes ==
  ASSUME TypeOK, NEW r \in Requests, Release(r)
  PROVE  /\ pc' \in [Requests -> Steps]
         /\ req' \in [Requests -> Request \cup {NoRequest}]
         /\ seen' \in [Requests -> Nat]
         /\ staged' \in [Requests -> Entry \cup {NoRow}]
         /\ rowLock' \in [Users -> Requests \cup {None}]
  BY DEF TypeOK, Release, Steps

\* A request that arrives leaves every variable in its type.
LEMMA SubmitTypes ==
  ASSUME TypeOK, NEW r \in Requests, NEW u \in Users, NEW s \in Sessions \cup {None},
         NEW op \in {"topupStart", "topupConfirm", "debit", "refund"}, NEW a \in Nat,
         Submit(r, op, u, s, a), GatewayTypeOK'
  PROVE  TypeOK'
<1>1. [op |-> op, user |-> u, ref |-> s, amount |-> a] \in Request
  BY DEF Request
<1>2. /\ pc' \in [Requests -> Steps]
      /\ req' \in [Requests -> Request \cup {NoRequest}]
  BY <1>1 DEF Submit, TypeOK, Steps
<1> QED BY <1>2 DEF Submit, TypeOK

\* So do the four kinds of arrival.
LEMMA ArrivalTypes ==
  ASSUME TypeOK, NEW r \in Requests, Arrival(r)
  PROVE  TypeOK'
<1> USE DEF GatewayTypeOK, Statuses, gatewayVars
<1>1. ASSUME NEW u \in Users, NEW s \in Sessions, NEW a \in Amounts, TopupStart(r, u, s, a)
      PROVE TypeOK'
  <2>1. GatewayTypeOK'
    BY <1>1 DEF TopupStart, CreatePaymentSession, PendingSession, TypeOK
  <2> QED BY <1>1, <2>1, SubmitTypes DEF TopupStart
<1>2. ASSUME NEW u \in Users, NEW s \in Sessions, TopupConfirm(r, u, s)
      PROVE TypeOK'
  <2>1. GatewayTypeOK'
    BY <1>2, ZenonT(30) DEF TopupConfirm, DevMarkPaid, TypeOK
  <2> QED BY <1>2, <2>1, SubmitTypes DEF TopupConfirm
<1>3. ASSUME NEW u \in Users, NEW a \in Prices, DebitRequest(r, u, a) \/ RefundRequest(r, u, a)
      PROVE TypeOK'
  <2>1. GatewayTypeOK'
    BY <1>3 DEF DebitRequest, RefundRequest, TypeOK
  <2> QED BY <1>3, <2>1, SubmitTypes DEF DebitRequest, RefundRequest
<1> QED BY <1>1, <1>2, <1>3 DEF Arrival

\* Every row a step stages is an Entry.
LEMMA StageTypes ==
  ASSUME TypeOK, NEW r \in Requests, NEW row \in Entry, NEW next \in Steps,
         Stage(r, row, next)
  PROVE  TypeOK'
  BY DEF TypeOK, Stage, GatewayTypeOK, gatewayVars

\* A transaction that ends without writes keeps the types.
LEMMA EndTypes ==
  ASSUME TypeOK, NEW r \in Requests, EndWithoutWrites(r)
  PROVE  TypeOK'
  BY ReleaseTypes DEF TypeOK, EndWithoutWrites, GatewayTypeOK, gatewayVars


\* What a start recorded: the amount of one of the session's rows.
LEMMA ExpectedType ==
  ASSUME NEW u, NEW s, entries \in Seq(Entry), TopupRows(u, s) # {}
  PROVE  /\ Expected(u, s) \in Nat
         /\ \E i \in TopupRows(u, s) : Expected(u, s) = entries[i].expected
<1> DEFINE i == CHOOSE k \in TopupRows(u, s) : TRUE
<1>1. i \in TopupRows(u, s)
  OBVIOUS
<1>2. i \in DOMAIN entries
  BY <1>1 DEF TopupRows
<1>3. entries[i] \in Entry
  BY <1>2
<1>4. Expected(u, s) = entries[i].expected
  BY DEF Expected
<1> QED BY <1>1, <1>3, <1>4 DEF Entry

\* Every statement of a transaction keeps the types; a balance stays a natural
\* number because a debit was checked against the balance it still finds.
LEMMA ProgressTypes ==
  ASSUME TypeOK, Inv, NEW r \in Requests, Progress(r)
  PROVE  TypeOK'
<1>0. /\ req[r] \in Request \/ pc[r] = "idle"
      /\ {"connect", "begin", "locked", "verify", "insert", "commit", "idle"} = Steps
  BY DEF Inv, StepsFollowChecks, Steps
<1>1. CASE Connect(r)
  BY <1>1, <1>0 DEF Connect, TypeOK, GatewayTypeOK, gatewayVars
<1>2. CASE LockAccount(r)
  <2>1. req[r].user \in Users /\ accounts[req[r].user] \in Nat
    BY <1>0, <1>2 DEF LockAccount, Request, TypeOK
  <2> QED BY <1>2, <1>0, <2>1 DEF LockAccount, TypeOK, GatewayTypeOK, gatewayVars
<1>3. CASE InsertIntent(r)
  BY <1>3, <1>0, StageTypes DEF InsertIntent, Entry, Request
<1>4. CASE ReadTopup(r)
  <2>1. CASE EndWithoutWrites(r)
    BY <2>1, EndTypes
  <2>2. CASE /\ pc' = [pc EXCEPT ![r] = "verify"]
             /\ UNCHANGED <<accounts, entries, rowLock, req, seen, staged, gatewayVars>>
    BY <2>2, <1>0 DEF TypeOK, GatewayTypeOK, gatewayVars
  <2> QED BY <1>4, <2>1, <2>2 DEF ReadTopup
<1>5. CASE Verify(r)
  <2> DEFINE expected == Expected(req[r].user, req[r].ref)
  <2>1. PICK reply \in VerifyReplies(req[r].ref, expected) :
           IF reply.valid /\ reply.amount = expected
           THEN Stage(r, [user |-> req[r].user, kind |-> "topup", amount |-> reply.amount,
                          ref |-> req[r].ref, expected |-> 0], "insert")
           ELSE EndWithoutWrites(r)
    BY <1>5 DEF Verify
  <2>2. req[r] \in Request /\ req[r].ref \in Sessions
    BY <1>0, <1>5 DEF Verify, Inv, StepsFollowChecks
  <2>3. expected \in Nat
    <3>1. TopupRows(req[r].user, req[r].ref) # {}
      BY <1>5 DEF Verify, Inv, NothingCreditedYet, Crediting
    <3> QED BY <3>1, ExpectedType DEF TypeOK
  <2>4. CASE reply.valid /\ reply.amount = expected
    BY <2>1, <2>2, <2>3, <2>4, <1>0, StageTypes DEF Entry, Request
  <2>5. CASE ~(reply.valid /\ reply.amount = expected)
    BY <2>1, <2>5, EndTypes
  <2> QED BY <2>4, <2>5
<1>6. CASE InsertCredit(r)
  <2>1. staged[r] \in Entry
    BY <1>6 DEF InsertCredit, Inv, StepsFollowChecks, Justifies
  <2> QED BY <1>6, <1>0, <2>1, StageTypes, EndTypes DEF InsertCredit
<1>7. CASE InsertDebit(r)
  <2>1. CASE EndWithoutWrites(r)
    BY <2>1, EndTypes
  <2>2. CASE Stage(r, [user |-> req[r].user, kind |-> "debit", amount |-> -req[r].amount,
                       ref |-> req[r].ref, expected |-> 0], "commit")
    <3>1. req[r] \in Request /\ -req[r].amount \in Int
      BY <1>7, <1>0 DEF InsertDebit, Request
    <3>2. [user |-> req[r].user, kind |-> "debit", amount |-> -req[r].amount,
           ref |-> req[r].ref, expected |-> 0] \in Entry
      BY <3>1 DEF Entry, Request
    <3> QED BY <2>2, <3>2, <1>0, StageTypes
  <2> QED BY <1>7, <2>1, <2>2 DEF InsertDebit
<1>8. CASE InsertRefund(r)
  <2>1. [user |-> req[r].user, kind |-> "refund", amount |-> req[r].amount,
         ref |-> req[r].ref, expected |-> 0] \in Entry
    BY <1>8, <1>0 DEF InsertRefund, Entry, Request
  <2> QED BY <1>8, <2>1, <1>0, StageTypes DEF InsertRefund
<1>9. CASE Commit(r)
  <2>1. staged[r] \in Entry /\ staged[r].user = req[r].user /\ Justifies(r, staged[r])
    BY <1>9 DEF Commit, Inv, StepsFollowChecks, Justifies
  <2>2. entries' \in Seq(Entry)
    BY <1>9, <2>1, AppendFacts DEF Commit, TypeOK
  <2>3. NewBalance(r) \in Nat
    <3>1. req[r] \in Request /\ (req[r].op # "topupStart" => seen[r] = accounts[req[r].user])
      BY <1>9, <1>0 DEF Commit, Inv, ReadsStayFresh, HoldsLock
    <3>2. accounts[staged[r].user] \in Nat /\ seen[r] \in Nat /\ req[r].amount \in Nat
      BY <2>1, <3>1 DEF TypeOK, Entry, Request
    <3>3. req[r].op = "debit" => staged[r].amount = -req[r].amount /\ seen[r] >= req[r].amount
      BY <2>1 DEF Justifies
    <3>4. req[r].op # "debit" => staged[r].amount \in Nat
      <4>1. staged[r].amount \in Int /\ req[r].op \in {"topupStart", "topupConfirm", "debit", "refund"}
        BY <2>1, <3>1 DEF Entry, Request
      <4> QED BY <2>1, <3>2, <4>1 DEF Justifies
    <3> QED BY <2>1, <3>1, <3>2, <3>3, <3>4 DEF NewBalance
  <2>4. accounts' \in [Users -> Nat]
    BY <1>9, <2>3 DEF Commit, TypeOK
  <2> QED BY <1>9, <2>2, <2>4, ReleaseTypes DEF Commit, TypeOK, GatewayTypeOK, gatewayVars
<1> QED BY <1>1, <1>2, <1>3, <1>4, <1>5, <1>6, <1>7, <1>8, <1>9 DEF Progress

\* Types are preserved by every step, given the inductive invariant.
LEMMA StepTypes == TypeOK /\ Inv /\ [Next]_vars => TypeOK'
<1> SUFFICES ASSUME TypeOK, Inv, [Next]_vars PROVE TypeOK'
  OBVIOUS
<1>1. CASE \E r \in Requests : Arrival(r) \/ Progress(r) \/ Abort(r)
  BY <1>1, ArrivalTypes, ProgressTypes, EndTypes DEF Abort
<1>2. CASE Payment
  <2>1. PICK s \in Sessions : UserPays(s) \/ SessionLapses(s)
    BY <1>2 DEF Payment
  <2>2. GatewayTypeOK'
    <3>1. CASE UserPays(s)
      BY <3>1 DEF UserPays, TypeOK, GatewayTypeOK, Statuses
    <3>2. CASE SessionLapses(s)
      <4>1. gateway[s] \in [status : Statuses, amount : Nat]
        BY DEF TypeOK, GatewayTypeOK
      <4>2. [gateway[s] EXCEPT !.status = "failed"] \in [status : Statuses, amount : Nat]
        BY <4>1 DEF Statuses
      <4> QED BY <3>2, <4>2 DEF SessionLapses, TypeOK, GatewayTypeOK
    <3> QED BY <2>1, <3>1, <3>2
  <2> QED BY <1>2, <2>2 DEF Payment, TypeOK
<1>3. CASE UNCHANGED vars
  BY <1>3 DEF vars, gatewayVars, TypeOK, GatewayTypeOK
<1> QED BY <1>1, <1>2, <1>3 DEF Next

-----------------------------------------------------------------------------
(* Inv is preserved.                                                       *)

\* A gateway never forgets a session, nor a payment.
GatewayRemembers ==
  \A s \in Sessions : /\ gateway[s].status = "paid" => gateway'[s].status = "paid"
                      /\ gateway[s].status # "unused" => gateway'[s].status # "unused"

\* What the gateway has settled or issued, it does not forget: the mock's
\* devMarkPaid.
LEMMA DevMarkPaidRemembers ==
  ASSUME TypeOK, NEW s \in Sessions, DevMarkPaid(s)
  PROVE  GatewayRemembers
  BY DEF TypeOK, GatewayTypeOK, DevMarkPaid, GatewayRemembers

\* Nor does a payer, or a session that lapses, undo a payment.
LEMMA PaymentRemembers ==
  ASSUME TypeOK, Payment
  PROVE  GatewayRemembers
<1>1. PICK s \in Sessions : UserPays(s) \/ SessionLapses(s)
  BY DEF Payment
<1>2. CASE UserPays(s)
  BY <1>2 DEF UserPays, GatewayRemembers, TypeOK, GatewayTypeOK
<1>3. CASE SessionLapses(s)
  BY <1>3 DEF SessionLapses, GatewayRemembers, TypeOK, GatewayTypeOK
<1> QED BY <1>1, <1>2, <1>3

\* What a request has in hand does not depend on other requests' steps, as long
\* as the ledger and the accounts stand still.
LEMMA JustifiesStays ==
  ASSUME TypeOK, NEW q \in Requests, NEW row, Justifies(q, row), GatewayRemembers,
         req[q] \in Request, req[q].op = "topupConfirm" => req[q].ref \in Sessions,
         req'[q] = req[q], seen'[q] = seen[q], UNCHANGED entries
  PROVE  Justifies(q, row)'
  BY DEF Justifies, GatewayRemembers, TopupRows

\* A start gets a session nobody has rows of: the invariant is kept.
LEMMA TopupStartInv ==
  ASSUME TypeOK, Inv, NEW r \in Requests, NEW u \in Users, NEW s \in Sessions,
         NEW a \in Amounts, TopupStart(r, u, s, a)
  PROVE  Inv'
<1>0. GatewayRemembers /\ gateway[s].status = "unused" /\ gateway'[s].status = "pending"
  BY DEF TopupStart, CreatePaymentSession, PendingSession, GatewayRemembers, TypeOK, GatewayTypeOK
<1>1. /\ pc[r] = "idle" /\ pc'[r] = "connect"
      /\ req'[r] = [op |-> "topupStart", user |-> u, ref |-> s, amount |-> a]
      /\ \A q \in Requests \ {r} : pc'[q] = pc[q] /\ req'[q] = req[q]
      /\ UNCHANGED <<accounts, entries, rowLock, seen, staged>>
  BY DEF TopupStart, Submit, TypeOK
<1>2. ReadsStayFresh'
  BY <1>1 DEF Inv, ReadsStayFresh, HoldsLock
<1>3. StepsFollowChecks'
  <2>1. a \in Nat /\ a > 0 /\ req'[r] \in Request
    <3>1. a \in Nat /\ a > 0
      BY AmountsArePositive
    <3> QED BY <1>1, <3>1 DEF Request
  <2>2. ASSUME NEW q \in Requests, q # r, pc[q] \in {"insert", "commit"}
        PROVE Justifies(q, staged[q])'
    BY <1>0, <1>1, <2>2, JustifiesStays DEF Inv, StepsFollowChecks
  <2> QED BY <1>1, <2>1, <2>2 DEF Inv, StepsFollowChecks
<1>4. NothingCreditedYet'
  BY <1>1 DEF Inv, NothingCreditedYet, Crediting, TopupRows
<1>5. SessionsHaveOneOwner'
  <2>1. /\ \A i \in DOMAIN entries : ~IsTopup(entries[i], s)
        /\ \A q \in Requests : ~Starting(q, s)
    BY <1>0 DEF Inv, SessionsHaveOneOwner
  <2>2. \A q \in Requests, t \in Sessions : Starting(q, t)' => Starting(q, t) \/ (q = r /\ t = s)
    BY <1>1 DEF Starting
  <2> QED BY <1>0, <1>1, <2>1, <2>2 DEF Inv, SessionsHaveOneOwner, GatewayRemembers
<1> QED BY <1>2, <1>3, <1>4, <1>5 DEF Inv

\* The other three arrivals start nothing at the gateway.
LEMMA SubmitInv ==
  ASSUME TypeOK, Inv, NEW r \in Requests, NEW u \in Users, NEW s \in Sessions \cup {None},
         NEW op \in {"topupConfirm", "debit", "refund"}, NEW a \in Nat,
         op = "topupConfirm" <=> s \in Sessions, op # "topupConfirm" => a \in Prices,
         Submit(r, op, u, s, a), GatewayRemembers
  PROVE  Inv'
<1>1. /\ pc[r] = "idle" /\ pc'[r] = "connect"
      /\ req'[r] = [op |-> op, user |-> u, ref |-> s, amount |-> a]
      /\ \A q \in Requests \ {r} : pc'[q] = pc[q] /\ req'[q] = req[q]
      /\ UNCHANGED <<accounts, entries, rowLock, seen, staged>>
  BY DEF Submit, TypeOK
<1>2. ReadsStayFresh'
  BY <1>1 DEF Inv, ReadsStayFresh, HoldsLock
<1>3. StepsFollowChecks'
  <2>1. req'[r] \in Request
    BY <1>1 DEF Request
  <2>2. ASSUME NEW q \in Requests, q # r, pc[q] \in {"insert", "commit"}
        PROVE Justifies(q, staged[q])'
    BY <1>1, <2>2, JustifiesStays DEF Inv, StepsFollowChecks
  <2> QED BY <1>1, <2>1, <2>2 DEF Inv, StepsFollowChecks
<1>4. NothingCreditedYet'
  BY <1>1 DEF Inv, NothingCreditedYet, Crediting, TopupRows
<1>5. SessionsHaveOneOwner'
  <2>1. \A q \in Requests, t \in Sessions : Starting(q, t)' => Starting(q, t)
    BY <1>1 DEF Starting
  <2> QED BY <1>1, <2>1 DEF Inv, SessionsHaveOneOwner, GatewayRemembers
<1> QED BY <1>2, <1>3, <1>4, <1>5 DEF Inv

\* Every arrival keeps the invariant.
LEMMA ArrivalInv ==
  ASSUME TypeOK, Inv, NEW r \in Requests, Arrival(r)
  PROVE  Inv'
<1>1. ASSUME NEW u \in Users, NEW s \in Sessions, TopupConfirm(r, u, s)
      PROVE Inv'
  BY <1>1, SubmitInv, DevMarkPaidRemembers DEF TopupConfirm
<1>2. ASSUME NEW u \in Users, NEW a \in Prices, DebitRequest(r, u, a) \/ RefundRequest(r, u, a)
      PROVE Inv'
  <2>1. GatewayRemembers
    BY <1>2 DEF DebitRequest, RefundRequest, gatewayVars, GatewayRemembers
  <2> QED BY <1>2, <2>1, SubmitInv DEF DebitRequest, RefundRequest
<1> QED BY <1>1, <1>2, TopupStartInv DEF Arrival

\* Ending without writes only takes r out of play.
LEMMA EndInv ==
  ASSUME TypeOK, Inv, NEW r \in Requests, EndWithoutWrites(r)
  PROVE  Inv'
<1>1. /\ pc'[r] = "idle"
      /\ \A q \in Requests \ {r} : /\ pc'[q] = pc[q] /\ req'[q] = req[q]
                                   /\ seen'[q] = seen[q] /\ staged'[q] = staged[q]
      /\ \A u \in Users : rowLock[u] # r => rowLock'[u] = rowLock[u]
      /\ UNCHANGED <<accounts, entries, gateway>>
  BY DEF EndWithoutWrites, Release, TypeOK, gatewayVars
<1>2. ReadsStayFresh'
  BY <1>1 DEF Inv, ReadsStayFresh, HoldsLock, StepsFollowChecks, Request
<1>3. StepsFollowChecks'
  <2>1. ASSUME NEW q \in Requests, q # r, pc[q] \in {"insert", "commit"}
        PROVE Justifies(q, staged[q])'
    BY <1>1, <2>1 DEF Inv, StepsFollowChecks, Justifies, TopupRows
  <2> QED BY <1>1, <2>1 DEF Inv, StepsFollowChecks
<1>4. NothingCreditedYet'
  BY <1>1 DEF Inv, NothingCreditedYet, Crediting, TopupRows
<1>5. SessionsHaveOneOwner'
  BY <1>1 DEF Inv, SessionsHaveOneOwner, Starting
<1> QED BY <1>2, <1>3, <1>4, <1>5 DEF Inv

\* Payers touch neither tables nor transactions: the invariant is kept.
LEMMA PaymentInv ==
  ASSUME TypeOK, Inv, Payment
  PROVE  Inv'
<1>1. GatewayRemembers /\ UNCHANGED <<accounts, entries, rowLock, pc, req, seen, staged>>
  BY PaymentRemembers DEF Payment
<1>2. ReadsStayFresh' /\ NothingCreditedYet'
  BY <1>1 DEF Inv, ReadsStayFresh, HoldsLock, NothingCreditedYet, Crediting, TopupRows
<1>3. StepsFollowChecks'
  <2>1. ASSUME NEW q \in Requests, pc[q] \in {"insert", "commit"}
        PROVE Justifies(q, staged[q])'
    BY <1>1, <2>1, JustifiesStays DEF Inv, StepsFollowChecks
  <2> QED BY <1>1, <2>1 DEF Inv, StepsFollowChecks
<1>4. SessionsHaveOneOwner'
  BY <1>1 DEF Inv, SessionsHaveOneOwner, Starting, GatewayRemembers
<1> QED BY <1>2, <1>3, <1>4 DEF Inv

\* Staging a row the checks justify, under the lock if the row moves money.
LEMMA StageInv ==
  ASSUME TypeOK, Inv, NEW r \in Requests, NEW row, NEW next \in {"insert", "commit"},
         Stage(r, row, next), Justifies(r, row), pc[r] # "idle",
         HoldsLock(r) \/ req[r].op = "topupStart",
         next = "insert" => req[r].op = "topupConfirm",
         req[r].op = "topupConfirm" => Crediting(r)
  PROVE  Inv'
<1>1. /\ pc'[r] = next /\ staged'[r] = row
      /\ \A q \in Requests \ {r} : pc'[q] = pc[q] /\ staged'[q] = staged[q]
      /\ UNCHANGED <<accounts, entries, rowLock, req, seen, gateway>>
  BY DEF Stage, TypeOK, gatewayVars
<1>2. ReadsStayFresh'
  BY <1>1 DEF Inv, ReadsStayFresh, HoldsLock
<1>3. StepsFollowChecks'
  <2>1. Justifies(r, row)'
    BY <1>1 DEF Justifies, TopupRows
  <2>2. ASSUME NEW q \in Requests, q # r, pc[q] \in {"insert", "commit"}
        PROVE Justifies(q, staged[q])'
    BY <1>1, <2>2 DEF Inv, StepsFollowChecks, Justifies, TopupRows
  <2> QED BY <1>1, <2>1, <2>2 DEF Inv, StepsFollowChecks
<1>4. NothingCreditedYet'
  BY <1>1 DEF Inv, NothingCreditedYet, Crediting, TopupRows
<1>5. SessionsHaveOneOwner'
  BY <1>1 DEF Inv, SessionsHaveOneOwner, Starting
<1> QED BY <1>2, <1>3, <1>4, <1>5 DEF Inv

\* A connection, the row lock and the read of the top-up's rows: r moves on,
\* the tables and the other requests stand still.
LEMMA MoveInv ==
  ASSUME TypeOK, Inv, NEW r \in Requests,
         Connect(r) \/ LockAccount(r) \/ (ReadTopup(r) /\ pc'[r] = "verify")
  PROVE  Inv'
<1>1. /\ pc[r] # "idle" /\ pc'[r] \in {"begin", "locked", "verify"}
      /\ \A q \in Requests \ {r} : pc'[q] = pc[q] /\ seen'[q] = seen[q]
      /\ UNCHANGED <<accounts, entries, req, staged, gateway>>
      /\ \A q \in Requests \ {r} : HoldsLock(q) => rowLock'[req[q].user] = rowLock[req[q].user]
  <2>1. CASE Connect(r)
    BY <2>1 DEF Connect, TypeOK, gatewayVars
  <2>2. CASE LockAccount(r)
    BY <2>2 DEF LockAccount, TypeOK, gatewayVars, Inv, ReadsStayFresh
  <2>3. CASE ReadTopup(r) /\ pc'[r] = "verify"
    BY <2>3 DEF ReadTopup, TypeOK, gatewayVars, EndWithoutWrites, Release
  <2> QED BY <2>1, <2>2, <2>3
<1>2. HoldsLock(r)' => rowLock'[req[r].user] = r /\ seen'[r] = accounts[req[r].user]
  <2>1. req[r].user \in Users
    BY <1>1 DEF Inv, StepsFollowChecks, Request
  <2>2. CASE Connect(r)
    BY <2>2, <1>1 DEF Connect, HoldsLock, TypeOK
  <2>3. CASE LockAccount(r)
    BY <2>1, <2>3 DEF LockAccount, TypeOK
  <2>4. CASE ReadTopup(r) /\ pc'[r] = "verify"
    BY <2>4 DEF ReadTopup, EndWithoutWrites, Release, Inv, ReadsStayFresh, HoldsLock, TypeOK
  <2> QED BY <2>2, <2>3, <2>4
<1>3. ReadsStayFresh'
  BY <1>1, <1>2 DEF Inv, ReadsStayFresh, HoldsLock
<1>4. StepsFollowChecks'
  <2>1. /\ pc'[r] = "locked" => req[r].op # "topupStart"
        /\ pc'[r] = "verify" => req[r].op = "topupConfirm"
    BY <1>1 DEF Connect, LockAccount, ReadTopup, TypeOK
  <2>2. ASSUME NEW q \in Requests, q # r, pc[q] \in {"insert", "commit"}
        PROVE Justifies(q, staged[q])'
    BY <1>1, <2>2 DEF Inv, StepsFollowChecks, Justifies, TopupRows
  <2> QED BY <1>1, <2>1, <2>2 DEF Inv, StepsFollowChecks
<1>5. NothingCreditedYet'
  <2>1. pc'[r] = "verify" => /\ TopupRows(req[r].user, req[r].ref) # {}
                             /\ ~AlreadyCredited(req[r].user, req[r].ref)
                             /\ req[r].ref \in Sessions
    <3>1. CASE Connect(r)
      BY <3>1 DEF Connect, TypeOK
    <3>2. CASE LockAccount(r)
      BY <3>2 DEF LockAccount, TypeOK
    <3>3. CASE ReadTopup(r) /\ pc'[r] = "verify"
      BY <3>3 DEF ReadTopup, EndWithoutWrites, Release, TypeOK, Inv, StepsFollowChecks
    <3> QED BY <3>1, <3>2, <3>3
  <2>2. pc'[r] = "verify" => \A i \in DOMAIN entries : ~IsCredit(entries[i], req[r].ref)
    BY <2>1 DEF AlreadyCredited, TopupRows, IsCredit, Inv, SessionsHaveOneOwner
  <2> QED BY <1>1, <2>1, <2>2 DEF Inv, NothingCreditedYet, Crediting, TopupRows
<1>6. SessionsHaveOneOwner'
  BY <1>1 DEF Inv, SessionsHaveOneOwner, Starting
<1> QED BY <1>3, <1>4, <1>5, <1>6 DEF Inv

\* What a commit writes: one new row, the row that was staged.
LEMMA CommitFacts ==
  ASSUME TypeOK, Inv, NEW r \in Requests, Commit(r)
  PROVE  LET n == Len(entries) + 1
         IN  /\ entries' = Append(entries, staged[r])
             /\ n \notin DOMAIN entries /\ DOMAIN entries' = DOMAIN entries \cup {n}
             /\ Len(entries') = n
             /\ \A i \in DOMAIN entries : entries'[i] = entries[i]
             /\ entries'[n] = staged[r]
             /\ pc[r] = "commit" /\ pc'[r] = "idle"
             /\ Justifies(r, staged[r]) /\ req[r] \in Request /\ staged[r] \in Entry
             /\ staged[r].user = req[r].user /\ staged[r].ref = req[r].ref
             /\ \A q \in Requests \ {r} : /\ pc'[q] = pc[q] /\ req'[q] = req[q]
                                          /\ seen'[q] = seen[q] /\ staged'[q] = staged[q]
             /\ \A u \in Users : rowLock[u] # r => rowLock'[u] = rowLock[u]
             /\ UNCHANGED gateway
<1>1. /\ pc[r] = "commit" /\ entries' = Append(entries, staged[r]) /\ Release(r)
      /\ UNCHANGED gateway
  BY DEF Commit, gatewayVars
<1>2. /\ Justifies(r, staged[r]) /\ req[r] \in Request
  BY <1>1 DEF Inv, StepsFollowChecks
<1>3. /\ staged[r] \in Entry /\ staged[r].user = req[r].user /\ staged[r].ref = req[r].ref
  BY <1>2 DEF Justifies
<1>4. /\ Len(entries) + 1 \notin DOMAIN entries
      /\ DOMAIN entries' = DOMAIN entries \cup {Len(entries) + 1}
      /\ Len(entries') = Len(entries) + 1
      /\ \A i \in DOMAIN entries : entries'[i] = entries[i]
      /\ entries'[Len(entries) + 1] = staged[r]
  BY <1>1, <1>3, AppendFacts DEF TypeOK
<1>5. /\ pc'[r] = "idle"
      /\ \A q \in Requests \ {r} : /\ pc'[q] = pc[q] /\ req'[q] = req[q]
                                   /\ seen'[q] = seen[q] /\ staged'[q] = staged[q]
      /\ \A u \in Users : rowLock[u] # r => rowLock'[u] = rowLock[u]
  BY <1>1 DEF Release, TypeOK
<1> QED BY <1>1, <1>2, <1>3, <1>4, <1>5

\* A balance moves by exactly the committed row: the read it may be computed
\* from is still the account's.
LEMMA CommitMovesBalance ==
  ASSUME TypeOK, Inv, NEW r \in Requests, Commit(r)
  PROVE  accounts' = [accounts EXCEPT ![staged[r].user] = @ + staged[r].amount]
<1>1. req[r].op = "topupConfirm" => seen[r] = accounts[staged[r].user]
  <2>1. pc[r] = "commit" /\ staged[r].user = req[r].user
    BY CommitFacts
  <2> QED BY <2>1 DEF Inv, ReadsStayFresh, HoldsLock
<1>2. NewBalance(r) = accounts[staged[r].user] + staged[r].amount
  BY <1>1 DEF NewBalance
<1> QED BY <1>2 DEF Commit

\* A commit keeps the invariant: whoever else relies on the account's balance or
\* on the session's rows would have to hold the lock the committer holds.
LEMMA CommitInv ==
  ASSUME TypeOK, Inv, NEW r \in Requests, Commit(r)
  PROVE  Inv'
<1> DEFINE n == Len(entries) + 1
           e == staged[r]
<1>1. req[r].op = "topupConfirm" => /\ req[r].ref \in Sessions
                                    /\ HoldsLock(r) /\ rowLock[req[r].user] = r
                                    /\ TopupRows(req[r].user, req[r].ref) # {}
                                    /\ gateway[req[r].ref].status = "paid"
                                    /\ e.amount > 0
  BY CommitFacts DEF Inv, ReadsStayFresh, HoldsLock, NothingCreditedYet, Crediting, Justifies,
                     StepsFollowChecks
<1>2. ASSUME NEW s \in Sessions, IsTopup(e, s)
      PROVE  /\ req[r].ref = s
             /\ \/ req[r].op = "topupConfirm"
                \/ Starting(r, s) /\ e.amount = 0 /\ e.expected > 0
  BY <1>2, CommitFacts DEF IsTopup, Justifies, Request, Starting, Inv, StepsFollowChecks
<1>3. ReadsStayFresh'
  <2> SUFFICES ASSUME NEW q \in Requests, HoldsLock(q)'
               PROVE  rowLock'[req'[q].user] = q /\ seen'[q] = accounts'[req'[q].user]
    BY DEF ReadsStayFresh
  <2>1. q # r /\ HoldsLock(q)
    BY CommitFacts DEF HoldsLock
  <2>2. /\ rowLock[req[q].user] = q /\ seen[q] = accounts[req[q].user]
        /\ req[q] \in Request /\ req[q].user \in Users
    BY <2>1 DEF Inv, ReadsStayFresh, StepsFollowChecks, HoldsLock, Request
  <2>3. req[q].user = req[r].user => accounts'[req[q].user] = accounts[req[q].user]
    <3>1. HoldsLock(r) => req[q].user # req[r].user
      BY <2>1, <2>2 DEF Inv, ReadsStayFresh
    <3>2. ~HoldsLock(r) => e.amount = 0
      BY CommitFacts DEF HoldsLock, Justifies
    <3>3. accounts[req[q].user] \in Nat
      BY <2>2 DEF TypeOK
    <3>4. req[q].user = req[r].user => accounts'[req[q].user] = accounts[req[q].user] + e.amount
      <4>1. e.user = req[r].user
        BY CommitFacts
      <4> QED BY <2>2, <4>1, CommitMovesBalance DEF TypeOK
    <3> QED BY <3>1, <3>2, <3>3, <3>4
  <2>4. accounts'[req[q].user] = accounts[req[q].user]
    <3>1. e.user = req[r].user
      BY CommitFacts
    <3> QED BY <2>2, <2>3, <3>1, CommitMovesBalance DEF TypeOK
  <2> QED BY <2>1, <2>2, <2>4, CommitFacts
<1>4. StepsFollowChecks'
  <2>1. ASSUME NEW q \in Requests, q # r, pc[q] \in {"insert", "commit"}
        PROVE Justifies(q, staged[q])'
    <3>1. Justifies(q, staged[q])
      BY <2>1 DEF Inv, StepsFollowChecks
    <3> QED BY <2>1, <3>1, CommitFacts DEF Justifies, TopupRows
  <2> QED BY <2>1, CommitFacts DEF Inv, StepsFollowChecks
<1>5. NothingCreditedYet'
  <2> SUFFICES ASSUME NEW q \in Requests, Crediting(q)'
               PROVE  /\ TopupRows(req[q].user, req[q].ref)' # {}
                      /\ \A i \in DOMAIN entries' : ~IsCredit(entries'[i], req[q].ref)
                      /\ req'[q] = req[q]
    BY DEF NothingCreditedYet, IsCredit, IsTopup
  <2>1. q # r /\ Crediting(q) /\ req'[q] = req[q]
    BY CommitFacts DEF Crediting
  <2>2. /\ TopupRows(req[q].user, req[q].ref) # {}
        /\ \A i \in DOMAIN entries : ~IsCredit(entries[i], req[q].ref)
        /\ req[q].ref \in Sessions
    BY <2>1 DEF Inv, NothingCreditedYet, StepsFollowChecks, Crediting
  <2>3. ~IsCredit(e, req[q].ref)
    <3> SUFFICES ASSUME IsCredit(e, req[q].ref) PROVE FALSE
      OBVIOUS
    <3>1. req[r].op = "topupConfirm" /\ req[r].ref = req[q].ref
      BY <1>2, <2>2 DEF IsCredit
    <3>2. req[q].user = req[r].user
      BY <1>1, <2>2, <3>1 DEF TopupRows, Inv, SessionsHaveOneOwner
    <3>3. rowLock[req[q].user] = q
      BY <2>1 DEF Inv, ReadsStayFresh, HoldsLock, Crediting
    <3> QED BY <1>1, <2>1, <3>1, <3>2, <3>3
  <2>4. TopupRows(req[q].user, req[q].ref)' # {}
    BY <2>1, <2>2, CommitFacts DEF TopupRows, IsTopup
  <2> QED BY <2>1, <2>2, <2>3, <2>4, CommitFacts
<1>6. SessionsHaveOneOwner'
  <2> SUFFICES ASSUME NEW s \in Sessions
               PROVE  /\ \A i, j \in DOMAIN entries' :
                           IsTopup(entries'[i], s) /\ IsTopup(entries'[j], s)
                             => entries'[i].user = entries'[j].user
                      /\ \A i \in DOMAIN entries' : IsTopup(entries'[i], s) =>
                           /\ gateway'[s].status # "unused"
                           /\ entries'[i].amount = 0 => entries'[i].expected > 0
                           /\ entries'[i].amount >= 0
                      /\ \A q \in Requests : Starting(q, s)' =>
                           /\ gateway'[s].status # "unused"
                           /\ \A i \in DOMAIN entries' : ~IsTopup(entries'[i], s)
                           /\ \A p \in Requests : Starting(p, s)' => p = q
    BY DEF SessionsHaveOneOwner, IsTopup
  <2>1. ASSUME NEW i \in DOMAIN entries, IsTopup(e, s), IsTopup(entries[i], s)
        PROVE entries[i].user = e.user
    BY <1>1, <1>2, <2>1, CommitFacts DEF Inv, SessionsHaveOneOwner, TopupRows
  <2>2. IsTopup(e, s) => /\ gateway[s].status # "unused"
                         /\ e.amount = 0 => e.expected > 0
                         /\ e.amount >= 0
    <3>1. e.amount \in Int
      BY CommitFacts DEF Entry
    <3>2. Starting(r, s) => gateway[s].status # "unused"
      BY DEF Inv, SessionsHaveOneOwner
    <3> QED BY <1>1, <1>2, <3>1, <3>2
  <2>3. ASSUME NEW q \in Requests, Starting(q, s)'
        PROVE  q # r /\ Starting(q, s) /\ ~IsTopup(e, s)
    <3>1. q # r /\ Starting(q, s)
      BY <2>3, CommitFacts DEF Starting
    <3>2. ~Starting(r, s) /\ \A i \in DOMAIN entries : ~IsTopup(entries[i], s)
      BY <3>1 DEF Inv, SessionsHaveOneOwner
    <3> QED BY <1>1, <1>2, <3>1, <3>2 DEF TopupRows
  <2> QED BY <2>1, <2>2, <2>3, CommitFacts DEF Inv, SessionsHaveOneOwner
<1> QED BY <1>3, <1>4, <1>5, <1>6 DEF Inv

\* Every statement of a transaction keeps the invariant.
LEMMA ProgressInv ==
  ASSUME TypeOK, Inv, NEW r \in Requests, Progress(r)
  PROVE  Inv'
<1>0. /\ pc[r] # "idle" => req[r] \in Request
      /\ req[r].op \in {"topupStart", "topupConfirm"} /\ pc[r] # "idle" => req[r].ref \in Sessions
  BY DEF Inv, StepsFollowChecks
<1>1. CASE Connect(r) \/ LockAccount(r)
  BY <1>1, MoveInv
<1>2. CASE InsertIntent(r)
  <2> DEFINE row == [user |-> req[r].user, kind |-> "topup", amount |-> 0,
                     ref |-> req[r].ref, expected |-> req[r].amount]
  <2>1. Stage(r, row, "commit") /\ pc[r] = "begin" /\ req[r].op = "topupStart"
    BY <1>2 DEF InsertIntent
  <2>2. Justifies(r, row)
    BY <1>0, <2>1 DEF Justifies, Entry, Request
  <2> QED BY <2>1, <2>2, StageInv
<1>3. CASE ReadTopup(r)
  <2>1. EndWithoutWrites(r) \/ pc'[r] = "verify"
    BY <1>3 DEF ReadTopup, TypeOK
  <2> QED BY <1>3, <2>1, EndInv, MoveInv
<1>4. CASE Verify(r)
  <2> DEFINE u == req[r].user
             s == req[r].ref
             row(a) == [user |-> u, kind |-> "topup", amount |-> a, ref |-> s, expected |-> 0]
  <2>1. PICK reply \in VerifyReplies(s, Expected(u, s)) :
           IF reply.valid /\ reply.amount = Expected(u, s)
           THEN Stage(r, row(reply.amount), "insert")
           ELSE EndWithoutWrites(r)
    BY <1>4 DEF Verify
  <2>2. /\ pc[r] = "verify" /\ req[r].op = "topupConfirm" /\ s \in Sessions /\ req[r] \in Request
        /\ TopupRows(u, s) # {} /\ \A i \in DOMAIN entries : ~IsCredit(entries[i], s)
    BY <1>4, <1>0 DEF Verify, Inv, StepsFollowChecks, NothingCreditedYet, Crediting
  <2>3. CASE reply.valid /\ reply.amount = Expected(u, s)
    <3>1. gateway[s].status = "paid"
      BY <2>1, <2>3 DEF VerifyReplies, ZarinpalReplies, MockReplies
    <3>2. PICK i \in TopupRows(u, s) : Expected(u, s) = entries[i].expected
      <4>1. entries \in Seq(Entry) /\ TopupRows(u, s) # {}
        BY <2>2 DEF TypeOK
      <4> HIDE DEF u, s
      <4> QED BY <4>1, ExpectedType
    <3>3. i \in DOMAIN entries /\ IsTopup(entries[i], s) /\ entries[i] \in Entry
      BY <3>2 DEF TopupRows, TypeOK
    <3>4. entries[i].amount = 0 /\ entries[i].expected > 0 /\ entries[i].expected \in Nat
      BY <2>2, <3>3 DEF Inv, SessionsHaveOneOwner, IsCredit, Entry
    <3>5. row(reply.amount) \in Entry
      BY <2>2, <2>3, <3>2, <3>4 DEF Entry, Request
    <3>6. Justifies(r, row(reply.amount))
      BY <2>2, <2>3, <3>1, <3>2, <3>4, <3>5 DEF Justifies
    <3> QED BY <2>1, <2>2, <2>3, <3>6, StageInv DEF HoldsLock, Crediting
  <2>4. CASE ~(reply.valid /\ reply.amount = Expected(u, s))
    BY <2>1, <2>4, EndInv
  <2> QED BY <2>3, <2>4
<1>5. CASE InsertCredit(r)
  <2>1. pc[r] = "insert" /\ Justifies(r, staged[r]) /\ req[r].op = "topupConfirm"
    BY <1>5 DEF InsertCredit, Inv, StepsFollowChecks
  <2> QED BY <1>5, <2>1, StageInv, EndInv DEF InsertCredit, HoldsLock, Crediting
<1>6. CASE InsertDebit(r)
  <2> DEFINE row == [user |-> req[r].user, kind |-> "debit", amount |-> -req[r].amount,
                     ref |-> req[r].ref, expected |-> 0]
  <2>1. CASE seen[r] < req[r].amount
    BY <1>6, <2>1, EndInv DEF InsertDebit
  <2>2. CASE ~(seen[r] < req[r].amount)
    <3>1. Stage(r, row, "commit") /\ pc[r] = "locked" /\ req[r].op = "debit"
      BY <1>6, <2>2 DEF InsertDebit
    <3>2. req[r] \in Request /\ req[r].amount \in Nat /\ seen[r] \in Nat
      BY <1>0, <3>1 DEF Request, TypeOK
    <3>3. row \in Entry
      <4>1. -req[r].amount \in Int
        BY <3>2
      <4> QED BY <3>2, <4>1 DEF Entry, Request
    <3>4. seen[r] >= req[r].amount
      BY <2>2, <3>2
    <3>5. Justifies(r, row)
      BY <3>1, <3>3, <3>4 DEF Justifies
    <3> QED BY <3>1, <3>5, StageInv DEF HoldsLock
  <2> QED BY <2>1, <2>2
<1>7. CASE InsertRefund(r)
  <2> DEFINE row == [user |-> req[r].user, kind |-> "refund", amount |-> req[r].amount,
                     ref |-> req[r].ref, expected |-> 0]
  <2>1. Stage(r, row, "commit") /\ pc[r] = "locked" /\ req[r].op = "refund"
    BY <1>7 DEF InsertRefund
  <2>2. row \in Entry
    BY <1>0, <2>1 DEF Entry, Request
  <2>3. Justifies(r, row)
    BY <2>1, <2>2 DEF Justifies
  <2> QED BY <2>1, <2>3, StageInv DEF HoldsLock
<1>8. CASE Commit(r)
  BY <1>8, CommitInv
<1> QED BY <1>1, <1>2, <1>3, <1>4, <1>5, <1>6, <1>7, <1>8 DEF Progress

\* The invariant is inductive.
LEMMA StepInv == TypeOK /\ Inv /\ [Next]_vars => Inv'
<1> SUFFICES ASSUME TypeOK, Inv, [Next]_vars PROVE Inv'
  OBVIOUS
<1>1. CASE \E r \in Requests : Arrival(r) \/ Progress(r) \/ Abort(r)
  BY <1>1, ArrivalInv, ProgressInv, EndInv DEF Abort
<1>2. CASE Payment
  BY <1>2, PaymentInv
<1>3. CASE UNCHANGED vars
  <2>1. ReadsStayFresh' /\ NothingCreditedYet'
    BY <1>3 DEF vars, gatewayVars, Inv, ReadsStayFresh, HoldsLock, NothingCreditedYet, Crediting,
                TopupRows
  <2>2. StepsFollowChecks' /\ SessionsHaveOneOwner'
    BY <1>3 DEF vars, gatewayVars, Inv, StepsFollowChecks, Justifies, TopupRows,
                SessionsHaveOneOwner, Starting
  <2> QED BY <2>1, <2>2 DEF Inv
<1> QED BY <1>1, <1>2, <1>3 DEF Next

\* It holds at the start.
LEMMA InitInv == Init => TypeOK /\ Inv
<1> SUFFICES ASSUME Init PROVE TypeOK /\ Inv
  OBVIOUS
<1>1. TypeOK
  BY DEF Init, GatewayInit, TypeOK, GatewayTypeOK, Statuses, Steps
<1>2. Inv
  BY DEF Init, GatewayInit, Inv, ReadsStayFresh, HoldsLock, StepsFollowChecks,
         NothingCreditedYet, Crediting, SessionsHaveOneOwner, Starting
<1> QED BY <1>1, <1>2

\* Every step but a commit leaves the accounts and the ledger alone.
LEMMA OnlyCommitWrites ==
  ASSUME [Next]_vars, ~UNCHANGED <<accounts, entries>>
  PROVE  \E r \in Requests : Commit(r)
<1>1. ASSUME NEW r \in Requests, Arrival(r) \/ Abort(r) \/ (Progress(r) /\ ~Commit(r))
      PROVE  UNCHANGED <<accounts, entries>>
  <2>1. CASE Arrival(r)
    BY <2>1 DEF Arrival, TopupStart, TopupConfirm, DebitRequest, RefundRequest, Submit
  <2>2. CASE Abort(r)
    BY <2>2 DEF Abort, EndWithoutWrites
  <2>3. CASE Progress(r) /\ ~Commit(r)
    BY <2>3 DEF Progress, Connect, LockAccount, InsertIntent, ReadTopup, Verify, InsertCredit,
                InsertDebit, InsertRefund, Stage, EndWithoutWrites
  <2> QED BY <1>1, <2>1, <2>2, <2>3
<1>2. Payment \/ UNCHANGED vars => UNCHANGED <<accounts, entries>>
  BY DEF Payment, vars
<1> QED BY <1>1, <1>2 DEF Next

-----------------------------------------------------------------------------
(* The theorems.                                                           *)

\* The wallet's state stays well typed; in particular no balance ever goes
\* below zero, for any number of users, replicas and connections.
THEOREM TypeCorrect == Spec => []TypeOK
<1>1. Init => TypeOK /\ Inv
  BY InitInv
<1>2. TypeOK /\ Inv /\ [Next]_vars => (TypeOK /\ Inv)'
  BY StepTypes, StepInv
<1> QED BY <1>1, <1>2, PTL DEF Spec

\* The row lock and the session ids do give every transaction what its checks
\* rely on.
THEOREM LocksSuffice == Spec => []Inv
<1>1. Init => TypeOK /\ Inv
  BY InitInv
<1>2. TypeOK /\ Inv /\ [Next]_vars => (TypeOK /\ Inv)'
  BY StepTypes, StepInv
<1> QED BY <1>1, <1>2, PTL DEF Spec

\* topupConfirm is idempotent by its row lock alone: the unique index of
\* migration 009 is never reached by a second credit.
THEOREM ConfirmIsIdempotent == Spec => []IndexNeverHit
<1>1. Inv => IndexNeverHit
  <2> SUFFICES ASSUME Inv, NEW r \in Requests, pc[r] = "insert"
               PROVE  ~BreaksTopupIndex(staged[r])
    BY DEF IndexNeverHit
  <2>1. staged[r].ref = req[r].ref
    BY DEF Inv, StepsFollowChecks, Justifies
  <2> QED BY <2>1 DEF Inv, NothingCreditedYet, Crediting, BreaksTopupIndex
<1> QED BY <1>1, LocksSuffice, PTL

\* Every change of a balance is one appended ledger row of that user and that
\* amount: no lost update between a confirm's absolute write and the relative
\* writes of debit and refund.
THEOREM LedgerIsTheBalance == Spec => BalanceFollowsLedger
<1> DEFINE Follows ==
      \/ UNCHANGED <<accounts, entries>>
      \/ /\ Len(entries') = Len(entries) + 1
         /\ LET e == entries'[Len(entries) + 1]
            IN  /\ entries' = Append(entries, e)
                /\ accounts' = [accounts EXCEPT ![e.user] = @ + e.amount]
<1>1. TypeOK /\ Inv /\ [Next]_vars => [Follows]_vars
  <2> SUFFICES ASSUME TypeOK, Inv, Next PROVE Follows
    OBVIOUS
  <2>1. ASSUME NEW r \in Requests, Commit(r)
        PROVE  Follows
    BY <2>1, CommitFacts, CommitMovesBalance
  <2> QED BY <2>1, OnlyCommitWrites
<1> QED BY <1>1, TypeCorrect, LocksSuffice, PTL DEF BalanceFollowsLedger, Spec, Follows

\* No step at all makes the gateway forget a payment.
LEMMA StepRemembers ==
  ASSUME TypeOK, [Next]_vars
  PROVE  GatewayRemembers
<1>1. ASSUME NEW r \in Requests, Arrival(r)
      PROVE  GatewayRemembers
  <2>1. ASSUME NEW u \in Users, NEW s \in Sessions, NEW a \in Amounts, TopupStart(r, u, s, a)
        PROVE  GatewayRemembers
    BY <2>1 DEF TopupStart, CreatePaymentSession, PendingSession, GatewayRemembers, TypeOK, GatewayTypeOK
  <2>2. ASSUME NEW u \in Users, NEW s \in Sessions, TopupConfirm(r, u, s)
        PROVE  GatewayRemembers
    BY <2>2, DevMarkPaidRemembers DEF TopupConfirm
  <2>3. ASSUME NEW u \in Users, NEW a \in Prices, DebitRequest(r, u, a) \/ RefundRequest(r, u, a)
        PROVE  GatewayRemembers
    BY <2>3 DEF DebitRequest, RefundRequest, gatewayVars, GatewayRemembers
  <2> QED BY <1>1, <2>1, <2>2, <2>3 DEF Arrival
<1>2. ASSUME NEW r \in Requests, Progress(r) \/ Abort(r)
      PROVE  GatewayRemembers
  BY <1>2 DEF Progress, Abort, Connect, LockAccount, InsertIntent, ReadTopup, Verify, InsertCredit,
              InsertDebit, InsertRefund, Commit, Stage, EndWithoutWrites, gatewayVars,
              GatewayRemembers
<1>3. UNCHANGED vars => GatewayRemembers
  BY DEF vars, gatewayVars, GatewayRemembers
<1> QED BY <1>1, <1>2, <1>3, PaymentRemembers DEF Next

\* Every step keeps credits verified: only a confirm's commit adds one, with the
\* row its checks justify.
LEMMA StepCredits ==
  ASSUME TypeOK, Inv, CreditsAreVerified, [Next]_vars
  PROVE  CreditsAreVerified'
<1>0. GatewayRemembers
  BY StepRemembers
<1>1. CASE UNCHANGED <<accounts, entries>>
  BY <1>0, <1>1 DEF CreditsAreVerified, GatewayRemembers, TopupRows
<1>2. ASSUME NEW r \in Requests, Commit(r)
      PROVE  CreditsAreVerified'
  <2> DEFINE n == Len(entries) + 1
             e == staged[r]
  <2>0. /\ DOMAIN entries' = DOMAIN entries \cup {n} /\ n \notin DOMAIN entries
        /\ \A i \in DOMAIN entries : entries'[i] = entries[i]
        /\ entries'[n] = e
    BY <1>2, CommitFacts
  <2>1. ASSUME NEW s \in Sessions, IsCredit(e, s)
        PROVE  /\ gateway[s].status = "paid"
               /\ \E k \in TopupRows(e.user, s) :
                    entries[k].amount = 0 /\ entries[k].expected = e.amount
               /\ \A j \in DOMAIN entries : ~IsCredit(entries[j], s)
    <3>1. /\ pc[r] = "commit" /\ req[r] \in Request /\ Justifies(r, e) /\ e \in Entry
          /\ req[r].ref = s /\ e.user = req[r].user /\ e.kind = "topup"
      BY <1>2, <2>1, CommitFacts DEF IsCredit, IsTopup
    <3>2. req[r].op = "topupConfirm"
      <4>1. e.amount # 0
        BY <2>1 DEF IsCredit
      <4> QED BY <3>1, <4>1 DEF Justifies, Request
    <3> QED BY <3>1, <3>2 DEF Justifies, Inv, NothingCreditedYet, Crediting
  <2>2. ASSUME NEW i \in DOMAIN entries, NEW s \in Sessions, IsCredit(entries[i], s)
        PROVE  /\ gateway[s].status = "paid"
               /\ \E k \in TopupRows(entries[i].user, s) :
                    entries[k].amount = 0 /\ entries[k].expected = entries[i].amount
               /\ \A j \in DOMAIN entries : IsCredit(entries[j], s) => j = i
               /\ ~IsCredit(e, s)
    BY <2>1, <2>2 DEF CreditsAreVerified
  <2>3. \A u, s : TopupRows(u, s) \subseteq TopupRows(u, s)'
    BY <2>0 DEF TopupRows
  <2>4. \A u, s : \A k \in TopupRows(u, s) : entries'[k] = entries[k]
    BY <2>0 DEF TopupRows
  <2> SUFFICES ASSUME NEW i \in DOMAIN entries', NEW s \in Sessions, IsCredit(entries'[i], s)
               PROVE  /\ gateway'[s].status = "paid"
                      /\ \E k \in TopupRows(entries[i].user, s)' :
                           entries'[k].amount = 0 /\ entries'[k].expected = entries'[i].amount
                      /\ \A j \in DOMAIN entries' : IsCredit(entries'[j], s) => j = i
    BY DEF CreditsAreVerified, IsCredit, IsTopup, TopupRows
  <2>5. CASE i = n
    BY <1>0, <2>0, <2>1, <2>3, <2>4, <2>5 DEF GatewayRemembers
  <2>6. CASE i \in DOMAIN entries
    BY <1>0, <2>0, <2>2, <2>3, <2>4, <2>6 DEF GatewayRemembers
  <2> QED BY <2>0, <2>5, <2>6
<1> QED BY <1>1, <1>2, OnlyCommitWrites

\* "Verification is the only credit source": a credited session was paid at the
\* gateway, belongs to the credited user, carries the recorded amount and is
\* credited once.
THEOREM CreditsVerified == Spec => []CreditsAreVerified
<1>1. Init => CreditsAreVerified
  BY DEF Init, CreditsAreVerified
<1>2. TypeOK /\ Inv /\ CreditsAreVerified /\ [Next]_vars => CreditsAreVerified'
  BY StepCredits
<1> QED BY <1>1, <1>2, TypeCorrect, LocksSuffice, PTL DEF Spec

-----------------------------------------------------------------------------
(* The ledger implements the wallet's promise.                             *)

\* The empty ledger is the abstract wallet's initial state.
LEMMA InitImplements == Init => Ledger!Init
<1> SUFFICES ASSUME Init PROVE Ledger!Init
  OBVIOUS
<1>1. Opened = {} /\ Credited = {}
  BY DEF Init, Opened, Intents, Credited
<1>2. Paid = {}
  BY DEF Init, GatewayInit, Paid
<1> QED BY <1>1, <1>2 DEF Init, Ledger!Init

\* A session that becomes paid is the only change of an arrival or a payment the
\* promise can see.
LEMMA PayingImplements ==
  ASSUME UNCHANGED <<accounts, entries>>, NEW s \in Sessions,
         \A t \in Sessions : t # s => gateway'[t] = gateway[t],
         gateway[s].status = "paid" => gateway'[s].status = "paid"
  PROVE  Ledger!Pay(s) \/ UNCHANGED Ledger!ledgerVars
<1>1. Opened' = Opened /\ Credited' = Credited
  BY DEF Opened, Intents, Credited
<1>2. Paid' = Paid \/ Paid' = Paid \cup {s}
  BY DEF Paid
<1> QED BY <1>1, <1>2 DEF Ledger!Pay, Ledger!ledgerVars

\* A commit is the abstract operation its row stands for.
LEMMA CommitImplements ==
  ASSUME TypeOK, Inv, NEW r \in Requests, Commit(r)
  PROVE  Ledger!Next
<1> DEFINE n == Len(entries) + 1
           e == staged[r]
           q == req[r]
<1>0. /\ DOMAIN entries' = DOMAIN entries \cup {n} /\ n \notin DOMAIN entries
      /\ \A i \in DOMAIN entries : entries'[i] = entries[i]
      /\ entries'[n] = e /\ pc[r] = "commit"
      /\ Justifies(r, e) /\ q \in Request /\ e \in Entry /\ e.user = q.user /\ e.ref = q.ref
      /\ q.user \in Users /\ e.amount \in Int
      /\ gateway' = gateway
  BY CommitFacts DEF Request, Entry
<1>1. /\ accounts' = [accounts EXCEPT ![q.user] = @ + e.amount]
      /\ accounts[q.user] \in Nat
  BY <1>0, CommitMovesBalance DEF TypeOK
<1>2. Paid' = Paid
  BY <1>0 DEF Paid
<1>3. /\ q.op \in {"topupStart", "topupConfirm", "debit", "refund"}
      /\ q.op \in {"topupStart", "topupConfirm"} => q.ref \in Sessions
      /\ q.op = "topupStart" => q.amount \in Amounts
      /\ q.op \in {"debit", "refund"} => q.amount \in Prices
  BY <1>0 DEF Request, Inv, StepsFollowChecks
<1>4. ~(e.kind = "topup" /\ e.amount = 0) => Opened' = Opened
  <2>1. ~(e.kind = "topup" /\ e.amount = 0) => Intents' = Intents
    BY <1>0 DEF Intents
  <2> QED BY <1>0, <2>1 DEF Opened, Intents
<1>5. ~(e.kind = "topup" /\ e.amount > 0) => Credited' = Credited
  BY <1>0 DEF Credited, IsCredit, IsTopup
<1>6. CASE q.op = "topupStart"
  <2>1. e.kind = "topup" /\ e.amount = 0 /\ e.expected = q.amount
    BY <1>0, <1>6 DEF Justifies
  <2>2. Credited' = Credited
    BY <2>1, <1>5
  <2>3. Intents' = Intents \cup {n}
    BY <1>0, <2>1 DEF Intents
  <2>4. Opened' = Opened \cup {[session |-> q.ref, user |-> q.user, amount |-> q.amount]}
    BY <1>0, <2>1, <2>3 DEF Opened, Intents
  <2>5. \A t \in Opened : t.session # q.ref
    <3>1. Starting(r, q.ref)
      BY <1>0, <1>6 DEF Starting
    <3>2. \A i \in DOMAIN entries : ~IsTopup(entries[i], q.ref)
      BY <1>3, <1>6, <3>1 DEF Inv, SessionsHaveOneOwner
    <3> QED BY <3>2 DEF Opened, Intents, IsTopup
  <2>6. accounts' = accounts
    BY <1>1, <2>1 DEF TypeOK
  <2>7. Ledger!Open(q.ref, q.user, q.amount)
    BY <1>2, <2>2, <2>4, <2>5, <2>6 DEF Ledger!Open
  <2> QED BY <1>0, <1>3, <1>6, <2>7 DEF Ledger!Next
<1>7. CASE q.op = "topupConfirm"
  <2>1. e.kind = "topup" /\ e.amount > 0 /\ gateway[q.ref].status = "paid"
    BY <1>0, <1>7 DEF Justifies
  <2>2. PICK k \in TopupRows(q.user, q.ref) :
           entries[k].amount = 0 /\ entries[k].expected = e.amount
    BY <1>0, <1>7 DEF Justifies
  <2> DEFINE t == [session |-> q.ref, user |-> q.user, amount |-> e.amount]
  <2>3. t \in Opened
    BY <2>2 DEF Opened, Intents, TopupRows, IsTopup
  <2>4. Opened' = Opened
    BY <1>4, <2>1
  <2>5. q.ref \in Paid \ Credited
    BY <1>0, <1>3, <1>7, <2>1 DEF Paid, Credited, Inv, NothingCreditedYet, Crediting
  <2>6. Credited' = Credited \cup {q.ref}
    BY <1>0, <1>3, <1>7, <2>1 DEF Credited, IsCredit, IsTopup
  <2>7. Ledger!Credit(t)
    BY <1>1, <1>2, <2>4, <2>5, <2>6 DEF Ledger!Credit
  <2> QED BY <2>3, <2>7 DEF Ledger!Next
<1>8. CASE q.op = "debit"
  <2>1. e.kind = "debit" /\ e.amount = -q.amount /\ seen[r] >= q.amount
    BY <1>0, <1>8 DEF Justifies
  <2>2. seen[r] = accounts[q.user] /\ q.amount \in Nat
    BY <1>0, <1>8 DEF Inv, ReadsStayFresh, HoldsLock, Request
  <2>3. accounts[q.user] + e.amount = accounts[q.user] - q.amount
    BY <1>1, <2>1, <2>2
  <2>4. Opened' = Opened /\ Credited' = Credited
    BY <1>4, <1>5, <2>1
  <2>5. Ledger!Debit(q.user, q.amount)
    BY <1>1, <1>2, <2>1, <2>2, <2>3, <2>4 DEF Ledger!Debit
  <2> QED BY <1>0, <1>3, <1>8, <2>5 DEF Ledger!Next
<1>9. CASE q.op = "refund"
  <2>1. e.kind = "refund" /\ e.amount = q.amount
    BY <1>0, <1>9 DEF Justifies
  <2>2. Opened' = Opened /\ Credited' = Credited
    BY <1>4, <1>5, <2>1
  <2>3. Ledger!Refund(q.user, q.amount)
    BY <1>1, <1>2, <2>1, <2>2 DEF Ledger!Refund
  <2> QED BY <1>0, <1>3, <1>9, <2>3 DEF Ledger!Next
<1> QED BY <1>3, <1>6, <1>7, <1>8, <1>9

\* Every step is an abstract operation, a payment or a stutter.
LEMMA StepImplements ==
  ASSUME TypeOK, Inv, [Next]_vars
  PROVE  [Ledger!Next]_(Ledger!ledgerVars)
<1>1. ASSUME UNCHANGED <<accounts, entries>>
      PROVE  [Ledger!Next]_(Ledger!ledgerVars)
  <2>1. (\E s \in Sessions : \A t \in Sessions : t # s => gateway'[t] = gateway[t])
          \/ gateway' = gateway
    BY DEF Next, Arrival, Payment, TopupStart, CreatePaymentSession, PendingSession, TopupConfirm, DevMarkPaid,
           DebitRequest, RefundRequest, UserPays, SessionLapses, Progress, Abort, Connect,
           LockAccount, InsertIntent, ReadTopup, Verify, InsertCredit, InsertDebit, InsertRefund,
           Commit, Stage, EndWithoutWrites, vars, gatewayVars, TypeOK, GatewayTypeOK
  <2>2. CASE gateway' = gateway
    BY <1>1, <2>2 DEF Ledger!ledgerVars, Opened, Intents, Credited, Paid
  <2>3. ASSUME NEW s \in Sessions, \A t \in Sessions : t # s => gateway'[t] = gateway[t]
        PROVE  [Ledger!Next]_(Ledger!ledgerVars)
    BY <1>1, <2>3, StepRemembers, PayingImplements DEF GatewayRemembers, Ledger!Next
  <2> QED BY <2>1, <2>2, <2>3
<1> QED BY <1>1, OnlyCommitWrites, CommitImplements

\* PgWalletService keeps every promise of WalletLedger.
THEOREM ImplementsWalletLedger == Spec => ImplementsLedger
<1>1. Init => Ledger!Init
  BY InitImplements
<1>2. TypeOK /\ Inv /\ [Next]_vars => [Ledger!Next]_(Ledger!ledgerVars)
  BY StepImplements
<1> QED BY <1>1, <1>2, TypeCorrect, LocksSuffice, PTL DEF Spec, ImplementsLedger, Ledger!Spec

=============================================================================
