--------------------------- MODULE JsonWallet_proofs ---------------------------
(***************************************************************************)
(* Proofs about JsonWallet for any number of users, requests, sessions and *)
(* rows: the document is its history, what is credited was started and     *)
(* paid, and a session is credited again only past the cap.                *)
(***************************************************************************)
EXTENDS JsonWallet, SequenceTheorems, WellFoundedInduction, TLAPS

-----------------------------------------------------------------------------
(* Sums and minima.                                                        *)

\* A nonempty set of numbers has a least one.
LEMMA LeastIsThere ==
  ASSUME NEW S \in SUBSET Nat, S # {}
  PROVE  \E x \in S : \A y \in S : x <= y
<1> DEFINE less == {ss \in Nat \X Nat : ss[1] < ss[2]}
<1>1. IsWellFoundedOn(less, Nat)
  BY NatLessThanWellFounded DEF OpToRel
<1>2. \A m, n \in Nat : m < n => <<m, n>> \in less
  OBVIOUS
<1> HIDE DEF less
<1>3. \E x \in S : \A y \in S : ~(<<y, x>> \in less)
  BY <1>1, WFMin, Zenon
<1>4. PICK x \in S : \A y \in S : ~(<<y, x>> \in less)
  BY <1>3
<1>5. ASSUME NEW y \in S
      PROVE  x <= y
  <2>1. x \in Nat /\ y \in Nat
    OBVIOUS
  <2>2. ~(y < x)
    BY <1>2, <1>4, <2>1
  <2> QED BY <2>1, <2>2
<1> QED BY <1>5

\* The lesser of two numbers.
LEMMA LesserOfTwo ==
  ASSUME NEW m \in Nat, NEW n \in Nat
  PROVE  Min({m, n}) = IF m <= n THEN m ELSE n
<1> DEFINE k == IF m <= n THEN m ELSE n
<1>1. k \in {m, n} /\ \A y \in {m, n} : k <= y
  OBVIOUS
<1>2. \A x \in {m, n} : (\A y \in {m, n} : x <= y) => x = k
  OBVIOUS
<1> HIDE DEF k
<1>3. Min({m, n}) = k
  BY <1>1, <1>2 DEF Min
<1> QED BY <1>3 DEF k

\* f holds the sums of the first rows, up to n of them.
Totals(f, rows, n) ==
    f = [i \in 0..n |-> IF i = 0 THEN 0 ELSE f[i - 1] + rows[i].amount]

HasTotals(rows, n) == \E f : Totals(f, rows, n)

\* Sums of the first n rows extend to the next.
LEMMA TotalsExtend ==
  ASSUME NEW n \in Nat, NEW rows, HasTotals(rows, n)
  PROVE  HasTotals(rows, n + 1)
<1>0. PICK f : f = [i \in 0..n |-> IF i = 0 THEN 0 ELSE f[i - 1] + rows[i].amount]
  BY DEF HasTotals, Totals
<1> DEFINE g == [i \in 0..(n + 1) |-> IF i = n + 1 THEN f[n] + rows[n + 1].amount ELSE f[i]]
<1>1. ASSUME NEW i \in 0..(n + 1)
      PROVE  g[i] = IF i = 0 THEN 0 ELSE g[i - 1] + rows[i].amount
  <2>1. CASE i = n + 1
    <3>1. n \in 0..(n + 1) /\ n # n + 1 /\ i - 1 = n /\ i # 0
      BY <2>1
    <3>2. g[n] = f[n]
      BY <3>1
    <3> QED BY <2>1, <3>1, <3>2
  <2>2. CASE i # n + 1
    <3>1. i \in 0..n /\ g[i] = f[i]
      BY <2>2
    <3>2. f[i] = IF i = 0 THEN 0 ELSE f[i - 1] + rows[i].amount
      BY <1>0, <3>1
    <3>3. i # 0 => i - 1 \in 0..(n + 1) /\ i - 1 # n + 1
      BY <3>1
    <3>4. i # 0 => g[i - 1] = f[i - 1]
      BY <3>3
    <3> QED BY <3>1, <3>2, <3>4
  <2> QED BY <2>1, <2>2
<1>2. g = [i \in 0..(n + 1) |-> g[i]]
  OBVIOUS
<1> HIDE DEF g
<1>3. g = [i \in 0..(n + 1) |-> IF i = 0 THEN 0 ELSE g[i - 1] + rows[i].amount]
  BY <1>1, <1>2
<1> QED BY <1>3 DEF HasTotals, Totals

\* There is such a function: the least length without one would extend another.
LEMMA TotalsExist ==
  ASSUME NEW rows, Len(rows) \in Nat
  PROVE  \E f : Totals(f, rows, Len(rows))
<1> DEFINE S == {n \in Nat : ~HasTotals(rows, n)}
<1>1. HasTotals(rows, 0)
  <2> DEFINE z == [i \in 0..0 |-> 0]
  <2>1. z = [i \in 0..0 |-> IF i = 0 THEN 0 ELSE z[i - 1] + rows[i].amount]
    <3>1. \A i \in 0..0 : i = 0
      OBVIOUS
    <3> QED BY <3>1
  <2> QED BY <2>1 DEF HasTotals, Totals
<1>2. CASE S # {}
  <2>1. PICK n \in S : \A m \in S : n <= m
    BY <1>2, LeastIsThere
  <2>2. n \in Nat /\ ~HasTotals(rows, n) /\ n # 0
    BY <1>1, <2>1
  <2>3. n - 1 \in Nat /\ n - 1 + 1 = n /\ ~(n <= n - 1)
    BY <2>2
  <2>4. HasTotals(rows, n - 1)
    BY <2>1, <2>3
  <2>5. HasTotals(rows, n - 1 + 1)
    BY <2>3, <2>4, TotalsExtend
  <2> QED BY <2>2, <2>3, <2>5
<1>3. CASE S = {}
  <2>1. HasTotals(rows, Len(rows))
    BY <1>3
  <2> QED BY <2>1 DEF HasTotals
<1> QED BY <1>2, <1>3

\* What Sum takes its value from.
LEMMA SumTotals ==
  ASSUME NEW rows, Len(rows) \in Nat
  PROVE  \E f : Totals(f, rows, Len(rows)) /\ Sum(rows) = f[Len(rows)]
<1> DEFINE f == CHOOSE g : Totals(g, rows, Len(rows))
<1>1. Totals(f, rows, Len(rows))
  BY TotalsExist
<1>2. Sum(rows) = f[Len(rows)]
  BY DEF Sum, Totals
<1> HIDE DEF f
<1> QED BY <1>1, <1>2

\* Sums of the same rows are the same: the least place where two differ would
\* follow one where they do not.
LEMMA TotalsAgree ==
  ASSUME NEW m \in Nat, NEW n \in Nat, m <= n, NEW x, NEW y, NEW f, NEW g,
         Totals(f, x, m), Totals(g, y, n), \A i \in 1..m : x[i] = y[i]
  PROVE  \A i \in 0..m : f[i] = g[i]
<1> DEFINE S == {i \in 0..m : f[i] # g[i]}
<1>1. \A i \in 0..m : /\ f[i] = IF i = 0 THEN 0 ELSE f[i - 1] + x[i].amount
                      /\ g[i] = IF i = 0 THEN 0 ELSE g[i - 1] + y[i].amount
  BY DEF Totals
<1>2. CASE S # {}
  <2>1. S \in SUBSET Nat
    OBVIOUS
  <2>2. PICK i \in S : \A k \in S : i <= k
    BY <1>2, <2>1, LeastIsThere
  <2>3. i \in 0..m /\ f[i] # g[i] /\ i # 0
    BY <1>1, <2>2
  <2>4. i - 1 \in 0..m /\ i \in 1..m /\ ~(i <= i - 1)
    BY <2>3
  <2>5. f[i - 1] = g[i - 1]
    BY <2>2, <2>4
  <2> QED BY <1>1, <2>3, <2>4, <2>5
<1>3. CASE S = {}
  BY <1>3
<1> QED BY <1>2, <1>3

\* The sum of no rows, and of one row more.
LEMMA SumGrows ==
  /\ Sum(<<>>) = 0
  /\ \A rows \in Seq(Row), row \in Row : Sum(Append(rows, row)) = Sum(rows) + row.amount
<1>1. Sum(<<>>) = 0
  <2>1. PICK f : Totals(f, <<>>, Len(<<>>)) /\ Sum(<<>>) = f[Len(<<>>)]
    BY SumTotals
  <2>2. Len(<<>>) = 0
    OBVIOUS
  <2> QED BY <2>1, <2>2 DEF Totals
<1>2. ASSUME NEW rows \in Seq(Row), NEW row \in Row
      PROVE  Sum(Append(rows, row)) = Sum(rows) + row.amount
  <2> DEFINE n == Len(rows)
             more == Append(rows, row)
  <2>1. n \in Nat /\ Len(more) = n + 1 /\ more[n + 1] = row /\ \A i \in 1..n : rows[i] = more[i]
    BY AppendProperties
  <2>2. PICK f : Totals(f, rows, n) /\ Sum(rows) = f[n]
    BY <2>1, SumTotals
  <2>3. PICK g : Totals(g, more, n + 1) /\ Sum(more) = g[n + 1]
    <3> HIDE DEF n, more
    <3>1. Len(more) \in Nat
      BY <2>1
    <3>2. PICK g : Totals(g, more, Len(more)) /\ Sum(more) = g[Len(more)]
      BY <3>1, SumTotals
    <3> QED BY <2>1, <3>2
  <2> HIDE DEF n, more
  <2>4. n <= n + 1 /\ n + 1 \in 0..(n + 1) /\ n + 1 # 0 /\ n + 1 - 1 = n /\ n \in 0..n
        /\ n + 1 \in Nat
    BY <2>1
  <2>5. f[n] = g[n]
    BY <2>1, <2>2, <2>3, <2>4, TotalsAgree
  <2>6. g[n + 1] = g[n] + more[n + 1].amount
    BY <2>3, <2>4 DEF Totals
  <2>7. Sum(more) = Sum(rows) + row.amount
    BY <2>1, <2>2, <2>3, <2>5, <2>6
  <2> QED BY <2>7 DEF more
<1> QED BY <1>1, <1>2

-----------------------------------------------------------------------------
(* The inductive invariant, in its parts.                                  *)

Waits == {"queued", "crediting", "put"}
Ops == {"topupStart", "topupConfirm", "debit", "refund"}

Asked(q) ==
    /\ q.user \in Users /\ q.op \in Ops
    /\ q.op \in {"topupStart", "topupConfirm"} => q.ref \in Sessions
    /\ q.op = "topupStart" => q.amount \in Amounts
    /\ q.op \in {"debit", "refund"} => q.amount \in Prices

Requested ==
    /\ pc = [r \in Requests |-> pc[r]] /\ req = [r \in Requests |-> req[r]]
    /\ expected = [r \in Requests |-> expected[r]] /\ draft = [r \in Requests |-> draft[r]]
    /\ \A r \in Requests : /\ pc[r] # "idle" => Asked(req[r])
                           /\ pc[r] \in {"verify", "crediting"} => req[r].op = "topupConfirm"

\* A user's chain holds those of its requests that wait in it, each once; the
\* one that puts is the first.
Chained ==
    /\ \A u \in Users : \A i \in 1..Len(chain[u]) :
         /\ pc[chain[u][i]] \in Waits /\ req[chain[u][i]].user = u
         /\ \A j \in 1..Len(chain[u]) : chain[u][i] = chain[u][j] => i = j
    /\ \A r \in Requests : pc[r] \in Waits =>
         \E i \in 1..Len(chain[req[r].user]) : chain[req[r].user][i] = r
    /\ \A r \in Requests : pc[r] = "put" => chain[req[r].user][1] = r

Types == TypeOK /\ Requested /\ file = [u \in Users |-> file[u]]

\* What a request is about to put follows from the document as it still is.
Drafted(r) ==
    /\ draft[r].base = Load(req[r].user)
    /\ draft[r].row \in Row
    /\ draft[r].base.balance + draft[r].row.amount >= 0
    /\ req[r].op = "topupStart" =>
         draft[r].row.amount = 0 /\ draft[r].row.ref = req[r].ref
                                 /\ draft[r].row.expected = req[r].amount
    /\ req[r].op = "topupConfirm" =>
         /\ draft[r].row.amount = expected[r] /\ draft[r].row.ref = req[r].ref
         /\ ~AlreadyCredited(draft[r].base, draft[r].row.ref)
    /\ req[r].op \in {"debit", "refund"} => draft[r].row.ref = None

Drafts == \A r \in Requests : pc[r] = "put" => Drafted(r)

\* Document w holds the newest of rows, and their sum.
Matches(w, rows) ==
    /\ w.balance = Sum(rows)
    /\ Len(w.txns) = IF Len(rows) <= TxnCap THEN Len(rows) ELSE TxnCap
    /\ \A k \in 1..Len(w.txns) : w.txns[k] = rows[Len(rows) - Len(w.txns) + k]

History == \A u \in Users : Matches(Load(u), lineage[u])

\* A session is opened for one start, which is not over.
Starting(r) == pc[r] # "idle" /\ req[r].op = "topupStart"
Begun ==
    /\ \A t \in started : gateway[t.session].status # "unused"
    /\ \A r \in Requests : Starting(r) =>
         /\ gateway[req[r].ref].status # "unused"
         /\ \A t \in started : t.session # req[r].ref
         /\ \A o \in Requests : Starting(o) /\ req[o].ref = req[r].ref => o = r

\* Past its first pass a confirm is of a top-up that was started, past the
\* gateway of one that is paid.
Claim(r) == [session |-> req[r].ref, user |-> req[r].user, amount |-> expected[r]]
Confirmed ==
    \A r \in Requests : req[r].op = "topupConfirm" =>
      /\ pc[r] \in {"verify", "crediting", "put"} => Claim(r) \in started
      /\ pc[r] \in {"crediting", "put"} => gateway[req[r].ref].status = "paid"

\* An intent is of a top-up that was started; a credit is of one that is paid,
\* comes after its intents, and is far from any other credit.
Lawful(u, rows) ==
    \A i \in 1..Len(rows) : \A s \in Sessions :
      /\ IsIntent(rows[i], s) =>
           [session |-> s, user |-> u, amount |-> rows[i].expected] \in started
      /\ IsCredit(rows[i], s) =>
           /\ gateway[s].status = "paid"
           /\ [session |-> s, user |-> u, amount |-> rows[i].amount] \in started
           /\ \A j \in 1..Len(rows) :
                /\ IsIntent(rows[j], s) => j < i
                /\ i < j /\ IsCredit(rows[j], s) => j - i > TxnCap

Law == \A u \in Users : Lawful(u, lineage[u])

-----------------------------------------------------------------------------
(* How requests move through the chains.                                   *)

Alone(r) == \A o \in Requests \ {r} : pc'[o] = pc[o] /\ req'[o] = req[o]

\* A request joins the chain of its user.
LEMMA ChainJoined ==
  ASSUME Chained, chain \in [Users -> Seq(Requests)], NEW r \in Requests, NEW u \in Users,
         pc[r] \notin Waits, Alone(r), pc'[r] \in {"queued", "crediting"}, req'[r].user = u,
         chain' = [chain EXCEPT ![u] = Append(@, r)],
         \A o \in Requests : pc[o] \in Waits => req[o].user \in Users
  PROVE  Chained' /\ chain' \in [Users -> Seq(Requests)]
<1>1. /\ chain' \in [Users -> Seq(Requests)]
      /\ Len(chain[u]) \in Nat
      /\ Len(chain'[u]) = Len(chain[u]) + 1
      /\ chain'[u][Len(chain[u]) + 1] = r
      /\ \A i \in 1..Len(chain[u]) : chain'[u][i] = chain[u][i]
      /\ \A v \in Users \ {u} : chain'[v] = chain[v]
  <2>1. chain[u] \in Seq(Requests)
    OBVIOUS
  <2>2. /\ Append(chain[u], r) \in Seq(Requests)
        /\ Len(Append(chain[u], r)) = Len(chain[u]) + 1
        /\ Append(chain[u], r)[Len(chain[u]) + 1] = r
        /\ \A i \in 1..Len(chain[u]) : Append(chain[u], r)[i] = chain[u][i]
    BY <2>1, AppendProperties
  <2>3. chain'[u] = Append(chain[u], r) /\ \A v \in Users \ {u} : chain'[v] = chain[v]
    OBVIOUS
  <2> QED BY <2>1, <2>2, <2>3
<1>2. \A v \in Users : \A i \in 1..Len(chain[v]) : chain[v][i] \in Requests /\ chain[v][i] # r
  BY DEF Chained
<1>3. \A o \in Requests \ {r} : pc'[o] = pc[o] /\ req'[o] = req[o]
  BY DEF Alone
<1>4. ASSUME NEW v \in Users, NEW i \in 1..Len(chain'[v])
      PROVE  /\ pc'[chain'[v][i]] \in Waits /\ req'[chain'[v][i]].user = v
             /\ \A j \in 1..Len(chain'[v]) : chain'[v][i] = chain'[v][j] => i = j
  <2>1. CASE v # u
    BY <1>1, <1>2, <1>3, <1>4, <2>1 DEF Chained
  <2>2. CASE v = u
    <3>1. \A j \in 1..Len(chain'[u]) : j \in 1..Len(chain[u]) \/ j = Len(chain[u]) + 1
      BY <1>1
    <3>2. pc'[chain'[v][i]] \in Waits /\ req'[chain'[v][i]].user = v
      BY <1>1, <1>2, <1>3, <1>4, <2>2, <3>1 DEF Chained, Waits
    <3>3. \A j \in 1..Len(chain'[v]) : chain'[v][i] = chain'[v][j] => i = j
      BY <1>1, <1>2, <1>4, <2>2, <3>1 DEF Chained
    <3> QED BY <3>2, <3>3
  <2> QED BY <2>1, <2>2
<1>5. ASSUME NEW o \in Requests, pc'[o] \in Waits
      PROVE  /\ \E i \in 1..Len(chain'[req'[o].user]) : chain'[req'[o].user][i] = o
             /\ pc'[o] = "put" => chain'[req'[o].user][1] = o
  <2>1. CASE o = r
    BY <1>1, <2>1
  <2>2. CASE o # r
    <3>1. pc[o] \in Waits /\ req'[o] = req[o] /\ pc'[o] = pc[o] /\ req[o].user \in Users
      BY <1>3, <1>5, <2>2
    <3>2. PICK i \in 1..Len(chain[req[o].user]) : chain[req[o].user][i] = o
      BY <3>1 DEF Chained
    <3>3. i \in 1..Len(chain'[req[o].user]) /\ chain'[req[o].user][i] = o
      BY <1>1, <3>1, <3>2
    <3>4. chain'[req[o].user][1] = chain[req[o].user][1]
      BY <1>1, <3>1, <3>2
    <3> QED BY <3>1, <3>3, <3>4 DEF Chained
  <2> QED BY <2>1, <2>2
<1> QED BY <1>1, <1>4, <1>5 DEF Chained, Waits

\* The one in front leaves it.
LEMMA ChainLeft ==
  ASSUME Chained, chain \in [Users -> Seq(Requests)], NEW r \in Requests,
         Alone(r), pc'[r] \notin Waits, Leave(r),
         pc[r] \in Waits => req[r].user \in Users /\ Head(chain[req[r].user]) = r,
         \A o \in Requests : pc[o] \in Waits => req[o].user \in Users
  PROVE  Chained' /\ chain' \in [Users -> Seq(Requests)]
<1> DEFINE u == req[r].user
<1>1. \A o \in Requests \ {r} : pc'[o] = pc[o] /\ req'[o] = req[o]
  BY DEF Alone
<1>2. CASE pc[r] \notin Waits
  <2>1. \A v \in Users : \A i \in 1..Len(chain[v]) : chain[v][i] \in Requests /\ chain[v][i] # r
    BY <1>2 DEF Chained
  <2>2. chain' = chain
    <3>1. u \in Users => ~(chain[u] # <<>> /\ Head(chain[u]) = r)
      BY <2>1
    <3> QED BY <3>1 DEF Leave
  <2>3. \A v \in Users : \A i \in 1..Len(chain[v]) :
          /\ pc'[chain[v][i]] \in Waits /\ req'[chain[v][i]].user = v
          /\ \A j \in 1..Len(chain[v]) : chain[v][i] = chain[v][j] => i = j
    BY <1>1, <2>1 DEF Chained
  <2>4. \A o \in Requests : pc'[o] \in Waits => pc[o] \in Waits /\ req'[o] = req[o] /\ pc'[o] = pc[o]
    BY <1>1
  <2> QED BY <2>2, <2>3, <2>4 DEF Chained, Waits
<1>3. CASE pc[r] \in Waits
  <2>1. u \in Users /\ Head(chain[u]) = r /\ chain[u] \in Seq(Requests)
    BY <1>3
  <2>2. chain[u] # <<>> /\ Len(chain[u]) \in Nat /\ 1 \in 1..Len(chain[u]) /\ chain[u][1] = r
    BY <1>3, <2>1 DEF Chained
  <2>3. chain' = [chain EXCEPT ![u] = Tail(@)]
    BY <2>1, <2>2 DEF Leave
  <2>4. /\ chain' \in [Users -> Seq(Requests)]
        /\ Len(chain'[u]) = Len(chain[u]) - 1
        /\ \A i \in 1..Len(chain'[u]) : i + 1 \in 1..Len(chain[u]) /\ chain'[u][i] = chain[u][i + 1]
        /\ \A v \in Users \ {u} : chain'[v] = chain[v]
    <3>1. /\ Tail(chain[u]) \in Seq(Requests)
          /\ Len(Tail(chain[u])) = Len(chain[u]) - 1
          /\ \A i \in 1..Len(Tail(chain[u])) : Tail(chain[u])[i] = chain[u][i + 1]
      BY <2>1, <2>2, HeadTailProperties
    <3>2. chain'[u] = Tail(chain[u]) /\ \A v \in Users \ {u} : chain'[v] = chain[v]
      BY <2>1, <2>3
    <3> HIDE DEF u
    <3> QED BY <2>1, <2>2, <2>3, <3>1, <3>2
  <2> HIDE DEF u
  <2>5. \A v \in Users : \A i \in 1..Len(chain'[v]) : chain'[v][i] \in Requests /\ chain'[v][i] # r
    <3>1. ASSUME NEW v \in Users, NEW i \in 1..Len(chain'[v])
          PROVE  chain'[v][i] \in Requests /\ chain'[v][i] # r
      <4>1. CASE v = u
        BY <2>1, <2>2, <2>4, <3>1, <4>1, SMTT(30) DEF Chained
      <4>2. CASE v # u
        BY <1>3, <2>1, <2>4, <3>1, <4>2 DEF Chained, u
      <4> QED BY <4>1, <4>2
    <3> QED BY <3>1
  <2>6. ASSUME NEW v \in Users, NEW i \in 1..Len(chain'[v])
        PROVE  /\ pc'[chain'[v][i]] \in Waits /\ req'[chain'[v][i]].user = v
               /\ \A j \in 1..Len(chain'[v]) : chain'[v][i] = chain'[v][j] => i = j
    <3>1. /\ chain'[v][i] \in Requests \ {r}
          /\ pc'[chain'[v][i]] = pc[chain'[v][i]] /\ req'[chain'[v][i]] = req[chain'[v][i]]
      BY <1>1, <2>5, <2>6
    <3>2. CASE v = u
      <4>1. /\ i + 1 \in 1..Len(chain[u]) /\ chain'[v][i] = chain[u][i + 1] /\ i \in Nat
            /\ \A j \in 1..Len(chain'[u]) :
                 j \in Nat /\ j + 1 \in 1..Len(chain[u]) /\ chain'[u][j] = chain[u][j + 1]
        BY <2>2, <2>4, <2>6, <3>2
      <4>2. pc[chain'[v][i]] \in Waits /\ req[chain'[v][i]].user = v
        BY <2>1, <3>2, <4>1 DEF Chained
      <4>3. \A j \in 1..Len(chain'[v]) : chain'[v][i] = chain'[v][j] => i + 1 = j + 1
        BY <2>1, <3>2, <4>1 DEF Chained
      <4>4. ASSUME NEW j \in 1..Len(chain'[v]), chain'[v][i] = chain'[v][j]
            PROVE  i = j
        <5>1. j \in Nat /\ i \in Nat
          BY <3>2, <4>1
        <5>2. i + 1 = j + 1
          BY <4>3, <4>4
        <5> QED BY <5>1, <5>2
      <4> QED BY <3>1, <4>2, <4>4
    <3>3. CASE v # u
      BY <2>4, <2>6, <3>1, <3>3 DEF Chained
    <3> QED BY <3>2, <3>3
  <2>7. ASSUME NEW o \in Requests, pc'[o] \in Waits
        PROVE  /\ \E i \in 1..Len(chain'[req'[o].user]) : chain'[req'[o].user][i] = o
               /\ pc'[o] = "put" => chain'[req'[o].user][1] = o
    <3>1. /\ o # r /\ pc[o] \in Waits /\ req'[o] = req[o] /\ pc'[o] = pc[o]
          /\ req[o].user \in Users
      BY <1>1, <2>7
    <3>2. PICK i \in 1..Len(chain[req[o].user]) : chain[req[o].user][i] = o
      BY <3>1 DEF Chained
    <3>3. pc[o] = "put" => chain[req[o].user][1] = o
      BY DEF Chained
    <3>4. CASE req[o].user = u
      <4>1. i # 1 /\ i - 1 \in 1..Len(chain'[u]) /\ i - 1 + 1 = i
        BY <2>2, <2>4, <3>1, <3>2, <3>4
      <4>2. chain'[u][i - 1] = o
        BY <2>4, <3>2, <3>4, <4>1
      <4>3. pc[o] # "put"
        BY <2>2, <3>1, <3>3, <3>4
      <4> QED BY <3>1, <3>4, <4>1, <4>2, <4>3
    <3>5. CASE req[o].user # u
      BY <2>4, <3>1, <3>2, <3>3, <3>5
    <3> QED BY <3>4, <3>5
  <2> QED BY <2>4, <2>6, <2>7 DEF Chained, Waits
<1> QED BY <1>2, <1>3

\* The one in front goes on.
LEMMA ChainKept ==
  ASSUME Chained, chain' = chain, NEW r \in Requests, Alone(r), req'[r] = req[r],
         pc[r] \in Waits, pc'[r] = "put", req[r].user \in Users, Head(chain[req[r].user]) = r,
         chain \in [Users -> Seq(Requests)]
  PROVE  Chained'
<1>1. chain[req[r].user][1] = r
  <2>1. chain[req[r].user] # <<>> /\ chain[req[r].user] \in Seq(Requests)
    BY DEF Chained
  <2> QED BY <2>1
<1>2. \A o \in Requests : /\ req'[o] = req[o]
                          /\ o # r => pc'[o] = pc[o]
                          /\ pc'[o] \in Waits <=> pc[o] \in Waits
  BY DEF Alone, Waits
<1>3. \A u \in Users : \A i \in 1..Len(chain[u]) : chain[u][i] \in Requests
  OBVIOUS
<1>4. \A u \in Users : \A i \in 1..Len(chain[u]) :
        /\ pc'[chain[u][i]] \in Waits /\ req'[chain[u][i]].user = u
        /\ \A j \in 1..Len(chain[u]) : chain[u][i] = chain[u][j] => i = j
  BY <1>2, <1>3 DEF Chained
<1>5. \A o \in Requests : pc'[o] \in Waits =>
        \E i \in 1..Len(chain[req'[o].user]) : chain[req'[o].user][i] = o
  BY <1>2 DEF Chained
<1>6. \A o \in Requests : pc'[o] = "put" => chain[req'[o].user][1] = o
  BY <1>1, <1>2 DEF Chained
<1> QED BY <1>4, <1>5, <1>6 DEF Chained

-----------------------------------------------------------------------------
(* What the steps do to requests and chains.                               *)

Same(r) ==
    \A o \in Requests \ {r} : expected'[o] = expected[o] /\ draft'[o] = draft[o]

\* The head of a chain.
LEMMA RunningIsFirst ==
  ASSUME Types, Chained, NEW r \in Requests, pc[r] \in Waits, Running(r) \/ pc[r] = "put"
  PROVE  /\ req[r].user \in Users /\ Head(chain[req[r].user]) = r
         /\ chain[req[r].user][1] = r
<1>1. req[r].user \in Users
  BY DEF Types, Requested, Asked, Waits
<1>2. chain[req[r].user] \in Seq(Requests) /\ chain[req[r].user] # <<>>
  BY <1>1 DEF Types, TypeOK, Chained
<1>3. Head(chain[req[r].user]) = chain[req[r].user][1]
  BY <1>2
<1>4. CASE Running(r)
  BY <1>1, <1>3, <1>4 DEF Running
<1>5. CASE pc[r] = "put"
  BY <1>1, <1>3, <1>5 DEF Chained
<1> QED BY <1>4, <1>5

\* A request that ends.
LEMMA Ends ==
  ASSUME Types, Chained, NEW r \in Requests, End(r), Running(r) \/ pc[r] \in {"put", "verify"}
  PROVE  /\ Requested' /\ Chained' /\ chain' \in [Users -> Seq(Requests)]
         /\ pc' \in [Requests -> {"idle", "queued", "verify", "crediting", "put"}]
         /\ expected' \in [Requests -> Nat]
         /\ Alone(r) /\ Same(r) /\ pc'[r] = "idle"
<1>1. \A o \in Requests :
        /\ pc'[o] = IF o = r THEN "idle" ELSE pc[o]
        /\ req'[o] = IF o = r THEN NoRequest ELSE req[o]
        /\ expected'[o] = IF o = r THEN 0 ELSE expected[o]
        /\ draft'[o] = IF o = r THEN NoRow ELSE draft[o]
  BY DEF End, Types, Requested
<1>2. /\ pc' = [o \in Requests |-> pc'[o]] /\ req' = [o \in Requests |-> req'[o]]
      /\ expected' = [o \in Requests |-> expected'[o]] /\ draft' = [o \in Requests |-> draft'[o]]
  BY DEF End, Types, Requested
<1>3. Requested'
  BY <1>1, <1>2 DEF Types, Requested
<1>4. Alone(r) /\ Same(r) /\ pc'[r] = "idle"
  BY <1>1 DEF Alone, Same
<1>5. /\ pc' \in [Requests -> {"idle", "queued", "verify", "crediting", "put"}]
      /\ expected' \in [Requests -> Nat]
  BY <1>1, <1>2 DEF Types, TypeOK
<1>6. Chained' /\ chain' \in [Users -> Seq(Requests)]
  <2>1. pc[r] \in Waits => req[r].user \in Users /\ Head(chain[req[r].user]) = r
    BY RunningIsFirst DEF Waits
  <2>2. \A o \in Requests : pc[o] \in Waits => req[o].user \in Users
    BY DEF Types, Requested, Asked, Waits
  <2>3. pc'[r] \notin Waits /\ Leave(r) /\ chain \in [Users -> Seq(Requests)]
    BY <1>4 DEF Waits, End, Types, TypeOK
  <2> QED BY <1>4, <2>1, <2>2, <2>3, ChainLeft
<1> QED BY <1>3, <1>4, <1>5, <1>6

\* A request that arrives.
LEMMA Submits ==
  ASSUME Types, Chained, NEW r \in Requests, NEW op \in Ops, NEW u \in Users, NEW s, NEW a,
         Submit(r, op, u, s, a),
         op \in {"topupStart", "topupConfirm"} => s \in Sessions,
         op = "topupStart" => a \in Amounts,
         op \in {"debit", "refund"} => a \in Prices
  PROVE  /\ Requested' /\ Chained' /\ chain' \in [Users -> Seq(Requests)]
         /\ pc' \in [Requests -> {"idle", "queued", "verify", "crediting", "put"}]
         /\ expected' \in [Requests -> Nat]
         /\ Alone(r) /\ Same(r) /\ pc[r] = "idle" /\ pc'[r] = "queued"
         /\ req'[r].op = op /\ req'[r].user = u /\ req'[r].ref = s
         /\ UNCHANGED <<file, expected, draft, lineage, started>>
<1> DEFINE q == [op |-> op, user |-> u, ref |-> s, amount |-> a]
<1>1. q.op = op /\ q.user = u /\ q.ref = s /\ Asked(q)
  BY DEF Asked
<1>2. /\ pc[r] = "idle" /\ pc' = [pc EXCEPT ![r] = "queued"] /\ req' = [req EXCEPT ![r] = q]
      /\ chain' = [chain EXCEPT ![u] = Append(@, r)]
      /\ UNCHANGED <<file, expected, draft, lineage, started>>
  BY DEF Submit
<1> HIDE DEF q
<1>3. \A o \in Requests : /\ pc'[o] = IF o = r THEN "queued" ELSE pc[o]
                          /\ req'[o] = IF o = r THEN q ELSE req[o]
  BY <1>2 DEF Types, Requested
<1>4. pc' = [o \in Requests |-> pc'[o]] /\ req' = [o \in Requests |-> req'[o]]
  BY <1>2 DEF Types, Requested
<1>5. Requested'
  BY <1>1, <1>2, <1>3, <1>4 DEF Types, Requested
<1>6. Alone(r) /\ Same(r)
  BY <1>2, <1>3 DEF Alone, Same
<1>7. /\ pc' \in [Requests -> {"idle", "queued", "verify", "crediting", "put"}]
      /\ expected' \in [Requests -> Nat]
  BY <1>2, <1>3, <1>4 DEF Types, TypeOK
<1>8. Chained' /\ chain' \in [Users -> Seq(Requests)]
  <2>1. pc[r] \notin Waits /\ pc'[r] \in {"queued", "crediting"} /\ req'[r].user = u
    BY <1>1, <1>2, <1>3 DEF Waits
  <2>2. \A o \in Requests : pc[o] \in Waits => req[o].user \in Users
    BY DEF Types, Requested, Asked, Waits
  <2>3. chain \in [Users -> Seq(Requests)]
    BY DEF Types, TypeOK
  <2> QED BY <1>2, <1>6, <2>1, <2>2, <2>3, ChainJoined
<1> QED BY <1>1, <1>2, <1>3, <1>5, <1>6, <1>7, <1>8

\* A request that is about to put a row.
LEMMA Prepares ==
  ASSUME Types, Chained, NEW r \in Requests, NEW row, Running(r), Prepare(r, row)
  PROVE  /\ Requested' /\ Chained' /\ chain' \in [Users -> Seq(Requests)]
         /\ pc' \in [Requests -> {"idle", "queued", "verify", "crediting", "put"}]
         /\ expected' \in [Requests -> Nat]
         /\ Alone(r) /\ Same(r) /\ pc'[r] = "put" /\ req' = req
         /\ draft'[r].row = row /\ draft'[r].base = Load(req[r].user)
         /\ UNCHANGED <<file, expected, lineage, started, gatewayVars>>
<1> DEFINE d == [row |-> row, base |-> Load(req[r].user)]
<1>1. d.row = row /\ d.base = Load(req[r].user)
  OBVIOUS
<1>2. /\ pc' = [pc EXCEPT ![r] = "put"] /\ draft' = [draft EXCEPT ![r] = d]
      /\ UNCHANGED <<file, chain, req, expected, lineage, started, gatewayVars>>
  BY DEF Prepare
<1> HIDE DEF d
<1>3. \A o \in Requests : /\ pc'[o] = IF o = r THEN "put" ELSE pc[o]
                          /\ draft'[o] = IF o = r THEN d ELSE draft[o]
  BY <1>2 DEF Types, Requested
<1>4. pc' = [o \in Requests |-> pc'[o]] /\ draft' = [o \in Requests |-> draft'[o]]
  BY <1>2 DEF Types, Requested
<1>5. Requested'
  BY <1>2, <1>3, <1>4 DEF Types, Requested, Running
<1>6. Alone(r) /\ Same(r)
  BY <1>2, <1>3 DEF Alone, Same
<1>7. /\ pc' \in [Requests -> {"idle", "queued", "verify", "crediting", "put"}]
      /\ expected' \in [Requests -> Nat] /\ chain' \in [Users -> Seq(Requests)]
  BY <1>2, <1>3, <1>4 DEF Types, TypeOK
<1>8. Chained'
  <2>1. pc[r] \in Waits
    BY DEF Running, Waits
  <2>2. req[r].user \in Users /\ Head(chain[req[r].user]) = r
    BY <2>1, RunningIsFirst
  <2>3. chain \in [Users -> Seq(Requests)] /\ pc'[r] = "put"
    BY <1>3 DEF Types, TypeOK
  <2> QED BY <1>2, <1>6, <2>1, <2>2, <2>3, ChainKept
<1> QED BY <1>1, <1>2, <1>3, <1>5, <1>6, <1>7, <1>8

\* A confirm whose first pass is over leaves the chain.
LEMMA GoesToVerify ==
  ASSUME Types, Chained, NEW r \in Requests, NEW e \in Nat, Running(r), Leave(r),
         pc[r] = "queued", req[r].op = "topupConfirm",
         pc' = [pc EXCEPT ![r] = "verify"], expected' = [expected EXCEPT ![r] = e],
         UNCHANGED <<req, draft>>
  PROVE  /\ Requested' /\ Chained' /\ chain' \in [Users -> Seq(Requests)]
         /\ pc' \in [Requests -> {"idle", "queued", "verify", "crediting", "put"}]
         /\ expected' \in [Requests -> Nat]
         /\ Alone(r) /\ Same(r) /\ pc'[r] = "verify" /\ expected'[r] = e
<1>1. \A o \in Requests : /\ pc'[o] = IF o = r THEN "verify" ELSE pc[o]
                          /\ expected'[o] = IF o = r THEN e ELSE expected[o]
  BY DEF Types, Requested
<1>2. pc' = [o \in Requests |-> pc'[o]] /\ expected' = [o \in Requests |-> expected'[o]]
  BY DEF Types, Requested
<1>3. Requested'
  BY <1>1, <1>2 DEF Types, Requested
<1>4. Alone(r) /\ Same(r)
  BY <1>1 DEF Alone, Same
<1>5. /\ pc' \in [Requests -> {"idle", "queued", "verify", "crediting", "put"}]
      /\ expected' \in [Requests -> Nat]
  BY <1>1, <1>2 DEF Types, TypeOK
<1>6. Chained' /\ chain' \in [Users -> Seq(Requests)]
  <2>1. req[r].user \in Users /\ Head(chain[req[r].user]) = r
    BY RunningIsFirst DEF Waits
  <2>2. \A o \in Requests : pc[o] \in Waits => req[o].user \in Users
    BY DEF Types, Requested, Asked, Waits
  <2>3. pc'[r] \notin Waits /\ chain \in [Users -> Seq(Requests)]
    BY <1>1 DEF Waits, Types, TypeOK
  <2> QED BY <1>4, <2>1, <2>2, <2>3, ChainLeft
<1> QED BY <1>1, <1>3, <1>4, <1>5, <1>6

\* A confirm that the gateway answered joins it again.
LEMMA GoesToCredit ==
  ASSUME Types, Chained, NEW r \in Requests, pc[r] = "verify",
         pc' = [pc EXCEPT ![r] = "crediting"],
         chain' = [chain EXCEPT ![req[r].user] = Append(@, r)],
         UNCHANGED <<req, expected, draft>>
  PROVE  /\ Requested' /\ Chained' /\ chain' \in [Users -> Seq(Requests)]
         /\ pc' \in [Requests -> {"idle", "queued", "verify", "crediting", "put"}]
         /\ expected' \in [Requests -> Nat]
         /\ Alone(r) /\ Same(r) /\ pc'[r] = "crediting"
<1>1. \A o \in Requests : pc'[o] = IF o = r THEN "crediting" ELSE pc[o]
  BY DEF Types, Requested
<1>2. pc' = [o \in Requests |-> pc'[o]]
  BY DEF Types, Requested
<1>3. Requested'
  BY <1>1, <1>2 DEF Types, Requested
<1>4. Alone(r) /\ Same(r)
  BY <1>1 DEF Alone, Same
<1>5. /\ pc' \in [Requests -> {"idle", "queued", "verify", "crediting", "put"}]
      /\ expected' \in [Requests -> Nat]
  BY <1>1, <1>2 DEF Types, TypeOK
<1>6. Chained' /\ chain' \in [Users -> Seq(Requests)]
  <2>1. req[r].user \in Users /\ req'[r].user = req[r].user
    BY DEF Types, Requested, Asked
  <2>2. \A o \in Requests : pc[o] \in Waits => req[o].user \in Users
    BY DEF Types, Requested, Asked, Waits
  <2>3. /\ pc[r] \notin Waits /\ pc'[r] \in {"queued", "crediting"}
        /\ chain \in [Users -> Seq(Requests)]
    BY <1>1 DEF Waits, Types, TypeOK
  <2> QED BY <1>4, <2>1, <2>2, <2>3, ChainJoined
<1> QED BY <1>1, <1>3, <1>4, <1>5, <1>6

-----------------------------------------------------------------------------
(* What the gateway knows.                                                 *)

\* A gateway never forgets a session, nor a payment.
Remembers ==
    \A s \in Sessions : /\ gateway[s].status = "paid" => gateway'[s].status = "paid"
                        /\ gateway[s].status # "unused" => gateway'[s].status # "unused"

\* No step of the wallet or the payer undoes what the gateway holds.
LEMMA GatewayRemembers ==
  ASSUME GatewayTypeOK,
         \/ UNCHANGED gatewayVars
         \/ \E s \in Sessions : UserPays(s) \/ SessionLapses(s) \/ DevMarkPaid(s)
         \/ \E s \in Sessions, a \in Amounts : CreatePaymentSession(s, a)
  PROVE  GatewayTypeOK' /\ Remembers
<1>1. CASE UNCHANGED gatewayVars
  BY <1>1 DEF gatewayVars, GatewayTypeOK, Remembers
<1>2. ASSUME NEW s \in Sessions, NEW g \in [status : Statuses, amount : Nat],
             gateway' = [gateway EXCEPT ![s] = g], adapter' = adapter,
             gateway[s].status = "paid" => g.status = "paid",
             g.status # "unused"
      PROVE  GatewayTypeOK' /\ Remembers
  BY <1>2 DEF GatewayTypeOK, Remembers
<1>3. \A s \in Sessions : gateway[s] \in [status : Statuses, amount : Nat]
  BY DEF GatewayTypeOK
<1>4. ASSUME NEW s \in Sessions, UserPays(s)
      PROVE  GatewayTypeOK' /\ Remembers
  <2>1. PICK a \in Amounts : gateway' = [gateway EXCEPT ![s] = [status |-> "paid", amount |-> a]]
    BY <1>4 DEF UserPays
  <2>2. [status |-> "paid", amount |-> a] \in [status : Statuses, amount : Nat]
    BY AmountsArePositive DEF Statuses
  <2> QED BY <1>2, <1>4, <2>1, <2>2 DEF UserPays
<1>5. ASSUME NEW s \in Sessions, NEW t \in {"paid", "failed"}, gateway[s].status = "pending",
             gateway' = [gateway EXCEPT ![s].status = t], adapter' = adapter
      PROVE  GatewayTypeOK' /\ Remembers
  <2> DEFINE g == [gateway[s] EXCEPT !.status = t]
  <2>1. g \in [status : Statuses, amount : Nat] /\ g.status = t
    BY <1>3 DEF Statuses
  <2>2. gateway' = [gateway EXCEPT ![s] = g]
    BY <1>5
  <2> HIDE DEF g
  <2> QED BY <1>2, <1>5, <2>1, <2>2
<1>6. ASSUME NEW s \in Sessions, SessionLapses(s)
      PROVE  GatewayTypeOK' /\ Remembers
  BY <1>5, <1>6 DEF SessionLapses
<1>7. ASSUME NEW s \in Sessions, DevMarkPaid(s)
      PROVE  GatewayTypeOK' /\ Remembers
  <2>1. CASE adapter = "mock" /\ gateway[s].status = "pending"
    BY <1>5, <1>7, <2>1 DEF DevMarkPaid
  <2>2. CASE ~(adapter = "mock" /\ gateway[s].status = "pending")
    BY <1>1, <1>7, <2>2 DEF DevMarkPaid, gatewayVars
  <2> QED BY <2>1, <2>2
<1>8. ASSUME NEW s \in Sessions, NEW a \in Amounts, CreatePaymentSession(s, a)
      PROVE  GatewayTypeOK' /\ Remembers
  <2>1. /\ PendingSession(a) \in [status : Statuses, amount : Nat]
        /\ PendingSession(a).status = "pending"
    BY AmountsArePositive DEF PendingSession, Statuses
  <2> QED BY <1>2, <1>8, <2>1 DEF CreatePaymentSession
<1> QED BY <1>1, <1>4, <1>6, <1>7, <1>8

-----------------------------------------------------------------------------
(* The invariant.                                                          *)

Inv == Types /\ Chained /\ Drafts /\ History /\ Begun /\ Confirmed /\ Law

\* A row put before stays lawful.
LEMMA LawStays ==
  ASSUME Law, Remembers, started \subseteq started', NEW u \in Users, lineage'[u] = lineage[u]
  PROVE  Lawful(u, lineage[u])'
BY DEF Law, Lawful, Remembers

\* A step that puts nothing, of a request that has what it then needs.
LEMMA NothingPut ==
  ASSUME Inv, NEW r \in Requests, UNCHANGED <<file, lineage, started>>,
         GatewayTypeOK', Remembers,
         Requested', Chained', chain' \in [Users -> Seq(Requests)],
         pc' \in [Requests -> {"idle", "queued", "verify", "crediting", "put"}],
         expected' \in [Requests -> Nat], Alone(r), Same(r),
         pc'[r] = "put" => Drafted(r)',
         req'[r].op = "topupConfirm" /\ pc'[r] \in {"verify", "crediting", "put"} =>
           /\ Claim(r)' \in started
           /\ pc'[r] \in {"crediting", "put"} => gateway'[req'[r].ref].status = "paid",
         Starting(r)' =>
           \/ Starting(r) /\ req'[r].ref = req[r].ref
           \/ /\ gateway[req'[r].ref].status = "unused"
              /\ gateway'[req'[r].ref].status # "unused"
  PROVE  Inv'
<1>1. \A o \in Requests \ {r} :
        pc'[o] = pc[o] /\ req'[o] = req[o] /\ expected'[o] = expected[o] /\ draft'[o] = draft[o]
  BY DEF Alone, Same
<1>2. Types'
  BY DEF Inv, Types, TypeOK
<1>3. Drafts'
  <2>1. \A o \in Requests \ {r} : Drafted(o) => Drafted(o)'
    BY <1>1 DEF Drafted, Load, AlreadyCredited
  <2> QED BY <1>1, <2>1 DEF Inv, Drafts
<1>4. History'
  BY DEF Inv, History, Load
<1>5. Begun'
  <2>1. \A t \in started : t.session \in Sessions
    BY DEF Inv, Types, TypeOK, Topup
  <2>2. \A o \in Requests : Starting(o)' => req'[o].ref \in Sessions
    BY DEF Requested, Asked, Starting
  <2>3. \A o \in Requests \ {r} : Starting(o)' <=> Starting(o)
    BY <1>1 DEF Starting
  <2>4. \A t \in started : gateway'[t.session].status # "unused"
    BY <2>1 DEF Inv, Begun, Remembers
  <2>5. ASSUME NEW o \in Requests, Starting(o)'
        PROVE  /\ gateway'[req'[o].ref].status # "unused"
               /\ \A t \in started : t.session # req'[o].ref
               /\ \A q \in Requests : Starting(q)' /\ req'[q].ref = req'[o].ref => q = o
    <3>1. \A q \in Requests \ {r} : Starting(q)' =>
            Starting(q) /\ req'[q].ref = req[q].ref /\ gateway[req[q].ref].status # "unused"
      BY <1>1, <2>3 DEF Inv, Begun
    <3>2. CASE \A q \in Requests : Starting(q)' => Starting(q) /\ req'[q].ref = req[q].ref
      BY <2>2, <2>5, <3>2 DEF Inv, Begun, Remembers
    <3>3. CASE /\ Starting(r)'
               /\ gateway[req'[r].ref].status = "unused"
               /\ gateway'[req'[r].ref].status # "unused"
      <4>1. \A q \in Requests \ {r} : Starting(q)' => req'[q].ref # req'[r].ref
        BY <3>1, <3>3
      <4>2. CASE o = r
        BY <3>3, <4>1, <4>2 DEF Inv, Begun
      <4>3. CASE o # r
        <5>1. /\ Starting(o) /\ req'[o].ref = req[o].ref /\ req[o].ref \in Sessions
              /\ gateway[req[o].ref].status # "unused"
          BY <2>2, <2>5, <3>1, <4>3
        <5>2. gateway'[req'[o].ref].status # "unused" /\ \A t \in started : t.session # req'[o].ref
          BY <5>1 DEF Inv, Begun, Remembers
        <5>3. ASSUME NEW q \in Requests, Starting(q)', req'[q].ref = req'[o].ref
              PROVE  q = o
          <6>1. q # r
            BY <2>5, <4>1, <4>3, <5>3
          <6>2. Starting(q) /\ req'[q].ref = req[q].ref
            BY <3>1, <5>3, <6>1
          <6> QED BY <5>1, <5>3, <6>2 DEF Inv, Begun
        <5> QED BY <5>2, <5>3
      <4> QED BY <4>2, <4>3
    <3> QED BY <3>1, <3>2, <3>3
  <2> QED BY <2>4, <2>5 DEF Begun
<1>6. Confirmed'
  <2>1. ASSUME NEW o \in Requests \ {r}, req'[o].op = "topupConfirm"
        PROVE  /\ pc'[o] \in {"verify", "crediting", "put"} => Claim(o)' \in started
               /\ pc'[o] \in {"crediting", "put"} => gateway'[req'[o].ref].status = "paid"
    <3>1. Claim(o)' = Claim(o) /\ req'[o] = req[o] /\ pc'[o] = pc[o]
      BY <1>1 DEF Claim
    <3>2. pc[o] # "idle" => req[o].ref \in Sessions
      BY <2>1, <3>1 DEF Inv, Types, Requested, Asked
    <3> QED BY <2>1, <3>1, <3>2 DEF Inv, Confirmed, Remembers
  <2> QED BY <2>1 DEF Confirmed
<1>7. Law'
  BY LawStays DEF Inv, Law
<1> QED BY <1>2, <1>3, <1>4, <1>5, <1>6, <1>7 DEF Inv

-----------------------------------------------------------------------------
(* The steps that put nothing.                                             *)

\* What is read is a wallet.
LEMMA LoadTyped ==
  ASSUME Types, NEW u \in Users
  PROVE  Load(u).balance \in Nat /\ Load(u).txns \in Seq(Row)
<1>1. CASE file[u].status = "wallet"
  BY <1>1 DEF Types, TypeOK, Load
<1>2. CASE file[u].status # "wallet"
  <2>1. Load(u) = [status |-> "wallet", balance |-> 0, txns |-> <<>>]
    BY <1>2 DEF Load, EmptyWallet, Wallet
  <2> QED BY <2>1
<1> QED BY <1>1, <1>2

\* A request ends and has put nothing.
LEMMA EndsUnwritten ==
  ASSUME Inv, NEW r \in Requests, EndUnwritten(r), Running(r) \/ pc[r] = "verify"
  PROVE  Inv'
<1>1. End(r) /\ UNCHANGED <<file, lineage, started, gatewayVars>>
  BY DEF EndUnwritten
<1>2. GatewayTypeOK' /\ Remembers
  BY <1>1, GatewayRemembers DEF Inv, Types, TypeOK
<1>3. Types /\ Chained
  BY DEF Inv
<1>4. /\ Requested' /\ Chained' /\ chain' \in [Users -> Seq(Requests)]
      /\ pc' \in [Requests -> {"idle", "queued", "verify", "crediting", "put"}]
      /\ expected' \in [Requests -> Nat]
      /\ Alone(r) /\ Same(r) /\ pc'[r] = "idle"
  BY <1>1, <1>3, Ends
<1>5. ~Starting(r)'
  BY <1>4 DEF Starting
<1> QED BY <1>1, <1>2, <1>4, <1>5, NothingPut

\* A request arrives.
LEMMA ArrivalKeeps ==
  ASSUME Inv, NEW r \in Requests, Arrival(r)
  PROVE  Inv'
<1>1. Types /\ Chained /\ GatewayTypeOK
  BY DEF Inv, Types, TypeOK
<1>2. ASSUME NEW u \in Users, NEW s \in Sessions, NEW a \in Amounts, TopupStart(r, u, s, a)
      PROVE  Inv'
  <2>1. Submit(r, "topupStart", u, s, a) /\ CreatePaymentSession(s, a)
    BY <1>2 DEF TopupStart
  <2>2. /\ Requested' /\ Chained' /\ chain' \in [Users -> Seq(Requests)]
        /\ pc' \in [Requests -> {"idle", "queued", "verify", "crediting", "put"}]
        /\ expected' \in [Requests -> Nat]
        /\ Alone(r) /\ Same(r) /\ pc'[r] = "queued"
        /\ req'[r].op = "topupStart" /\ req'[r].ref = s
        /\ UNCHANGED <<file, lineage, started>>
    BY <1>1, <2>1, Submits DEF Ops
  <2>3. GatewayTypeOK' /\ Remembers
    BY <1>1, <2>1, GatewayRemembers
  <2>4. gateway[s].status = "unused" /\ gateway'[s].status # "unused"
    BY <1>1, <2>1 DEF CreatePaymentSession, PendingSession, GatewayTypeOK
  <2> QED BY <2>2, <2>3, <2>4, NothingPut
<1>3. ASSUME NEW u \in Users, NEW s \in Sessions, TopupConfirm(r, u, s)
      PROVE  Inv'
  <2>1. Submit(r, "topupConfirm", u, s, 0) /\ DevMarkPaid(s)
    BY <1>3 DEF TopupConfirm
  <2>2. /\ Requested' /\ Chained' /\ chain' \in [Users -> Seq(Requests)]
        /\ pc' \in [Requests -> {"idle", "queued", "verify", "crediting", "put"}]
        /\ expected' \in [Requests -> Nat]
        /\ Alone(r) /\ Same(r) /\ pc'[r] = "queued"
        /\ req'[r].op = "topupConfirm"
        /\ UNCHANGED <<file, lineage, started>>
    BY <1>1, <2>1, Submits DEF Ops
  <2>3. GatewayTypeOK' /\ Remembers
    BY <1>1, <2>1, GatewayRemembers
  <2>4. ~Starting(r)'
    BY <2>2 DEF Starting
  <2> QED BY <2>2, <2>3, <2>4, NothingPut
<1>4. ASSUME NEW u \in Users, NEW a \in Prices, NEW op \in {"debit", "refund"}, Spend(r, op, u, a)
      PROVE  Inv'
  <2>1. Submit(r, op, u, None, a) /\ UNCHANGED gatewayVars
    BY <1>4 DEF Spend
  <2>2. /\ Requested' /\ Chained' /\ chain' \in [Users -> Seq(Requests)]
        /\ pc' \in [Requests -> {"idle", "queued", "verify", "crediting", "put"}]
        /\ expected' \in [Requests -> Nat]
        /\ Alone(r) /\ Same(r) /\ pc'[r] = "queued"
        /\ req'[r].op = op
        /\ UNCHANGED <<file, lineage, started>>
    BY <1>1, <2>1, Submits DEF Ops
  <2>3. GatewayTypeOK' /\ Remembers
    BY <1>1, <2>1, GatewayRemembers
  <2>4. ~Starting(r)'
    BY <2>2 DEF Starting
  <2> QED BY <2>2, <2>3, <2>4, NothingPut
<1> QED BY <1>2, <1>3, <1>4 DEF Arrival

\* A request computes its row.
LEMMA PreparedKeeps ==
  ASSUME Inv, NEW r \in Requests, NEW row \in Row, Running(r), Prepare(r, row),
         Load(req[r].user).balance + row.amount >= 0,
         req[r].op = "topupStart" =>
           row.amount = 0 /\ row.ref = req[r].ref /\ row.expected = req[r].amount,
         req[r].op = "topupConfirm" =>
           /\ pc[r] = "crediting" /\ row.amount = expected[r] /\ row.ref = req[r].ref
           /\ ~AlreadyCredited(Load(req[r].user), req[r].ref),
         req[r].op \in {"debit", "refund"} => row.ref = None
  PROVE  Inv'
<1>1. Types /\ Chained /\ GatewayTypeOK
  BY DEF Inv, Types, TypeOK
<1>2. /\ Requested' /\ Chained' /\ chain' \in [Users -> Seq(Requests)]
      /\ pc' \in [Requests -> {"idle", "queued", "verify", "crediting", "put"}]
      /\ expected' \in [Requests -> Nat]
      /\ Alone(r) /\ Same(r) /\ pc'[r] = "put" /\ req' = req
      /\ draft'[r].row = row /\ draft'[r].base = Load(req[r].user)
      /\ UNCHANGED <<file, expected, lineage, started, gatewayVars>>
  BY <1>1, Prepares
<1>3. GatewayTypeOK' /\ Remembers
  BY <1>1, <1>2, GatewayRemembers
<1>4. Drafted(r)'
  <2>1. Load(req[r].user)' = Load(req[r].user)
    BY <1>2 DEF Load
  <2> QED BY <1>2, <2>1 DEF Drafted
<1>5. req[r].op = "topupConfirm" => Claim(r)' \in started /\ gateway'[req[r].ref].status = "paid"
  <2>1. Claim(r)' = Claim(r) /\ gateway' = gateway
    BY <1>2 DEF Claim, gatewayVars
  <2> QED BY <2>1 DEF Inv, Confirmed
<1>6. Starting(r)' => Starting(r)
  BY <1>2 DEF Starting, Running
<1> QED BY <1>2, <1>3, <1>4, <1>5, <1>6, NothingPut

\* A start, a debit, a refund and a second pass have read the document.
LEMMA ReadsKeep ==
  ASSUME Inv, NEW r \in Requests,
         ReadForStart(r) \/ ReadForCredit(r) \/ ReadForDebit(r) \/ ReadForRefund(r)
  PROVE  Inv'
<1>1. Types /\ Running(r) /\ pc[r] # "idle"
  BY DEF Inv, ReadForStart, ReadForCredit, ReadForDebit, ReadForRefund, Running
<1>2. Asked(req[r])
  BY <1>1 DEF Types, Requested
<1>3. Load(req[r].user).balance \in Nat
  BY <1>1, <1>2, LoadTyped DEF Asked
<1>4. CASE ReadForStart(r)
  <2> DEFINE row == [kind |-> "topup", amount |-> 0, ref |-> req[r].ref, expected |-> req[r].amount]
  <2>1. Prepare(r, row) /\ req[r].op = "topupStart"
    BY <1>4 DEF ReadForStart
  <2>2. row \in Row /\ row.amount = 0 /\ row.ref = req[r].ref /\ row.expected = req[r].amount
    <3>1. req[r].amount \in Nat /\ req[r].ref \in Sessions \cup {None}
      BY <1>2, <2>1, AmountsArePositive DEF Asked
    <3> QED BY <3>1 DEF Row
  <2> HIDE DEF row
  <2> QED BY <1>1, <1>3, <2>1, <2>2, PreparedKeeps
<1>5. CASE ReadForCredit(r)
  <2> DEFINE row == [kind |-> "topup", amount |-> expected[r], ref |-> req[r].ref, expected |-> 0]
  <2>1. pc[r] = "crediting" /\ req[r].op = "topupConfirm" /\ expected[r] \in Nat
    BY <1>1, <1>5 DEF ReadForCredit, Types, Requested, TypeOK
  <2>2. row \in Row /\ row.amount = expected[r] /\ row.ref = req[r].ref
    BY <1>2, <2>1 DEF Row, Asked
  <2>3. CASE AlreadyCredited(Load(req[r].user), req[r].ref)
    BY <1>1, <1>5, <2>3, EndsUnwritten DEF ReadForCredit
  <2>4. CASE ~AlreadyCredited(Load(req[r].user), req[r].ref)
    <3>1. Prepare(r, row)
      BY <1>5, <2>4 DEF ReadForCredit
    <3> HIDE DEF row
    <3> QED BY <1>1, <1>3, <2>1, <2>2, <2>4, <3>1, PreparedKeeps
  <2> QED BY <2>3, <2>4
<1>6. CASE ReadForDebit(r)
  <2> DEFINE row == [kind |-> "debit", amount |-> -req[r].amount, ref |-> None, expected |-> 0]
  <2>1. req[r].op = "debit" /\ req[r].amount \in Nat
    BY <1>2, <1>6, WalletPricesArePositive DEF ReadForDebit, Asked
  <2>2. row \in Row /\ row.amount = -req[r].amount /\ row.ref = None
    BY <2>1 DEF Row
  <2>3. CASE Load(req[r].user).balance < req[r].amount
    BY <1>1, <1>6, <2>3, EndsUnwritten DEF ReadForDebit
  <2>4. CASE ~(Load(req[r].user).balance < req[r].amount)
    <3>1. Prepare(r, row)
      BY <1>6, <2>4 DEF ReadForDebit
    <3> HIDE DEF row
    <3>2. Load(req[r].user).balance + row.amount >= 0
      BY <1>3, <2>1, <2>2, <2>4
    <3> QED BY <1>1, <2>1, <2>2, <3>1, <3>2, PreparedKeeps
  <2> QED BY <2>3, <2>4
<1>7. CASE ReadForRefund(r)
  <2> DEFINE row == [kind |-> "refund", amount |-> req[r].amount, ref |-> None, expected |-> 0]
  <2>1. req[r].op = "refund" /\ req[r].amount \in Nat /\ Prepare(r, row)
    BY <1>2, <1>7, WalletPricesArePositive DEF ReadForRefund, Asked
  <2>2. row \in Row /\ row.amount = req[r].amount /\ row.ref = None
    BY <2>1 DEF Row
  <2> HIDE DEF row
  <2>3. Load(req[r].user).balance + row.amount >= 0
    BY <1>3, <2>1, <2>2
  <2> QED BY <1>1, <2>1, <2>2, <2>3, PreparedKeeps
<1> QED BY <1>4, <1>5, <1>6, <1>7

\* What a wallet's rows say of intents and credits, its history says too.
LEMMA KeptRowsWerePut ==
  ASSUME Types, History, NEW u \in Users, NEW k \in 1..Len(Load(u).txns)
  PROVE  /\ Len(lineage[u]) - Len(Load(u).txns) + k \in 1..Len(lineage[u])
         /\ Load(u).txns[k] = lineage[u][Len(lineage[u]) - Len(Load(u).txns) + k]
<1>1. Matches(Load(u), lineage[u])
  BY DEF History
<1>2. Len(lineage[u]) \in Nat /\ Len(Load(u).txns) \in Nat
  BY LoadTyped DEF Types, TypeOK
<1>3. Len(Load(u).txns) <= Len(lineage[u])
  BY <1>1, <1>2, TxnCapIsPositive DEF Matches
<1> QED BY <1>1, <1>2, <1>3 DEF Matches

\* The amount a first pass finds is that of a top-up its user started.
LEMMA IntentWasStarted ==
  ASSUME Inv, NEW u \in Users, NEW s \in Sessions, NEW k \in Intents(Load(u), s)
  PROVE  /\ [session |-> s, user |-> u, amount |-> Load(u).txns[k].expected] \in started
         /\ Load(u).txns[k].expected \in Nat
<1> DEFINE i == Len(lineage[u]) - Len(Load(u).txns) + k
<1>1. Types /\ History /\ Law
  BY DEF Inv
<1>2. Load(u).txns \in Seq(Row) /\ k \in 1..Len(Load(u).txns) /\ IsIntent(Load(u).txns[k], s)
  BY <1>1, LoadTyped DEF Intents
<1>3. i \in 1..Len(lineage[u]) /\ Load(u).txns[k] = lineage[u][i]
  BY <1>1, <1>2, KeptRowsWerePut
<1>4. Load(u).txns[k] \in Row
  BY <1>2
<1> HIDE DEF i
<1> QED BY <1>1, <1>2, <1>3, <1>4 DEF Law, Lawful, Row

\* A confirm's first pass.
LEMMA PreflightKeeps ==
  ASSUME Inv, NEW r \in Requests, Preflight(r)
  PROVE  Inv'
<1> DEFINE w == Load(req[r].user)
           s == req[r].ref
           i == CHOOSE k \in Intents(w, s) : \A j \in Intents(w, s) : k <= j
<1>1. Types /\ Chained /\ GatewayTypeOK /\ Running(r) /\ pc[r] = "queued"
      /\ req[r].op = "topupConfirm"
  BY DEF Inv, Types, TypeOK, Preflight
<1>2. req[r].user \in Users /\ s \in Sessions
  BY <1>1 DEF Types, Requested, Asked
<1>3. CASE AlreadyCredited(w, s) \/ Intents(w, s) = {}
  <2>1. EndUnwritten(r)
    BY <1>3 DEF Preflight
  <2> QED BY <1>1, <2>1, EndsUnwritten
<1>4. CASE ~(AlreadyCredited(w, s) \/ Intents(w, s) = {})
  <2>1. /\ expected' = [expected EXCEPT ![r] = w.txns[i].expected]
        /\ pc' = [pc EXCEPT ![r] = "verify"]
        /\ Leave(r)
        /\ UNCHANGED <<file, req, draft, lineage, started, gatewayVars>>
    BY <1>4 DEF Preflight
  <2>2. i \in Intents(w, s)
    <3>1. Intents(w, s) \in SUBSET Nat
      <4>1. w.txns \in Seq(Row)
        BY <1>1, <1>2, LoadTyped
      <4> QED BY <4>1 DEF Intents
    <3>2. \E k \in Intents(w, s) : \A j \in Intents(w, s) : k <= j
      BY <1>4, <3>1, LeastIsThere
    <3> QED BY <3>2
  <2> HIDE DEF i
  <2>3. [session |-> s, user |-> req[r].user, amount |-> w.txns[i].expected] \in started
        /\ w.txns[i].expected \in Nat
    BY <1>2, <2>2, IntentWasStarted
  <2>4. PICK e \in Nat : e = w.txns[i].expected
    BY <2>3
  <2>5. /\ Requested' /\ Chained' /\ chain' \in [Users -> Seq(Requests)]
        /\ pc' \in [Requests -> {"idle", "queued", "verify", "crediting", "put"}]
        /\ expected' \in [Requests -> Nat]
        /\ Alone(r) /\ Same(r) /\ pc'[r] = "verify" /\ expected'[r] = e
    BY <1>1, <2>1, <2>4, GoesToVerify
  <2>6. GatewayTypeOK' /\ Remembers
    BY <1>1, <2>1, GatewayRemembers
  <2>7. Claim(r)' \in started
    BY <2>1, <2>3, <2>4, <2>5 DEF Claim
  <2>8. ~Starting(r)'
    BY <1>1, <2>1 DEF Starting
  <2> QED BY <2>1, <2>5, <2>6, <2>7, <2>8, NothingPut
<1> QED BY <1>3, <1>4

\* The gateway's answer.
LEMMA VerifyKeeps ==
  ASSUME Inv, NEW r \in Requests, Verify(r)
  PROVE  Inv'
<1>1. Types /\ Chained /\ GatewayTypeOK /\ pc[r] = "verify" /\ req[r].op = "topupConfirm"
  BY DEF Inv, Types, TypeOK, Requested, Verify
<1>2. PICK reply \in VerifyReplies(req[r].ref, expected[r]) :
        IF reply.valid /\ reply.amount = expected[r]
        THEN /\ pc' = [pc EXCEPT ![r] = "crediting"]
             /\ chain' = [chain EXCEPT ![req[r].user] = Append(@, r)]
             /\ UNCHANGED <<file, req, expected, draft, lineage, started, gatewayVars>>
        ELSE EndUnwritten(r)
  BY DEF Verify
<1>3. CASE ~(reply.valid /\ reply.amount = expected[r])
  BY <1>1, <1>2, <1>3, EndsUnwritten
<1>4. CASE reply.valid /\ reply.amount = expected[r]
  <2>1. gateway[req[r].ref].status = "paid"
    BY <1>4 DEF VerifyReplies, ZarinpalReplies, MockReplies
  <2>2. /\ pc' = [pc EXCEPT ![r] = "crediting"]
        /\ chain' = [chain EXCEPT ![req[r].user] = Append(@, r)]
        /\ UNCHANGED <<file, req, expected, draft, lineage, started, gatewayVars>>
    BY <1>2, <1>4
  <2>3. /\ Requested' /\ Chained' /\ chain' \in [Users -> Seq(Requests)]
        /\ pc' \in [Requests -> {"idle", "queued", "verify", "crediting", "put"}]
        /\ expected' \in [Requests -> Nat]
        /\ Alone(r) /\ Same(r) /\ pc'[r] = "crediting"
    BY <1>1, <2>2, GoesToCredit
  <2>4. GatewayTypeOK' /\ Remembers
    BY <1>1, <2>2, GatewayRemembers
  <2>5. Claim(r)' \in started /\ gateway'[req'[r].ref].status = "paid"
    <3>1. Claim(r)' = Claim(r) /\ gateway' = gateway /\ req' = req
      BY <2>2 DEF Claim, gatewayVars
    <3> QED BY <1>1, <2>1, <3>1 DEF Inv, Confirmed
  <2>6. ~Starting(r)'
    BY <1>1, <2>2 DEF Starting
  <2> QED BY <2>2, <2>3, <2>4, <2>5, <2>6, NothingPut
<1> QED BY <1>3, <1>4

-----------------------------------------------------------------------------
(* The steps that write the document.                                      *)

\* What Truncate keeps.
LEMMA Truncated ==
  ASSUME NEW rows \in Seq(Row)
  PROVE  /\ Truncate(rows) \in Seq(Row)
         /\ Len(Truncate(rows)) = IF Len(rows) <= TxnCap THEN Len(rows) ELSE TxnCap
         /\ \A k \in 1..Len(Truncate(rows)) :
              Truncate(rows)[k] = rows[Len(rows) - Len(Truncate(rows)) + k]
<1> DEFINE n == Len(rows)
<1>1. n \in Nat /\ TxnCap \in Nat \ {0}
  BY TxnCapIsPositive
<1>2. CASE n <= TxnCap
  <2>1. Truncate(rows) = rows
    BY <1>1, <1>2 DEF Truncate
  <2>2. \A k \in 1..n : rows[k] = rows[n - n + k]
    BY <1>1
  <2> QED BY <1>2, <2>1, <2>2
<1>3. CASE ~(n <= TxnCap)
  <2> DEFINE m == n - TxnCap + 1
  <2>1. Truncate(rows) = SubSeq(rows, m, n)
    BY <1>1, <1>3 DEF Truncate
  <2>2. m \in 1..n /\ m <= n /\ n - m + 1 = TxnCap
    BY <1>1, <1>3
  <2>3. \A i \in m..n : rows[i] \in Row
    BY <1>1, <2>2
  <2>4. /\ SubSeq(rows, m, n) \in Seq(Row)
        /\ Len(SubSeq(rows, m, n)) = TxnCap
        /\ \A k \in 1..TxnCap : SubSeq(rows, m, n)[k] = rows[m + k - 1]
    BY <1>1, <2>2, <2>3, SubSeqProperties
  <2>5. \A k \in 1..TxnCap : m + k - 1 = n - TxnCap + k
    BY <1>1
  <2> QED BY <1>3, <2>1, <2>4, <2>5
<1> QED BY <1>2, <1>3

\* A document that matches its history does so with one row more.
LEMMA MatchesGrows ==
  ASSUME NEW w, NEW rows \in Seq(Row), NEW row \in Row,
         w.txns \in Seq(Row), w.balance \in Nat, Matches(w, rows)
  PROVE  Matches(Wallet(w.balance + row.amount, Truncate(Append(w.txns, row))), Append(rows, row))
<1> DEFINE more == Append(w.txns, row)
           kept == Truncate(more)
           put == Append(rows, row)
           n == Len(rows)
           l == Len(w.txns)
<1>1. /\ more \in Seq(Row) /\ put \in Seq(Row) /\ n \in Nat /\ l \in Nat
      /\ Len(more) = l + 1 /\ Len(put) = n + 1
      /\ more[l + 1] = row /\ put[n + 1] = row
      /\ \A i \in 1..l : more[i] = w.txns[i]
      /\ \A i \in 1..n : put[i] = rows[i]
  BY AppendProperties
<1>2. /\ Len(kept) = IF l + 1 <= TxnCap THEN l + 1 ELSE TxnCap
      /\ \A k \in 1..Len(kept) : kept[k] = more[l + 1 - Len(kept) + k]
  <2>1. more \in Seq(Row) /\ Len(more) = l + 1
    BY <1>1
  <2> HIDE DEF more, l, n, put
  <2>2. /\ Len(Truncate(more)) = IF Len(more) <= TxnCap THEN Len(more) ELSE TxnCap
        /\ \A k \in 1..Len(Truncate(more)) :
             Truncate(more)[k] = more[Len(more) - Len(Truncate(more)) + k]
    BY <2>1, Truncated
  <2>3. kept = Truncate(more)
    OBVIOUS
  <2> HIDE DEF kept
  <2>4. Len(kept) = IF l + 1 <= TxnCap THEN l + 1 ELSE TxnCap
    BY <2>1, <2>2, <2>3
  <2>5. ASSUME NEW k \in 1..Len(kept)
        PROVE  kept[k] = more[l + 1 - Len(kept) + k]
    <3>1. kept[k] = more[Len(more) - Len(kept) + k]
      BY <2>2, <2>3
    <3>2. l \in Nat /\ Len(kept) \in Nat /\ k \in Nat
      BY <1>1, <2>4, TxnCapIsPositive
    <3>3. Len(more) - Len(kept) + k = l + 1 - Len(kept) + k
      BY <2>1, <3>2
    <3> QED BY <3>1, <3>3
  <2> QED BY <2>4, <2>5
<1>3. l = IF n <= TxnCap THEN n ELSE TxnCap
  BY DEF Matches
<1>4. Sum(put) = w.balance + row.amount
  BY SumGrows DEF Matches
<1> HIDE DEF more, kept, put, n, l
<1>5. TxnCap \in Nat \ {0}
  BY TxnCapIsPositive
<1>6. Len(kept) = IF n + 1 <= TxnCap THEN n + 1 ELSE TxnCap
  BY <1>1, <1>2, <1>3, <1>5
<1>7. ASSUME NEW k \in 1..Len(kept)
      PROVE  kept[k] = put[n + 1 - Len(kept) + k]
  <2> DEFINE j == l + 1 - Len(kept) + k
  <2>1. Len(kept) \in Nat /\ k \in Nat /\ k <= Len(kept) /\ Len(kept) <= l + 1 /\ l <= n
    BY <1>1, <1>2, <1>3, <1>5
  <2>2. j \in 1..(l + 1) /\ kept[k] = more[j] /\ n + 1 - Len(kept) + k = n - l + j
    BY <1>1, <1>2, <2>1, SMTT(30)
  <2> HIDE DEF j
  <2>3. CASE j = l + 1
    BY <1>1, <2>2, <2>3, SMTT(30)
  <2>4. CASE j # l + 1
    <3>1. j \in 1..l /\ n - l + j \in 1..n
      <4>1. j \in 1..(l + 1) /\ j # l + 1 /\ l \in Nat /\ n \in Nat /\ l <= n
        BY <1>1, <2>1, <2>2, <2>4
      <4> QED BY <4>1
    <3>2. w.txns[j] = rows[n - l + j]
      BY <3>1 DEF Matches, n, l
    <3> QED BY <1>1, <2>2, <3>1, <3>2
  <2> QED BY <2>3, <2>4
<1>8. Wallet(w.balance + row.amount, kept).balance = w.balance + row.amount
      /\ Wallet(w.balance + row.amount, kept).txns = kept
  BY DEF Wallet
<1>9. Matches(Wallet(w.balance + row.amount, kept), put)
  <2> DEFINE doc == Wallet(w.balance + row.amount, kept)
  <2>1. doc.balance = Sum(put) /\ doc.txns = kept /\ Len(put) = n + 1
    BY <1>1, <1>4, <1>8
  <2> HIDE DEF doc
  <2>2. n \in Nat /\ Len(kept) \in Nat /\ TxnCap \in Nat
    BY <1>1, <1>5, <1>6
  <2>3. Matches(doc, put)
    <3>1. Len(doc.txns) = IF Len(put) <= TxnCap THEN Len(put) ELSE TxnCap
      BY <1>6, <2>1, <2>2
    <3>2. ASSUME NEW k \in 1..Len(doc.txns)
          PROVE  doc.txns[k] = put[Len(put) - Len(doc.txns) + k]
      <4>1. kept[k] = put[n + 1 - Len(kept) + k]
        BY <1>7, <2>1
      <4>2. n \in Nat /\ Len(kept) \in Nat /\ k \in Nat
        BY <2>1, <2>2
      <4>3. Len(put) - Len(doc.txns) + k = n + 1 - Len(kept) + k
        BY <2>1, <4>2
      <4> QED BY <2>1, <4>1, <4>3
    <3> QED BY <2>1, <3>1, <3>2 DEF Matches
  <2> QED BY <2>3 DEF doc
<1> QED BY <1>9 DEF kept, more, put

\* An empty wallet matches no rows.
LEMMA EmptyMatches ==
  /\ Matches(EmptyWallet, <<>>)
  /\ \A u \in Users : Lawful(u, <<>>)
<1>1. EmptyWallet.balance = 0 /\ EmptyWallet.txns = <<>> /\ Len(<<>>) = 0
  BY DEF EmptyWallet, Wallet
<1>2. 0 <= TxnCap /\ 1..0 = {}
  BY TxnCapIsPositive
<1> QED BY <1>1, <1>2, SumGrows DEF Matches, Lawful

\* The row that is put is lawful, and those before it stay so.
LEMMA RowIsLawful ==
  ASSUME Inv, NEW r \in Requests, Put(r), NEW v, NEW m, v = req[r].user, m = lineage'[v]
  PROVE  Lawful(v, m)'
<1> DEFINE u == req[r].user
           row == draft[r].row
           base == draft[r].base
           rows == lineage[u]
           n == Len(rows)
           more == lineage'[u]
<1>1. pc[r] = "put" /\ Drafted(r) /\ Asked(req[r])
  BY DEF Put, Inv, Drafts, Types, Requested
<1>2. u \in Users /\ row \in Row /\ rows \in Seq(Row) /\ n \in Nat
  BY <1>1 DEF Drafted, Asked, Inv, Types, TypeOK
<1>3. /\ more = Append(rows, row)
      /\ gateway' = gateway
      /\ started' = IF req[r].op = "topupStart"
                    THEN started \cup {[session |-> row.ref, user |-> u, amount |-> row.expected]}
                    ELSE started
  BY <1>2 DEF Put, Inv, Types, TypeOK, gatewayVars
<1>4. Len(more) = n + 1 /\ more[n + 1] = row /\ \A i \in 1..n : more[i] = rows[i]
  <2>1. more = Append(rows, row) /\ rows \in Seq(Row) /\ row \in Row
    BY <1>2, <1>3
  <2> HIDE DEF more, rows, row
  <2> QED BY <2>1, AppendProperties
<1>5. Lawful(u, rows)
  BY <1>2 DEF Inv, Law
<1>6. started \subseteq started' /\ TxnCap \in Nat \ {0}
  BY <1>3, TxnCapIsPositive
<1>7. row.amount \in Int /\ (req[r].op = "topupConfirm" => row.amount > 0)
  <2>1. row.amount \in Int
    BY <1>2 DEF Row
  <2>2. ASSUME req[r].op = "topupConfirm"
        PROVE  row.amount > 0
    <3>1. Claim(r) \in started /\ started \subseteq Topup /\ row.amount = expected[r]
      BY <1>1, <2>2 DEF Inv, Confirmed, Types, TypeOK, Drafted
    <3>2. expected[r] \in Amounts
      BY <3>1 DEF Claim, Topup
    <3>3. expected[r] \in Nat \ {0}
      BY <3>2, AmountsArePositive
    <3> QED BY <3>1, <3>3
  <2> QED BY <2>1, <2>2
<1>8. ASSUME NEW s \in Sessions, IsIntent(row, s)
      PROVE  /\ req[r].op = "topupStart" /\ s = req[r].ref
             /\ [session |-> s, user |-> u, amount |-> row.expected] \in started'
             /\ ~IsCredit(row, s)
  <2>1. req[r].op = "topupStart"
    BY <1>1, <1>7, <1>8, NoneIsNoSession DEF IsIntent, Drafted, Asked, Ops
  <2> QED BY <1>1, <1>3, <1>8, <2>1 DEF IsIntent, IsCredit, Drafted
<1>9. ASSUME NEW s \in Sessions, IsCredit(row, s)
      PROVE  /\ gateway[s].status = "paid" /\ ~AlreadyCredited(base, s)
             /\ [session |-> s, user |-> u, amount |-> row.amount] \in started
             /\ ~IsIntent(row, s)
  <2>1. req[r].op = "topupConfirm"
    BY <1>1, <1>7, <1>9, NoneIsNoSession DEF IsCredit, Drafted, Asked, Ops
  <2>2. row.ref = s /\ row.ref = req[r].ref /\ row.amount = expected[r] /\ row.amount > 0
        /\ ~AlreadyCredited(base, row.ref)
    BY <1>1, <1>9, <2>1 DEF IsCredit, Drafted
  <2>3. Claim(r) \in started /\ gateway[req[r].ref].status = "paid"
    BY <1>1, <2>1 DEF Inv, Confirmed
  <2> QED BY <2>2, <2>3 DEF Claim, IsIntent
<1>10. ASSUME NEW i \in 1..n, NEW s \in Sessions, IsCredit(rows[i], s), IsCredit(row, s)
       PROVE  n + 1 - i > TxnCap
  <2> DEFINE l == Len(base.txns)
             k == i - (n - l)
  <2>1. base = Load(u) /\ Matches(base, rows) /\ l \in Nat
    BY <1>1, <1>2, LoadTyped DEF Drafted, Inv, History
  <2>2. l = IF n <= TxnCap THEN n ELSE TxnCap
    BY <2>1 DEF Matches
  <2>3. CASE n + 1 - i <= TxnCap
    <3>1. k \in 1..l /\ n - l + k = i
      <4> HIDE DEF l, n
      <4> QED BY <1>2, <1>6, <2>1, <2>2, <2>3
    <3> HIDE DEF k
    <3>2. base.txns[k] = rows[i]
      <4>1. base.txns[k] = rows[n - l + k]
        BY <2>1, <3>1 DEF Matches
      <4> QED BY <3>1, <4>1
    <3>3. k \in DOMAIN base.txns
      <4>1. base.txns \in Seq(Row)
        BY <1>2, <2>1, LoadTyped DEF Inv
      <4> QED BY <3>1, <4>1
    <3>4. AlreadyCredited(base, s)
      BY <1>10, <3>2, <3>3 DEF AlreadyCredited
    <3> QED BY <1>9, <1>10, <3>4
  <2>4. CASE ~(n + 1 - i <= TxnCap)
    BY <1>2, <1>6, <2>4
  <2> QED BY <2>3, <2>4
<1>11. ASSUME NEW i \in 1..n, NEW s \in Sessions, IsCredit(rows[i], s), IsIntent(row, s)
       PROVE  FALSE
  <2>1. [session |-> s, user |-> u, amount |-> rows[i].amount] \in started
    BY <1>5, <1>11 DEF Lawful
  <2>2. Starting(r) /\ s = req[r].ref
    BY <1>1, <1>8, <1>11 DEF Starting
  <2> QED BY <2>1, <2>2 DEF Inv, Begun
<1>0. v = u /\ m = more
  OBVIOUS
<1> HIDE DEF more, rows, row, base, n, u
<1>12. ASSUME NEW i \in 1..(n + 1), NEW s \in Sessions
       PROVE  /\ IsIntent(more[i], s) =>
                   [session |-> s, user |-> u, amount |-> more[i].expected] \in started'
              /\ IsCredit(more[i], s) =>
                   /\ gateway[s].status = "paid"
                   /\ [session |-> s, user |-> u, amount |-> more[i].amount] \in started'
                   /\ \A j \in 1..(n + 1) :
                        /\ IsIntent(more[j], s) => j < i
                        /\ i < j /\ IsCredit(more[j], s) => j - i > TxnCap
  <2>1. CASE i = n + 1
    <3>1. more[i] = row
      BY <1>4, <2>1
    <3>2. ASSUME IsCredit(row, s), NEW j \in 1..(n + 1)
          PROVE  /\ IsIntent(more[j], s) => j < i
                 /\ ~(i < j)
      <4>1. CASE j = n + 1
        <5>1. ~IsIntent(more[j], s)
          BY <1>4, <1>9, <3>2, <4>1
        <5> QED BY <1>2, <2>1, <4>1, <5>1
      <4>2. CASE j # n + 1
        BY <1>2, <2>1, <4>2
      <4> QED BY <4>1, <4>2
    <3> QED BY <1>6, <1>8, <1>9, <3>1, <3>2
  <2>2. CASE i # n + 1
    <3>1. i \in 1..n /\ more[i] = rows[i]
      BY <1>2, <1>4, <2>2
    <3>2. ASSUME IsCredit(rows[i], s), NEW j \in 1..(n + 1)
          PROVE  /\ IsIntent(more[j], s) => j < i
                 /\ i < j /\ IsCredit(more[j], s) => j - i > TxnCap
      <4>1. CASE j = n + 1
        <5>1. more[j] = row /\ j - i = n + 1 - i
          BY <1>4, <4>1, <1>2, <3>1
        <5>2. ~IsIntent(more[j], s)
          BY <1>11, <3>1, <3>2, <5>1
        <5>3. IsCredit(more[j], s) => j - i > TxnCap
          BY <1>10, <3>1, <3>2, <5>1
        <5> QED BY <5>2, <5>3
      <4>2. CASE j # n + 1
        <5>1. j \in 1..n /\ more[j] = rows[j]
          BY <1>2, <1>4, <4>2
        <5> QED BY <1>5, <3>1, <3>2, <5>1 DEF Lawful, n
      <4> QED BY <4>1, <4>2
    <3>3. /\ IsIntent(rows[i], s) =>
               [session |-> s, user |-> u, amount |-> rows[i].expected] \in started
          /\ IsCredit(rows[i], s) =>
               /\ gateway[s].status = "paid"
               /\ [session |-> s, user |-> u, amount |-> rows[i].amount] \in started
      BY <1>5, <3>1 DEF Lawful, n
    <3> QED BY <1>6, <3>1, <3>2, <3>3
  <2> QED BY <2>1, <2>2
<1> QED BY <1>0, <1>3, <1>4, <1>12 DEF Lawful

\* What may stand in a file.
FileOK(doc) ==
    /\ doc.status \in {"missing", "torn", "wallet"}
    /\ doc.status = "wallet" => doc.balance \in Nat /\ doc.txns \in Seq(Row)

\* The wallet read from it.
Read(doc) == IF doc.status = "wallet" THEN doc ELSE EmptyWallet

\* A request that was at its put ends and leaves document and history that
\* match; a top-up that became started is its own.
LEMMA Rewritten ==
  ASSUME Inv, NEW r \in Requests, pc[r] = "put", End(r), UNCHANGED gatewayVars,
         NEW v \in Users, v = req[r].user, NEW doc, NEW rows \in Seq(Row),
         file' = [file EXCEPT ![v] = doc], lineage' = [lineage EXCEPT ![v] = rows],
         FileOK(doc), Matches(Read(doc), rows), Lawful(v, rows)',
         started \subseteq started', started' \subseteq Topup,
         \A t \in started' : t \in started \/ (Starting(r) /\ t.session = req[r].ref)
  PROVE  Inv'
<1>1. Types /\ Chained /\ GatewayTypeOK
  BY DEF Inv, Types, TypeOK
<1>2. /\ Requested' /\ Chained' /\ chain' \in [Users -> Seq(Requests)]
      /\ pc' \in [Requests -> {"idle", "queued", "verify", "crediting", "put"}]
      /\ expected' \in [Requests -> Nat]
      /\ Alone(r) /\ Same(r) /\ pc'[r] = "idle"
  BY <1>1, Ends
<1>3. GatewayTypeOK' /\ Remembers /\ gateway' = gateway
  BY <1>1, GatewayRemembers DEF gatewayVars
<1>4. \A o \in Requests \ {r} :
        pc'[o] = pc[o] /\ req'[o] = req[o] /\ expected'[o] = expected[o] /\ draft'[o] = draft[o]
  BY <1>2 DEF Alone, Same
<1>5. /\ file'[v] = doc /\ lineage'[v] = rows
      /\ \A u \in Users \ {v} : file'[u] = file[u] /\ lineage'[u] = lineage[u]
      /\ file' = [u \in Users |-> file'[u]]
      /\ lineage' \in [Users -> Seq(Row)]
  <2>1. file = [u \in Users |-> file[u]] /\ lineage \in [Users -> Seq(Row)]
    BY <1>1 DEF Types, TypeOK
  <2> QED BY <2>1
<1>6. Types'
  <2>1. ASSUME NEW u \in Users
        PROVE  /\ file'[u].status \in {"missing", "torn", "wallet"}
               /\ file'[u].status = "wallet" => file'[u].balance \in Nat /\ file'[u].txns \in Seq(Row)
    <3>1. CASE u = v
      BY <1>5, <3>1 DEF FileOK
    <3>2. CASE u # v
      BY <1>1, <1>5, <3>2 DEF Types, TypeOK
    <3> QED BY <3>1, <3>2
  <2> QED BY <1>2, <1>3, <1>5, <2>1 DEF Types, TypeOK
<1>7. Drafts'
  <2>1. ASSUME NEW o \in Requests, pc'[o] = "put"
        PROVE  Drafted(o)'
    <3>1. o # r /\ pc[o] = "put" /\ req'[o] = req[o] /\ draft'[o] = draft[o]
          /\ expected'[o] = expected[o]
      BY <1>2, <1>4, <2>1
    <3>2. chain[req[o].user][1] = o /\ chain[v][1] = r
      BY <3>1 DEF Inv, Chained
    <3>3. req[o].user \in Users \ {v}
      BY <3>1, <3>2 DEF Inv, Types, Requested, Asked
    <3>4. Drafted(o)
      BY <3>1 DEF Inv, Drafts
    <3>5. file'[req'[o].user] = file[req[o].user]
      BY <1>5, <3>1, <3>3
    <3> QED BY <3>1, <3>4, <3>5 DEF Drafted, Load, AlreadyCredited
  <2> QED BY <2>1 DEF Drafts
<1>8. History'
  <2>1. ASSUME NEW u \in Users
        PROVE  Matches(Load(u)', lineage'[u])
    <3>1. CASE u = v
      BY <1>5, <3>1 DEF Load, Read
    <3>2. CASE u # v
      <4>1. Load(u)' = Load(u) /\ lineage'[u] = lineage[u]
        BY <1>5, <3>2 DEF Load
      <4> QED BY <4>1 DEF Inv, History
    <3> QED BY <3>1, <3>2
  <2>2. \A u \in Users : Matches(Load(u), lineage[u])'
    BY <2>1 DEF Matches
  <2> QED BY <2>2 DEF History
<1>9. Begun'
  <2>1. ASSUME NEW t \in started'
        PROVE  gateway'[t.session].status # "unused"
    BY <1>3, <2>1 DEF Inv, Begun
  <2>2. ASSUME NEW o \in Requests, Starting(o)'
        PROVE  /\ o # r /\ Starting(o) /\ req'[o] = req[o]
    BY <1>2, <1>4, <2>2 DEF Starting
  <2>3. ASSUME NEW o \in Requests, Starting(o)'
        PROVE  /\ gateway'[req'[o].ref].status # "unused"
               /\ \A t \in started' : t.session # req'[o].ref
               /\ \A q \in Requests : Starting(q)' /\ req'[q].ref = req'[o].ref => q = o
    <3>1. o # r /\ Starting(o) /\ req'[o] = req[o]
      BY <2>2, <2>3
    <3>2. gateway'[req'[o].ref].status # "unused"
      BY <1>3, <3>1 DEF Inv, Begun
    <3>3. \A t \in started : t.session # req'[o].ref
      BY <3>1 DEF Inv, Begun
    <3>4. Starting(r) => req[r].ref # req'[o].ref
      BY <3>1 DEF Inv, Begun
    <3>5. ASSUME NEW q \in Requests, Starting(q)', req'[q].ref = req'[o].ref
          PROVE  q = o
      <4>1. Starting(q) /\ req'[q] = req[q]
        BY <2>2, <3>5
      <4> QED BY <3>1, <3>5, <4>1 DEF Inv, Begun
    <3> QED BY <3>2, <3>3, <3>4, <3>5
  <2> QED BY <2>1, <2>3 DEF Begun
<1>10. Confirmed'
  <2>1. ASSUME NEW o \in Requests, req'[o].op = "topupConfirm"
        PROVE  /\ pc'[o] \in {"verify", "crediting", "put"} => Claim(o)' \in started'
               /\ pc'[o] \in {"crediting", "put"} => gateway'[req'[o].ref].status = "paid"
    <3>1. CASE o = r
      BY <1>2, <3>1
    <3>2. CASE o # r
      <4>1. Claim(o)' = Claim(o) /\ req'[o] = req[o] /\ pc'[o] = pc[o]
        BY <1>4, <3>2 DEF Claim
      <4> QED BY <1>3, <2>1, <4>1 DEF Inv, Confirmed
    <3> QED BY <3>1, <3>2
  <2> QED BY <2>1 DEF Confirmed
<1>11. Law'
  <2>1. ASSUME NEW u \in Users
        PROVE  Lawful(u, lineage[u])'
    <3>1. CASE u = v
      BY <1>5, <3>1 DEF Lawful
    <3>2. CASE u # v
      BY <1>3, <1>5, <3>2, LawStays DEF Inv
    <3> QED BY <3>1, <3>2
  <2> QED BY <2>1 DEF Law
<1> QED BY <1>2, <1>6, <1>7, <1>8, <1>9, <1>10, <1>11 DEF Inv

\* The document and its row are put.
LEMMA PutKeeps ==
  ASSUME Inv, NEW r \in Requests, Put(r)
  PROVE  Inv'
<1> DEFINE row == draft[r].row
           base == draft[r].base
<1>1. pc[r] = "put" /\ Drafted(r) /\ Asked(req[r]) /\ Types /\ End(r) /\ UNCHANGED gatewayVars
  BY DEF Put, Inv, Drafts, Types, Requested
<1>2. PICK v \in Users : v = req[r].user
  BY <1>1 DEF Asked
<1>3. row \in Row /\ base = Load(v) /\ base.balance + row.amount >= 0
      /\ base.balance \in Nat /\ base.txns \in Seq(Row) /\ lineage[v] \in Seq(Row)
  BY <1>1, <1>2, LoadTyped DEF Drafted, Types, TypeOK
<1>4. PICK doc : doc = Wallet(base.balance + row.amount, Truncate(Append(base.txns, row)))
  OBVIOUS
<1>5. PICK rows : rows = Append(lineage[v], row)
  OBVIOUS
<1>6. /\ file' = [file EXCEPT ![v] = doc] /\ lineage' = [lineage EXCEPT ![v] = rows]
      /\ started' = IF req[r].op = "topupStart"
                    THEN started \cup {[session |-> row.ref, user |-> v, amount |-> row.expected]}
                    ELSE started
  BY <1>2, <1>4, <1>5 DEF Put
<1>7. rows \in Seq(Row) /\ rows = lineage'[v]
  <2>1. rows \in Seq(Row)
    BY <1>3, <1>5, AppendProperties
  <2> QED BY <1>1, <1>6, <2>1 DEF Types, TypeOK
<1>8. FileOK(doc)
  <2>1. Append(base.txns, row) \in Seq(Row)
    BY <1>3, AppendProperties
  <2>2. Truncate(Append(base.txns, row)) \in Seq(Row)
    BY <2>1, Truncated
  <2>3. base.balance + row.amount \in Nat
    BY <1>3 DEF Row
  <2> HIDE DEF row, base
  <2>4. /\ doc.status = "wallet" /\ doc.balance = base.balance + row.amount
        /\ doc.txns = Truncate(Append(base.txns, row))
    BY <1>4 DEF Wallet
  <2> QED BY <2>2, <2>3, <2>4 DEF FileOK
<1>9. Matches(Read(doc), rows)
  <2>1. Matches(base, lineage[v])
    BY <1>3 DEF Inv, History
  <2>2. PICK b : b = base
    OBVIOUS
  <2>3. PICK l \in Seq(Row) : l = lineage[v]
    BY <1>3
  <2>4. PICK w \in Row : w = row
    BY <1>3
  <2>5. b.txns \in Seq(Row) /\ b.balance \in Nat /\ Matches(b, l)
    BY <1>3, <2>1, <2>2, <2>3
  <2>6. Matches(Wallet(b.balance + w.amount, Truncate(Append(b.txns, w))), Append(l, w))
    BY <2>5, MatchesGrows
  <2>7. doc.status = "wallet"
    BY <1>4 DEF Wallet
  <2>8. Read(doc) = doc
    BY <2>7 DEF Read
  <2> QED BY <1>4, <1>5, <2>2, <2>3, <2>4, <2>6, <2>8
<1>10. Lawful(v, rows)'
  BY <1>2, <1>7, RowIsLawful
<1>11. req[r].op = "topupStart" =>
         Starting(r) /\ row.ref = req[r].ref
         /\ [session |-> row.ref, user |-> v, amount |-> row.expected] \in Topup
  BY <1>1 DEF Starting, Drafted, Asked, Topup
<1>12. started \subseteq Topup
  BY <1>1 DEF Types, TypeOK
<1>13. /\ started \subseteq started' /\ started' \subseteq Topup
       /\ \A t \in started' : t \in started \/ (Starting(r) /\ t.session = req[r].ref)
  <2>1. CASE req[r].op # "topupStart"
    BY <1>6, <1>12, <2>1
  <2>2. CASE req[r].op = "topupStart"
    <3> DEFINE top == [session |-> row.ref, user |-> v, amount |-> row.expected]
    <3>1. top.session = row.ref /\ started' = started \cup {top} /\ top \in Topup
      BY <1>6, <1>11, <2>2
    <3> HIDE DEF top
    <3> QED BY <1>11, <1>12, <2>2, <3>1
  <2> QED BY <2>1, <2>2
<1> QED BY <1>1, <1>2, <1>6, <1>7, <1>8, <1>9, <1>10, <1>13, Rewritten

\* A torn file is an empty wallet.
LEMMA TornIsEmpty ==
  FileOK(Torn) /\ Matches(Read(Torn), <<>>) /\ <<>> \in Seq(Row)
<1>1. Torn.status = "torn"
  BY DEF Torn
<1>2. Read(Torn) = EmptyWallet
  BY <1>1 DEF Read
<1> QED BY <1>1, <1>2, EmptyMatches DEF FileOK

\* A put that fails.
LEMMA PutFailsKeeps ==
  ASSUME Inv, NEW r \in Requests, PutFails(r)
  PROVE  Inv'
<1>1. pc[r] = "put" /\ Asked(req[r]) /\ Types /\ Chained /\ End(r)
      /\ UNCHANGED <<started, gatewayVars>>
  BY DEF PutFails, Inv, Types, Requested
<1>2. PICK v \in Users : v = req[r].user
  BY <1>1 DEF Asked
<1>3. CASE UNCHANGED <<file, lineage>>
  <2>1. GatewayTypeOK' /\ Remembers
    BY <1>1, GatewayRemembers DEF Types, TypeOK
  <2>2. /\ Requested' /\ Chained' /\ chain' \in [Users -> Seq(Requests)]
        /\ pc' \in [Requests -> {"idle", "queued", "verify", "crediting", "put"}]
        /\ expected' \in [Requests -> Nat]
        /\ Alone(r) /\ Same(r) /\ pc'[r] = "idle"
    BY <1>1, Ends
  <2>3. ~Starting(r)'
    BY <2>2 DEF Starting
  <2> QED BY <1>1, <1>3, <2>1, <2>2, <2>3, NothingPut
<1>4. CASE Tear(req[r].user)
  <2>1. file' = [file EXCEPT ![v] = Torn] /\ lineage' = [lineage EXCEPT ![v] = <<>>]
    BY <1>2, <1>4 DEF Tear
  <2>2. PICK rows \in Seq(Row) : rows = <<>>
    BY TornIsEmpty
  <2>3. Lawful(v, rows)'
    <3>1. Len(rows) = 0
      BY <2>2
    <3> QED BY <3>1 DEF Lawful
  <2>4. /\ started \subseteq started' /\ started' \subseteq Topup
        /\ \A t \in started' : t \in started \/ (Starting(r) /\ t.session = req[r].ref)
    <3>1. started' = started /\ started \subseteq Topup
      BY <1>1 DEF Types, TypeOK
    <3> QED BY <3>1
  <2>5. FileOK(Torn) /\ Matches(Read(Torn), rows)
    BY <2>2, TornIsEmpty
  <2> QED BY <1>1, <1>2, <2>1, <2>2, <2>3, <2>4, <2>5, Rewritten
<1> QED BY <1>3, <1>4 DEF PutFails

-----------------------------------------------------------------------------
(* The payer and the crash, the first state, and every step.               *)

\* The payer settles a session, or lets it lapse.
LEMMA PaymentKeeps ==
  ASSUME Inv, Payment
  PROVE  Inv'
<1>1. GatewayTypeOK' /\ Remembers
  <2>1. \A t \in started : t.session \in Sessions
    BY DEF Inv, Types, TypeOK, Topup
  <2> QED BY <2>1, GatewayRemembers DEF Payment, Inv, Types, TypeOK
<1>2. UNCHANGED <<file, chain, pc, req, expected, draft, lineage, started>>
  BY DEF Payment
<1>3. Types' /\ Chained'
  BY <1>1, <1>2 DEF Inv, Types, TypeOK, Requested, Chained
<1>4. Drafts' /\ History'
  BY <1>2 DEF Inv, Drafts, Drafted, Load, History
<1>5. Begun'
  <2>1. \A t \in started : t.session \in Sessions
    BY DEF Inv, Types, TypeOK, Topup
  <2>2. \A r \in Requests : (Starting(r)' <=> Starting(r)) /\ (Starting(r) => req[r].ref \in Sessions)
    BY <1>2 DEF Starting, Inv, Types, Requested, Asked
  <2> QED BY <1>1, <1>2, <2>1, <2>2 DEF Inv, Begun, Remembers
<1>6. Confirmed'
  <2>1. \A r \in Requests : Claim(r)' = Claim(r)
    BY <1>2 DEF Claim
  <2>2. \A r \in Requests : req[r].op = "topupConfirm" /\ pc[r] # "idle" => req[r].ref \in Sessions
    BY DEF Inv, Types, Requested, Asked
  <2> QED BY <1>1, <1>2, <2>1, <2>2 DEF Inv, Confirmed, Remembers
<1>7. Law'
  BY <1>1, <1>2, LawStays DEF Inv, Law
<1> QED BY <1>3, <1>4, <1>5, <1>6, <1>7 DEF Inv

\* The process dies and nothing is under way.
LEMMA CrashKeeps ==
  ASSUME Inv, Crash
  PROVE  Inv'
<1>1. Types /\ UNCHANGED <<started, gatewayVars>>
  BY DEF Inv, Crash
<1>2. /\ \A r \in Requests : /\ pc'[r] = "idle" /\ req'[r] = NoRequest
                             /\ expected'[r] = 0 /\ draft'[r] = NoRow
      /\ pc' = [r \in Requests |-> pc'[r]] /\ req' = [r \in Requests |-> req'[r]]
      /\ expected' = [r \in Requests |-> expected'[r]] /\ draft' = [r \in Requests |-> draft'[r]]
  BY DEF Crash
<1>3. \A u \in Users : chain'[u] = <<>>
  BY DEF Crash
<1>4. GatewayTypeOK' /\ Remembers
  BY <1>1, GatewayRemembers DEF Types, TypeOK
<1>5. Requested' /\ Chained'
  <2>1. Requested'
    BY <1>2 DEF Requested
  <2>2. Len(<<>>) = 0 /\ 1..0 = {}
    OBVIOUS
  <2>3. Chained'
    BY <1>2, <1>3, <2>2 DEF Chained, Waits
  <2> QED BY <2>1, <2>3
<1>6. ASSUME NEW u \in Users
      PROVE  \/ file'[u] = file[u] /\ lineage'[u] = lineage[u]
             \/ file'[u] = Torn /\ lineage'[u] = <<>>
  <2>1. file = [x \in Users |-> file[x]] /\ lineage \in [Users -> Seq(Row)]
    BY <1>1 DEF Types, TypeOK
  <2> QED BY <2>1 DEF Crash, Tear
<1>7. Types'
  <2>1. /\ file' = [u \in Users |-> file'[u]] /\ lineage' = [u \in Users |-> lineage'[u]]
    <3>1. file = [x \in Users |-> file[x]] /\ lineage = [x \in Users |-> lineage[x]]
      BY <1>1 DEF Types, TypeOK
    <3> QED BY <3>1 DEF Crash, Tear
  <2>2. ASSUME NEW u \in Users
        PROVE  /\ file'[u].status \in {"missing", "torn", "wallet"}
               /\ file'[u].status = "wallet" => file'[u].balance \in Nat /\ file'[u].txns \in Seq(Row)
               /\ lineage'[u] \in Seq(Row)
    BY <1>1, <1>6, TornIsEmpty DEF Types, TypeOK, FileOK
  <2>3. chain' \in [Users -> Seq(Requests)]
    BY DEF Crash
  <2>4. /\ pc' \in [Requests -> {"idle", "queued", "verify", "crediting", "put"}]
        /\ expected' \in [Requests -> Nat]
    BY <1>2
  <2>5. lineage' \in [Users -> Seq(Row)]
    BY <2>1, <2>2
  <2> QED BY <1>1, <1>4, <1>5, <2>1, <2>2, <2>3, <2>4, <2>5 DEF Types, TypeOK
<1>8. Drafts' /\ Confirmed'
  <2>1. NoRequest.op # "topupConfirm"
    BY DEF NoRequest
  <2> QED BY <1>2, <2>1 DEF Drafts, Confirmed
<1>9. History'
  <2>1. ASSUME NEW u \in Users
        PROVE  Matches(Load(u), lineage[u])'
    <3>1. CASE file'[u] = file[u] /\ lineage'[u] = lineage[u]
      <4>1. Load(u)' = Load(u)
        BY <3>1 DEF Load
      <4>2. Matches(Load(u), lineage[u])
        BY DEF Inv, History
      <4> QED BY <3>1, <4>1, <4>2 DEF Matches
    <3>2. CASE file'[u] = Torn /\ lineage'[u] = <<>>
      <4>1. Load(u)' = Read(Torn)
        BY <3>2 DEF Load, Read
      <4> QED BY <3>2, <4>1, TornIsEmpty DEF Matches
    <3> QED BY <1>6, <3>1, <3>2
  <2> QED BY <2>1 DEF History
<1>10. Begun'
  <2>1. \A r \in Requests : ~Starting(r)'
    BY <1>2 DEF Starting
  <2> QED BY <1>1, <2>1 DEF Inv, Begun, gatewayVars
<1>11. Law'
  <2>1. ASSUME NEW u \in Users
        PROVE  Lawful(u, lineage[u])'
    <3>1. CASE lineage'[u] = lineage[u]
      BY <1>1, <1>4, <3>1, LawStays DEF Inv
    <3>2. CASE lineage'[u] = <<>>
      <4>1. Len(lineage'[u]) = 0
        BY <3>2
      <4> QED BY <4>1 DEF Lawful
    <3> QED BY <1>6, <3>1, <3>2
  <2> QED BY <2>1 DEF Law
<1> QED BY <1>5, <1>7, <1>8, <1>9, <1>10, <1>11 DEF Inv

\* Nothing has happened yet.
LEMMA InitKeeps ==
  ASSUME Init
  PROVE  Inv
<1>1. /\ \A r \in Requests : pc[r] = "idle" /\ req[r] = NoRequest
      /\ \A u \in Users : file[u] = Missing /\ lineage[u] = <<>> /\ chain[u] = <<>>
      /\ started = {}
  BY DEF Init
<1>2. Missing.status = "missing" /\ NoRequest.op = "none" /\ Len(<<>>) = 0 /\ 1..0 = {}
  BY DEF Missing, NoRequest
<1>3. GatewayTypeOK
  BY DEF Init, GatewayInit, GatewayTypeOK, Statuses
<1>4. TypeOK
  BY <1>1, <1>2, <1>3 DEF Init, TypeOK
<1>5. Types
  BY <1>1, <1>4 DEF Init, Types, Requested
<1>6. Chained
  BY <1>1, <1>2 DEF Chained, Waits
<1>7. Drafts /\ Confirmed /\ Begun
  BY <1>1, <1>2 DEF Drafts, Confirmed, Begun, Starting
<1>8. History
  <2>1. \A u \in Users : Load(u) = EmptyWallet
    BY <1>1, <1>2 DEF Load
  <2> QED BY <1>1, <2>1, EmptyMatches DEF History
<1>9. Law
  BY <1>1, EmptyMatches DEF Law
<1> QED BY <1>5, <1>6, <1>7, <1>8, <1>9 DEF Inv

\* Every step keeps the invariant.
LEMMA StepKeeps ==
  ASSUME Inv, [Next]_vars
  PROVE  Inv'
<1>1. ASSUME NEW r \in Requests, Progress(r)
      PROVE  Inv'
  BY <1>1, ReadsKeep, PreflightKeeps, VerifyKeeps, PutKeeps DEF Progress
<1>2. CASE UNCHANGED vars
  <2>1. /\ UNCHANGED <<file, chain, pc, req, expected, draft, lineage, started>>
        /\ UNCHANGED gatewayVars
    BY <1>2 DEF vars
  <2>2. GatewayTypeOK' /\ Remembers
    BY <2>1, GatewayRemembers DEF Inv, Types, TypeOK
  <2>3. Types' /\ Chained'
    BY <2>1, <2>2 DEF Inv, Types, TypeOK, Requested, Chained
  <2>4. Drafts' /\ History'
    BY <2>1 DEF Inv, Drafts, Drafted, Load, History
  <2>5. Begun' /\ Confirmed'
    BY <2>1 DEF Inv, Begun, Starting, Confirmed, Claim, gatewayVars
  <2>6. Law'
    BY <2>1, <2>2, LawStays DEF Inv, Law
  <2> QED BY <2>3, <2>4, <2>5, <2>6 DEF Inv
<1> QED BY <1>1, <1>2, ArrivalKeeps, PutFailsKeeps, PaymentKeeps, CrashKeeps DEF Next

-----------------------------------------------------------------------------
(* What follows.                                                           *)

\* The invariant holds in every state the wallet reaches.
LEMMA Always == Spec => []Inv
<1>1. Init => Inv
  BY InitKeeps
<1>2. Inv /\ [Next]_vars => Inv'
  BY StepKeeps
<1> QED BY <1>1, <1>2, PTL DEF Spec

\* Every variable stays within its type: in particular no balance is ever
\* negative, since a debit looks at the document that it then puts.
THEOREM WalletTypes == Spec => []TypeOK
<1>1. Inv => TypeOK
  BY DEF Inv, Types
<1> QED BY <1>1, Always, PTL

\* The stored balance is the sum of every row put, and the stored rows are the
\* newest of them, whatever ran together: exclusive() and the whole-document put.
THEOREM NothingIsLost == Spec => []DocumentIsTheHistory
<1>1. ASSUME Inv
      PROVE  DocumentIsTheHistory
  <2>1. ASSUME NEW u \in Users, file[u].status = "wallet"
        PROVE  /\ file[u].balance = Sum(lineage[u])
               /\ Len(file[u].txns) = Min({Len(lineage[u]), TxnCap})
               /\ \A k \in 1 .. Len(file[u].txns) :
                    file[u].txns[k] = lineage[u][Len(lineage[u]) - Len(file[u].txns) + k]
    <3>1. Load(u) = file[u]
      BY <2>1 DEF Load
    <3>2. Matches(file[u], lineage[u])
      BY <1>1, <3>1 DEF Inv, History
    <3>3. Len(lineage[u]) \in Nat /\ TxnCap \in Nat
      BY <1>1, TxnCapIsPositive DEF Inv, Types, TypeOK
    <3>4. Min({Len(lineage[u]), TxnCap}) = IF Len(lineage[u]) <= TxnCap THEN Len(lineage[u]) ELSE TxnCap
      BY <3>3, LesserOfTwo
    <3> QED BY <3>2, <3>4 DEF Matches
  <2> QED BY <2>1 DEF DocumentIsTheHistory
<1> QED BY <1>1, Always, PTL

\* While the kept rows still hold a session's intent they hold its credit too:
\* cutting the history does not make a confirm credit again.
THEOREM CreditsOutliveIntents == Spec => []NoOrphanIntent
<1>1. ASSUME Inv
      PROVE  NoOrphanIntent
  <2>1. ASSUME NEW u \in Users, NEW s \in Sessions, file[u].status = "wallet",
               NEW k \in Intents(file[u], s), NEW i \in DOMAIN lineage[u], IsCredit(lineage[u][i], s)
        PROVE  AlreadyCredited(file[u], s)
    <3> DEFINE w == file[u]
               n == Len(lineage[u])
               l == Len(w.txns)
    <3>1. Load(u) = w /\ Types /\ History
      BY <1>1, <2>1 DEF Load, Inv
    <3>2. w.txns \in Seq(Row) /\ lineage[u] \in Seq(Row) /\ n \in Nat /\ l \in Nat
      BY <3>1, LoadTyped DEF Types, TypeOK
    <3>3. i \in 1..n /\ k \in 1..l /\ IsIntent(w.txns[k], s)
      BY <2>1, <3>2 DEF Intents
    <3>4. n - l + k \in 1..n /\ w.txns[k] = lineage[u][n - l + k]
      BY <3>1, <3>3, KeptRowsWerePut
    <3>5. n - l + k < i
      <4>1. IsIntent(lineage[u][n - l + k], s)
        BY <3>3, <3>4
      <4> HIDE DEF l
      <4> QED BY <1>1, <2>1, <3>3, <3>4, <4>1 DEF Inv, Law, Lawful
    <3> HIDE DEF w, n, l
    <3>6. i - (n - l) \in 1..l /\ n - l + (i - (n - l)) = i
      BY <3>2, <3>3, <3>5
    <3>7. PICK j \in 1..l : j = i - (n - l)
      BY <3>6
    <3>8. w.txns[j] = lineage[u][i]
      <4>1. Matches(w, lineage[u])
        BY <3>1 DEF History
      <4>2. w.txns[j] = lineage[u][n - l + j]
        BY <3>7, <4>1 DEF Matches, l, n
      <4> QED BY <3>6, <3>7, <4>2
    <3>9. j \in DOMAIN w.txns
      BY <3>2, <3>7 DEF l
    <3>10. AlreadyCredited(w, s)
      BY <2>1, <3>8, <3>9 DEF AlreadyCredited
    <3> QED BY <3>10 DEF w
  <2> QED BY <2>1 DEF NoOrphanIntent
<1> QED BY <1>1, Always, PTL

\* Two credits of one session lie further apart than a document keeps rows.
THEOREM CreditedAgainOnlyPastTheCap == Spec => []CreditedOnceWithinCap
<1>1. ASSUME Inv
      PROVE  CreditedOnceWithinCap
  <2>1. \A u \in Users : DOMAIN lineage[u] = 1..Len(lineage[u])
    BY <1>1 DEF Inv, Types, TypeOK
  <2> QED BY <1>1, <2>1 DEF Inv, Law, Lawful, CreditedOnceWithinCap
<1> QED BY <1>1, Always, PTL

\* Every credit is of a top-up that this user started, for its amount, and of a
\* session that the gateway holds paid.
THEOREM CreditsVerifiedAndStarted == Spec => []CreditsAreVerified
<1>1. ASSUME Inv
      PROVE  CreditsAreVerified
  <2>1. \A u \in Users : DOMAIN lineage[u] = 1..Len(lineage[u])
    BY <1>1 DEF Inv, Types, TypeOK
  <2> QED BY <1>1, <2>1 DEF Inv, Law, Lawful, CreditsAreVerified
<1> QED BY <1>1, Always, PTL
=============================================================================
