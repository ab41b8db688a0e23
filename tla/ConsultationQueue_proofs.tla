----------------------- MODULE ConsultationQueue_proofs -----------------------
(***************************************************************************)
(* Proofs about ConsultationQueue for any number of clients, purchases,    *)
(* requests, tickets and failures: no refund is paid twice and none makes  *)
(* money, over either driver; and over local files one client is in        *)
(* service at most, storage catches up with memory, and what is over stays *)
(* over.                                                                   *)
(***************************************************************************)
EXTENDS ConsultationQueue, FiniteSetTheorems, SequenceTheorems, WellFoundedInduction, TLAPS

USE PurchasesAreFinite, RequestsAreFinite

-----------------------------------------------------------------------------
(* Sequences.                                                              *)

\* A nonempty set of positions has a first one.
LEMMA FirstIsThere ==
  ASSUME NEW S \in SUBSET Nat, S # {}
  PROVE  First(S) \in S /\ \A j \in S : First(S) <= j
<1> DEFINE less == {ss \in Nat \X Nat : ss[1] < ss[2]}
<1>1. IsWellFoundedOn(less, Nat)
  BY NatLessThanWellFounded DEF OpToRel
<1> HIDE DEF less
<1>2. \E x \in S : \A y \in S : ~(<<y, x>> \in less)
  <2>1. S \subseteq Nat
    OBVIOUS
  <2> QED BY <1>1, <2>1, WFMin, Zenon
<1>3. PICK x \in S : \A y \in S : ~(<<y, x>> \in less)
  BY <1>2
<1>4. ASSUME NEW y \in S
      PROVE  x <= y
  <2>1. \A m, n \in Nat : m < n => <<m, n>> \in less
    BY DEF less
  <2>2. x \in Nat /\ y \in Nat
    OBVIOUS
  <2>3. ~(y < x)
    BY <1>3, <2>1, <2>2
  <2> QED BY <2>2, <2>3
<1> QED BY <1>4 DEF First

\* One leaves, those behind it move up.
LEMMA OneRemoved ==
  ASSUME NEW S, NEW q \in Seq(S), NEW n \in 1..Len(q)
  PROVE  /\ RemoveAt(q, n) \in Seq(S)
         /\ Len(RemoveAt(q, n)) = Len(q) - 1
         /\ \A k \in 1..(Len(q) - 1) :
              /\ k < n => k \in 1..Len(q) /\ RemoveAt(q, n)[k] = q[k]
              /\ ~(k < n) => k + 1 \in 1..Len(q) /\ RemoveAt(q, n)[k] = q[k + 1]
<1>1. Len(q) \in Nat /\ \A k \in 1..Len(q) : q[k] \in S
  BY LenProperties, ElementOfSeq
<1> DEFINE front == SubSeq(q, 1, n - 1)
           rest == SubSeq(q, n + 1, Len(q))
<1>2. /\ front \in Seq(S)
      /\ Len(front) = n - 1
      /\ \A k \in 1..(n - 1) : front[k] = q[k]
  <2>1. \A k \in 1..(n - 1) : q[k] \in S
    BY <1>1
  <2>2. /\ front \in Seq(S)
        /\ Len(front) = IF 1 <= n - 1 THEN n - 1 - 1 + 1 ELSE 0
        /\ \A k \in 1..(n - 1 - 1 + 1) : front[k] = q[1 + k - 1]
    BY <1>1, <2>1, SubSeqProperties
  <2> HIDE DEF front
  <2>3. n - 1 \in Nat
    BY <1>1
  <2>4. ASSUME NEW k \in 1..(n - 1)
        PROVE  front[k] = q[k]
    <3>1. k \in 1..(n - 1 - 1 + 1) /\ 1 + k - 1 = k
      BY <1>1
    <3>2. front[k] = q[1 + k - 1]
      BY <2>2, <3>1
    <3> QED BY <3>1, <3>2
  <2>5. Len(front) = n - 1
    BY <1>1, <2>2
  <2> QED BY <2>2, <2>4, <2>5
<1>3. /\ rest \in Seq(S)
      /\ Len(rest) = Len(q) - n
      /\ \A k \in 1..(Len(q) - n) : rest[k] = q[n + k]
  <2>1. \A k \in (n + 1)..Len(q) : q[k] \in S
    BY <1>1
  <2>2. /\ rest \in Seq(S)
        /\ Len(rest) = IF n + 1 <= Len(q) THEN Len(q) - (n + 1) + 1 ELSE 0
        /\ \A k \in 1..(Len(q) - (n + 1) + 1) : rest[k] = q[n + 1 + k - 1]
    BY <1>1, <2>1, SubSeqProperties
  <2> HIDE DEF rest
  <2>3. ASSUME NEW k \in 1..(Len(q) - n)
        PROVE  rest[k] = q[n + k]
    <3>1. k \in 1..(Len(q) - (n + 1) + 1) /\ n + 1 + k - 1 = n + k
      BY <1>1
    <3>2. rest[k] = q[n + 1 + k - 1]
      BY <2>2, <3>1
    <3> QED BY <3>1, <3>2
  <2>4. Len(rest) = Len(q) - n
    BY <1>1, <2>2
  <2> QED BY <2>2, <2>3, <2>4
<1>4. RemoveAt(q, n) = front \o rest
  BY DEF RemoveAt
<1> HIDE DEF front, rest
<1>5. /\ front \o rest \in Seq(S)
      /\ Len(front \o rest) = Len(front) + Len(rest)
      /\ \A k \in 1..(Len(front) + Len(rest)) :
            (front \o rest)[k] = IF k <= Len(front) THEN front[k] ELSE rest[k - Len(front)]
  BY <1>2, <1>3, ConcatProperties
<1>6. Len(front) + Len(rest) = Len(q) - 1
  BY <1>1, <1>2, <1>3
<1>7. ASSUME NEW k \in 1..(Len(q) - 1)
      PROVE  /\ k < n => k \in 1..Len(q) /\ (front \o rest)[k] = q[k]
             /\ ~(k < n) => k + 1 \in 1..Len(q) /\ (front \o rest)[k] = q[k + 1]
  <2>1. CASE k < n
    <3>1. k \in 1..(n - 1) /\ k <= Len(front) /\ k \in 1..Len(q)
      BY <1>1, <1>2, <2>1
    <3> QED BY <1>2, <1>5, <1>6, <2>1, <3>1
  <2>2. CASE ~(k < n)
    <3>1. /\ k - (n - 1) \in 1..(Len(q) - n)
          /\ ~(k <= n - 1)
          /\ n + (k - (n - 1)) = k + 1
          /\ k + 1 \in 1..Len(q)
      BY <1>1, <2>2
    <3>2. (front \o rest)[k] = rest[k - (n - 1)]
      BY <1>2, <1>5, <1>6, <3>1
    <3>3. rest[k - (n - 1)] = q[n + (k - (n - 1))]
      BY <1>3, <3>1
    <3> QED BY <2>2, <3>1, <3>2, <3>3
  <2> QED BY <2>1, <2>2
<1> QED BY <1>4, <1>5, <1>6, <1>7

-----------------------------------------------------------------------------
(* A line of tickets, and what an operation makes of it.                   *)

Lines == Seq(TicketType)

\* A ticket of x that is over shows in y, where it does, as it was.
Keeps(x, y) ==
    \A i \in 1..Len(x), j \in 1..Len(y) :
        y[j].id = x[i].id /\ x[i].status \in Over => y[j] = x[i]

\* Each ticket of y is one of x, and the same if that was over.
From(x, y) ==
    \A j \in 1..Len(y) :
        \E i \in 1..Len(x) :
            /\ y[j].id = x[i].id
            /\ x[i].status \in Over => y[j] = x[i]

Distinct(x) ==
    \A i, j \in 1..Len(x) : x[i].id = x[j].id => i = j

Numbered(x, n) ==
    \A i \in 1..Len(x) : x[i].id <= n

\* The tickets of y are those of x, for the same clients and purchases.
Among(x, y) ==
    \A j \in 1..Len(y) :
        \E i \in 1..Len(x) : y[j].user = x[i].user /\ y[j].purchase = x[i].purchase

Single(x) ==
    \A i, j \in 1..Len(x) : x[i].status \in InService /\ x[j].status \in InService => i = j

Nobody(x) ==
    \A i \in 1..Len(x) : x[i].status \notin InService

\* A line has a length, and its members are tickets.
LEMMA LineFacts ==
  ASSUME NEW x \in Lines
  PROVE  /\ Len(x) \in Nat
         /\ DOMAIN x = 1..Len(x)
         /\ \A i \in 1..Len(x) : x[i] \in TicketType
BY LenProperties, ElementOfSeq DEF Lines

\* What is kept is kept through what comes of it; a line keeps itself.
LEMMA KeptOn ==
  ASSUME NEW x, NEW y, NEW z
  PROVE  /\ Keeps(x, y) /\ From(y, z) => Keeps(x, z)
         /\ Distinct(x) => Keeps(x, x)
<1>1. ASSUME Keeps(x, y), From(y, z), NEW i \in 1..Len(x), NEW k \in 1..Len(z),
             z[k].id = x[i].id, x[i].status \in Over
      PROVE  z[k] = x[i]
  <2>1. PICK j \in 1..Len(y) : z[k].id = y[j].id /\ (y[j].status \in Over => z[k] = y[j])
    BY <1>1 DEF From
  <2>2. y[j] = x[i]
    BY <1>1, <2>1 DEF Keeps
  <2> QED BY <1>1, <2>1, <2>2
<1>2. Distinct(x) => Keeps(x, x)
  BY DEF Distinct, Keeps
<1> QED BY <1>1, <1>2 DEF Keeps

\* A ticket with another status.
LEMMA TicketMarked ==
  ASSUME NEW t \in TicketType, NEW s \in Statuses
  PROVE  /\ [t EXCEPT !.status = s] \in TicketType
         /\ [t EXCEPT !.status = s].id = t.id
         /\ [t EXCEPT !.status = s].user = t.user
         /\ [t EXCEPT !.status = s].purchase = t.purchase
         /\ [t EXCEPT !.status = s].status = s
BY DEF TicketType

\* A line in which one ticket has another status.
LEMMA LineMarked ==
  ASSUME NEW x \in Lines, NEW n \in 1..Len(x), NEW s \in Statuses
  PROVE  LET y == [x EXCEPT ![n].status = s]
         IN  /\ y \in Lines
             /\ Among(x, y)
             /\ x[n].status \notin Over => From(x, y)
             /\ Distinct(x) => Distinct(y)
             /\ \A m : Numbered(x, m) => Numbered(y, m)
             /\ (s \notin InService \/ x[n].status \in InService) =>
                  (Single(x) => Single(y)) /\ (Nobody(x) => Nobody(y))
             /\ Nobody(x) => Single(y)
             /\ Single(x) /\ x[n].status \in InService /\ s \notin InService => Nobody(y)
<1> DEFINE t == [x[n] EXCEPT !.status = s]
           y == [x EXCEPT ![n] = t]
<1>1. /\ Len(x) \in Nat
      /\ \A i \in 1..Len(x) : x[i] \in TicketType
  BY LineFacts
<1>2. /\ t \in TicketType
      /\ t.id = x[n].id /\ t.user = x[n].user /\ t.purchase = x[n].purchase /\ t.status = s
  BY <1>1, TicketMarked
<1> HIDE DEF t
<1>3. /\ y \in Lines
      /\ Len(y) = Len(x)
      /\ \A j \in 1..Len(x) : y[j] = IF j = n THEN t ELSE x[j]
  BY <1>2, ExceptSeq DEF Lines
<1> HIDE DEF y
<1>4. Among(x, y)
  BY <1>2, <1>3 DEF Among
<1>5. /\ x[n].status \notin Over => From(x, y)
      /\ Distinct(x) => Distinct(y)
      /\ \A m : Numbered(x, m) => Numbered(y, m)
  <2>1. ASSUME NEW i \in 1..Len(x)
        PROVE  y[i].id = x[i].id
    BY <1>2, <1>3
  <2>2. ASSUME x[n].status \notin Over, NEW i \in 1..Len(x)
        PROVE  x[i].status \in Over => y[i] = x[i]
    BY <1>3, <2>2
  <2>3. x[n].status \notin Over => From(x, y)
    BY <1>3, <2>1, <2>2 DEF From
  <2>4. Distinct(x) => Distinct(y)
    BY <1>3, <2>1 DEF Distinct
  <2> QED BY <1>3, <2>1, <2>3, <2>4 DEF Numbered
<1>6. (s \notin InService \/ x[n].status \in InService) =>
        (Single(x) => Single(y)) /\ (Nobody(x) => Nobody(y))
  BY <1>2, <1>3 DEF Single, Nobody
<1>7. Nobody(x) => Single(y)
  BY <1>2, <1>3 DEF Single, Nobody
<1>8. Single(x) /\ x[n].status \in InService /\ s \notin InService => Nobody(y)
  BY <1>2, <1>3 DEF Single, Nobody
<1>9. y = [x EXCEPT ![n].status = s]
  BY DEF y, t
<1> QED BY <1>3, <1>4, <1>5, <1>6, <1>7, <1>8, <1>9

\* A line that one ticket joined.
LEMMA LineJoined ==
  ASSUME NEW x \in Lines, NEW t \in TicketType, t.status = "waiting"
  PROVE  LET y == Append(x, t)
         IN  /\ y \in Lines
             /\ \A j \in 1..Len(y) : \/ j = Len(x) + 1 /\ y[j] = t
                                     \/ j \in 1..Len(x) /\ y[j] = x[j]
             /\ Single(x) => Single(y)
             /\ Nobody(x) => Nobody(y)
<1> DEFINE y == Append(x, t)
<1>1. Len(x) \in Nat
  BY LineFacts
<1>2. /\ y \in Lines
      /\ Len(y) = Len(x) + 1
      /\ \A j \in 1..Len(x) : y[j] = x[j]
      /\ y[Len(x) + 1] = t
  BY AppendProperties DEF Lines
<1> HIDE DEF y
<1>3. ASSUME NEW j \in 1..Len(y)
      PROVE  (j = Len(x) + 1 /\ y[j] = t) \/ (j \in 1..Len(x) /\ y[j] = x[j])
  <2>1. j \in 1..Len(x) \/ j = Len(x) + 1
    BY <1>1, <1>2
  <2> QED BY <1>2, <2>1
<1>4. t.status \notin InService
  BY DEF InService
<1>5. Single(x) => Single(y)
  BY <1>3, <1>4 DEF Single
<1>6. Nobody(x) => Nobody(y)
  BY <1>3, <1>4 DEF Nobody
<1> QED BY <1>2, <1>3, <1>5, <1>6 DEF y

\* A ticket with a number of its own keeps the line's promises.
LEMMA NewNumber ==
  ASSUME NEW x \in Lines, NEW t \in TicketType, NEW n \in Nat, t.id = n + 1,
         t.status = "waiting", Numbered(x, n)
  PROVE  LET y == Append(x, t)
         IN  /\ Distinct(x) => Distinct(y)
             /\ Numbered(y, n + 1)
             /\ \A z \in Lines : Numbered(z, n) /\ Keeps(z, x) => Keeps(z, y)
<1> DEFINE y == Append(x, t)
<1>1. /\ y \in Lines
      /\ \A j \in 1..Len(y) : \/ j = Len(x) + 1 /\ y[j] = t
                              \/ j \in 1..Len(x) /\ y[j] = x[j]
  BY LineJoined
<1> HIDE DEF y
<1>2. \A z \in Lines : \A i \in 1..Len(z) : z[i].id \in Int
  BY LineFacts DEF TicketType
<1>3. \A z \in Lines : Numbered(z, n) => \A i \in 1..Len(z) : z[i].id # t.id
  BY <1>2 DEF Numbered
<1>4. Distinct(x) => Distinct(y)
  BY <1>1, <1>3 DEF Distinct
<1>5. Numbered(y, n + 1)
  BY <1>1, <1>2 DEF Numbered
<1>6. ASSUME NEW z \in Lines, Numbered(z, n), Keeps(z, x)
      PROVE  Keeps(z, y)
  BY <1>1, <1>3, <1>6 DEF Keeps
<1> QED BY <1>4, <1>5, <1>6 DEF y

\* A line in which a ticket that waits, or is up next, went to the end.
LEMMA LineRequeued ==
  ASSUME NEW x \in Lines, NEW n \in 1..Len(x), x[n].status \in {"waiting", "up_next"}
  PROVE  LET y == Append(RemoveAt(x, n), [x[n] EXCEPT !.status = "waiting"])
         IN  /\ y \in Lines
             /\ Among(x, y)
             /\ From(x, y)
             /\ Distinct(x) => Distinct(y)
             /\ \A m : Numbered(x, m) => Numbered(y, m)
             /\ Single(x) => Single(y)
             /\ Nobody(x) => Nobody(y)
<1> DEFINE t == [x[n] EXCEPT !.status = "waiting"]
           w == RemoveAt(x, n)
           y == Append(w, t)
<1>1. /\ Len(x) \in Nat
      /\ x[n] \in TicketType
  BY LineFacts
<1>2. /\ t \in TicketType
      /\ t.id = x[n].id /\ t.user = x[n].user /\ t.purchase = x[n].purchase
      /\ t.status = "waiting"
  BY <1>1, TicketMarked DEF Statuses
<1> HIDE DEF t
<1>3. /\ w \in Lines
      /\ Len(w) = Len(x) - 1
      /\ \A k \in 1..(Len(x) - 1) :
           /\ k < n => k \in 1..Len(x) /\ w[k] = x[k]
           /\ ~(k < n) => k + 1 \in 1..Len(x) /\ w[k] = x[k + 1]
  BY OneRemoved DEF Lines
<1> HIDE DEF w
<1>4. /\ y \in Lines
      /\ Len(y) = Len(x)
      /\ \A k \in 1..(Len(x) - 1) : y[k] = w[k]
      /\ y[Len(x)] = t
  <2>1. /\ y \in Lines
        /\ Len(y) = Len(w) + 1
        /\ \A k \in 1..Len(w) : y[k] = w[k]
        /\ y[Len(w) + 1] = t
    BY <1>2, <1>3, AppendProperties DEF Lines
  <2>2. Len(w) + 1 = Len(x)
    BY <1>1, <1>3
  <2> HIDE DEF y
  <2> QED BY <1>3, <2>1, <2>2
<1> HIDE DEF y
<1>5. ASSUME NEW j \in 1..Len(x)
      PROVE  \/ j = Len(x) /\ y[j] = t
             \/ j # Len(x) /\ j < n /\ y[j] = x[j]
             \/ j # Len(x) /\ ~(j < n) /\ j + 1 \in 1..Len(x) /\ y[j] = x[j + 1]
  <2>1. CASE j = Len(x)
    BY <1>4, <2>1
  <2>2. CASE j # Len(x)
    <3>1. j \in 1..(Len(x) - 1)
      BY <1>1, <2>2
    <3> QED BY <1>3, <1>4, <2>2, <3>1
  <2> QED BY <2>1, <2>2
<1>6. Among(x, y)
  <2>1. ASSUME NEW j \in 1..Len(x)
        PROVE  \E i \in 1..Len(x) : y[j].user = x[i].user /\ y[j].purchase = x[i].purchase
    BY <1>2, <1>5
  <2> QED BY <1>4, <2>1 DEF Among
<1>7. /\ From(x, y)
      /\ Distinct(x) => Distinct(y)
      /\ \A m : Numbered(x, m) => Numbered(y, m)
  <2>1. t.id = x[n].id /\ x[n].status \notin Over
    BY <1>2 DEF Over
  <2>2. From(x, y)
    BY <1>4, <1>5, <2>1 DEF From
  <2>3. \A m : Numbered(x, m) => Numbered(y, m)
    BY <1>4, <1>5, <2>1 DEF Numbered
  <2>4. ASSUME Distinct(x), NEW i \in 1..Len(x), NEW j \in 1..Len(x), y[i].id = y[j].id
        PROVE  i = j
    <3>1. \A k \in 1..Len(x) : x[k].id = x[n].id => k = n
      BY <2>4 DEF Distinct
    <3>2. \A k \in 1..Len(x), l \in 1..Len(x) : x[k].id = x[l].id => k = l
      BY <2>4 DEF Distinct
    <3>3. \A k \in 1..Len(x) : k \in Nat
      BY <1>1
    <3>4. CASE i = Len(x)
      <4>1. y[j].id = x[n].id
        BY <1>5, <2>1, <2>4, <3>4
      <4>2. ASSUME j # Len(x)
            PROVE  FALSE
        <5>1. \/ j < n /\ y[j] = x[j]
              \/ ~(j < n) /\ j + 1 \in 1..Len(x) /\ y[j] = x[j + 1]
          BY <1>5, <4>2
        <5>2. (j < n /\ j = n) \/ (~(j < n) /\ j + 1 = n)
          BY <3>1, <4>1, <5>1
        <5> QED BY <3>3, <5>2
      <4> QED BY <3>4, <4>2
    <3>5. CASE j = Len(x)
      <4>1. y[i].id = x[n].id
        BY <1>5, <2>1, <2>4, <3>5
      <4>2. ASSUME i # Len(x)
            PROVE  FALSE
        <5>1. \/ i < n /\ y[i] = x[i]
              \/ ~(i < n) /\ i + 1 \in 1..Len(x) /\ y[i] = x[i + 1]
          BY <1>5, <4>2
        <5>2. (i < n /\ i = n) \/ (~(i < n) /\ i + 1 = n)
          BY <3>1, <4>1, <5>1
        <5> QED BY <3>3, <5>2
      <4> QED BY <3>5, <4>2
    <3>6. CASE i # Len(x) /\ j # Len(x)
      <4>1. \/ i < n /\ y[i] = x[i]
            \/ ~(i < n) /\ i + 1 \in 1..Len(x) /\ y[i] = x[i + 1]
        BY <1>5, <3>6
      <4>2. \/ j < n /\ y[j] = x[j]
            \/ ~(j < n) /\ j + 1 \in 1..Len(x) /\ y[j] = x[j + 1]
        BY <1>5, <3>6
      <4>3. \/ i = j
            \/ i < n /\ ~(j < n) /\ i = j + 1
            \/ ~(i < n) /\ j < n /\ i + 1 = j
            \/ i + 1 = j + 1
        BY <2>4, <3>2, <4>1, <4>2
      <4> QED BY <3>3, <4>3
    <3> QED BY <3>4, <3>5, <3>6
  <2> QED BY <1>4, <2>2, <2>3, <2>4 DEF Distinct
<1>8. t.status \notin InService
  BY <1>2 DEF InService
<1>9. Nobody(x) => Nobody(y)
  <2>1. ASSUME Nobody(x), NEW j \in 1..Len(x)
        PROVE  y[j].status \notin InService
    BY <1>5, <1>8, <2>1 DEF Nobody
  <2> QED BY <1>4, <2>1 DEF Nobody
<1>10. Single(x) => Single(y)
  <2>1. ASSUME Single(x), NEW i \in 1..Len(x), NEW j \in 1..Len(x),
               y[i].status \in InService, y[j].status \in InService
        PROVE  i = j
    <3>1. \/ i < n /\ y[i] = x[i]
          \/ ~(i < n) /\ i + 1 \in 1..Len(x) /\ y[i] = x[i + 1]
      BY <1>5, <1>8, <2>1
    <3>2. \/ j < n /\ y[j] = x[j]
          \/ ~(j < n) /\ j + 1 \in 1..Len(x) /\ y[j] = x[j + 1]
      BY <1>5, <1>8, <2>1
    <3>3. CASE i < n /\ j < n
      BY <2>1, <3>1, <3>2, <3>3 DEF Single
    <3>4. CASE ~(i < n) /\ ~(j < n)
      <4>1. i + 1 = j + 1
        BY <2>1, <3>1, <3>2, <3>4 DEF Single
      <4> QED BY <1>1, <4>1
    <3>5. CASE i < n /\ ~(j < n)
      <4>1. i = j + 1
        BY <2>1, <3>1, <3>2, <3>5 DEF Single
      <4> QED BY <1>1, <3>5, <4>1
    <3>6. CASE ~(i < n) /\ j < n
      <4>1. i + 1 = j
        BY <2>1, <3>1, <3>2, <3>6 DEF Single
      <4> QED BY <1>1, <3>6, <4>1
    <3> QED BY <3>3, <3>4, <3>5, <3>6
  <2> QED BY <1>4, <2>1 DEF Single
<1> QED BY <1>4, <1>6, <1>7, <1>9, <1>10 DEF y, w, t

-----------------------------------------------------------------------------
(* The inductive invariant, in its parts.                                  *)

Telecoms == [online : BOOLEAN, open : BOOLEAN]
Snapshots == [by : Requests, tickets : Lines, telecoms : Telecoms]
LoadSteps == {"load", "fill", "load2", "fill2"}
WorkSteps == {"act", "consume", "promote", "refund", "debit", "record"}
Waits == {"joined", "ended", "put"}
Steps == {"idle"} \cup LoadSteps \cup WorkSteps \cup Waits

\* What a request may be while it is at a step.
Fitting(q, step) ==
    /\ step \in Steps
    /\ q.op = "none" <=> step = "idle"
    /\ q.op = "buy" <=> step \in {"debit", "record"}
    /\ q.op \in {"setOnline", "setQueueOpen"} => q.to \in BOOLEAN
    /\ q.op \in {"join", "cancel", "buy"} => q.user \in Users
    /\ q.op = "join" => q.purchase \in Purchases
    /\ q.op = "buy" => q.via \in PayMethods
    /\ step \in {"joined", "consume"} => q.op = "join"
    /\ step \in {"ended", "promote"} => q.op = "next"
    /\ step = "refund" => q.op = "cancel" /\ q.purchase \in Purchases

Controlled ==
    /\ pc = [r \in Requests |-> pc[r]] /\ req = [r \in Requests |-> req[r]]
    /\ \A r \in Requests : Fitting(req[r], pc[r])

LivePurchase ==
    [status : {"live"}, user : Users, via : PayMethods, consumed : BOOLEAN, refunded : BOOLEAN]

Billed ==
    /\ balance \in [Users -> Nat]
    /\ purchases = [p \in Purchases |-> purchases[p]]
    /\ \A p \in Purchases :
         /\ purchases[p].status \in {"new", "live", "lost"}
         /\ purchases[p].status = "live" => purchases[p] \in LivePurchase
    /\ settled \in [Purchases -> Nat]

Typed ==
    /\ tickets \in Lines /\ telecoms \in Telecoms /\ loaded \in BOOLEAN
    /\ stored \in [tickets : Lines, telecoms : Telecoms]
    /\ reply \in [Requests -> [tickets : Lines, telecoms : Telecoms]]
    /\ puts \in Seq(Snapshots)
    /\ unsent \in BOOLEAN
    /\ issued \in Nat /\ faults \in 0..MaxFaults

\* A place for each join under way, a purchase id for each purchase.
Joining == {r \in Requests : req[r].op = "join" /\ pc[r] \in LoadSteps \cup {"act"}}
Buying == {r \in Requests : req[r].op = "buy"}

Room ==
    /\ issued + Cardinality(Joining) <= MaxTickets
    /\ Cardinality(Buying) <= Cardinality(New)

Shaped ==
    Controlled /\ Billed /\ Typed /\ Room

(* The line over local files.                                              *)

\* Nobody works on the line before it is loaded, and whoever loads it finds what is
\* stored, or nothing where a read failed.
LoadedOnce ==
    /\ loaded => \A r \in Requests : pc[r] \notin LoadSteps
    /\ ~loaded => /\ puts = <<>>
                  /\ \A r \in Requests : pc[r] \in LoadSteps \cup {"idle", "debit", "record"}
    /\ \A r \in Requests :
         /\ pc[r] = "fill" => /\ reply[r].tickets \in {stored.tickets, <<>>}
                              /\ ~unsent => reply[r].tickets = stored.tickets
         /\ pc[r] \in {"load2", "fill2"} => /\ tickets \in {stored.tickets, <<>>}
                                            /\ ~unsent => tickets = stored.tickets
         /\ pc[r] = "fill2" => reply[r].telecoms = stored.telecoms

OneAtATime ==
    \A r, s \in Requests : pc[r] \in Turn /\ pc[s] \in Turn => r = s

\* A snapshot on its way is the memory, and whoever sent it waits.
OneOnItsWay ==
    puts # <<>> => /\ Len(puts) = 1
                   /\ puts[1].tickets = tickets /\ puts[1].telecoms = telecoms
                   /\ pc[puts[1].by] \in Waits

\* Nobody is in service when the next person is called up.
CalledAlone ==
    /\ \A r \in Requests : pc[r] \in {"ended", "promote"} => Nobody(tickets)
    /\ Single(tickets) /\ Single(stored.tickets)

\* Memory keeps what was written as over.
KeptInMemory ==
    /\ Distinct(tickets) /\ Distinct(stored.tickets)
    /\ Numbered(tickets, issued) /\ Numbered(stored.tickets, issued)
    /\ loaded => Keeps(stored.tickets, tickets)

CaughtUp ==
    loaded /\ ~unsent /\ puts = <<>> => stored = [tickets |-> tickets, telecoms |-> telecoms]

LineInv ==
    LoadedOnce /\ OneAtATime /\ OneOnItsWay /\ CalledAlone /\ KeptInMemory /\ CaughtUp

(* The money.                                                              *)

\* The tickets of line x are for purchases that b knows, or knew, as those of their clients.
Owned(x, b) ==
    \A i \in 1..Len(x) :
        /\ b[x[i].purchase].status # "new"
        /\ b[x[i].purchase].status = "live" => b[x[i].purchase].user = x[i].user

TicketsOwned ==
    /\ Owned(tickets, purchases) /\ Owned(stored.tickets, purchases)
    /\ \A r \in Requests : Owned(reply[r].tickets, purchases)
    /\ \A i \in 1..Len(puts) : Owned(puts[i].tickets, purchases)

\* A refund is paid for a purchase whose flag is up, and only by the request
\* that raised it.
RefundsClaimed ==
    /\ \A p \in Purchases :
         /\ settled[p] <= 1
         /\ settled[p] > 0 => /\ purchases[p].status # "new"
                              /\ purchases[p].status = "live" => purchases[p].refunded
    /\ \A r \in Requests : pc[r] = "refund" =>
         LET p == req[r].purchase
         IN  /\ purchases[p].status = "live" /\ purchases[p].refunded
             /\ purchases[p].user = req[r].user
             /\ settled[p] = 0
    /\ \A r, s \in Requests :
         pc[r] = "refund" /\ pc[s] = "refund" /\ req[r].purchase = req[s].purchase => r = s

\* What u paid from the wallet and has not been given back: purchases, and
\* debits whose purchase is not recorded yet.
Held(u) ==
    {p \in Live : purchases[p].user = u /\ purchases[p].via = "wallet" /\ settled[p] = 0}
Paying(u) == {r \in Requests : pc[r] = "record" /\ req[r].user = u}

Worth(u) ==
    balance[u] + Price * (Cardinality(Held(u)) + Cardinality(Paying(u)))

MoneyInv ==
    \A u \in Users : Worth(u) <= Funds

-----------------------------------------------------------------------------
(* How the requests move.                                                  *)

Alone(r) == \A o \in Requests \ {r} : pc'[o] = pc[o] /\ req'[o] = req[o]

\* A request that moves to a step that fits it leaves the others where they are.
LEMMA ControlMoves ==
  ASSUME Controlled, NEW r \in Requests, NEW q, NEW step, Fitting(q, step),
         pc' = [pc EXCEPT ![r] = step], req' = [req EXCEPT ![r] = q]
  PROVE  Controlled' /\ Alone(r) /\ pc'[r] = step /\ req'[r] = q
<1>1. \A o \in Requests : /\ pc'[o] = IF o = r THEN step ELSE pc[o]
                          /\ req'[o] = IF o = r THEN q ELSE req[o]
  BY DEF Controlled
<1>2. pc' = [o \in Requests |-> pc'[o]] /\ req' = [o \in Requests |-> req'[o]]
  BY DEF Controlled
<1>3. \A o \in Requests : Fitting(req'[o], pc'[o])
  BY <1>1 DEF Controlled
<1> QED BY <1>1, <1>2, <1>3 DEF Controlled, Alone

\* A request that goes to its next step, and one that ends.
LEMMA RequestGoes ==
  ASSUME Controlled, NEW r \in Requests
  PROVE  /\ \A step : Goto(r, step) /\ Fitting(req[r], step) =>
              Controlled' /\ Alone(r) /\ pc'[r] = step /\ req'[r] = req[r]
         /\ End(r) => Controlled' /\ Alone(r) /\ pc'[r] = "idle" /\ req'[r] = NoRequest
<1>1. ASSUME NEW step, Goto(r, step), Fitting(req[r], step)
      PROVE  Controlled' /\ Alone(r) /\ pc'[r] = step /\ req'[r] = req[r]
  <2>1. pc' = [pc EXCEPT ![r] = step] /\ req' = [req EXCEPT ![r] = req[r]]
    BY <1>1 DEF Goto, Controlled
  <2> QED BY <1>1, <2>1, ControlMoves
<1>2. ASSUME End(r)
      PROVE  Controlled' /\ Alone(r) /\ pc'[r] = "idle" /\ req'[r] = NoRequest
  <2>1. Fitting(NoRequest, "idle")
    BY DEF Fitting, NoRequest, Steps
  <2> QED BY <1>2, <2>1, ControlMoves DEF End
<1> QED BY <1>1, <1>2

\* A step of a request past ensureLoaded().
Work(r) ==
    \/ Looked(r) \/ SetOnline(r) \/ SetQueueOpen(r)
    \/ Join(r) \/ Consume(r)
    \/ EndCurrent(r) \/ Promote(r)
    \/ Skip(r) \/ StartCall(r) \/ EndTicket(r)
    \/ Cancel(r) \/ Refund(r)
    \/ DebitWallet(r) \/ RecordPurchase(r)

\* Work moves one request, which goes on with what it was asked or ends.
LEMMA WorkMoves ==
  ASSUME Controlled, NEW r \in Requests, Work(r),
         \A i \in DOMAIN tickets : tickets[i].purchase \in Purchases
  PROVE  /\ Controlled' /\ Alone(r)
         /\ pc[r] \in WorkSteps
         /\ pc'[r] \in {"idle", "refund", "record"} \cup Waits
         /\ pc'[r] = "idle" \/ req'[r].op = req[r].op
<1> DEFINE Goes == /\ Controlled' /\ Alone(r) /\ pc[r] \in WorkSteps
                   /\ pc'[r] \in {"idle", "refund", "record"} \cup Waits
                   /\ pc'[r] = "idle" \/ req'[r].op = req[r].op
<1>1. pc[r] \in Steps /\ Fitting(req[r], pc[r])
  BY DEF Controlled, Fitting
<1>2. End(r) /\ pc[r] \in WorkSteps => Goes
  BY RequestGoes
<1>3. ASSUME NEW step, step \in {"refund", "record"} \cup Waits, pc[r] \in WorkSteps,
             Goto(r, step), Fitting(req[r], step)
      PROVE  Goes
  <2>1. Controlled' /\ Alone(r) /\ pc'[r] = step /\ req'[r] = req[r]
    BY <1>3, RequestGoes
  <2> QED BY <1>3, <2>1
<1> HIDE DEF Goes, WorkSteps, Waits
<1>4. Refuse(r) /\ pc[r] \in WorkSteps => Goes
  BY <1>2 DEF Refuse
<1>5. ASSUME NEW step, step \in Waits, pc[r] \in WorkSteps,
             Persist(r, step), Fitting(req[r], step)
      PROVE  Goes
  <2>1. Goto(r, step)
    BY <1>5 DEF Persist
  <2> QED BY <1>3, <1>5, <2>1
<1>19. CASE Looked(r)
  BY <1>4, <1>19 DEF Looked, Acting, WorkSteps, Goes
<1>6. CASE SetOnline(r)
  <2>1. pc[r] = "act" /\ Fitting(req[r], "put") /\ Persist(r, "put")
    BY <1>1, <1>6 DEF SetOnline, Acting, Fitting, Steps, WorkSteps, Waits
  <2> QED BY <1>5, <2>1 DEF Goes, WorkSteps, Waits
<1>7. CASE SetQueueOpen(r)
  <2>1. pc[r] = "act" /\ Fitting(req[r], "put") /\ Persist(r, "put")
    BY <1>1, <1>7 DEF SetQueueOpen, Acting, Fitting, Steps, WorkSteps, Waits
  <2> QED BY <1>5, <2>1 DEF Goes, WorkSteps, Waits
<1>8. CASE Join(r)
  <2>1. pc[r] = "act" /\ Fitting(req[r], "joined")
    BY <1>1, <1>8 DEF Join, Acting, Fitting, Steps, WorkSteps, Waits
  <2>2. Refuse(r) \/ Persist(r, "joined")
    BY <1>8 DEF Join
  <2> QED BY <1>4, <1>5, <2>1, <2>2 DEF Goes, WorkSteps, Waits
<1>9. CASE Consume(r)
  BY <1>2, <1>9 DEF Consume, Goes, WorkSteps
<1>10. CASE EndCurrent(r)
  <2>1. pc[r] = "act" /\ Fitting(req[r], "ended") /\ Persist(r, "ended")
    BY <1>1, <1>10 DEF EndCurrent, Acting, Fitting, Steps, WorkSteps, Waits
  <2> QED BY <1>5, <2>1 DEF Goes, WorkSteps, Waits
<1>11. CASE Promote(r)
  <2>1. pc[r] \in {"act", "promote"} /\ Fitting(req[r], "put")
    BY <1>1, <1>11 DEF Promote, Acting, Fitting, Steps, WorkSteps, Waits
  <2>2. Refuse(r) \/ Persist(r, "put")
    BY <1>11 DEF Promote
  <2> QED BY <1>4, <1>5, <2>1, <2>2 DEF Goes, WorkSteps, Waits
<1>12. CASE Skip(r)
  <2>1. pc[r] = "act" /\ Fitting(req[r], "put")
    BY <1>1, <1>12 DEF Skip, Acting, Fitting, Steps, WorkSteps, Waits
  <2>2. Refuse(r) \/ Persist(r, "put")
    BY <1>12 DEF Skip
  <2> QED BY <1>4, <1>5, <2>1, <2>2 DEF Goes, WorkSteps, Waits
<1>13. CASE StartCall(r)
  <2>1. pc[r] = "act" /\ Fitting(req[r], "put")
    BY <1>1, <1>13 DEF StartCall, Acting, Fitting, Steps, WorkSteps, Waits
  <2>2. Refuse(r) \/ Persist(r, "put")
    BY <1>13 DEF StartCall
  <2> QED BY <1>4, <1>5, <2>1, <2>2 DEF Goes, WorkSteps, Waits
<1>14. CASE EndTicket(r)
  <2>1. pc[r] = "act" /\ Fitting(req[r], "put")
    BY <1>1, <1>14 DEF EndTicket, Fitting, Steps, WorkSteps, Waits
  <2>2. Refuse(r) \/ Persist(r, "put")
    BY <1>14 DEF EndTicket
  <2> QED BY <1>4, <1>5, <2>1, <2>2 DEF Goes, WorkSteps, Waits
<1>15. CASE Cancel(r)
  <2> DEFINE t == req[r].ticket
             p == Ticket(t).purchase
             q == [op |-> "cancel", user |-> req[r].user, purchase |-> p]
  <2>1. /\ pc[r] = "act" /\ req[r].op = "cancel" /\ req[r].user \in Users
        /\ Fitting(req[r], "put")
    BY <1>1, <1>15 DEF Cancel, Acting, Fitting, Steps, WorkSteps, Waits
  <2>2. \/ Refuse(r)
        \/ Persist(r, "put")
        \/ /\ t \in Ids(tickets)
           /\ pc' = [pc EXCEPT ![r] = "refund"] /\ req' = [req EXCEPT ![r] = q]
    BY <1>15 DEF Cancel
  <2>3. ASSUME t \in Ids(tickets),
               pc' = [pc EXCEPT ![r] = "refund"], req' = [req EXCEPT ![r] = q]
        PROVE  Goes
    <3>1. At(tickets, t) \in DOMAIN tickets
      BY <2>3 DEF At, Ids
    <3>2. p \in Purchases
      BY <3>1 DEF Ticket
    <3>3. Fitting(q, "refund")
      BY <2>1, <3>2 DEF Fitting, Steps, WorkSteps, Waits
    <3> HIDE DEF q
    <3>4. Controlled' /\ Alone(r) /\ pc'[r] = "refund" /\ req'[r] = q
      BY <2>3, <3>3, ControlMoves
    <3>5. q.op = "cancel"
      BY DEF q
    <3> QED BY <2>1, <3>4, <3>5 DEF Goes, WorkSteps, Waits
  <2> HIDE DEF t, q
  <2> QED BY <1>4, <1>5, <2>1, <2>2, <2>3 DEF Goes, WorkSteps, Waits
<1>16. CASE Refund(r)
  <2>1. pc[r] = "refund" /\ Fitting(req[r], "put") /\ Persist(r, "put")
    BY <1>1, <1>16 DEF Refund, Fitting, Steps, WorkSteps, Waits
  <2> QED BY <1>5, <2>1 DEF Goes, WorkSteps, Waits
<1>17. CASE DebitWallet(r)
  <2>1. pc[r] = "debit" /\ Fitting(req[r], "record")
    BY <1>1, <1>17 DEF DebitWallet, Fitting, Steps, WorkSteps, Waits
  <2>2. Goto(r, "record") \/ End(r)
    BY <1>17 DEF DebitWallet
  <2> QED BY <1>2, <1>3, <2>1, <2>2 DEF Goes, WorkSteps, Waits
<1>18. CASE RecordPurchase(r)
  BY <1>2, <1>18 DEF RecordPurchase, Goes, WorkSteps
<1> QED BY <1>6, <1>7, <1>8, <1>9, <1>10, <1>11, <1>12, <1>13, <1>14, <1>15, <1>16,
           <1>17, <1>18, <1>19 DEF Work

-----------------------------------------------------------------------------
(* What work does to the line and to what is stored.                       *)

\* The line that r leaves is a line that may follow the one it found.
LineMoves(r) ==
    /\ tickets' \in Lines
    /\ issued' \in Nat /\ issued <= issued'
    /\ Numbered(tickets, issued) =>
         /\ Numbered(tickets', issued')
         /\ Distinct(tickets) => Distinct(tickets')
         /\ \A z \in Lines : Numbered(z, issued) /\ Keeps(z, tickets) => Keeps(z, tickets')
    /\ Owned(tickets, purchases) => Owned(tickets', purchases)
    /\ Single(tickets) /\ (pc[r] = "promote" => Nobody(tickets)) => Single(tickets')
    /\ Single(tickets) /\ pc'[r] = "ended" => Nobody(tickets')

\* r leaves the line and storage alone.
Quiet(r) ==
    /\ UNCHANGED <<memoryVars, storageVars, issued>>
    /\ pc'[r] # "ended"

\* r sends off the memory as it leaves it.
Written(r) ==
    /\ LineMoves(r) /\ telecoms' \in Telecoms /\ pc'[r] \in Waits
    /\ puts' = Append(puts, [by |-> r, tickets |-> tickets', telecoms |-> telecoms'])
    /\ unsent' = FALSE
    /\ UNCHANGED <<loaded, stored, reply, faults>>

\* r changes the line and does not send it off yet.
Claimed(r) ==
    /\ LineMoves(r) /\ pc'[r] = "refund"
    /\ unsent' = TRUE
    /\ UNCHANGED <<telecoms, loaded, stored, reply, puts, faults>>

\* Tickets for the same clients and purchases belong as the others did.
LEMMA AmongOwned ==
  ASSUME NEW x, NEW y, NEW b, Among(x, y), Owned(x, b)
  PROVE  Owned(y, b)
BY DEF Among, Owned

\* The same line is a line that may follow.
LEMMA SameLine ==
  ASSUME Typed, NEW r, tickets' = tickets, issued' = issued, pc'[r] # "ended"
  PROVE  LineMoves(r)
BY DEF LineMoves, Typed

\* A ticket that is looked up is found.
LEMMA TicketFound ==
  ASSUME Typed, NEW t \in Ids(tickets)
  PROVE  /\ At(tickets, t) \in 1..Len(tickets)
         /\ tickets[At(tickets, t)].id = t
         /\ Ticket(t) = tickets[At(tickets, t)]
<1>1. DOMAIN tickets = 1..Len(tickets)
  BY LineFacts DEF Typed
<1>2. \E i \in DOMAIN tickets : tickets[i].id = t
  BY DEF Ids
<1>3. At(tickets, t) \in DOMAIN tickets /\ tickets[At(tickets, t)].id = t
  BY <1>2 DEF At
<1> QED BY <1>1, <1>3 DEF Ticket

\* The first ticket of a status is found.
LEMMA FirstFound ==
  ASSUME Typed, NEW S, WithStatus(S) # {}
  PROVE  /\ First(WithStatus(S)) \in 1..Len(tickets)
         /\ tickets[First(WithStatus(S))].status \in S
<1>1. DOMAIN tickets = 1..Len(tickets) /\ Len(tickets) \in Nat
  BY LineFacts DEF Typed
<1>2. WithStatus(S) \in SUBSET Nat
  BY <1>1 DEF WithStatus
<1>3. First(WithStatus(S)) \in WithStatus(S)
  BY <1>2, FirstIsThere
<1> QED BY <1>1, <1>3 DEF WithStatus

\* A line whose tickets come from the one before.
LEMMA ComesMoves ==
  ASSUME Typed, NEW r, tickets' \in Lines, issued' = issued,
         Among(tickets, tickets'), From(tickets, tickets'),
         Distinct(tickets) => Distinct(tickets'),
         \A m : Numbered(tickets, m) => Numbered(tickets', m),
         Single(tickets) /\ (pc[r] = "promote" => Nobody(tickets)) => Single(tickets'),
         Single(tickets) /\ pc'[r] = "ended" => Nobody(tickets')
  PROVE  LineMoves(r)
<1>1. Owned(tickets, purchases) => Owned(tickets', purchases)
  BY AmongOwned
<1>2. \A z \in Lines : Keeps(z, tickets) => Keeps(z, tickets')
  BY KeptOn
<1>3. issued' \in Nat /\ issued <= issued'
  BY DEF Typed
<1> QED BY <1>1, <1>2, <1>3 DEF LineMoves

\* A ticket that is not over is marked.
LEMMA MarkedMoves ==
  ASSUME Typed, NEW r, NEW n \in 1..Len(tickets), NEW s \in Statuses,
         tickets' = SetStatus(n, s), issued' = issued, tickets[n].status \notin Over,
         \/ pc[r] = "promote" \/ Nobody(tickets)
         \/ s \notin InService
         \/ tickets[n].status \in InService,
         pc'[r] = "ended" => tickets[n].status \in InService /\ s \notin InService
  PROVE  LineMoves(r)
<1> DEFINE y == [tickets EXCEPT ![n].status = s]
<1>1. tickets \in Lines
  BY DEF Typed
<1>2. /\ y \in Lines /\ Among(tickets, y) /\ From(tickets, y)
      /\ Distinct(tickets) => Distinct(y)
      /\ \A m : Numbered(tickets, m) => Numbered(y, m)
      /\ (s \notin InService \/ tickets[n].status \in InService) =>
           (Single(tickets) => Single(y)) /\ (Nobody(tickets) => Nobody(y))
      /\ Nobody(tickets) => Single(y)
      /\ Single(tickets) /\ tickets[n].status \in InService /\ s \notin InService => Nobody(y)
  BY <1>1, LineMarked
<1>3. tickets' = y
  BY DEF SetStatus
<1> HIDE DEF y
<1>4. /\ Single(tickets) /\ (pc[r] = "promote" => Nobody(tickets)) => Single(y)
      /\ Single(tickets) /\ pc'[r] = "ended" => Nobody(y)
  BY <1>2
<1> QED BY <1>2, <1>3, <1>4, ComesMoves

\* Where a request is when it went on, or ended.
LEMMA WentTo ==
  ASSUME Controlled, NEW r \in Requests, NEW step, pc' = [pc EXCEPT ![r] = step]
  PROVE  pc'[r] = step
BY DEF Controlled

\* A request that ends and leaves the line alone is quiet.
LEMMA EndIsQuiet ==
  ASSUME Controlled, NEW r \in Requests, End(r), UNCHANGED <<memoryVars, storageVars, issued>>
  PROVE  Quiet(r)
<1>1. pc'[r] = "idle"
  BY WentTo DEF End
<1> QED BY <1>1 DEF Quiet

\* What is persisted is written.
LEMMA PersistWrites ==
  ASSUME Controlled, NEW r \in Requests, NEW step \in Waits, Persist(r, step),
         LineMoves(r), telecoms' \in Telecoms
  PROVE  Written(r)
<1>1. pc'[r] = step
  BY WentTo DEF Persist, Goto
<1> QED BY <1>1 DEF Written, Persist

\* One more ticket.
LEMMA JoinedMoves ==
  ASSUME Typed, Billed, NEW r, NEW u \in Users, NEW p \in Purchases,
         issued + 1 \in 1..MaxTickets, issued' = issued + 1, pc'[r] = "joined",
         purchases[p].status = "live", purchases[p].user = u,
         tickets' = Append(tickets, [id |-> issued + 1, user |-> u, purchase |-> p,
                                     status |-> "waiting"])
  PROVE  LineMoves(r)
<1> DEFINE t == [id |-> issued + 1, user |-> u, purchase |-> p, status |-> "waiting"]
           y == Append(tickets, t)
<1>1. t \in TicketType
  BY DEF TicketType, Statuses
<1>2. t.id = issued + 1 /\ t.status = "waiting" /\ t.user = u /\ t.purchase = p
  OBVIOUS
<1>3. tickets \in Lines /\ issued \in Nat
  BY DEF Typed
<1> HIDE DEF t
<1>4. /\ y \in Lines
      /\ \A j \in 1..Len(y) : \/ j = Len(tickets) + 1 /\ y[j] = t
                              \/ j \in 1..Len(tickets) /\ y[j] = tickets[j]
      /\ Single(tickets) => Single(y)
  BY <1>1, <1>2, <1>3, LineJoined
<1>5. Numbered(tickets, issued) =>
        /\ Numbered(y, issued + 1)
        /\ Distinct(tickets) => Distinct(y)
        /\ \A z \in Lines : Numbered(z, issued) /\ Keeps(z, tickets) => Keeps(z, y)
  BY <1>1, <1>2, <1>3, NewNumber
<1>6. tickets' = y
  BY DEF t
<1> HIDE DEF y
<1>7. Owned(tickets, purchases) => Owned(y, purchases)
  BY <1>2, <1>4 DEF Owned
<1>8. issued' \in Nat /\ issued <= issued'
  BY <1>3
<1> QED BY <1>4, <1>5, <1>6, <1>7, <1>8 DEF LineMoves

\* Work is quiet, writes the line, or claims a refund.
LEMMA WorkLines ==
  ASSUME Controlled, Typed, Billed, NEW r \in Requests, Work(r),
         pc[r] = "act" /\ req[r].op = "join" => issued + 1 \in 1..MaxTickets
  PROVE  Quiet(r) \/ Written(r) \/ Claimed(r)
<1>1. Fitting(req[r], pc[r])
  BY DEF Controlled
<1>2. Refuse(r) => Quiet(r)
  BY EndIsQuiet DEF Refuse
<1>3. ASSUME NEW step \in Waits, Persist(r, step),
             LineMoves(r), telecoms' \in Telecoms
      PROVE  Written(r)
  BY <1>3, PersistWrites
<1>4. ASSUME NEW step, Persist(r, step)
      PROVE  pc'[r] = step
  BY <1>4, WentTo DEF Persist, Goto
<1>5. telecoms \in Telecoms /\ {"joined", "ended", "put"} \subseteq Waits
  BY DEF Typed, Waits
<1>6. CASE SetOnline(r) \/ SetQueueOpen(r)
  <2>1. req[r].to \in BOOLEAN /\ tickets' = tickets /\ issued' = issued /\ Persist(r, "put")
    BY <1>1, <1>6 DEF SetOnline, SetQueueOpen, Acting, Fitting
  <2>2. telecoms' \in Telecoms
    BY <1>5, <1>6, <2>1 DEF SetOnline, SetQueueOpen, Telecoms
  <2>3. LineMoves(r)
    BY <1>4, <2>1, SameLine
  <2> QED BY <1>3, <1>5, <2>1, <2>2, <2>3
<1>7. CASE Join(r)
  <2>1. Refuse(r) \/ Persist(r, "joined")
    BY <1>7 DEF Join
  <2>2. ASSUME Persist(r, "joined")
        PROVE  Written(r)
    <3>1. pc'[r] = "joined"
      BY <1>4, <2>2
    <3>2. ~Refuse(r)
      <4>1. Refuse(r) => pc'[r] = "idle"
        BY RequestGoes DEF Refuse
      <4> QED BY <3>1, <4>1
    <3>3. /\ req[r].user \in Users /\ req[r].purchase \in Purchases
          /\ issued + 1 \in 1..MaxTickets
          /\ purchases[req[r].purchase].status = "live"
          /\ purchases[req[r].purchase].user = req[r].user
          /\ tickets' = Append(tickets, [id |-> issued + 1, user |-> req[r].user,
                                         purchase |-> req[r].purchase, status |-> "waiting"])
          /\ issued' = issued + 1 /\ telecoms' = telecoms
      BY <1>1, <1>7, <3>2 DEF Join, Acting, Fitting, Live
    <3>4. LineMoves(r)
      BY <3>1, <3>3, JoinedMoves
    <3> QED BY <1>3, <1>5, <2>2, <3>3, <3>4
  <2> QED BY <1>2, <2>1, <2>2
<1>8. CASE Consume(r) \/ RecordPurchase(r)
  BY <1>8, EndIsQuiet DEF Consume, RecordPurchase
<1>18. CASE Looked(r)
  BY <1>2, <1>18 DEF Looked
<1>9. CASE EndCurrent(r)
  <2> DEFINE n == First(WithStatus(InService))
  <2>1. n \in 1..Len(tickets) /\ tickets[n].status \in InService
    BY <1>9, FirstFound DEF EndCurrent
  <2>2. /\ tickets' = SetStatus(n, "done") /\ issued' = issued /\ telecoms' = telecoms
        /\ Persist(r, "ended")
    BY <1>9 DEF EndCurrent
  <2> HIDE DEF n
  <2>3. LineMoves(r)
    <3>1. "done" \in Statuses /\ "done" \notin InService /\ tickets[n].status \notin Over
      BY <2>1 DEF Statuses, InService, Over
    <3> QED BY <2>1, <2>2, <3>1, MarkedMoves
  <2> QED BY <1>3, <1>5, <2>2, <2>3
<1>10. CASE Promote(r)
  <2>1. CASE WithStatus({"waiting"}) = {}
    BY <1>2, <1>10, <2>1 DEF Promote
  <2>2. CASE WithStatus({"waiting"}) # {}
    <3> DEFINE n == First(WithStatus({"waiting"}))
    <3>1. n \in 1..Len(tickets) /\ tickets[n].status = "waiting"
      BY <2>2, FirstFound
    <3>2. /\ tickets' = SetStatus(n, "up_next") /\ issued' = issued /\ telecoms' = telecoms
          /\ Persist(r, "put")
          /\ pc[r] = "promote" \/ WithStatus(InService) = {}
      BY <1>10, <2>2 DEF Promote
    <3> HIDE DEF n
    <3>3. LineMoves(r)
      <4>1. "up_next" \in Statuses /\ tickets[n].status \notin Over /\ pc'[r] # "ended"
        BY <1>4, <3>1, <3>2 DEF Statuses, Over
      <4>2. WithStatus(InService) = {} => Nobody(tickets)
        <5>1. DOMAIN tickets = 1..Len(tickets)
          BY LineFacts DEF Typed
        <5> QED BY <5>1 DEF WithStatus, Nobody
      <4> QED BY <3>1, <3>2, <4>1, <4>2, MarkedMoves
    <3> QED BY <1>3, <1>5, <3>2, <3>3
  <2> QED BY <2>1, <2>2
<1>11. CASE Skip(r)
  <2> DEFINE t == req[r].ticket
             n == At(tickets, t)
  <2>1. CASE ~(t \in Ids(tickets) /\ Ticket(t).status \in {"waiting", "up_next"})
    BY <1>2, <1>11, <2>1 DEF Skip
  <2>2. CASE t \in Ids(tickets) /\ Ticket(t).status \in {"waiting", "up_next"}
    <3> DEFINE y == Append(RemoveAt(tickets, n), [tickets[n] EXCEPT !.status = "waiting"])
    <3>1. /\ n \in 1..Len(tickets) /\ Ticket(t) = tickets[n]
          /\ tickets[n].status \in {"waiting", "up_next"}
      BY <2>2, TicketFound
    <3>2. /\ tickets' = y /\ issued' = issued /\ telecoms' = telecoms
          /\ Persist(r, "put") /\ pc[r] = "act"
      BY <1>11, <2>2, <3>1 DEF Skip, Acting
    <3>3. pc'[r] = "put"
      BY <1>4, <3>2
    <3>4. tickets \in Lines
      BY DEF Typed
    <3> HIDE DEF t, n
    <3>5. /\ y \in Lines /\ Among(tickets, y) /\ From(tickets, y)
          /\ Distinct(tickets) => Distinct(y)
          /\ \A m : Numbered(tickets, m) => Numbered(y, m)
          /\ Single(tickets) => Single(y)
      BY <3>1, <3>4, LineRequeued
    <3> HIDE DEF y
    <3>7. LineMoves(r)
      BY <3>2, <3>3, <3>5, ComesMoves
    <3> QED BY <1>3, <1>5, <3>2, <3>7
  <2> QED BY <2>1, <2>2
<1>12. ASSUME NEW s \in Statuses, NEW t \in Ids(tickets), Persist(r, "put"),
              tickets' = SetStatus(At(tickets, t), s), issued' = issued, telecoms' = telecoms,
              Ticket(t).status \in InService
       PROVE  Written(r)
  <2> DEFINE n == At(tickets, t)
  <2>1. n \in 1..Len(tickets) /\ tickets[n].status \in InService
    BY <1>12, TicketFound
  <2>2. tickets[n].status \notin Over /\ pc'[r] # "ended"
    BY <1>4, <1>12, <2>1 DEF InService, Over
  <2> HIDE DEF n
  <2>3. LineMoves(r)
    BY <1>12, <2>1, <2>2, MarkedMoves DEF n
  <2> QED BY <1>3, <1>5, <1>12, <2>3
<1>13. CASE StartCall(r)
  <2> DEFINE t == req[r].ticket
  <2>1. CASE ~(t \in Ids(tickets) /\ Ticket(t).status = "up_next")
    BY <1>2, <1>13, <2>1 DEF StartCall
  <2>2. CASE t \in Ids(tickets) /\ Ticket(t).status = "up_next"
    <3>1. /\ tickets' = SetStatus(At(tickets, t), "in_call")
          /\ issued' = issued /\ telecoms' = telecoms
          /\ Persist(r, "put")
          /\ "in_call" \in Statuses /\ Ticket(t).status \in InService
      BY <1>13, <2>2 DEF StartCall, Statuses, InService
    <3> QED BY <1>12, <2>2, <3>1
  <2> QED BY <2>1, <2>2
<1>14. CASE EndTicket(r)
  <2> DEFINE t == req[r].ticket
  <2>1. CASE ~(t \in Ids(tickets) /\ Ticket(t).status \in InService)
    BY <1>2, <1>14, <2>1 DEF EndTicket
  <2>2. CASE t \in Ids(tickets) /\ Ticket(t).status \in InService
    <3>1. /\ tickets' = SetStatus(At(tickets, t), req[r].op)
          /\ issued' = issued /\ telecoms' = telecoms
          /\ Persist(r, "put")
          /\ req[r].op \in Statuses
      BY <1>14, <2>2 DEF EndTicket, Statuses
    <3> QED BY <1>12, <2>2, <3>1
  <2> QED BY <2>1, <2>2
<1>15. CASE Cancel(r)
  <2> DEFINE t == req[r].ticket
             n == At(tickets, t)
             p == Ticket(t).purchase
             mine == /\ t \in Ids(tickets) /\ Ticket(t).user = req[r].user
                     /\ Ticket(t).status = "waiting"
  <2>1. CASE ~mine
    BY <1>2, <1>15, <2>1 DEF Cancel
  <2>2. CASE mine
    <3>1. n \in 1..Len(tickets) /\ tickets[n].status = "waiting"
      BY <2>2, TicketFound
    <3>2. /\ tickets' = SetStatus(n, "cancelled") /\ issued' = issued /\ telecoms' = telecoms
          /\ \/ /\ pc' = [pc EXCEPT ![r] = "refund"]
                /\ unsent' = TRUE
                /\ UNCHANGED <<loaded, stored, reply, puts, faults>>
             \/ Persist(r, "put")
      BY <1>15, <2>2 DEF Cancel
    <3>3. pc'[r] = "refund" \/ pc'[r] = "put"
      BY <1>4, <3>2 DEF Controlled
    <3> HIDE DEF t, n
    <3>4. LineMoves(r)
      <4>1. /\ "cancelled" \in Statuses /\ "cancelled" \notin InService
            /\ tickets[n].status \notin Over
        BY <3>1 DEF Statuses, InService, Over
      <4> QED BY <3>1, <3>2, <3>3, <4>1, MarkedMoves
    <3>5. Persist(r, "put") => Written(r)
      BY <1>3, <1>5, <3>2, <3>4
    <3>6. pc' = [pc EXCEPT ![r] = "refund"] => pc'[r] = "refund"
      BY DEF Controlled
    <3> QED BY <3>2, <3>4, <3>5, <3>6 DEF Claimed
  <2> QED BY <2>1, <2>2
<1>16. CASE Refund(r)
  <2>1. tickets' = tickets /\ issued' = issued /\ telecoms' = telecoms /\ Persist(r, "put")
    BY <1>16 DEF Refund
  <2>2. LineMoves(r)
    BY <1>4, <2>1, SameLine
  <2> QED BY <1>3, <1>5, <2>1, <2>2
<1>17. CASE DebitWallet(r)
  <2>1. /\ Goto(r, "record") \/ End(r)
        /\ UNCHANGED <<memoryVars, storageVars, issued>>
    BY <1>17 DEF DebitWallet
  <2>2. Goto(r, "record") => pc'[r] = "record"
    BY WentTo DEF Goto
  <2>3. Goto(r, "record") => Quiet(r)
    BY <2>1, <2>2 DEF Quiet
  <2> QED BY <2>1, <2>3, EndIsQuiet
<1> QED BY <1>6, <1>7, <1>8, <1>9, <1>10, <1>11, <1>13, <1>14, <1>15, <1>16, <1>17,
           <1>18 DEF Work

\* Buying leaves the line and storage alone.
LEMMA BuyersAreQuiet ==
  ASSUME NEW r, Work(r), pc[r] \in {"debit", "record"}
  PROVE  UNCHANGED <<memoryVars, storageVars>>
BY DEF Work, Looked, SetOnline, SetQueueOpen, Join, Consume, EndCurrent, Promote, Skip, StartCall,
       EndTicket, Cancel, Refund, DebitWallet, RecordPurchase, Acting

-----------------------------------------------------------------------------
(* Work keeps the invariant of the line.                                   *)

\* One snapshot more.
LEMMA OneMorePut ==
  ASSUME Typed, NEW x \in Snapshots, puts' = Append(puts, x)
  PROVE  /\ puts' \in Seq(Snapshots) /\ puts' # <<>>
         /\ Len(puts) \in Nat /\ Len(puts') = Len(puts) + 1
         /\ \A i \in 1..Len(puts) : puts'[i] = puts[i]
         /\ puts'[Len(puts')] = x
         /\ \A i \in 1..Len(puts') : i \in 1..Len(puts) \/ i = Len(puts')
<1>1. puts \in Seq(Snapshots) /\ Len(puts) \in Nat
  BY LenProperties DEF Typed
<1>2. /\ puts' \in Seq(Snapshots) /\ puts' # <<>>
      /\ Len(puts') = Len(puts) + 1
      /\ \A i \in 1..Len(puts) : puts'[i] = puts[i]
      /\ puts'[Len(puts) + 1] = x
  BY <1>1, AppendProperties
<1>3. \A i \in 1..Len(puts') : i \in 1..Len(puts) \/ i = Len(puts')
  BY <1>1, <1>2
<1> QED BY <1>1, <1>2, <1>3

\* What work does, in short.
Worked(r) ==
    /\ Controlled' /\ Alone(r)
    /\ pc[r] \in WorkSteps
    /\ pc'[r] \in {"idle", "refund", "record"} \cup Waits
    /\ pc'[r] = "idle" \/ req'[r].op = req[r].op
    /\ Quiet(r) \/ Written(r) \/ Claimed(r)
    /\ pc[r] \in {"debit", "record"} => UNCHANGED <<memoryVars, storageVars>>

\* Over local files all but the wallet's awaits are in the turn of one request.
LEMMA LocalTurn ==
  ASSUME Driver = "local"
  PROVE  Turn = LoadSteps \cup Waits \cup {"act", "consume", "promote"}
BY DEF Turn, LoadSteps, Waits

\* So nothing is on its way while a request that waits for nothing has its turn.
LEMMA NothingOnItsWay ==
  ASSUME Driver = "local", Typed, OneOnItsWay, NEW r \in Requests, Running \subseteq {r},
         pc[r] \notin Waits
  PROVE  puts = <<>>
<1>1. SUFFICES ASSUME puts # <<>> PROVE FALSE
  OBVIOUS
<1>2. puts[1].by \in Requests /\ pc[puts[1].by] \in Waits
  <2>1. puts \in Seq(Snapshots) /\ Len(puts) = 1
    BY <1>1 DEF Typed, OneOnItsWay
  <2>2. puts[1] \in Snapshots
    BY <2>1
  <2> QED BY <1>1, <2>2 DEF Snapshots, OneOnItsWay
<1>3. puts[1].by \in Running
  BY <1>2, LocalTurn DEF Running
<1> QED BY <1>2, <1>3

\* And if it alone moves, the others still wait for their turn.
LEMMA TurnKept ==
  ASSUME Driver = "local", NEW r \in Requests, Running \subseteq {r}, Alone(r)
  PROVE  /\ \A o \in Requests \ {r} :
              pc[o] \notin Turn /\ pc'[o] = pc[o] /\ req'[o] = req[o]
         /\ OneAtATime'
<1>1. \A o \in Requests \ {r} : pc[o] \notin Turn /\ pc'[o] = pc[o] /\ req'[o] = req[o]
  BY DEF Running, Alone
<1>2. Turn' = Turn
  BY DEF Turn
<1>3. \A o, s \in Requests : pc'[o] \in Turn /\ pc'[s] \in Turn => o = s
  BY <1>1
<1> QED BY <1>1, <1>2, <1>3 DEF OneAtATime

\* No number is over a higher bound.
LEMMA StillNumbered ==
  ASSUME NEW x \in Lines, NEW m \in Nat, NEW n \in Nat, m <= n, Numbered(x, m)
  PROVE  Numbered(x, n)
<1>1. \A i \in 1..Len(x) : x[i].id \in Int
  BY LineFacts DEF TicketType
<1> QED BY <1>1 DEF Numbered

\* While a request loads the line, nobody works on it.
LEMMA WorkLoads ==
  ASSUME Driver = "local", Shaped, LineInv, NEW r \in Requests, Worked(r),
         Running \subseteq {r}, puts = <<>>
  PROVE  LoadedOnce'
<1>1. /\ Controlled /\ Controlled' /\ LoadedOnce /\ Alone(r)
      /\ pc[r] \in WorkSteps /\ pc'[r] \in {"idle", "refund", "record"} \cup Waits
      /\ pc'[r] = "idle" \/ req'[r].op = req[r].op
      /\ pc[r] \in {"debit", "record"} => UNCHANGED <<memoryVars, storageVars>>
  BY DEF Worked, Shaped, LineInv
<1>2. \A o \in Requests \ {r} : pc[o] \notin LoadSteps /\ pc'[o] = pc[o]
  BY <1>1, TurnKept, LocalTurn
<1>3. \A o \in Requests : pc'[o] \notin LoadSteps
  BY <1>1, <1>2 DEF LoadSteps, Waits
<1>4. loaded' = loaded
  BY DEF Worked, Quiet, Written, Claimed, memoryVars
<1>5. ASSUME ~loaded
      PROVE  puts' = <<>> /\ pc'[r] \in {"idle", "debit", "record"}
  <2>1. pc[r] \in {"debit", "record"}
    BY <1>1, <1>5 DEF LoadedOnce, LoadSteps, WorkSteps
  <2>2. req[r].op = "buy"
    BY <1>1, <2>1 DEF Controlled, Fitting
  <2>3. pc'[r] \in {"idle", "debit", "record"}
    BY <1>1, <2>2 DEF Controlled, Fitting
  <2>4. puts' = puts
    BY <1>1, <2>1 DEF storageVars
  <2> QED BY <2>3, <2>4
<1>6. ~loaded => \A o \in Requests : pc'[o] \in {"idle", "debit", "record"}
  BY <1>1, <1>2, <1>5 DEF LoadedOnce
<1>7. \A o \in Requests : pc'[o] \notin {"fill", "load2", "fill2"}
  BY <1>3 DEF LoadSteps
<1> QED BY <1>3, <1>4, <1>5, <1>6, <1>7 DEF LoadedOnce

\* Work leaves the line as it should be, and the newest of it on its way.
LEMMA WorkKeepsLine ==
  ASSUME Driver = "local", Shaped, LineInv, NEW r \in Requests, Worked(r),
         Running \subseteq {r}
  PROVE  LineInv'
<1>1. /\ Typed /\ OneOnItsWay /\ CalledAlone /\ KeptInMemory /\ CaughtUp
      /\ Alone(r) /\ pc[r] \in WorkSteps
      /\ pc'[r] \in {"idle", "refund", "record"} \cup Waits
      /\ Quiet(r) \/ Written(r) \/ Claimed(r)
  BY DEF Shaped, LineInv, Worked
<1>2. puts = <<>>
  <2>1. pc[r] \notin Waits
    BY <1>1 DEF WorkSteps, Waits
  <2> QED BY <1>1, <2>1, NothingOnItsWay
<1>3. LoadedOnce'
  BY <1>2, WorkLoads
<1>4. OneAtATime'
  BY <1>1, TurnKept
<1>5. \A o \in Requests \ {r} : pc'[o] \notin {"ended", "promote"}
  <2>1. {"ended", "promote"} \subseteq Turn
    BY LocalTurn DEF Waits
  <2> QED BY <1>1, <2>1, TurnKept
<1>6. /\ pc'[r] # "promote"
      /\ Single(tickets) /\ (pc[r] = "promote" => Nobody(tickets))
  BY <1>1 DEF CalledAlone, Waits
<1>7. CASE Quiet(r)
  <2>1. UNCHANGED <<tickets, telecoms, loaded, stored, puts, unsent, issued>> /\ pc'[r] # "ended"
    BY <1>7 DEF Quiet, memoryVars, storageVars
  <2>2. OneOnItsWay' /\ CaughtUp' /\ KeptInMemory'
    BY <1>1, <1>2, <2>1 DEF OneOnItsWay, CaughtUp, KeptInMemory
  <2>3. CalledAlone'
    BY <1>1, <1>5, <1>6, <2>1 DEF CalledAlone
  <2> QED BY <1>3, <1>4, <2>2, <2>3 DEF LineInv
<1>8. ASSUME LineMoves(r), stored' = stored, loaded' = loaded
      PROVE  CalledAlone' /\ KeptInMemory'
  <2>1. /\ Numbered(tickets', issued') /\ Distinct(tickets')
        /\ \A z \in Lines : Numbered(z, issued) /\ Keeps(z, tickets) => Keeps(z, tickets')
        /\ Single(tickets') /\ (pc'[r] = "ended" => Nobody(tickets'))
        /\ issued' \in Nat /\ issued <= issued'
    BY <1>1, <1>6, <1>8 DEF LineMoves, KeptInMemory
  <2>2. stored.tickets \in Lines /\ issued \in Nat
    BY <1>1 DEF Typed
  <2>3. Numbered(stored'.tickets, issued')
    BY <1>1, <1>8, <2>1, <2>2, StillNumbered DEF KeptInMemory
  <2>4. loaded => Keeps(stored.tickets, tickets')
    BY <1>1, <2>1, <2>2 DEF KeptInMemory
  <2>5. KeptInMemory'
    BY <1>1, <1>8, <2>1, <2>3, <2>4 DEF KeptInMemory
  <2>6. CalledAlone'
    BY <1>1, <1>5, <1>6, <1>8, <2>1 DEF CalledAlone
  <2> QED BY <2>5, <2>6
<1>9. CASE Written(r)
  <2> DEFINE x == [by |-> r, tickets |-> tickets', telecoms |-> telecoms']
  <2>1. /\ LineMoves(r) /\ stored' = stored /\ loaded' = loaded /\ pc'[r] \in Waits
        /\ x \in Snapshots /\ puts' = Append(puts, x)
    BY <1>9 DEF Written, LineMoves, Snapshots
  <2>2. x.by = r /\ x.tickets = tickets' /\ x.telecoms = telecoms'
    OBVIOUS
  <2> HIDE DEF x
  <2>3. puts' # <<>> /\ Len(puts') = 1 /\ puts'[1] = x
    <3>1. puts' # <<>> /\ Len(puts') = Len(puts) + 1 /\ puts'[Len(puts')] = x
      BY <1>1, <2>1, OneMorePut
    <3>2. Len(puts) = 0
      BY <1>2
    <3> QED BY <3>1, <3>2
  <2>4. OneOnItsWay' /\ CaughtUp'
    BY <2>1, <2>2, <2>3 DEF OneOnItsWay, CaughtUp
  <2> QED BY <1>3, <1>4, <1>8, <2>1, <2>4 DEF LineInv
<1>10. CASE Claimed(r)
  <2>1. LineMoves(r) /\ UNCHANGED <<stored, loaded, puts>> /\ unsent' = TRUE
    BY <1>10 DEF Claimed
  <2>2. OneOnItsWay' /\ CaughtUp'
    BY <1>2, <2>1 DEF OneOnItsWay, CaughtUp
  <2> QED BY <1>3, <1>4, <1>8, <2>1, <2>2 DEF LineInv
<1> QED BY <1>1, <1>7, <1>9, <1>10

-----------------------------------------------------------------------------
(* Loading and arriving keep the invariant of the line.                    *)

Loads(r) ==
    \/ ReadTickets(r) \/ TakeTickets(r)
    \/ ReadTelecoms(r) \/ TakeTelecoms(r) \/ MissTelecoms(r)

\* A request that loads goes on with what it was asked.
LEMMA LoadMoves ==
  ASSUME Controlled, NEW r \in Requests, Loads(r)
  PROVE  /\ Controlled' /\ Alone(r) /\ req'[r] = req[r]
         /\ pc[r] \in LoadSteps
         /\ pc'[r] \in {"fill", "load2", "fill2", "act"}
         /\ ReadTickets(r) => pc'[r] = "fill"
         /\ TakeTickets(r) => pc'[r] = "load2"
         /\ ReadTelecoms(r) => pc'[r] = "fill2"
         /\ TakeTelecoms(r) \/ MissTelecoms(r) => pc'[r] = "act"
<1>1. Fitting(req[r], pc[r])
  BY DEF Controlled
<1>2. ASSUME pc[r] \in LoadSteps, NEW step \in {"fill", "load2", "fill2", "act"}, Goto(r, step)
      PROVE  Controlled' /\ Alone(r) /\ req'[r] = req[r] /\ pc'[r] = step
  <2>1. Fitting(req[r], step)
    BY <1>1, <1>2 DEF Fitting, Steps, LoadSteps, WorkSteps
  <2> QED BY <1>2, <2>1, RequestGoes
<1>3. ReadTickets(r) => pc[r] \in LoadSteps /\ Goto(r, "fill")
  BY DEF ReadTickets, LoadSteps
<1>4. TakeTickets(r) => pc[r] \in LoadSteps /\ Goto(r, "load2")
  BY DEF TakeTickets, LoadSteps
<1>5. ReadTelecoms(r) => pc[r] \in LoadSteps /\ Goto(r, "fill2")
  BY DEF ReadTelecoms, LoadSteps
<1>6. TakeTelecoms(r) \/ MissTelecoms(r) => pc[r] \in LoadSteps /\ Goto(r, "act")
  BY DEF TakeTelecoms, MissTelecoms, LoadSteps
<1> QED BY <1>2, <1>3, <1>4, <1>5, <1>6 DEF Loads

\* A line without tickets.
LEMMA EmptyLine ==
  /\ <<>> \in Lines
  /\ Single(<<>>) /\ Nobody(<<>>) /\ Distinct(<<>>)
  /\ \A n : Numbered(<<>>, n)
  /\ \A x : Keeps(<<>>, x) /\ Keeps(x, <<>>)
  /\ \A b : Owned(<<>>, b)
<1>1. Len(<<>>) = 0 /\ 1..0 = {}
  OBVIOUS
<1> QED BY <1>1, EmptySeq DEF Lines, Single, Nobody, Distinct, Numbered, Keeps, Owned

\* Whoever loads the line finds what is stored, or nothing.
LEMMA LoadKeepsLine ==
  ASSUME Driver = "local", Shaped, LineInv, NEW r \in Requests, Loads(r), Running \subseteq {r}
  PROVE  LineInv'
<1>1. /\ Typed /\ LoadedOnce /\ OneOnItsWay /\ CalledAlone /\ KeptInMemory /\ CaughtUp
      /\ Controlled' /\ Alone(r)
      /\ pc[r] \in LoadSteps /\ pc'[r] \in {"fill", "load2", "fill2", "act"}
  BY LoadMoves DEF Shaped, LineInv
<1>2. ~loaded /\ puts = <<>>
  BY <1>1 DEF LoadedOnce
<1>3. \A o \in Requests \ {r} : pc'[o] \in {"idle", "debit", "record"}
  <2>1. \A o \in Requests \ {r} : pc[o] \notin LoadSteps /\ pc'[o] = pc[o]
    BY <1>1, TurnKept, LocalTurn
  <2> QED BY <1>1, <1>2, <2>1 DEF LoadedOnce
<1>4. OneAtATime'
  BY <1>1, TurnKept
<1>5. UNCHANGED <<stored, puts, issued>>
  BY DEF Loads, ReadTickets, TakeTickets, ReadTelecoms, TakeTelecoms, MissTelecoms
<1>6. OneOnItsWay'
  BY <1>2, <1>5 DEF OneOnItsWay
<1>7. \A o \in Requests : pc'[o] \notin {"ended", "promote"}
  BY <1>1, <1>3
<1>8. /\ stored.tickets \in Lines
      /\ stored = [tickets |-> stored.tickets, telecoms |-> stored.telecoms]
      /\ Single(stored.tickets) /\ Distinct(stored.tickets) /\ Numbered(stored.tickets, issued)
      /\ Keeps(stored.tickets, stored.tickets)
  BY <1>1, KeptOn DEF Typed, CalledAlone, KeptInMemory
<1>9. ASSUME tickets' \in {stored.tickets, <<>>}
      PROVE  CalledAlone' /\ KeptInMemory'
  <2>1. Single(tickets') /\ Distinct(tickets') /\ Numbered(tickets', issued)
        /\ Keeps(stored.tickets, tickets')
    BY <1>8, <1>9, EmptyLine
  <2> QED BY <1>5, <1>7, <1>8, <2>1 DEF CalledAlone, KeptInMemory
<1>10. ASSUME UNCHANGED <<tickets, loaded>>
       PROVE  CalledAlone' /\ KeptInMemory' /\ CaughtUp'
  BY <1>1, <1>2, <1>5, <1>7, <1>10 DEF CalledAlone, KeptInMemory, CaughtUp
<1>11. CASE ReadTickets(r)
  <2>1. /\ pc'[r] = "fill" /\ UNCHANGED <<tickets, loaded>>
        /\ reply'[r].tickets \in {stored.tickets, <<>>}
        /\ ~unsent' => reply'[r].tickets = stored.tickets
    <3>1. pc'[r] = "fill" /\ UNCHANGED <<tickets, loaded>>
      BY <1>11, LoadMoves DEF ReadTickets, memoryVars, Shaped
    <3>2. \/ reply' = [reply EXCEPT ![r].tickets = stored.tickets]
          \/ reply' = [reply EXCEPT ![r].tickets = <<>>] /\ unsent' = TRUE
      BY <1>11 DEF ReadTickets
    <3>3. \A x : reply' = [reply EXCEPT ![r].tickets = x] => reply'[r].tickets = x
      BY <1>1 DEF Typed
    <3> QED BY <3>1, <3>2, <3>3
  <2>2. LoadedOnce'
    BY <1>2, <1>3, <1>5, <2>1 DEF LoadedOnce, LoadSteps
  <2> QED BY <1>4, <1>6, <1>10, <2>1, <2>2 DEF LineInv
<1>12. CASE TakeTickets(r)
  <2>1. /\ pc[r] = "fill" /\ pc'[r] = "load2" /\ tickets' = reply[r].tickets
        /\ loaded' = loaded /\ unsent' = (unsent \/ loaded)
    BY <1>12, LoadMoves DEF TakeTickets, Shaped
  <2>2. tickets' \in {stored.tickets, <<>>} /\ (~unsent' => tickets' = stored.tickets)
    BY <1>1, <2>1 DEF LoadedOnce
  <2>3. LoadedOnce'
    BY <1>2, <1>3, <1>5, <2>1, <2>2 DEF LoadedOnce, LoadSteps
  <2>4. CaughtUp'
    BY <1>2, <2>1 DEF CaughtUp
  <2> QED BY <1>4, <1>6, <1>9, <2>2, <2>3, <2>4 DEF LineInv
<1>13. CASE ReadTelecoms(r)
  <2>1. /\ pc[r] = "load2" /\ pc'[r] = "fill2" /\ UNCHANGED <<tickets, loaded, unsent>>
        /\ reply'[r].telecoms = stored.telecoms
    BY <1>1, <1>13, LoadMoves DEF ReadTelecoms, memoryVars, Typed, Shaped
  <2>2. tickets \in {stored.tickets, <<>>} /\ (~unsent => tickets = stored.tickets)
    BY <1>1, <2>1 DEF LoadedOnce
  <2>3. LoadedOnce'
    BY <1>2, <1>3, <1>5, <2>1, <2>2 DEF LoadedOnce, LoadSteps
  <2> QED BY <1>4, <1>6, <1>10, <2>1, <2>3 DEF LineInv
<1>14. CASE TakeTelecoms(r) \/ MissTelecoms(r)
  <2>1. /\ pc[r] \in {"load2", "fill2"} /\ pc'[r] = "act" /\ tickets' = tickets /\ loaded' = TRUE
        /\ ~unsent' => ~unsent /\ pc[r] = "fill2" /\ telecoms' = reply[r].telecoms
    BY <1>14, LoadMoves DEF TakeTelecoms, MissTelecoms, Shaped
  <2>2. /\ tickets \in {stored.tickets, <<>>} /\ (~unsent => tickets = stored.tickets)
        /\ pc[r] = "fill2" => reply[r].telecoms = stored.telecoms
    BY <1>1, <2>1 DEF LoadedOnce
  <2>3. LoadedOnce'
    BY <1>3, <2>1 DEF LoadedOnce, LoadSteps
  <2>4. CaughtUp'
    BY <1>5, <1>8, <2>1, <2>2 DEF CaughtUp
  <2> QED BY <1>4, <1>6, <1>9, <2>1, <2>2, <2>3, <2>4 DEF LineInv
<1> QED BY <1>11, <1>12, <1>13, <1>14 DEF Loads

\* What a request that arrives brings, and what it leaves alone.
Arrived(r) ==
    /\ Controlled' /\ Alone(r)
    /\ pc[r] = "idle"
    /\ req'[r].op = "buy" \/ pc'[r] = IF loaded THEN "act" ELSE "load"
    /\ UNCHANGED <<memoryVars, storageVars, issued, billingVars>>

\* A call of the queue arrives.
LEMMA CallArrives ==
  ASSUME Controlled, NEW r \in Requests, NEW q, Call(r, q), Fitting(q, "act")
  PROVE  Arrived(r) /\ req'[r] = q
<1> DEFINE step == IF loaded THEN "act" ELSE "load"
<1>1. /\ pc[r] = "idle"
      /\ pc' = [pc EXCEPT ![r] = step] /\ req' = [req EXCEPT ![r] = q]
      /\ UNCHANGED <<memoryVars, storageVars, issued, billingVars>>
  BY DEF Call
<1>2. Fitting(q, step)
  BY DEF Fitting, Steps, LoadSteps, WorkSteps
<1>3. step = IF loaded THEN "act" ELSE "load"
  OBVIOUS
<1> HIDE DEF step
<1>4. Controlled' /\ Alone(r) /\ pc'[r] = step /\ req'[r] = q
  BY <1>1, <1>2, ControlMoves
<1> QED BY <1>1, <1>3, <1>4 DEF Arrived

\* Arrivals fit, and move nobody else.
LEMMA ArrivalArrives ==
  ASSUME Shaped, NEW r \in Requests, Arrival(r)
  PROVE  /\ Arrived(r)
         /\ \/ req'[r].op = "join" /\ issued + Cardinality(Asking("join") \cap Loading) < MaxTickets
            \/ req'[r].op = "buy" /\ Cardinality(New) > Cardinality(Asking("buy"))
            \/ req'[r].op \notin {"join", "buy"}
         /\ req'[r].op = "buy" => req'[r].via \in PayMethods
         /\ pc'[r] = "record" => req'[r].op = "buy" /\ req'[r].via # "wallet"
<1> USE DEF Shaped
<1>1. CASE LawyerCalls(r)
  <2>1. CASE \E s \in Switches : Call(r, [op |-> s[1], to |-> s[2]])
    <3>1. PICK s \in Switches : Call(r, [op |-> s[1], to |-> s[2]])
      BY <2>1
    <3> DEFINE q == [op |-> s[1], to |-> s[2]]
    <3>2. q.op \in {"setOnline", "setQueueOpen"} /\ q.to \in BOOLEAN
      BY KnownSwitches
    <3>3. Call(r, q)
      BY <3>1
    <3> HIDE DEF q
    <3>4. Fitting(q, "act")
      BY <3>2 DEF Fitting, Steps, LoadSteps, WorkSteps
    <3>5. Arrived(r) /\ req'[r] = q
      BY <3>2, <3>3, <3>4, CallArrives
    <3>6. pc'[r] # "record"
      BY <3>2, <3>5 DEF Arrived
    <3> QED BY <3>2, <3>5, <3>6
  <2>2. CASE Call(r, [op |-> "next"])
    <3> DEFINE q == [op |-> "next"]
    <3>1. q.op = "next" /\ Call(r, q)
      BY <2>2
    <3> HIDE DEF q
    <3>2. Fitting(q, "act")
      BY <3>1 DEF Fitting, Steps, LoadSteps, WorkSteps
    <3>3. Arrived(r) /\ req'[r] = q
      BY <2>2, <3>1, <3>2, CallArrives
    <3>4. pc'[r] # "record"
      BY <3>1, <3>3 DEF Arrived
    <3> QED BY <3>1, <3>3, <3>4
  <2>3. CASE \E t \in 1 .. issued, op \in {"skip", "startCall", "done", "no_show"} :
               Call(r, [op |-> op, ticket |-> t])
    <3>1. PICK op \in {"skip", "startCall", "done", "no_show"} :
            \E t \in 1 .. issued : Call(r, [op |-> op, ticket |-> t])
      BY <2>3
    <3>2. PICK t \in 1 .. issued : Call(r, [op |-> op, ticket |-> t])
      BY <3>1
    <3> DEFINE q == [op |-> op, ticket |-> t]
    <3>3. q.op \in {"skip", "startCall", "done", "no_show"} /\ Call(r, q)
      BY <3>2
    <3> HIDE DEF q
    <3>4. Fitting(q, "act")
      BY <3>3 DEF Fitting, Steps, LoadSteps, WorkSteps
    <3>5. Arrived(r) /\ req'[r] = q
      BY <3>3, <3>4, CallArrives
    <3>6. pc'[r] # "record"
      BY <3>3, <3>5 DEF Arrived
    <3> QED BY <3>3, <3>5, <3>6
  <2> QED BY <1>1, <2>1, <2>2, <2>3 DEF LawyerCalls
<1>2. CASE ClientCalls(r)
  <2>1. PICK u \in Users :
          \/ /\ issued + Cardinality(Asking("join") \cap Loading) < MaxTickets
             /\ \E p \in Live : Call(r, [op |-> "join", user |-> u, purchase |-> p])
          \/ \E t \in 1 .. issued : Call(r, [op |-> "cancel", user |-> u, ticket |-> t])
    BY <1>2 DEF ClientCalls
  <2>2. ASSUME NEW p \in Live, Call(r, [op |-> "join", user |-> u, purchase |-> p])
        PROVE  Arrived(r) /\ req'[r].op = "join" /\ pc'[r] # "record"
    <3> DEFINE q == [op |-> "join", user |-> u, purchase |-> p]
    <3>1. /\ q.op = "join" /\ q.user \in Users /\ q.purchase \in Purchases
          /\ Call(r, q)
      BY <2>2 DEF Live
    <3> HIDE DEF q
    <3>2. Fitting(q, "act")
      BY <3>1 DEF Fitting, Steps, LoadSteps, WorkSteps
    <3>3. Arrived(r) /\ req'[r] = q
      BY <3>1, <3>2, CallArrives
    <3> QED BY <3>1, <3>3 DEF Arrived
  <2>3. ASSUME NEW t \in 1 .. issued, Call(r, [op |-> "cancel", user |-> u, ticket |-> t])
        PROVE  Arrived(r) /\ req'[r].op = "cancel" /\ pc'[r] # "record"
    <3> DEFINE q == [op |-> "cancel", user |-> u, ticket |-> t]
    <3>1. q.op = "cancel" /\ q.user \in Users /\ Call(r, q)
      BY <2>3
    <3> HIDE DEF q
    <3>2. Fitting(q, "act")
      BY <3>1 DEF Fitting, Steps, LoadSteps, WorkSteps
    <3>3. Arrived(r) /\ req'[r] = q
      BY <3>1, <3>2, CallArrives
    <3> QED BY <3>1, <3>3 DEF Arrived
  <2> QED BY <2>1, <2>2, <2>3
<1>3. CASE Buy(r)
  <2>1. PICK u \in Users, via \in PayMethods :
          /\ req' = [req EXCEPT ![r] = [op |-> "buy", user |-> u, via |-> via]]
          /\ pc' = [pc EXCEPT ![r] = IF via = "wallet" THEN "debit" ELSE "record"]
    BY <1>3 DEF Buy
  <2> DEFINE q == [op |-> "buy", user |-> u, via |-> via]
             step == IF via = "wallet" THEN "debit" ELSE "record"
  <2>2. q.op = "buy" /\ q.user \in Users /\ q.via \in PayMethods /\ q.via = via
    OBVIOUS
  <2>3. step = IF via = "wallet" THEN "debit" ELSE "record"
    OBVIOUS
  <2>4. pc' = [pc EXCEPT ![r] = step] /\ req' = [req EXCEPT ![r] = q]
    BY <2>1
  <2> HIDE DEF q, step
  <2>5. Fitting(q, step)
    BY <2>2, <2>3 DEF Fitting, Steps, LoadSteps, WorkSteps
  <2>6. Controlled' /\ Alone(r) /\ pc'[r] = step /\ req'[r] = q
    BY <2>4, <2>5, ControlMoves
  <2>7. /\ pc[r] = "idle" /\ Cardinality(New) > Cardinality(Asking("buy"))
        /\ UNCHANGED <<memoryVars, storageVars, issued, billingVars>>
    BY <1>3 DEF Buy
  <2>8. Arrived(r)
    BY <2>2, <2>6, <2>7 DEF Arrived
  <2> QED BY <2>2, <2>3, <2>6, <2>7, <2>8
<1>4. CASE Look(r)
  <2> DEFINE q == [op |-> "look"]
  <2>1. q.op = "look" /\ Call(r, q)
    BY <1>4 DEF Look
  <2> HIDE DEF q
  <2>2. Fitting(q, "act")
    BY <2>1 DEF Fitting, Steps, LoadSteps, WorkSteps
  <2>3. Arrived(r) /\ req'[r] = q
    BY <2>1, <2>2, CallArrives
  <2>4. pc'[r] # "record"
    BY <2>1, <2>3 DEF Arrived
  <2> QED BY <2>1, <2>3, <2>4
<1> QED BY <1>1, <1>2, <1>3, <1>4 DEF Arrival

\* An arrival keeps the invariant of the line.
LEMMA ArrivalKeepsLine ==
  ASSUME Driver = "local", Shaped, LineInv, NEW r \in Requests, Arrived(r), Running = {}
  PROVE  LineInv'
<1>1. UNCHANGED <<tickets, telecoms, loaded, stored, puts, unsent, issued>>
  BY DEF Arrived, memoryVars, storageVars
<1>2. /\ Typed /\ LoadedOnce /\ OneOnItsWay /\ CalledAlone /\ KeptInMemory /\ CaughtUp
      /\ Fitting(req'[r], pc'[r]) /\ pc[r] = "idle" /\ Alone(r)
  BY DEF Shaped, LineInv, Arrived, Controlled
<1>3. pc'[r] \in {"act", "load", "debit", "record"}
      /\ (loaded => pc'[r] # "load") /\ (~loaded => pc'[r] # "act")
  <2>1. req'[r].op = "buy" => pc'[r] \in {"debit", "record"}
    BY <1>2 DEF Fitting
  <2> QED BY <2>1 DEF Arrived
<1>4. /\ OneAtATime'
      /\ \A o \in Requests \ {r} : pc'[o] = pc[o] /\ pc[o] \notin LoadSteps \cup {"ended", "promote"}
  BY <1>2, TurnKept, LocalTurn DEF Waits
<1>5. puts = <<>>
  BY <1>2, NothingOnItsWay DEF Waits
<1>6. LoadedOnce'
  <2>1. \A o \in Requests : pc'[o] \notin {"fill", "load2", "fill2"}
    BY <1>3, <1>4 DEF LoadSteps
  <2>2. loaded => \A o \in Requests : pc'[o] \notin LoadSteps
    BY <1>3, <1>4 DEF LoadSteps
  <2>3. ~loaded => \A o \in Requests : pc'[o] \in LoadSteps \cup {"idle", "debit", "record"}
    BY <1>2, <1>3, <1>4 DEF LoadedOnce, LoadSteps
  <2> QED BY <1>1, <1>5, <2>1, <2>2, <2>3 DEF LoadedOnce
<1>7. CalledAlone'
  <2>1. \A o \in Requests : pc'[o] \notin {"ended", "promote"}
    BY <1>3, <1>4
  <2> QED BY <1>1, <1>2, <2>1 DEF CalledAlone
<1>8. OneOnItsWay' /\ KeptInMemory' /\ CaughtUp'
  BY <1>1, <1>2, <1>5 DEF OneOnItsWay, KeptInMemory, CaughtUp
<1> QED BY <1>4, <1>6, <1>7, <1>8 DEF LineInv

-----------------------------------------------------------------------------
(* Storage keeps the invariant of the line.                                *)

\* A snapshot that was on its way no longer is, and its request goes on.
Settled(r, i) ==
    /\ i \in 1..Len(puts) /\ r = puts[i].by
    /\ puts' = RemoveAt(puts, i)
    /\ UNCHANGED <<tickets, telecoms, loaded, reply, issued, billingVars>>
    /\ \/ /\ \/ End(r)
             \/ AfterPut(pc[r]) # "idle" /\ Goto(r, AfterPut(pc[r]))
          /\ stored' = [tickets |-> puts[i].tickets, telecoms |-> puts[i].telecoms]
          /\ UNCHANGED <<unsent, faults>>
       \/ /\ End(r)
          /\ stored' \in Left({i})
          /\ unsent' = (unsent \/ i = Len(puts))
          /\ faults' \in 0..MaxFaults

\* That is all that storage does.
LEMMA StorageSettles ==
  ASSUME Shaped, NEW i \in DOMAIN puts, Land(i) \/ PutFails(i)
  PROVE  puts[i].by \in Requests /\ i \in 1..Len(puts) /\ Settled(puts[i].by, i)
<1>1. i \in 1..Len(puts) /\ puts[i].by \in Requests
  <2>1. puts \in Seq(Snapshots)
    BY DEF Shaped, Typed
  <2>2. i \in 1..Len(puts) /\ puts[i] \in Snapshots
    BY <2>1, LenProperties, ElementOfSeq
  <2> QED BY <2>2 DEF Snapshots
<1>2. PICK r \in Requests : r = puts[i].by
  BY <1>1
<1>3. CASE Land(i)
  <2>1. End(r) \/ (AfterPut(pc[r]) # "idle" /\ Goto(r, AfterPut(pc[r])))
    <3>1. CASE AfterPut(pc[r]) = "idle"
      BY <1>2, <1>3, <3>1 DEF Land, End
    <3>2. CASE AfterPut(pc[r]) # "idle"
      <4>1. [req EXCEPT ![r] = req[r]] = req
        BY DEF Shaped, Controlled
      <4>2. pc' = [pc EXCEPT ![r] = AfterPut(pc[r])] /\ req' = [req EXCEPT ![r] = req[r]]
        BY <1>2, <1>3, <3>2 DEF Land
      <4> QED BY <3>2, <4>1, <4>2 DEF Goto
    <3> QED BY <3>1, <3>2
  <2> QED BY <1>1, <1>2, <1>3, <2>1 DEF Land, memoryVars, Settled
<1>4. CASE PutFails(i)
  <2>1. faults' \in 0..MaxFaults
    BY <1>4, MaxFaultsIsNat DEF PutFails, Fault, Shaped, Typed
  <2> QED BY <1>1, <1>2, <1>4, <2>1 DEF PutFails, memoryVars, Settled
<1> QED BY <1>3, <1>4

\* What a failure leaves in storage is what was there, what was on its way, or nothing.
LEMMA LeftFacts ==
  ASSUME Typed, NEW S \in SUBSET (1..Len(puts)), NEW z \in Left(S)
  PROVE  /\ z \in [tickets : Lines, telecoms : Telecoms]
         /\ \/ z.tickets = stored.tickets
            \/ z.tickets = <<>>
            \/ \E i \in S : z.tickets = puts[i].tickets
<1>1. \A i \in S : puts[i].tickets \in Lines /\ puts[i].telecoms \in Telecoms
  <2>1. puts \in Seq(Snapshots)
    BY DEF Typed
  <2>2. \A i \in S : puts[i] \in Snapshots
    BY <2>1
  <2> QED BY <2>2 DEF Snapshots
<1>2. /\ z.tickets \in {stored.tickets, <<>>} \cup {puts[i].tickets : i \in S}
      /\ z.telecoms \in {stored.telecoms, Boot} \cup {puts[i].telecoms : i \in S}
      /\ z = [tickets |-> z.tickets, telecoms |-> z.telecoms]
  BY DEF Left, Torn
<1>3. z.tickets \in Lines /\ z.telecoms \in Telecoms
  <2>1. stored.tickets \in Lines /\ stored.telecoms \in Telecoms
    BY DEF Typed
  <2>2. <<>> \in Lines /\ Boot \in Telecoms
    BY EmptyLine DEF Boot, Telecoms
  <2> QED BY <1>1, <1>2, <2>1, <2>2
<1> QED BY <1>2, <1>3

\* The others are still on their way, and what is stored was, or is nothing.
LEMMA OnePutLess ==
  ASSUME Typed, NEW r \in Requests, NEW i \in 1..Len(puts), Settled(r, i)
  PROVE  /\ Typed'
         /\ Len(puts') = Len(puts) - 1
         /\ stored'.tickets \in {stored.tickets, puts[i].tickets, <<>>}
         /\ TicketsOwned => TicketsOwned'
<1>1. /\ puts \in Seq(Snapshots) /\ Len(puts) \in Nat
      /\ \A j \in 1..Len(puts) : puts[j] \in Snapshots
  BY LenProperties, ElementOfSeq DEF Typed
<1>2. /\ puts' \in Seq(Snapshots)
      /\ Len(puts') = Len(puts) - 1
      /\ \A k \in 1..(Len(puts) - 1) :
           /\ k < i => k \in 1..Len(puts) /\ puts'[k] = puts[k]
           /\ ~(k < i) => k + 1 \in 1..Len(puts) /\ puts'[k] = puts[k + 1]
  BY <1>1, OneRemoved DEF Settled
<1>3. \A k \in 1..Len(puts') : \E j \in 1..Len(puts) : puts'[k] = puts[j]
  BY <1>2
<1>4. /\ stored' \in [tickets : Lines, telecoms : Telecoms]
      /\ stored'.tickets \in {stored.tickets, puts[i].tickets, <<>>}
  <2>1. CASE stored' = [tickets |-> puts[i].tickets, telecoms |-> puts[i].telecoms]
    BY <1>1, <2>1 DEF Snapshots
  <2>2. CASE stored' \in Left({i})
    BY <2>2, LeftFacts
  <2> QED BY <2>1, <2>2 DEF Settled
<1>5. Typed'
  <2>1. unsent' \in BOOLEAN /\ faults' \in 0..MaxFaults
    BY DEF Settled, Typed
  <2> QED BY <1>2, <1>4, <2>1 DEF Typed, Settled
<1>6. TicketsOwned => TicketsOwned'
  <2>1. purchases' = purchases /\ tickets' = tickets /\ reply' = reply
    BY DEF Settled, billingVars
  <2>2. TicketsOwned => Owned(stored'.tickets, purchases)
    BY <1>4, EmptyLine DEF TicketsOwned
  <2>3. TicketsOwned => \A k \in 1..Len(puts') : Owned(puts'[k].tickets, purchases)
    BY <1>3 DEF TicketsOwned
  <2> QED BY <2>1, <2>2, <2>3 DEF TicketsOwned
<1> QED BY <1>2, <1>4, <1>5, <1>6

\* Its request ends, or goes on to what comes after the snapshot.
LEMMA SettledMoves ==
  ASSUME Controlled, NEW r \in Requests, NEW i, Settled(r, i)
  PROVE  /\ Controlled' /\ Alone(r)
         /\ pc'[r] \in {"idle", "consume", "promote"}
         /\ pc'[r] = "promote" => pc[r] = "ended"
         /\ (pc'[r] = "idle" /\ req'[r] = NoRequest) \/ req'[r] = req[r]
<1>1. Fitting(req[r], pc[r])
  BY DEF Controlled
<1>2. CASE End(r)
  BY <1>2, RequestGoes
<1>3. CASE AfterPut(pc[r]) # "idle" /\ Goto(r, AfterPut(pc[r]))
  <2>1. PICK step : step = AfterPut(pc[r])
    OBVIOUS
  <2>2. step \in {"consume", "promote"} /\ (step = "promote" => pc[r] = "ended")
    BY <1>3, <2>1 DEF AfterPut
  <2>3. Fitting(req[r], step)
    BY <1>1, <1>3, <2>1 DEF AfterPut, Fitting, Steps, LoadSteps, WorkSteps, Waits
  <2>4. Goto(r, step)
    BY <1>3, <2>1
  <2>5. Controlled' /\ Alone(r) /\ pc'[r] = step /\ req'[r] = req[r]
    BY <2>3, <2>4, RequestGoes
  <2> QED BY <2>2, <2>5
<1> QED BY <1>2, <1>3 DEF Settled

\* What may be stored in place of a line, and keeps what is over in it.
LEMMA StoredNext ==
  ASSUME LoadedOnce, OneOnItsWay, CalledAlone, KeptInMemory, NEW z,
         z \in {stored.tickets, <<>>} \/ (loaded /\ z = tickets)
  PROVE  /\ Single(z) /\ Distinct(z) /\ Numbered(z, issued)
         /\ Keeps(stored.tickets, z)
         /\ loaded => Keeps(z, tickets)
<1>1. /\ Single(stored.tickets) /\ Distinct(stored.tickets) /\ Numbered(stored.tickets, issued)
      /\ Single(tickets) /\ Distinct(tickets) /\ Numbered(tickets, issued)
      /\ loaded => Keeps(stored.tickets, tickets)
  BY DEF CalledAlone, KeptInMemory
<1>2. Keeps(stored.tickets, stored.tickets) /\ Keeps(tickets, tickets)
  BY <1>1, KeptOn
<1> QED BY <1>1, <1>2, EmptyLine

\* A snapshot lands, or is refused.
LEMMA StorageKeepsLine ==
  ASSUME Driver = "local", Shaped, LineInv, NEW r \in Requests, NEW i \in 1..Len(puts),
         Settled(r, i), Running \subseteq {r}
  PROVE  LineInv' /\ Keeps(stored.tickets, stored'.tickets)
<1>1. /\ Controlled /\ Typed
      /\ LoadedOnce /\ OneOnItsWay /\ CalledAlone /\ KeptInMemory /\ CaughtUp
  BY DEF Shaped, LineInv
<1>2. /\ Alone(r)
      /\ pc'[r] \in {"idle", "consume", "promote"}
      /\ pc'[r] = "promote" => pc[r] = "ended"
  BY <1>1, SettledMoves
<1>3. /\ puts \in Seq(Snapshots) /\ puts # <<>> /\ Len(puts) = 1 /\ i = 1
      /\ puts[1].tickets = tickets /\ puts[1].telecoms = telecoms
  <2>1. puts \in Seq(Snapshots) /\ puts # <<>>
    BY <1>1, EmptySeq DEF Typed
  <2>2. Len(puts) = 1 /\ puts[1].tickets = tickets /\ puts[1].telecoms = telecoms
    BY <1>1, <2>1 DEF OneOnItsWay
  <2>3. \A k \in 1..1 : k = 1
    OBVIOUS
  <2>4. i = 1
    BY <2>2, <2>3
  <2> QED BY <2>1, <2>2, <2>4
<1>4. puts' = <<>> /\ stored'.tickets \in {stored.tickets, tickets, <<>>}
  <2>1. Len(puts') = 0 /\ puts' \in Seq(Snapshots)
    BY <1>1, <1>3, OnePutLess DEF Typed
  <2> QED BY <1>1, <1>3, <2>1, OnePutLess, EmptySeq
<1>5. loaded /\ UNCHANGED <<tickets, telecoms, loaded, issued>>
  BY <1>1, <1>3 DEF LoadedOnce, Settled
<1>6. /\ Single(stored'.tickets) /\ Distinct(stored'.tickets) /\ Numbered(stored'.tickets, issued)
      /\ Keeps(stored.tickets, stored'.tickets) /\ Keeps(stored'.tickets, tickets)
  BY <1>1, <1>4, <1>5, StoredNext
<1>7. /\ OneAtATime'
      /\ \A o \in Requests \ {r} : pc'[o] = pc[o] /\ pc[o] \notin LoadSteps \cup {"ended", "promote"}
  BY <1>2, TurnKept, LocalTurn DEF Waits
<1>8. LoadedOnce'
  <2>1. \A o \in Requests : pc'[o] \notin LoadSteps /\ pc'[o] \notin {"fill", "load2", "fill2"}
    BY <1>2, <1>7 DEF LoadSteps
  <2> QED BY <1>5, <2>1 DEF LoadedOnce
<1>9. CalledAlone'
  <2>1. \A o \in Requests : pc'[o] \in {"ended", "promote"} => Nobody(tickets)
    BY <1>1, <1>2, <1>7 DEF CalledAlone
  <2> QED BY <1>1, <1>5, <1>6, <2>1 DEF CalledAlone
<1>10. KeptInMemory'
  BY <1>1, <1>5, <1>6 DEF KeptInMemory
<1>11. CaughtUp'
  <2>1. \/ unsent' = TRUE
        \/ stored' = [tickets |-> tickets, telecoms |-> telecoms]
    BY <1>3 DEF Settled
  <2> QED BY <1>5, <2>1 DEF CaughtUp
<1>12. OneOnItsWay'
  BY <1>4 DEF OneOnItsWay
<1> QED BY <1>6, <1>7, <1>8, <1>9, <1>10, <1>11, <1>12 DEF LineInv

\* The wallet refuses a refund.
LEMMA RefusalMoves ==
  ASSUME Shaped, NEW r \in Requests, RefundFails(r)
  PROVE  /\ Typed' /\ Controlled' /\ Alone(r)
         /\ pc[r] = "refund" /\ pc'[r] = "idle" /\ req'[r] = NoRequest
         /\ UNCHANGED <<memoryVars, stored, reply, puts, unsent, issued, billingVars>>
<1>1. /\ pc[r] = "refund" /\ End(r) /\ faults' = faults + 1 /\ faults < MaxFaults
      /\ UNCHANGED <<memoryVars, stored, reply, puts, unsent, issued, billingVars>>
  BY DEF RefundFails, Fault
<1>2. Controlled' /\ Alone(r) /\ pc'[r] = "idle" /\ req'[r] = NoRequest
  BY <1>1, RequestGoes DEF Shaped
<1>3. faults' \in 0..MaxFaults
  BY <1>1, MaxFaultsIsNat DEF Shaped, Typed
<1>4. Typed'
  BY <1>1, <1>3 DEF Shaped, Typed, memoryVars
<1> QED BY <1>1, <1>2, <1>4

LEMMA RefusalKeepsLine ==
  ASSUME Driver = "local", Shaped, LineInv, NEW r \in Requests, RefundFails(r), Running = {}
  PROVE  LineInv'
<1>1. /\ Typed /\ LoadedOnce /\ OneOnItsWay /\ CalledAlone /\ KeptInMemory /\ CaughtUp
      /\ Alone(r) /\ pc[r] = "refund" /\ pc'[r] = "idle"
      /\ UNCHANGED <<tickets, telecoms, loaded, stored, puts, unsent, issued>>
  BY RefusalMoves DEF Shaped, LineInv, memoryVars
<1>2. /\ OneAtATime'
      /\ \A o \in Requests \ {r} : pc'[o] = pc[o] /\ pc[o] \notin LoadSteps \cup {"ended", "promote"}
  BY <1>1, TurnKept, LocalTurn DEF Waits
<1>3. puts = <<>>
  BY <1>1, NothingOnItsWay DEF Waits
<1>4. LoadedOnce'
  <2>1. loaded
    BY <1>1 DEF LoadedOnce, LoadSteps
  <2>2. \A o \in Requests : pc'[o] \notin LoadSteps /\ pc'[o] \notin {"fill", "load2", "fill2"}
    BY <1>1, <1>2 DEF LoadSteps
  <2> QED BY <1>1, <2>1, <2>2 DEF LoadedOnce
<1>5. CalledAlone'
  <2>1. \A o \in Requests : pc'[o] \notin {"ended", "promote"}
    BY <1>1, <1>2
  <2> QED BY <1>1, <2>1 DEF CalledAlone
<1>6. OneOnItsWay' /\ KeptInMemory' /\ CaughtUp'
  BY <1>1, <1>3 DEF OneOnItsWay, KeptInMemory, CaughtUp
<1> QED BY <1>2, <1>4, <1>5, <1>6 DEF LineInv

\* The process dies.
LEMMA RestartMoves ==
  ASSUME Shaped, Restart
  PROVE  /\ Typed' /\ Controlled'
         /\ \A r \in Requests : pc'[r] = "idle" /\ req'[r] = NoRequest /\ reply'[r] = Nothing
         /\ tickets' = <<>> /\ puts' = <<>> /\ loaded' = FALSE /\ issued' = issued
         /\ \/ stored'.tickets = stored.tickets
            \/ stored'.tickets = <<>>
            \/ \E i \in 1..Len(puts) : stored'.tickets = puts[i].tickets
<1>1. /\ tickets' = <<>> /\ telecoms' = Boot /\ loaded' = FALSE
      /\ puts' = <<>> /\ unsent' = FALSE /\ issued' = issued
      /\ reply' = [r \in Requests |-> Nothing]
      /\ pc' = [r \in Requests |-> "idle"] /\ req' = [r \in Requests |-> NoRequest]
      /\ faults' = faults + 1 /\ faults < MaxFaults
      /\ stored' \in Left(DOMAIN puts)
  BY DEF Restart, Fault
<1>2. Typed /\ DOMAIN puts = 1..Len(puts)
  BY LenProperties DEF Shaped, Typed
<1>3. /\ stored' \in [tickets : Lines, telecoms : Telecoms]
      /\ \/ stored'.tickets = stored.tickets
         \/ stored'.tickets = <<>>
         \/ \E i \in 1..Len(puts) : stored'.tickets = puts[i].tickets
  BY <1>1, <1>2, LeftFacts
<1>4. Controlled'
  <2>1. Fitting(NoRequest, "idle")
    BY DEF Fitting, NoRequest, Steps
  <2> QED BY <1>1, <2>1 DEF Controlled
<1>5. Typed'
  <2>1. tickets' \in Lines /\ puts' \in Seq(Snapshots)
    BY <1>1, EmptySeq DEF Lines
  <2>2. telecoms' \in Telecoms
    BY <1>1 DEF Boot, Telecoms
  <2>3. faults' \in 0..MaxFaults
    BY <1>1, <1>2, MaxFaultsIsNat DEF Typed
  <2>4. Nothing \in [tickets : Lines, telecoms : Telecoms]
    BY EmptyLine DEF Nothing, Boot, Telecoms
  <2> QED BY <1>1, <1>2, <1>3, <2>1, <2>2, <2>3, <2>4 DEF Typed
<1> QED BY <1>1, <1>3, <1>4, <1>5

LEMMA RestartKeepsLine ==
  ASSUME Driver = "local", Shaped, LineInv, Restart
  PROVE  LineInv' /\ Keeps(stored.tickets, stored'.tickets)
<1>1. Typed /\ LoadedOnce /\ OneOnItsWay /\ CalledAlone /\ KeptInMemory
  BY DEF Shaped, LineInv
<1>2. /\ \A r \in Requests : pc'[r] = "idle"
      /\ tickets' = <<>> /\ puts' = <<>> /\ loaded' = FALSE /\ issued' = issued
      /\ \/ stored'.tickets = stored.tickets
         \/ stored'.tickets = <<>>
         \/ \E i \in 1..Len(puts) : stored'.tickets = puts[i].tickets
  BY RestartMoves
<1>3. ASSUME NEW i \in 1..Len(puts), stored'.tickets = puts[i].tickets
      PROVE  loaded /\ stored'.tickets = tickets
  <2>1. puts # <<>>
    BY <1>1, EmptySeq DEF Typed
  <2>2. Len(puts) = 1 /\ puts[1].tickets = tickets
    BY <1>1, <2>1 DEF OneOnItsWay
  <2>3. loaded
    BY <1>1, <2>1 DEF LoadedOnce
  <2> QED BY <1>3, <2>2, <2>3
<1>4. /\ Single(stored'.tickets) /\ Distinct(stored'.tickets) /\ Numbered(stored'.tickets, issued)
      /\ Keeps(stored.tickets, stored'.tickets)
  <2>1. stored'.tickets \in {stored.tickets, <<>>} \/ (loaded /\ stored'.tickets = tickets)
    BY <1>2, <1>3
  <2> QED BY <1>1, <2>1, StoredNext
<1>5. LoadedOnce' /\ OneOnItsWay' /\ CaughtUp'
  BY <1>2 DEF LoadedOnce, OneOnItsWay, CaughtUp
<1>6. CalledAlone' /\ KeptInMemory'
  BY <1>2, <1>4, EmptyLine DEF CalledAlone, KeptInMemory
<1>7. OneAtATime'
  <2>1. "idle" \notin Turn'
    BY DEF Turn
  <2> QED BY <1>2, <2>1 DEF OneAtATime
<1> QED BY <1>4, <1>5, <1>6, <1>7 DEF LineInv

-----------------------------------------------------------------------------
(* What work does to the purchases and the wallets.                        *)

\* Purchase p has the status, the client and the means it had.
SamePurchase(p) ==
    /\ purchases'[p].status = purchases[p].status
    /\ purchases[p].status = "live" =>
         /\ purchases'[p] \in LivePurchase
         /\ purchases'[p].user = purchases[p].user /\ purchases'[p].via = purchases[p].via

\* Nothing that matters to a refund changes.
Kept ==
    /\ balance' = balance /\ settled' = settled
    /\ purchases' = [p \in Purchases |-> purchases'[p]]
    /\ \A p \in Purchases :
         /\ SamePurchase(p)
         /\ purchases[p].status = "live" => purchases'[p].refunded = purchases[p].refunded

\* r raises the flag of a purchase of its client.
ClaimsOne(r) ==
    \E p \in Purchases :
        /\ pc'[r] = "refund" /\ req'[r].purchase = p
        /\ purchases[p].status = "live" /\ ~purchases[p].refunded
        /\ TicketsOwned => purchases[p].user = req'[r].user
        /\ balance' = balance /\ settled' = settled
        /\ purchases' = [o \in Purchases |-> purchases'[o]]
        /\ purchases'[p].refunded
        /\ \A o \in Purchases :
             /\ SamePurchase(o)
             /\ o # p /\ purchases[o].status = "live" =>
                  purchases'[o].refunded = purchases[o].refunded

\* r pays a refund.
PaysOne(r) ==
    /\ pc[r] = "refund" /\ pc'[r] = "put"
    /\ PayRefund(req[r].purchase, req[r].user)

\* r takes the price from its client's wallet.
DebitsOne(r) ==
    /\ pc[r] = "debit" /\ pc'[r] = "record" /\ req'[r] = req[r]
    /\ CanPay(req[r].user) /\ Debit(req[r].user)

\* r records a purchase.
RecordsOne(r) ==
    /\ pc[r] = "record" /\ pc'[r] = "idle"
    /\ \E p \in New : Record(p, req[r].user, req[r].via)

\* A flag of a live purchase goes up.
LEMMA FlagRaised ==
  ASSUME NEW q \in LivePurchase
  PROVE  /\ [q EXCEPT !.consumed = TRUE] \in LivePurchase
         /\ [q EXCEPT !.consumed = TRUE].status = q.status
         /\ [q EXCEPT !.consumed = TRUE].user = q.user
         /\ [q EXCEPT !.consumed = TRUE].via = q.via
         /\ [q EXCEPT !.consumed = TRUE].refunded = q.refunded
         /\ [q EXCEPT !.refunded = TRUE] \in LivePurchase
         /\ [q EXCEPT !.refunded = TRUE].status = q.status
         /\ [q EXCEPT !.refunded = TRUE].user = q.user
         /\ [q EXCEPT !.refunded = TRUE].via = q.via
         /\ [q EXCEPT !.refunded = TRUE].refunded = TRUE
BY DEF LivePurchase

\* If nothing of the billing changes, nothing that matters does.
LEMMA SameIsKept ==
  ASSUME Billed, UNCHANGED billingVars
  PROVE  Kept
<1>1. balance' = balance /\ purchases' = purchases /\ settled' = settled
  BY DEF billingVars
<1> QED BY <1>1 DEF Billed, Kept, SamePurchase

\* Work keeps the billing, but for one step of a refund or of a purchase.
LEMMA WorkBills ==
  ASSUME Controlled, Typed, Billed, NEW r \in Requests, Work(r), pc[r] = "record" => New # {}
  PROVE  Kept \/ ClaimsOne(r) \/ PaysOne(r) \/ DebitsOne(r) \/ RecordsOne(r)
<1>1. Fitting(req[r], pc[r])
  BY DEF Controlled
<1>2. UNCHANGED billingVars => Kept
  BY SameIsKept
<1>3. CASE \/ Looked(r) \/ SetOnline(r) \/ SetQueueOpen(r) \/ Join(r)
           \/ EndCurrent(r) \/ Promote(r) \/ Skip(r) \/ StartCall(r) \/ EndTicket(r)
  <2>1. UNCHANGED billingVars
    BY <1>3 DEF Looked, SetOnline, SetQueueOpen, Join, EndCurrent, Promote, Skip, StartCall,
                EndTicket, Refuse
  <2> QED BY <1>2, <2>1
<1>4. CASE Consume(r)
  <2> DEFINE p == req[r].purchase
  <2>1. CASE p \in Live
    <3>1. p \in Purchases /\ purchases[p] \in LivePurchase
      BY <2>1 DEF Live, Billed
    <3>2. /\ purchases' = [purchases EXCEPT ![p] = [purchases[p] EXCEPT !.consumed = TRUE]]
          /\ balance' = balance /\ settled' = settled
      BY <1>4, <2>1 DEF Consume, MarkConsumed
    <3> DEFINE q == [purchases[p] EXCEPT !.consumed = TRUE]
    <3>3. /\ q \in LivePurchase /\ q.status = purchases[p].status
          /\ q.user = purchases[p].user /\ q.via = purchases[p].via
          /\ q.refunded = purchases[p].refunded
      BY <3>1, FlagRaised
    <3>4. purchases' = [purchases EXCEPT ![p] = q]
      BY <3>2
    <3> HIDE DEF q, p
    <3>5. \A o \in Purchases : purchases'[o] = IF o = p THEN q ELSE purchases[o]
      BY <3>4 DEF Billed
    <3>6. purchases' = [o \in Purchases |-> purchases'[o]]
      BY <3>4 DEF Billed
    <3> QED BY <3>2, <3>3, <3>5, <3>6 DEF Kept, SamePurchase, Billed
  <2>2. CASE p \notin Live
    <3>1. UNCHANGED billingVars
      BY <1>4, <2>2 DEF Consume, MarkConsumed, billingVars
    <3> QED BY <1>2, <3>1
  <2> QED BY <2>1, <2>2
<1>5. CASE Cancel(r)
  <2> DEFINE t == req[r].ticket
             p == Ticket(t).purchase
  <2>1. CASE UNCHANGED billingVars
    BY <1>2, <2>1
  <2>2. CASE ~UNCHANGED billingVars
    <3>1. /\ t \in Ids(tickets) /\ Ticket(t).user = req[r].user
          /\ Refundable(p) /\ ClaimRefund(p)
          /\ pc' = [pc EXCEPT ![r] = "refund"]
          /\ req' = [req EXCEPT ![r] = [op |-> "cancel", user |-> req[r].user, purchase |-> p]]
      BY <1>5, <2>2 DEF Cancel, Refuse
    <3>2. /\ p \in Purchases /\ purchases[p].status = "live" /\ ~purchases[p].refunded
          /\ purchases[p] \in LivePurchase
      BY <3>1 DEF Refundable, Live, Billed
    <3>3. pc'[r] = "refund" /\ req'[r].purchase = p /\ req'[r].user = req[r].user
      BY <3>1 DEF Controlled
    <3>4. TicketsOwned => purchases[p].user = req[r].user
      <4> DEFINE i == At(tickets, t)
      <4>1. /\ i \in 1..Len(tickets)
            /\ tickets[i].purchase = p /\ tickets[i].user = req[r].user
        BY <3>1, TicketFound
      <4> HIDE DEF i, p
      <4>2. TicketsOwned => Owned(tickets, purchases)
        BY DEF TicketsOwned
      <4>3. Owned(tickets, purchases) => (purchases[p].status = "live" => purchases[p].user = req[r].user)
        BY <4>1 DEF Owned
      <4> QED BY <3>2, <4>2, <4>3
    <3> DEFINE q == [purchases[p] EXCEPT !.refunded = TRUE]
    <3>5. /\ q \in LivePurchase /\ q.status = purchases[p].status
          /\ q.user = purchases[p].user /\ q.via = purchases[p].via
          /\ q.refunded = TRUE
      BY <3>2, FlagRaised
    <3>6. /\ purchases' = [purchases EXCEPT ![p] = q]
          /\ balance' = balance /\ settled' = settled
      BY <3>1 DEF ClaimRefund
    <3> HIDE DEF q, p, t
    <3>7. \A o \in Purchases : purchases'[o] = IF o = p THEN q ELSE purchases[o]
      BY <3>6 DEF Billed
    <3>8. purchases' = [o \in Purchases |-> purchases'[o]]
      BY <3>6 DEF Billed
    <3>9. \A o \in Purchases : SamePurchase(o)
      BY <3>5, <3>7 DEF SamePurchase, Billed
    <3>10. /\ purchases'[p].refunded
           /\ \A o \in Purchases : o # p => purchases'[o] = purchases[o]
      BY <3>2, <3>5, <3>7
    <3> QED BY <3>2, <3>3, <3>4, <3>6, <3>8, <3>9, <3>10 DEF ClaimsOne
  <2> QED BY <2>1, <2>2
<1>6. CASE Refund(r)
  <2>1. pc'[r] = "put"
    BY <1>6 DEF Refund, Persist, Goto, Controlled
  <2> QED BY <1>6, <2>1 DEF Refund, PaysOne
<1>7. CASE DebitWallet(r)
  <2>1. CASE CanPay(req[r].user)
    <3>1. pc'[r] = "record" /\ req'[r] = req[r] /\ pc[r] = "debit" /\ Debit(req[r].user)
      BY <1>7, <2>1 DEF DebitWallet, Goto, Controlled
    <3> QED BY <2>1, <3>1 DEF DebitsOne
  <2>2. CASE ~CanPay(req[r].user)
    <3>1. UNCHANGED billingVars
      BY <1>7, <2>2 DEF DebitWallet
    <3> QED BY <1>2, <3>1
  <2> QED BY <2>1, <2>2
<1>8. CASE RecordPurchase(r)
  <2>1. pc[r] = "record" /\ pc'[r] = "idle"
    BY <1>8 DEF RecordPurchase, End, Controlled
  <2>2. (CHOOSE p \in New : TRUE) \in New
    BY <2>1
  <2> QED BY <1>8, <2>1, <2>2 DEF RecordPurchase, RecordsOne
<1> QED BY <1>3, <1>4, <1>5, <1>6, <1>7, <1>8 DEF Work

-----------------------------------------------------------------------------
(* Types, and room for what is under way.                                  *)

\* Part of a finite set, and part of one without an element it has.
LEMMA PartOf ==
  ASSUME NEW S, IsFiniteSet(S), NEW T, T \subseteq S
  PROVE  /\ IsFiniteSet(T) /\ Cardinality(T) \in Nat /\ Cardinality(S) \in Nat
         /\ Cardinality(T) <= Cardinality(S)
         /\ \A x \in S : x \notin T => Cardinality(T) + 1 <= Cardinality(S)
<1>1. IsFiniteSet(T) /\ Cardinality(T) <= Cardinality(S)
  BY FS_Subset
<1>2. Cardinality(T) \in Nat /\ Cardinality(S) \in Nat
  BY <1>1, FS_CardinalityType
<1>3. ASSUME NEW x \in S, x \notin T
      PROVE  Cardinality(T) + 1 <= Cardinality(S)
  <2>1. IsFiniteSet(S \ {x}) /\ Cardinality(S \ {x}) = Cardinality(S) - 1
    BY FS_RemoveElement
  <2>2. T \in SUBSET (S \ {x})
    BY <1>3
  <2>3. Cardinality(T) <= Cardinality(S \ {x})
    BY <2>1, <2>2, FS_Subset
  <2> QED BY <1>2, <2>1, <2>3
<1> QED BY <1>1, <1>2, <1>3

\* The sets that are counted are finite.
LEMMA CountedAreFinite ==
  /\ IsFiniteSet(Joining) /\ IsFiniteSet(Buying) /\ IsFiniteSet(New)
  /\ Cardinality(Joining) \in Nat /\ Cardinality(Buying) \in Nat /\ Cardinality(New) \in Nat
<1>1. Joining \subseteq Requests /\ Buying \subseteq Requests /\ New \subseteq Purchases
  BY DEF Joining, Buying, New
<1> QED BY <1>1, PartOf

\* A wallet pays or is paid the price.
LEMMA WalletMoves ==
  ASSUME balance \in [Users -> Nat], NEW u
  PROVE  /\ [balance EXCEPT ![u] = @ + Price] \in [Users -> Nat]
         /\ balance[u] >= Price => [balance EXCEPT ![u] = @ - Price] \in [Users -> Nat]
<1>1. Price \in Nat
  BY PriceIsPositive
<1>2. \A v \in Users : balance[v] + Price \in Nat
  BY <1>1
<1>3. \A v \in Users : balance[v] >= Price => balance[v] - Price \in Nat
  BY <1>1
<1> QED BY <1>2, <1>3

\* The ids that are left change only when a purchase is recorded.
LEMMA NewStays ==
  ASSUME Billed, NEW r, Kept \/ ClaimsOne(r) \/ PaysOne(r) \/ DebitsOne(r)
  PROVE  Billed' /\ New' = New
<1>1. CASE Kept \/ ClaimsOne(r)
  <2>1. /\ \A p \in Purchases : SamePurchase(p)
        /\ balance' = balance /\ settled' = settled
        /\ purchases' = [p \in Purchases |-> purchases'[p]]
    BY <1>1 DEF Kept, ClaimsOne
  <2> QED BY <2>1 DEF SamePurchase, Billed, New
<1>2. CASE PaysOne(r)
  <2>1. purchases' = purchases /\ New' = New
    BY <1>2 DEF PaysOne, PayRefund, New
  <2>2. balance' = [balance EXCEPT ![req[r].user] = @ + Price]
        /\ settled' = [settled EXCEPT ![req[r].purchase] = @ + 1]
    BY <1>2 DEF PaysOne, PayRefund
  <2>3. balance' \in [Users -> Nat]
    BY <2>2, WalletMoves DEF Billed
  <2>4. settled' \in [Purchases -> Nat]
    <3>1. \A p \in Purchases : settled[p] + 1 \in Nat
      BY DEF Billed
    <3> QED BY <2>2, <3>1 DEF Billed
  <2> QED BY <2>1, <2>3, <2>4 DEF Billed
<1>3. CASE DebitsOne(r)
  <2>1. purchases' = purchases /\ New' = New /\ settled' = settled
    BY <1>3 DEF DebitsOne, Debit, New
  <2>2. /\ balance' = [balance EXCEPT ![req[r].user] = @ - Price]
        /\ balance[req[r].user] >= Price
    BY <1>3 DEF DebitsOne, Debit, CanPay
  <2>3. balance' \in [Users -> Nat]
    BY <2>2, WalletMoves DEF Billed
  <2> QED BY <2>1, <2>3 DEF Billed
<1> QED BY <1>1, <1>2, <1>3

\* A purchase is recorded.
LEMMA NewTaken ==
  ASSUME Billed, NEW p \in New, NEW u \in Users, NEW via \in PayMethods, Record(p, u, via)
  PROVE  /\ Billed' /\ New' = New \ {p}
         /\ balance' = balance /\ settled' = settled
         /\ \A o \in Purchases \ {p} : purchases'[o] = purchases[o]
         /\ p \in Purchases
         /\ purchases'[p].status = "live" /\ purchases'[p].user = u /\ purchases'[p].via = via
<1> DEFINE q == [status |-> "live", user |-> u, via |-> via,
                 consumed |-> FALSE, refunded |-> FALSE]
<1>1. q \in LivePurchase /\ q.status = "live" /\ q.user = u /\ q.via = via
  BY DEF LivePurchase
<1>2. purchases' = [purchases EXCEPT ![p] = q] /\ balance' = balance /\ settled' = settled
  BY DEF Record
<1> HIDE DEF q
<1>3. p \in Purchases /\ \A o \in Purchases : purchases'[o] = IF o = p THEN q ELSE purchases[o]
  BY <1>2 DEF Billed, New
<1>4. purchases' = [o \in Purchases |-> purchases'[o]]
  BY <1>2 DEF Billed
<1>5. Billed'
  BY <1>1, <1>2, <1>3, <1>4 DEF Billed
<1>6. New' = New \ {p}
  BY <1>1, <1>3 DEF New
<1> QED BY <1>1, <1>2, <1>3, <1>5, <1>6

\* A ticket's number is used by a join under way.
LEMMA WorkIssues ==
  ASSUME NEW r \in Requests, Work(r)
  PROVE  issued' = issued \/ (issued' = issued + 1 /\ r \in Joining)
<1>1. CASE Join(r)
  BY <1>1 DEF Join, Joining, Acting, Refuse, LoadSteps
<1>2. CASE ~Join(r)
  BY <1>2 DEF Work, Looked, SetOnline, SetQueueOpen, Consume, EndCurrent, Promote, Skip, StartCall,
              EndTicket, Cancel, Refund, DebitWallet, RecordPurchase, Refuse
<1> QED BY <1>1, <1>2

\* Work keeps the types, and room for what is under way.
LEMMA WorkKeepsShape ==
  ASSUME Shaped, NEW r \in Requests, Work(r)
  PROVE  /\ Worked(r) /\ Shaped'
         /\ Kept \/ ClaimsOne(r) \/ PaysOne(r) \/ DebitsOne(r) \/ RecordsOne(r)
<1>1. Controlled /\ Typed /\ Billed /\ Room /\ Fitting(req[r], pc[r])
  BY DEF Shaped, Controlled
<1>2. /\ Controlled' /\ Alone(r)
      /\ pc[r] \in WorkSteps
      /\ pc'[r] \in {"idle", "refund", "record"} \cup Waits
      /\ pc'[r] = "idle" \/ req'[r].op = req[r].op
  <2>1. \A i \in DOMAIN tickets : tickets[i].purchase \in Purchases
    <3>1. DOMAIN tickets = 1..Len(tickets) /\ \A i \in 1..Len(tickets) : tickets[i] \in TicketType
      BY <1>1, LineFacts DEF Typed
    <3> QED BY <3>1 DEF TicketType
  <2> QED BY <1>1, <2>1, WorkMoves
<1>3. ASSUME r \in Joining
      PROVE  issued + 1 \in 1..MaxTickets
  <2>1. Cardinality({}) + 1 <= Cardinality(Joining)
    BY <1>3, CountedAreFinite, PartOf
  <2>2. Cardinality({}) = 0
    BY FS_EmptySet
  <2> QED BY <1>1, <2>1, <2>2, CountedAreFinite, MaxTicketsIsNat DEF Room, Typed
<1>4. Worked(r)
  <2>1. pc[r] = "act" /\ req[r].op = "join" => issued + 1 \in 1..MaxTickets
    BY <1>3 DEF Joining
  <2>2. Quiet(r) \/ Written(r) \/ Claimed(r)
    BY <1>1, <2>1, WorkLines
  <2>3. pc[r] \in {"debit", "record"} => UNCHANGED <<memoryVars, storageVars>>
    BY BuyersAreQuiet
  <2> QED BY <1>2, <2>2, <2>3 DEF Worked
<1>5. pc[r] \in {"debit", "record"} =>
        r \in Buying /\ req[r].user \in Users /\ req[r].via \in PayMethods /\ New # {}
  <2>1. ASSUME pc[r] \in {"debit", "record"}
        PROVE  r \in Buying /\ req[r].user \in Users /\ req[r].via \in PayMethods /\ New # {}
    <3>1. r \in Buying /\ req[r].user \in Users /\ req[r].via \in PayMethods
      BY <1>1, <2>1 DEF Fitting, Buying
    <3>2. Cardinality({}) + 1 <= Cardinality(Buying)
      BY <3>1, CountedAreFinite, PartOf
    <3>3. Cardinality(New) # 0
      BY <1>1, <3>2, CountedAreFinite, FS_EmptySet DEF Room
    <3>4. New # {}
      BY <3>3, FS_EmptySet
    <3> QED BY <3>1, <3>4
  <2> QED BY <2>1
<1>6. Kept \/ ClaimsOne(r) \/ PaysOne(r) \/ DebitsOne(r) \/ RecordsOne(r)
  BY <1>1, <1>5, WorkBills
<1>7. Joining' \subseteq Joining \ {r}
  BY <1>2 DEF Joining, Alone, LoadSteps, Waits
<1>8. Buying' \subseteq Buying
  <2>1. pc'[r] = "idle" => req'[r].op = "none"
    BY <1>2 DEF Controlled, Fitting
  <2> QED BY <1>2, <2>1 DEF Buying, Alone
<1>9. issued' + Cardinality(Joining') <= MaxTickets
  <2>1. /\ Cardinality(Joining') \in Nat
        /\ Cardinality(Joining') <= Cardinality(Joining)
        /\ r \in Joining => Cardinality(Joining') + 1 <= Cardinality(Joining)
    BY <1>7, CountedAreFinite, PartOf
  <2>2. issued' = issued \/ (issued' = issued + 1 /\ r \in Joining)
    BY WorkIssues
  <2>3. issued \in Nat
    BY <1>1 DEF Typed
  <2>4. issued + Cardinality(Joining) <= MaxTickets /\ Cardinality(Joining) \in Nat
    BY <1>1, CountedAreFinite DEF Room
  <2> QED BY <2>1, <2>2, <2>3, <2>4, MaxTicketsIsNat
<1>10. Billed' /\ Cardinality(Buying') <= Cardinality(New')
  <2>1. /\ Cardinality(Buying') \in Nat
        /\ Cardinality(Buying') <= Cardinality(Buying)
        /\ r \notin Buying' /\ r \in Buying => Cardinality(Buying') + 1 <= Cardinality(Buying)
    BY <1>8, CountedAreFinite, PartOf
  <2>2. CASE Kept \/ ClaimsOne(r) \/ PaysOne(r) \/ DebitsOne(r)
    <3>1. Billed' /\ New' = New
      BY <1>1, <2>2, NewStays
    <3>2. Cardinality(Buying) <= Cardinality(New)
      BY <1>1 DEF Room
    <3> QED BY <2>1, <3>1, <3>2, CountedAreFinite
  <2>3. CASE RecordsOne(r)
    <3>1. PICK p \in New : Record(p, req[r].user, req[r].via)
      BY <2>3 DEF RecordsOne
    <3>2. Billed' /\ New' = New \ {p}
      BY <1>1, <1>5, <2>3, <3>1, NewTaken DEF RecordsOne
    <3>3. Cardinality(New') = Cardinality(New) - 1
      BY <3>2, CountedAreFinite, FS_RemoveElement
    <3>4. r \in Buying /\ r \notin Buying'
      <4>1. req'[r].op = "none"
        BY <1>2, <2>3 DEF RecordsOne, Controlled, Fitting
      <4> QED BY <1>5, <2>3, <4>1 DEF RecordsOne, Buying
    <3>5. Cardinality(Buying) <= Cardinality(New)
      BY <1>1 DEF Room
    <3> QED BY <2>1, <3>2, <3>3, <3>4, <3>5, CountedAreFinite
  <2> QED BY <1>6, <2>2, <2>3
<1>11. Typed'
  <2>1. issued' \in Nat
    BY <1>1, WorkIssues DEF Typed
  <2>2. CASE Quiet(r)
    BY <1>1, <2>1, <2>2 DEF Quiet, memoryVars, storageVars, Typed
  <2>3. CASE Written(r)
    <3> DEFINE x == [by |-> r, tickets |-> tickets', telecoms |-> telecoms']
    <3>1. x \in Snapshots /\ puts' = Append(puts, x)
      BY <2>3 DEF Written, LineMoves, Snapshots
    <3> HIDE DEF x
    <3>2. puts' \in Seq(Snapshots)
      BY <1>1, <3>1, OneMorePut
    <3> QED BY <1>1, <2>1, <2>3, <3>2 DEF Written, LineMoves, Typed
  <2>4. CASE Claimed(r)
    BY <1>1, <2>1, <2>4 DEF Claimed, LineMoves, Typed
  <2> QED BY <1>4, <2>2, <2>3, <2>4 DEF Worked
<1> QED BY <1>2, <1>4, <1>6, <1>9, <1>10, <1>11 DEF Shaped, Room

\* What takes no place leaves room.
LEMMA RoomKept ==
  ASSUME Shaped, issued' = issued, New' = New, Joining' \subseteq Joining, Buying' \subseteq Buying
  PROVE  Room'
<1>1. /\ Cardinality(Joining') \in Nat /\ Cardinality(Joining') <= Cardinality(Joining)
      /\ Cardinality(Buying') \in Nat /\ Cardinality(Buying') <= Cardinality(Buying)
  BY CountedAreFinite, PartOf
<1>2. issued' + Cardinality(Joining') <= MaxTickets
  <2>1. issued \in Nat
    BY DEF Shaped, Typed
  <2>2. issued + Cardinality(Joining) <= MaxTickets /\ Cardinality(Joining) \in Nat
    BY CountedAreFinite DEF Shaped, Room
  <2> QED BY <1>1, <2>1, <2>2, MaxTicketsIsNat
<1>3. Cardinality(Buying') <= Cardinality(New')
  BY <1>1, CountedAreFinite DEF Shaped, Room
<1> QED BY <1>2, <1>3 DEF Room

\* One element more at most.
LEMMA OneMore ==
  ASSUME NEW S, IsFiniteSet(S), NEW x, NEW T, T \subseteq S \cup {x}
  PROVE  Cardinality(T) \in Nat /\ Cardinality(T) <= Cardinality(S) + 1
<1> DEFINE s == Cardinality(S)
           e == Cardinality(S \cup {x})
<1>0. s \in Nat
  BY FS_CardinalityType
<1>1. IsFiniteSet(S \cup {x}) /\ e <= s + 1
  <2>1. IsFiniteSet(S \cup {x}) /\ e = IF x \in S THEN s ELSE s + 1
    BY FS_AddElement
  <2> HIDE DEF s, e
  <2> QED BY <1>0, <2>1
<1>2. /\ Cardinality(T) \in Nat /\ Cardinality(S \cup {x}) \in Nat
      /\ Cardinality(T) <= Cardinality(S \cup {x})
  BY <1>1, PartOf
<1> QED BY <1>0, <1>1, <1>2

\* There is a place for a request that arrives.
LEMMA ArrivalFindsRoom ==
  ASSUME Shaped, NEW r \in Requests, Arrival(r), Running = {}
  PROVE  Shaped'
<1>1. /\ Arrived(r)
      /\ \/ req'[r].op = "join" /\ issued + Cardinality(Asking("join") \cap Loading) < MaxTickets
         \/ req'[r].op = "buy" /\ Cardinality(New) > Cardinality(Asking("buy"))
         \/ req'[r].op \notin {"join", "buy"}
  BY ArrivalArrives
<1>2. /\ Controlled' /\ Alone(r)
      /\ UNCHANGED <<memoryVars, storageVars, issued, billingVars>>
  BY <1>1 DEF Arrived
<1>3. Typed' /\ Billed' /\ New' = New
  BY <1>2 DEF Shaped, Typed, Billed, New, memoryVars, storageVars, billingVars
<1>4. /\ Joining = Asking("join") \cap Loading
      /\ Buying = Asking("buy")
  <2>1. \A o \in Requests : Fitting(req[o], pc[o]) /\ pc[o] # "act"
    BY DEF Shaped, Controlled, Running, Turn
  <2>2. \A o \in Requests : req[o].op \in {"join", "buy"} => pc[o] # "idle"
    BY <2>1 DEF Fitting
  <2> QED BY <2>1, <2>2 DEF Joining, Buying, Asking, Active, Loading, LoadSteps
<1>5. /\ Joining' \subseteq IF req'[r].op = "join" THEN Joining \cup {r} ELSE Joining
      /\ Buying' \subseteq IF req'[r].op = "buy" THEN Buying \cup {r} ELSE Buying
  BY <1>2 DEF Joining, Buying, Alone
<1>6. /\ issued \in Nat /\ issued' = issued /\ Room
      /\ Cardinality(Joining) \in Nat /\ IsFiniteSet(Joining)
      /\ Cardinality(Buying) \in Nat /\ IsFiniteSet(Buying)
      /\ Cardinality(New) \in Nat
  BY <1>2, CountedAreFinite DEF Shaped, Typed
<1>7. CASE req'[r].op = "join"
  <2>1. Cardinality(Joining') \in Nat /\ Cardinality(Joining') <= Cardinality(Joining) + 1
    BY <1>5, <1>6, <1>7, OneMore
  <2>2. issued + Cardinality(Joining) < MaxTickets
    BY <1>1, <1>4, <1>7
  <2>3. issued' + Cardinality(Joining') <= MaxTickets
    BY <1>6, <2>1, <2>2, MaxTicketsIsNat
  <2>4. Cardinality(Buying') \in Nat /\ Cardinality(Buying') <= Cardinality(Buying)
    BY <1>5, <1>6, <1>7, PartOf
  <2>5. Cardinality(Buying') <= Cardinality(New')
    BY <1>3, <1>6, <2>4 DEF Room
  <2> QED BY <1>2, <1>3, <2>3, <2>5 DEF Shaped, Room
<1>8. CASE req'[r].op = "buy"
  <2>1. Cardinality(Buying') \in Nat /\ Cardinality(Buying') <= Cardinality(Buying) + 1
    BY <1>5, <1>6, <1>8, OneMore
  <2>2. Cardinality(New) > Cardinality(Buying)
    BY <1>1, <1>4, <1>8
  <2>3. Cardinality(Buying') <= Cardinality(New')
    BY <1>3, <1>6, <2>1, <2>2
  <2>4. Cardinality(Joining') \in Nat /\ Cardinality(Joining') <= Cardinality(Joining)
    BY <1>5, <1>6, <1>8, PartOf
  <2>5. issued' + Cardinality(Joining') <= MaxTickets
    BY <1>6, <2>4, MaxTicketsIsNat DEF Room
  <2> QED BY <1>2, <1>3, <2>3, <2>5 DEF Shaped, Room
<1>9. CASE req'[r].op \notin {"join", "buy"}
  <2>1. Joining' \subseteq Joining /\ Buying' \subseteq Buying
    BY <1>5, <1>9
  <2>2. Room'
    BY <1>3, <1>6, <2>1, RoomKept
  <2> QED BY <1>2, <1>3, <2>2 DEF Shaped
<1> QED BY <1>1, <1>7, <1>8, <1>9

\* A request that only goes on, or ends, takes no place.
LEMMA MovesTakeNoPlace ==
  ASSUME Shaped, NEW r \in Requests, Alone(r), Controlled',
         \/ pc'[r] = "idle" /\ req'[r] = NoRequest
         \/ /\ req'[r] = req[r]
            /\ pc'[r] \in LoadSteps \cup {"act"} => pc[r] \in LoadSteps \cup {"act"}
  PROVE  Joining' \subseteq Joining /\ Buying' \subseteq Buying
BY DEF Joining, Buying, Alone, NoRequest

\* Loading keeps the types.
LEMMA LoadKeepsShape ==
  ASSUME Shaped, NEW r \in Requests, Loads(r)
  PROVE  Shaped' /\ (TicketsOwned => TicketsOwned') /\ UNCHANGED <<stored, billingVars>>
<1>1. /\ Controlled' /\ Alone(r) /\ req'[r] = req[r]
      /\ pc[r] \in LoadSteps
  BY LoadMoves DEF Shaped
<1>2. /\ UNCHANGED <<stored, puts, issued, billingVars>>
      /\ tickets' \in {tickets, reply[r].tickets}
      /\ telecoms' \in {telecoms, reply[r].telecoms}
      /\ loaded' = loaded \/ loaded' = TRUE
      /\ unsent' = unsent \/ unsent' = TRUE \/ unsent' = (unsent \/ loaded)
      /\ faults' = faults \/ (faults < MaxFaults /\ faults' = faults + 1)
      /\ \/ reply' = reply
         \/ \E x \in {stored.tickets, <<>>} : reply' = [reply EXCEPT ![r].tickets = x]
         \/ \E x \in {stored.telecoms, Boot} : reply' = [reply EXCEPT ![r].telecoms = x]
  <2>1. CASE ReadTickets(r)
    BY <2>1 DEF ReadTickets, memoryVars, Fault
  <2>2. CASE TakeTickets(r)
    BY <2>2 DEF TakeTickets
  <2>3. CASE ReadTelecoms(r)
    BY <2>3 DEF ReadTelecoms, memoryVars
  <2>4. CASE TakeTelecoms(r)
    BY <2>4 DEF TakeTelecoms
  <2>5. CASE MissTelecoms(r)
    BY <2>5 DEF MissTelecoms, Fault
  <2> QED BY <2>1, <2>2, <2>3, <2>4, <2>5 DEF Loads
<1>3. /\ reply' \in [Requests -> [tickets : Lines, telecoms : Telecoms]]
      /\ \A o \in Requests : reply'[o].tickets \in {reply[o].tickets, stored.tickets, <<>>}
  <2>1. /\ reply \in [Requests -> [tickets : Lines, telecoms : Telecoms]]
        /\ {stored.tickets, <<>>} \subseteq Lines /\ {stored.telecoms, Boot} \subseteq Telecoms
    BY EmptyLine DEF Shaped, Typed, Boot, Telecoms
  <2>2. ASSUME NEW x \in {stored.tickets, <<>>}, reply' = [reply EXCEPT ![r].tickets = x]
        PROVE  <1>3!1 /\ <1>3!2
    BY <2>1, <2>2
  <2>3. ASSUME NEW x \in {stored.telecoms, Boot}, reply' = [reply EXCEPT ![r].telecoms = x]
        PROVE  <1>3!1 /\ <1>3!2
    BY <2>1, <2>3
  <2> QED BY <1>2, <2>1, <2>2, <2>3
<1>4. Typed'
  <2>1. tickets' \in Lines /\ telecoms' \in Telecoms /\ loaded' \in BOOLEAN
    <3>1. /\ {tickets, reply[r].tickets} \subseteq Lines
          /\ {telecoms, reply[r].telecoms} \subseteq Telecoms /\ loaded \in BOOLEAN
      BY DEF Shaped, Typed
    <3> QED BY <1>2, <3>1
  <2>2. unsent' \in BOOLEAN
    BY <1>2 DEF Shaped, Typed
  <2>3. faults' \in 0..MaxFaults
    BY <1>2, MaxFaultsIsNat DEF Shaped, Typed
  <2> QED BY <1>2, <1>3, <2>1, <2>2, <2>3 DEF Shaped, Typed
<1>5. Billed' /\ New' = New
  BY <1>2 DEF Shaped, Billed, New, billingVars
<1>6. Room'
  <2>1. Joining' \subseteq Joining /\ Buying' \subseteq Buying
    BY <1>1, MovesTakeNoPlace
  <2> QED BY <1>2, <1>5, <2>1, RoomKept
<1>7. TicketsOwned => TicketsOwned'
  <2> SUFFICES ASSUME TicketsOwned PROVE TicketsOwned'
    OBVIOUS
  <2>1. purchases' = purchases
    BY <1>2 DEF billingVars
  <2>2. Owned(tickets', purchases)
    BY <1>2 DEF TicketsOwned
  <2>3. \A o \in Requests : Owned(reply'[o].tickets, purchases)
    BY <1>3, EmptyLine DEF TicketsOwned
  <2> QED BY <1>2, <2>1, <2>2, <2>3 DEF TicketsOwned
<1> QED BY <1>1, <1>2, <1>4, <1>5, <1>6, <1>7 DEF Shaped

\* So does storage.
LEMMA StorageKeepsShape ==
  ASSUME Shaped, NEW r \in Requests, NEW i \in 1..Len(puts), Settled(r, i)
  PROVE  Shaped'
<1>1. /\ Controlled' /\ Alone(r)
      /\ pc'[r] \in {"idle", "consume", "promote"}
      /\ (pc'[r] = "idle" /\ req'[r] = NoRequest) \/ req'[r] = req[r]
  BY SettledMoves DEF Shaped
<1>2. Typed'
  BY OnePutLess DEF Shaped
<1>3. Billed' /\ New' = New /\ issued' = issued
  BY DEF Settled, Shaped, Billed, New, billingVars
<1>4. Joining' \subseteq Joining /\ Buying' \subseteq Buying
  <2>1. pc'[r] \notin LoadSteps \cup {"act"}
    BY <1>1 DEF LoadSteps
  <2> QED BY <1>1, <2>1, MovesTakeNoPlace
<1> QED BY <1>1, <1>2, <1>3, <1>4, RoomKept DEF Shaped

\* So do a refused refund and a restart.
LEMMA FaultKeepsShape ==
  ASSUME Shaped
  PROVE  /\ \A r \in Requests : RefundFails(r) => Shaped'
         /\ Restart => Shaped'
<1>1. ASSUME NEW r \in Requests, RefundFails(r)
      PROVE  Shaped'
  <2>1. /\ Typed' /\ Controlled' /\ Alone(r)
        /\ pc'[r] = "idle" /\ req'[r] = NoRequest
        /\ issued' = issued /\ UNCHANGED billingVars
    BY <1>1, RefusalMoves
  <2>2. Billed' /\ New' = New
    BY <2>1 DEF Shaped, Billed, New, billingVars
  <2>3. Joining' \subseteq Joining /\ Buying' \subseteq Buying
    BY <2>1, MovesTakeNoPlace
  <2> QED BY <2>1, <2>2, <2>3, RoomKept DEF Shaped
<1>2. ASSUME Restart
      PROVE  Shaped'
  <2>1. /\ Typed' /\ Controlled'
        /\ \A r \in Requests : pc'[r] = "idle" /\ req'[r] = NoRequest
    BY <1>2, RestartMoves
  <2>2. Joining' \subseteq Joining /\ Buying' \subseteq Buying
    BY <2>1 DEF Joining, Buying, NoRequest
  <2>3. /\ issued' = issued /\ balance' = balance /\ settled' = settled
        /\ purchases' = [p \in Purchases |-> IF p \in Live THEN NoPurchase("lost") ELSE purchases[p]]
    BY <1>2 DEF Restart, ForgetPurchases
  <2>4. \A p \in Purchases : purchases'[p] = IF p \in Live THEN NoPurchase("lost") ELSE purchases[p]
    BY <2>3
  <2>5. NoPurchase("lost").status = "lost"
    BY DEF NoPurchase
  <2>6. purchases' = [p \in Purchases |-> purchases'[p]]
    BY <2>3
  <2>7. Billed'
    BY <2>3, <2>4, <2>5, <2>6 DEF Shaped, Billed, Live
  <2>8. New' = New
    BY <2>4, <2>5 DEF New, Live
  <2> QED BY <2>1, <2>2, <2>3, <2>7, <2>8, RoomKept DEF Shaped
<1> QED BY <1>1, <1>2

-----------------------------------------------------------------------------
(* Every step keeps the types.                                             *)

\* What a step is.
LEMMA StepsAre ==
  ASSUME Next
  PROVE  \/ \E r \in Requests : Running \subseteq {r} /\ Loads(r)
         \/ \E r \in Requests : Running \subseteq {r} /\ Work(r)
         \/ \E r \in Requests : Running = {} /\ Arrival(r)
         \/ \E r \in Requests : Running = {} /\ RefundFails(r)
         \/ \E i \in DOMAIN puts : Running \subseteq {puts[i].by} /\ (Land(i) \/ PutFails(i))
         \/ Restart
<1>1. ASSUME NEW r \in Requests, Step(r)
      PROVE  Loads(r) \/ Work(r)
  BY <1>1 DEF Step, Loads, Work
<1> HIDE DEF Arrival, Step
<1> QED BY <1>1 DEF Next

\* The first state.
LEMMA InitShaped ==
  ASSUME Init
  PROVE  Shaped /\ LineInv /\ TicketsOwned /\ RefundsClaimed
<1>1. /\ balance = [u \in Users |-> Funds]
      /\ purchases = [p \in Purchases |-> NoPurchase("new")]
      /\ settled = [p \in Purchases |-> 0]
      /\ tickets = <<>> /\ telecoms = Boot /\ loaded = FALSE
      /\ stored = Nothing /\ reply = [r \in Requests |-> Nothing]
      /\ puts = <<>> /\ unsent = FALSE /\ faults = 0 /\ issued = 0
      /\ pc = [r \in Requests |-> "idle"]
      /\ req = [r \in Requests |-> NoRequest]
  BY DEF Init, BillingInit
<1>2. \A r \in Requests : pc[r] = "idle" /\ req[r].op = "none"
  BY <1>1 DEF NoRequest
<1>3. Controlled
  <2>1. Fitting(NoRequest, "idle")
    BY DEF Fitting, NoRequest, Steps
  <2> QED BY <1>1, <2>1 DEF Controlled
<1>4. \A p \in Purchases : purchases[p].status = "new" /\ settled[p] = 0
  BY <1>1 DEF NoPurchase
<1>5. Billed
  BY <1>1, <1>4, FundsAreNat DEF Billed
<1>6. /\ <<>> \in Lines /\ Boot \in Telecoms /\ <<>> \in Seq(Snapshots) /\ Len(<<>>) = 0
      /\ Nothing.tickets = <<>>
  BY DEF Lines, Telecoms, Boot, Nothing
<1>7. Typed
  <2>1. Nothing \in [tickets : Lines, telecoms : Telecoms]
    BY <1>6 DEF Nothing
  <2>2. faults \in 0..MaxFaults
    BY <1>1, MaxFaultsIsNat
  <2> QED BY <1>1, <1>6, <2>1, <2>2 DEF Typed
<1>8. Room
  <2>1. Joining = {} /\ Buying = {}
    BY <1>2 DEF Joining, Buying
  <2>2. Cardinality({}) = 0
    BY FS_EmptySet
  <2> QED BY <1>1, <2>1, <2>2, CountedAreFinite, MaxTicketsIsNat DEF Room
<1>9. LineInv
  <2>1. stored.tickets = <<>> /\ tickets = <<>> /\ puts = <<>> /\ loaded = FALSE
    BY <1>1, <1>6
  <2>2. LoadedOnce /\ OneOnItsWay /\ CaughtUp
    BY <1>2, <2>1 DEF LoadedOnce, OneOnItsWay, CaughtUp
  <2>3. CalledAlone /\ KeptInMemory
    BY <1>2, <2>1, EmptyLine DEF CalledAlone, KeptInMemory
  <2>4. OneAtATime
    BY <1>2 DEF OneAtATime, Turn
  <2> QED BY <2>2, <2>3, <2>4 DEF LineInv
<1>10. TicketsOwned
  BY <1>1, <1>6 DEF TicketsOwned, Owned
<1>11. RefundsClaimed
  BY <1>2, <1>4 DEF RefundsClaimed
<1> QED BY <1>3, <1>5, <1>7, <1>8, <1>9, <1>10, <1>11 DEF Shaped

\* A step keeps the types.
LEMMA ShapeKept ==
  ASSUME Shaped, [Next]_vars
  PROVE  Shaped'
<1>1. CASE UNCHANGED vars
  BY <1>1 DEF vars, memoryVars, storageVars, controlVars, billingVars, Shaped, Controlled,
              Billed, Typed, Room, Joining, Buying, New
<1>2. ASSUME NEW r \in Requests, Loads(r)
      PROVE  Shaped'
  BY <1>2, LoadKeepsShape
<1>3. ASSUME NEW r \in Requests, Work(r)
      PROVE  Shaped'
  BY <1>3, WorkKeepsShape
<1>4. ASSUME NEW r \in Requests, Arrival(r), Running = {}
      PROVE  Shaped'
  BY <1>4, ArrivalFindsRoom
<1>5. ASSUME NEW r \in Requests, RefundFails(r)
      PROVE  Shaped'
  BY <1>5, FaultKeepsShape
<1>6. ASSUME NEW i \in DOMAIN puts, Land(i) \/ PutFails(i)
      PROVE  Shaped'
  BY <1>6, StorageSettles, StorageKeepsShape
<1>7. CASE Restart
  BY <1>7, FaultKeepsShape
<1> QED BY <1>1, <1>2, <1>3, <1>4, <1>5, <1>6, <1>7, StepsAre

\* The types of the queue and of the billing, whatever the interleaving.
THEOREM ConsultationTypes == Spec => []TypeOK
<1>1. Init => Shaped
  BY InitShaped
<1>2. Shaped /\ [Next]_vars => Shaped'
  BY ShapeKept
<1>3. Shaped => TypeOK
  <2> SUFFICES ASSUME Shaped PROVE TypeOK
    OBVIOUS
  <2>1. BillingTypeOK
    BY DEF Shaped, Billed, BillingTypeOK, LivePurchase, Live
  <2>2. /\ tickets \in Lines /\ stored.tickets \in Lines
        /\ \A r \in Requests : reply[r].tickets \in Lines
        /\ {telecoms, stored.telecoms} \subseteq Telecoms
        /\ {loaded, unsent} \subseteq BOOLEAN
        /\ issued \in Nat /\ faults \in 0..MaxFaults
    BY DEF Shaped, Typed
  <2>3. issued \in 0..MaxTickets
    <3>1. issued + Cardinality(Joining) <= MaxTickets
      BY DEF Shaped, Room
    <3> QED BY <2>2, <3>1, CountedAreFinite, MaxTicketsIsNat
  <2>4. pc \in [Requests -> Steps]
    BY DEF Shaped, Controlled, Fitting
  <2>5. Steps = {"idle", "load", "fill", "load2", "fill2", "act", "joined", "consume", "ended",
                 "promote", "refund", "debit", "record", "put"}
    BY DEF Steps, LoadSteps, WorkSteps, Waits
  <2> QED BY <2>1, <2>2, <2>3, <2>4, <2>5 DEF TypeOK, Lines, Telecoms
<1> QED BY <1>1, <1>2, <1>3, PTL DEF Spec

-----------------------------------------------------------------------------
(* The line over local files.                                              *)

\* A step keeps the invariant of the line, and what is over in storage.
LEMMA LineKept ==
  ASSUME Driver = "local", Shaped, LineInv, [Next]_vars
  PROVE  LineInv' /\ Keeps(stored.tickets, stored'.tickets)
<1>1. Keeps(stored.tickets, stored.tickets)
  BY KeptOn DEF LineInv, KeptInMemory
<1>2. CASE UNCHANGED vars
  <2>1. UNCHANGED <<tickets, telecoms, loaded, stored, reply, puts, unsent, issued, pc>>
    BY <1>2 DEF vars, memoryVars, storageVars, controlVars
  <2>2. Turn' = Turn
    BY DEF Turn
  <2>3. LoadedOnce' /\ OneAtATime' /\ OneOnItsWay'
    BY <2>1, <2>2 DEF LineInv, LoadedOnce, OneAtATime, OneOnItsWay
  <2>4. CalledAlone' /\ KeptInMemory' /\ CaughtUp'
    BY <2>1 DEF LineInv, CalledAlone, KeptInMemory, CaughtUp
  <2> QED BY <1>1, <2>1, <2>3, <2>4 DEF LineInv
<1>3. ASSUME NEW r \in Requests, Running \subseteq {r}, Loads(r)
      PROVE  LineInv' /\ Keeps(stored.tickets, stored'.tickets)
  BY <1>1, <1>3, LoadKeepsLine, LoadKeepsShape
<1>4. ASSUME NEW r \in Requests, Running \subseteq {r}, Work(r)
      PROVE  LineInv' /\ Keeps(stored.tickets, stored'.tickets)
  <2>1. Worked(r)
    BY <1>4, WorkKeepsShape
  <2>2. stored' = stored
    BY <2>1 DEF Worked, Quiet, Written, Claimed, storageVars
  <2> QED BY <1>1, <1>4, <2>1, <2>2, WorkKeepsLine
<1>5. ASSUME NEW r \in Requests, Running = {}, Arrival(r)
      PROVE  LineInv' /\ Keeps(stored.tickets, stored'.tickets)
  <2>1. Arrived(r)
    BY <1>5, ArrivalArrives
  <2>2. stored' = stored
    BY <2>1 DEF Arrived, storageVars
  <2> QED BY <1>1, <1>5, <2>1, <2>2, ArrivalKeepsLine
<1>6. ASSUME NEW r \in Requests, Running = {}, RefundFails(r)
      PROVE  LineInv' /\ Keeps(stored.tickets, stored'.tickets)
  BY <1>1, <1>6, RefusalMoves, RefusalKeepsLine
<1>7. ASSUME NEW i \in DOMAIN puts, Running \subseteq {puts[i].by}, Land(i) \/ PutFails(i)
      PROVE  LineInv' /\ Keeps(stored.tickets, stored'.tickets)
  <2>1. puts[i].by \in Requests /\ i \in 1..Len(puts) /\ Settled(puts[i].by, i)
    BY <1>7, StorageSettles
  <2> QED BY <1>7, <2>1, StorageKeepsLine
<1>8. CASE Restart
  BY <1>8, RestartKeepsLine
<1> QED BY <1>2, <1>3, <1>4, <1>5, <1>6, <1>7, <1>8, StepsAre

\* What LineInv says of the properties of the queue.
LEMMA LineHolds ==
  ASSUME Shaped, LineInv
  PROVE  OneInService /\ StoredCatchesUp
<1>1. OneInService
  <2> DEFINE S == WithStatus(InService)
  <2>1. \A i, j \in S : i = j
    <3>1. DOMAIN tickets = 1..Len(tickets)
      BY LineFacts DEF Shaped, Typed
    <3> QED BY <3>1 DEF LineInv, CalledAlone, Single, WithStatus
  <2>2. CASE S = {}
    <3>1. Cardinality(S) = 0
      BY <2>2, FS_EmptySet
    <3> QED BY <3>1 DEF OneInService
  <2>3. CASE S # {}
    <3>1. PICK i : S = {i}
      BY <2>1, <2>3
    <3>2. Cardinality({i}) = 1
      BY FS_Singleton
    <3> QED BY <3>1, <3>2 DEF OneInService
  <2> QED BY <2>2, <2>3
<1>2. StoredCatchesUp
  BY DEF LineInv, CaughtUp, StoredCatchesUp
<1> QED BY <1>1, <1>2

\* "Whoever is in_call ends done": over local files one client at most is in
\* service, for any requests, first loads, refused reads and writes, torn files
\* and restarts, however many next() are asked for.
THEOREM OneClientInService ==
  ASSUME Driver = "local"
  PROVE  Spec => []OneInService
<1>1. Init => Shaped /\ LineInv
  BY InitShaped
<1>2. Shaped /\ LineInv /\ [Next]_vars => (Shaped /\ LineInv)'
  BY ShapeKept, LineKept
<1>3. Shaped /\ LineInv => OneInService
  BY LineHolds
<1> QED BY <1>1, <1>2, <1>3, PTL DEF Spec

\* Over local files the line in storage is the line in memory once every snapshot
\* has landed, unless something failed, or a cancellation waits for the wallet,
\* and nothing was written since.
THEOREM StorageCatchesUp ==
  ASSUME Driver = "local"
  PROVE  Spec => []StoredCatchesUp
<1>1. Init => Shaped /\ LineInv
  BY InitShaped
<1>2. Shaped /\ LineInv /\ [Next]_vars => (Shaped /\ LineInv)'
  BY ShapeKept, LineKept
<1>3. Shaped /\ LineInv => StoredCatchesUp
  BY LineHolds
<1> QED BY <1>1, <1>2, <1>3, PTL DEF Spec

\* Over local files no write, refused or torn write, read, or restart shows in
\* storage, as anything else, a ticket that was written as over.
THEOREM OverStaysOver ==
  ASSUME Driver = "local"
  PROVE  Spec => WhatIsOverStaysOver
<1>1. Init => Shaped /\ LineInv
  BY InitShaped
<1>2. Shaped /\ LineInv /\ [Next]_vars => (Shaped /\ LineInv)'
  BY ShapeKept, LineKept
<1>3. Shaped /\ LineInv /\ [Next]_vars => StaysOver
  <2> SUFFICES ASSUME Shaped, LineInv, [Next]_vars PROVE StaysOver
    OBVIOUS
  <2>1. Keeps(stored.tickets, stored'.tickets) /\ Shaped'
    BY ShapeKept, LineKept
  <2>2. stored.tickets \in Lines /\ stored'.tickets \in Lines
    BY <2>1 DEF Shaped, Typed
  <2>3. /\ DOMAIN stored.tickets = 1..Len(stored.tickets)
        /\ DOMAIN stored'.tickets = 1..Len(stored'.tickets)
    BY <2>2, LineFacts
  <2> QED BY <2>1, <2>3 DEF Keeps, StaysOver
<1> QED BY <1>1, <1>2, <1>3, PTL DEF Spec, WhatIsOverStaysOver

-----------------------------------------------------------------------------
(* Refunds.                                                                *)

\* Purchases stay with their clients.
Handed ==
    \A p \in Purchases :
        /\ purchases[p].status # "new" => purchases'[p].status # "new"
        /\ purchases[p].status # "new" /\ purchases'[p].status = "live" =>
             purchases[p].status = "live" /\ purchases'[p].user = purchases[p].user

\* So the tickets of a line stay with their clients.
LEMMA OwnedCarries ==
  ASSUME Handed, NEW x \in Lines, Owned(x, purchases)
  PROVE  Owned(x, purchases')
<1>1. \A i \in 1..Len(x) : x[i].purchase \in Purchases
  BY LineFacts DEF TicketType
<1> QED BY <1>1 DEF Handed, Owned

\* A request waits for a refund when it has raised a flag, and for its purchase
\* to be recorded when it has paid.
LEMMA WhoWaits ==
  ASSUME Controlled, Billed, NEW r \in Requests, Work(r), Kept
  PROVE  pc'[r] \notin {"refund", "record"}
<1>1. \A step : pc' = [pc EXCEPT ![r] = step] => pc'[r] = step
  BY WentTo
<1>2. CASE \/ Looked(r) \/ SetOnline(r) \/ SetQueueOpen(r) \/ Join(r) \/ Consume(r) \/ EndCurrent(r)
           \/ Promote(r) \/ Skip(r) \/ StartCall(r) \/ EndTicket(r) \/ Refund(r)
           \/ RecordPurchase(r)
  BY <1>1, <1>2 DEF Looked, SetOnline, SetQueueOpen, Join, Consume, EndCurrent, Promote, Skip, StartCall,
     EndTicket, Refund, RecordPurchase, Refuse, Persist, Goto, End
<1>3. CASE Cancel(r)
  <2> DEFINE p == Ticket(req[r].ticket).purchase
  <2>1. CASE Refuse(r) \/ Persist(r, "put")
    BY <1>1, <2>1 DEF Refuse, Persist, Goto, End
  <2>2. CASE ~(Refuse(r) \/ Persist(r, "put"))
    <3>1. Refundable(p) /\ ClaimRefund(p)
      BY <1>3, <2>2 DEF Cancel
    <3>2. /\ p \in Purchases /\ purchases[p].status = "live" /\ ~purchases[p].refunded
          /\ purchases[p] \in LivePurchase
      BY <3>1 DEF Refundable, Live, Billed
    <3>3. purchases'[p].refunded = purchases[p].refunded
      BY <3>2 DEF Kept
    <3> DEFINE q == [purchases[p] EXCEPT !.refunded = TRUE]
    <3>4. q.refunded = TRUE
      BY <3>2, FlagRaised
    <3>5. purchases' = [purchases EXCEPT ![p] = q]
      BY <3>1 DEF ClaimRefund
    <3> HIDE DEF p, q
    <3>6. purchases'[p] = q
      BY <3>2, <3>5 DEF Billed
    <3> QED BY <3>2, <3>3, <3>4, <3>6
  <2> QED BY <2>1, <2>2
<1>4. CASE DebitWallet(r)
  <2> DEFINE u == req[r].user
  <2>1. CASE CanPay(u)
    <3>1. u \in Users
      BY <1>4 DEF DebitWallet, Controlled, Fitting
    <3>2. balance' = [balance EXCEPT ![u] = @ - Price] /\ balance' = balance
      BY <1>4, <2>1 DEF DebitWallet, Debit, Kept
    <3> HIDE DEF u
    <3>3. balance[u] = balance[u] - Price /\ balance[u] \in Nat
      BY <3>1, <3>2 DEF Billed
    <3> QED BY <3>3, PriceIsPositive
  <2>2. CASE ~CanPay(u)
    BY <1>1, <1>4, <2>2 DEF DebitWallet, End
  <2> QED BY <2>1, <2>2
<1> QED BY <1>2, <1>3, <1>4 DEF Work

\* No work hands a purchase to another client.
LEMMA WorkHands ==
  ASSUME Billed, NEW r \in Requests,
         Kept \/ ClaimsOne(r) \/ PaysOne(r) \/ DebitsOne(r) \/ RecordsOne(r)
  PROVE  Handed
<1>1. CASE Kept \/ ClaimsOne(r)
  <2>1. \A p \in Purchases : SamePurchase(p)
    BY <1>1 DEF Kept, ClaimsOne
  <2> QED BY <2>1 DEF SamePurchase, Handed
<1>2. CASE PaysOne(r) \/ DebitsOne(r)
  <2>1. purchases' = purchases
    BY <1>2 DEF PaysOne, PayRefund, DebitsOne, Debit
  <2> QED BY <2>1 DEF Handed
<1>3. CASE RecordsOne(r)
  <2>1. PICK p \in New : Record(p, req[r].user, req[r].via)
    BY <1>3 DEF RecordsOne
  <2>2. p \in Purchases /\ purchases[p].status = "new"
    BY DEF New
  <2>3. \A o \in Purchases \ {p} : purchases'[o] = purchases[o]
    BY <2>1 DEF Record, Billed
  <2>4. purchases'[p].status = "live"
    BY <2>1, <2>2 DEF Record, Billed
  <2> QED BY <2>2, <2>3, <2>4 DEF Handed
<1> QED BY <1>1, <1>2, <1>3

\* Work keeps every ticket with the client who paid for it.
LEMMA WorkOwns ==
  ASSUME Shaped, TicketsOwned, NEW r \in Requests, Worked(r), Handed
  PROVE  TicketsOwned'
<1>1. Typed
  BY DEF Shaped
<1>2. /\ tickets \in Lines /\ stored.tickets \in Lines
      /\ \A o \in Requests : reply[o].tickets \in Lines
      /\ \A i \in 1..Len(puts) : puts[i].tickets \in Lines
  <2>1. tickets \in Lines /\ stored.tickets \in Lines /\ puts \in Seq(Snapshots)
        /\ \A o \in Requests : reply[o].tickets \in Lines
    BY <1>1 DEF Typed
  <2>2. \A i \in 1..Len(puts) : puts[i] \in Snapshots
    BY <2>1
  <2> QED BY <2>1, <2>2 DEF Snapshots
<1>3. /\ Owned(tickets, purchases) /\ Owned(tickets, purchases')
      /\ Owned(stored.tickets, purchases')
      /\ \A o \in Requests : Owned(reply[o].tickets, purchases')
      /\ \A i \in 1..Len(puts) : Owned(puts[i].tickets, purchases')
  BY <1>2, OwnedCarries DEF TicketsOwned
<1>4. CASE Quiet(r)
  BY <1>3, <1>4 DEF Quiet, memoryVars, storageVars, TicketsOwned
<1>5. ASSUME LineMoves(r)
      PROVE  Owned(tickets', purchases')
  BY <1>3, <1>5, OwnedCarries DEF LineMoves
<1>6. CASE Written(r)
  <2> DEFINE x == [by |-> r, tickets |-> tickets', telecoms |-> telecoms']
  <2>1. x \in Snapshots /\ puts' = Append(puts, x) /\ x.tickets = tickets'
        /\ stored' = stored /\ reply' = reply
    BY <1>6 DEF Written, LineMoves, Snapshots
  <2>2. Owned(tickets', purchases')
    BY <1>5, <1>6 DEF Written
  <2> HIDE DEF x
  <2>3. /\ \A i \in 1..Len(puts) : puts'[i] = puts[i]
        /\ puts'[Len(puts')] = x
        /\ \A i \in 1..Len(puts') : i \in 1..Len(puts) \/ i = Len(puts')
    BY <1>1, <2>1, OneMorePut
  <2>4. ASSUME NEW i \in 1..Len(puts')
        PROVE  Owned(puts'[i].tickets, purchases')
    <3>1. CASE i \in 1..Len(puts)
      BY <1>3, <2>3, <3>1
    <3>2. CASE i = Len(puts')
      <4>1. puts'[i].tickets = tickets'
        BY <2>1, <2>3, <3>2
      <4> QED BY <2>2, <4>1
    <3> QED BY <2>3, <3>1, <3>2
  <2> QED BY <1>3, <2>1, <2>2, <2>4 DEF TicketsOwned
<1>7. CASE Claimed(r)
  BY <1>3, <1>5, <1>7 DEF Claimed, TicketsOwned
<1> QED BY <1>4, <1>6, <1>7 DEF Worked

\* What waits for a refund.
Awaited(r) ==
    /\ req[r].purchase \in Purchases
    /\ purchases[req[r].purchase].status = "live" /\ purchases[req[r].purchase].refunded
    /\ purchases[req[r].purchase].user = req[r].user
    /\ settled[req[r].purchase] = 0

\* Nothing paid is lost sight of, if the flags and the payments stay and no
\* request begins to wait.
LEMMA ClaimsStay ==
  ASSUME Shaped, RefundsClaimed, settled' = settled,
         \A r \in Requests : pc'[r] = "refund" => pc[r] = "refund" /\ req'[r] = req[r],
         \A p \in Purchases :
           /\ purchases[p].status = "new" => purchases'[p].status = "new" \/ settled[p] = 0
           /\ purchases[p].status = "live" =>
                /\ purchases'[p].status \in {"live", "lost"}
                /\ purchases'[p].status = "live" =>
                     /\ purchases[p].refunded => purchases'[p].refunded
                     /\ purchases'[p].user = purchases[p].user
           /\ purchases[p].status = "lost" => purchases'[p].status = "lost",
         \A r \in Requests : pc'[r] = "refund" => purchases'[req[r].purchase].status = "live"
  PROVE  RefundsClaimed'
<1>1. \A r \in Requests : pc[r] = "refund" => req[r].purchase \in Purchases
  BY DEF Shaped, Controlled, Fitting
<1>2. \A p \in Purchases : purchases[p].status \in {"new", "live", "lost"} /\ settled[p] \in Nat
  BY DEF Shaped, Billed
<1>3. \A p \in Purchases :
        /\ settled'[p] <= 1
        /\ settled'[p] > 0 => /\ purchases'[p].status # "new"
                              /\ purchases'[p].status = "live" => purchases'[p].refunded
  BY <1>2 DEF RefundsClaimed
<1>4. ASSUME NEW r \in Requests, pc'[r] = "refund"
      PROVE  Awaited(r)'
  <2> DEFINE p == req[r].purchase
  <2>1. /\ pc[r] = "refund" /\ req'[r] = req[r] /\ p \in Purchases
        /\ purchases[p].status = "live" /\ purchases[p].refunded /\ purchases[p].user = req[r].user
        /\ settled[p] = 0
    BY <1>1, <1>4 DEF RefundsClaimed
  <2>2. purchases'[p].status = "live" /\ purchases'[p].refunded /\ purchases'[p].user = req[r].user
    BY <1>4, <2>1
  <2> QED BY <2>1, <2>2 DEF Awaited
<1>5. \A r, s \in Requests :
        pc'[r] = "refund" /\ pc'[s] = "refund" /\ req'[r].purchase = req'[s].purchase => r = s
  BY DEF RefundsClaimed
<1> QED BY <1>3, <1>4, <1>5 DEF RefundsClaimed, Awaited

\* Work keeps each payment to the request that raised the flag.
LEMMA WorkClaims ==
  ASSUME Shaped, TicketsOwned, RefundsClaimed, NEW r \in Requests, Work(r)
  PROVE  RefundsClaimed'
<1>1. /\ Alone(r) /\ Billed /\ Controlled
      /\ Kept \/ ClaimsOne(r) \/ PaysOne(r) \/ DebitsOne(r) \/ RecordsOne(r)
  BY WorkKeepsShape DEF Worked, Shaped
<1>2. \A o \in Requests : pc[o] = "refund" => Awaited(o)
  BY DEF RefundsClaimed, Awaited, Shaped, Controlled, Fitting
<1>3. \A p \in Purchases : purchases[p].status \in {"new", "live", "lost"} /\ settled[p] \in Nat
  BY DEF Shaped, Billed
<1>4. ASSUME pc'[r] # "refund"
      PROVE  \A o \in Requests : pc'[o] = "refund" => o # r /\ pc[o] = "refund" /\ req'[o] = req[o]
  BY <1>1, <1>4 DEF Alone
<1>5. CASE Kept
  <2>1. pc'[r] # "refund"
    BY <1>1, <1>5, WhoWaits
  <2>2. /\ settled' = settled
        /\ \A p \in Purchases :
             /\ SamePurchase(p)
             /\ purchases[p].status = "live" => purchases'[p].refunded = purchases[p].refunded
    BY <1>5 DEF Kept
  <2>3. \A p \in Purchases :
           /\ purchases[p].status = "new" => purchases'[p].status = "new" \/ settled[p] = 0
           /\ purchases[p].status = "live" =>
                /\ purchases'[p].status \in {"live", "lost"}
                /\ purchases'[p].status = "live" =>
                     /\ purchases[p].refunded => purchases'[p].refunded
                     /\ purchases'[p].user = purchases[p].user
           /\ purchases[p].status = "lost" => purchases'[p].status = "lost"
    BY <2>2 DEF SamePurchase
  <2>4. \A o \in Requests : pc'[o] = "refund" => pc[o] = "refund" /\ req'[o] = req[o]
    BY <1>4, <2>1
  <2>5. \A o \in Requests : pc'[o] = "refund" => purchases'[req[o].purchase].status = "live"
    BY <1>2, <2>2, <2>4 DEF Awaited, SamePurchase
  <2> QED BY <2>2, <2>3, <2>4, <2>5, ClaimsStay
<1>6. CASE ClaimsOne(r)
  <2>1. PICK p \in Purchases :
          /\ pc'[r] = "refund" /\ req'[r].purchase = p
          /\ purchases[p].status = "live" /\ ~purchases[p].refunded
          /\ purchases[p].user = req'[r].user
          /\ settled' = settled
          /\ purchases'[p].refunded
          /\ \A o \in Purchases :
               /\ SamePurchase(o)
               /\ o # p /\ purchases[o].status = "live" =>
                    purchases'[o].refunded = purchases[o].refunded
    BY <1>6 DEF ClaimsOne
  <2>2. \A o \in Purchases : o # p =>
          /\ purchases'[o].status = purchases[o].status
          /\ purchases[o].status = "live" => /\ purchases'[o].refunded = purchases[o].refunded
                                             /\ purchases'[o].user = purchases[o].user
    BY <2>1 DEF SamePurchase
  <2>3. /\ purchases'[p].status = "live" /\ purchases'[p].user = purchases[p].user
        /\ settled[p] = 0
    <3>1. ~(settled[p] > 0)
      BY <2>1 DEF RefundsClaimed
    <3> QED BY <1>3, <2>1, <3>1 DEF SamePurchase
  <2>4. \A o \in Requests \ {r} : pc[o] = "refund" => req[o].purchase # p
    BY <1>2, <2>1 DEF Awaited
  <2>5. \A o \in Requests \ {r} : pc'[o] = pc[o] /\ req'[o] = req[o]
    BY <1>1 DEF Alone
  <2>6. \A o \in Purchases :
          /\ settled'[o] <= 1
          /\ settled'[o] > 0 => /\ purchases'[o].status # "new"
                                /\ purchases'[o].status = "live" => purchases'[o].refunded
    BY <2>1, <2>2, <2>3 DEF RefundsClaimed
  <2>7. ASSUME NEW o \in Requests, pc'[o] = "refund"
        PROVE  Awaited(o)'
    <3>1. CASE o = r
      BY <2>1, <2>3, <3>1 DEF Awaited
    <3>2. CASE o # r
      BY <1>2, <2>1, <2>2, <2>4, <2>5, <2>7, <3>2 DEF Awaited
    <3> QED BY <3>1, <3>2
  <2>8. \A o, s \in Requests :
          pc'[o] = "refund" /\ pc'[s] = "refund" /\ req'[o].purchase = req'[s].purchase => o = s
    BY <2>1, <2>4, <2>5 DEF RefundsClaimed
  <2> QED BY <2>6, <2>7, <2>8 DEF RefundsClaimed, Awaited
<1>7. CASE PaysOne(r)
  <2> DEFINE p == req[r].purchase
  <2>1. /\ pc[r] = "refund" /\ pc'[r] = "put"
        /\ settled' = [settled EXCEPT ![p] = @ + 1] /\ purchases' = purchases
    BY <1>7 DEF PaysOne, PayRefund
  <2>2. p \in Purchases /\ purchases[p].status = "live" /\ purchases[p].refunded /\ settled[p] = 0
    BY <1>2, <2>1 DEF Awaited
  <2>3. \A o \in Requests \ {r} : pc[o] = "refund" => req[o].purchase # p
    BY <2>1 DEF RefundsClaimed
  <2>4. \A o \in Requests : pc'[o] = "refund" => o # r /\ pc[o] = "refund" /\ req'[o] = req[o]
    BY <1>4, <2>1
  <2> HIDE DEF p
  <2>5. settled'[p] = 1 /\ \A o \in Purchases \ {p} : settled'[o] = settled[o]
    BY <2>1, <2>2 DEF Billed, Shaped
  <2>6. \A o \in Purchases :
          /\ settled'[o] <= 1
          /\ settled'[o] > 0 => /\ purchases'[o].status # "new"
                                /\ purchases'[o].status = "live" => purchases'[o].refunded
    BY <2>1, <2>2, <2>5 DEF RefundsClaimed
  <2>7. \A o \in Requests : pc'[o] = "refund" => Awaited(o)'
    BY <1>2, <2>1, <2>3, <2>4, <2>5 DEF Awaited
  <2>8. \A o, s \in Requests :
          pc'[o] = "refund" /\ pc'[s] = "refund" /\ req'[o].purchase = req'[s].purchase => o = s
    BY <2>4 DEF RefundsClaimed
  <2> QED BY <2>6, <2>7, <2>8 DEF RefundsClaimed, Awaited
<1>8. CASE DebitsOne(r)
  <2>1. purchases' = purchases /\ settled' = settled /\ pc'[r] # "refund"
    BY <1>8 DEF DebitsOne, Debit
  <2>2. \A o \in Requests : pc'[o] = "refund" => pc[o] = "refund" /\ req'[o] = req[o]
    BY <1>4, <2>1
  <2>3. \A o \in Requests : pc'[o] = "refund" => purchases'[req[o].purchase].status = "live"
    BY <1>2, <2>1, <2>2 DEF Awaited
  <2> QED BY <2>1, <2>2, <2>3, ClaimsStay
<1>9. CASE RecordsOne(r)
  <2>1. PICK p \in New : Record(p, req[r].user, req[r].via)
    BY <1>9 DEF RecordsOne
  <2>2. pc'[r] # "refund" /\ settled' = settled
    BY <1>9, <2>1 DEF RecordsOne, Record
  <2>3. p \in Purchases /\ purchases[p].status = "new" /\ settled[p] = 0
    BY <1>3 DEF New, RefundsClaimed
  <2>4. \A o \in Purchases \ {p} : purchases'[o] = purchases[o]
    BY <2>1 DEF Record, Shaped, Billed
  <2>5. \A o \in Requests : pc'[o] = "refund" => pc[o] = "refund" /\ req'[o] = req[o]
    BY <1>4, <2>2
  <2>6. \A o \in Requests : pc'[o] = "refund" => purchases'[req[o].purchase].status = "live"
    BY <1>2, <2>3, <2>4, <2>5 DEF Awaited
  <2> QED BY <2>2, <2>3, <2>4, <2>5, <2>6, ClaimsStay
<1> QED BY <1>1, <1>5, <1>6, <1>7, <1>8, <1>9

\* Every step keeps tickets with their clients and payments to their claims.
LEMMA ClaimsKept ==
  ASSUME Shaped, TicketsOwned, RefundsClaimed, [Next]_vars
  PROVE  TicketsOwned' /\ RefundsClaimed'
<1>1. CASE UNCHANGED vars
  BY <1>1 DEF vars, memoryVars, storageVars, controlVars, billingVars, TicketsOwned, RefundsClaimed
<1>2. ASSUME UNCHANGED billingVars,
             \A r \in Requests : pc'[r] = "refund" => pc[r] = "refund" /\ req'[r] = req[r]
      PROVE  RefundsClaimed'
  <2>1. purchases' = purchases /\ settled' = settled
    BY <1>2 DEF billingVars
  <2>2. \A r \in Requests : pc'[r] = "refund" => purchases'[req[r].purchase].status = "live"
    BY <1>2, <2>1 DEF RefundsClaimed
  <2> QED BY <1>2, <2>1, <2>2, ClaimsStay
<1>3. ASSUME NEW r \in Requests, Loads(r)
      PROVE  TicketsOwned' /\ RefundsClaimed'
  <2>1. TicketsOwned' /\ UNCHANGED billingVars
    BY <1>3, LoadKeepsShape
  <2>2. Alone(r) /\ pc'[r] \in {"fill", "load2", "fill2", "act"}
    BY <1>3, LoadMoves DEF Shaped
  <2> QED BY <1>2, <2>1, <2>2 DEF Alone
<1>4. ASSUME NEW r \in Requests, Work(r)
      PROVE  TicketsOwned' /\ RefundsClaimed'
  <2>1. Worked(r) /\ Handed
    BY <1>4, WorkKeepsShape, WorkHands DEF Shaped
  <2> QED BY <1>4, <2>1, WorkOwns, WorkClaims
<1>5. ASSUME NEW r \in Requests, Arrival(r)
      PROVE  TicketsOwned' /\ RefundsClaimed'
  <2>1. Arrived(r)
    BY <1>5, ArrivalArrives
  <2>2. /\ Controlled' /\ Alone(r) /\ UNCHANGED <<memoryVars, storageVars, issued, billingVars>>
        /\ req'[r].op = "buy" \/ pc'[r] \in {"act", "load"}
    BY <2>1 DEF Arrived
  <2>3. pc'[r] # "refund"
    BY <2>2 DEF Controlled, Fitting
  <2>4. TicketsOwned'
    BY <2>2 DEF TicketsOwned, memoryVars, storageVars, billingVars
  <2> QED BY <1>2, <2>2, <2>3, <2>4 DEF Alone
<1>6. ASSUME NEW r \in Requests, RefundFails(r)
      PROVE  TicketsOwned' /\ RefundsClaimed'
  <2>1. /\ Alone(r) /\ pc'[r] = "idle"
        /\ UNCHANGED <<memoryVars, stored, reply, puts, unsent, issued, billingVars>>
    BY <1>6, RefusalMoves
  <2>2. TicketsOwned'
    BY <2>1 DEF TicketsOwned, memoryVars, billingVars
  <2> QED BY <1>2, <2>1, <2>2 DEF Alone
<1>7. ASSUME NEW i \in DOMAIN puts, Land(i) \/ PutFails(i)
      PROVE  TicketsOwned' /\ RefundsClaimed'
  <2> DEFINE r == puts[i].by
  <2>1. r \in Requests /\ i \in 1..Len(puts) /\ Settled(r, i)
    BY <1>7, StorageSettles
  <2> HIDE DEF r
  <2>2. TicketsOwned' /\ UNCHANGED billingVars
    BY <2>1, OnePutLess DEF Shaped, Settled
  <2>3. Alone(r) /\ pc'[r] \in {"idle", "consume", "promote"}
    BY <2>1, SettledMoves DEF Shaped
  <2> QED BY <1>2, <2>2, <2>3 DEF Alone
<1>8. CASE Restart
  <2>1. /\ \A r \in Requests : pc'[r] = "idle"
        /\ \A r \in Requests : reply'[r].tickets = <<>>
        /\ tickets' = <<>> /\ puts' = <<>>
        /\ \/ stored'.tickets = stored.tickets
           \/ stored'.tickets = <<>>
           \/ \E i \in 1..Len(puts) : stored'.tickets = puts[i].tickets
        /\ Shaped'
    BY <1>8, RestartMoves, FaultKeepsShape DEF Nothing
  <2>2. /\ settled' = settled
        /\ \A p \in Purchases : purchases'[p] = IF p \in Live THEN NoPurchase("lost") ELSE purchases[p]
    BY <1>8 DEF Restart, ForgetPurchases
  <2>3. \A p \in Purchases :
          /\ purchases[p].status = "live" => purchases'[p].status = "lost"
          /\ purchases[p].status # "live" => purchases'[p] = purchases[p]
    BY <2>2 DEF Live, NoPurchase
  <2>4. Handed
    BY <2>3 DEF Handed
  <2>5. TicketsOwned'
    <3>1. Owned(stored.tickets, purchases) /\ \A i \in 1..Len(puts) : Owned(puts[i].tickets, purchases)
      BY DEF TicketsOwned
    <3>2. Owned(stored'.tickets, purchases)
      BY <2>1, <3>1, EmptyLine
    <3>3. stored'.tickets \in Lines
      BY <2>1 DEF Shaped, Typed
    <3>4. Owned(stored'.tickets, purchases')
      BY <2>4, <3>2, <3>3, OwnedCarries
    <3>5. Len(puts') = 0 /\ 1..0 = {} /\ Owned(<<>>, purchases')
      BY <2>1, EmptyLine
    <3> QED BY <2>1, <3>4, <3>5 DEF TicketsOwned
  <2>6. RefundsClaimed'
    BY <2>1, <2>2, <2>3, ClaimsStay
  <2> QED BY <2>5, <2>6
<1> QED BY <1>1, <1>3, <1>4, <1>5, <1>6, <1>7, <1>8, StepsAre

RefundedOnce == \A p \in Purchases : settled[p] <= 1

\* No purchase is refunded twice, however joins, cancels, failures and restarts
\* interleave: the flag goes up before the wallet is asked, and never comes down.
THEOREM NoSecondRefund == Spec => []RefundedOnce
<1>1. Init => Shaped /\ TicketsOwned /\ RefundsClaimed
  BY InitShaped
<1>2. /\ Shaped /\ TicketsOwned /\ RefundsClaimed
      /\ [Next]_vars
      => (Shaped /\ TicketsOwned /\ RefundsClaimed)'
  BY ShapeKept, ClaimsKept
<1>3. RefundsClaimed => RefundedOnce
  BY DEF RefundsClaimed, RefundedOnce
<1> QED BY <1>1, <1>2, <1>3, PTL DEF Spec

-----------------------------------------------------------------------------
(* Money, when every purchase is paid from the wallet.                     *)

\* More of what costs the price costs more.
LEMMA PriceGrows ==
  ASSUME NEW m \in Nat, NEW n \in Nat, m <= n
  PROVE  Price * m \in Nat /\ Price * m <= Price * n /\ Price * (n + 1) = Price * n + Price
<1>1. Price \in Nat
  BY PriceIsPositive
<1>2. PICK d \in Nat : n = m + d
  <2>1. n - m \in Nat /\ n = m + (n - m)
    OBVIOUS
  <2> QED BY <2>1
<1>3. Price * m \in Nat /\ Price * d \in Nat /\ Price * n = Price * m + Price * d
  BY <1>1, <1>2
<1>4. Price * (n + 1) = Price * n + Price
  BY <1>1
<1> QED BY <1>3, <1>4

\* What is counted for a wallet is finite.
LEMMA HeldIsFinite ==
  ASSUME NEW u
  PROVE  /\ IsFiniteSet(Held(u)) /\ IsFiniteSet(Paying(u))
         /\ Cardinality(Held(u)) \in Nat /\ Cardinality(Paying(u)) \in Nat
<1>1. Held(u) \subseteq Purchases /\ Paying(u) \subseteq Requests
  BY DEF Held, Live, Paying
<1> QED BY <1>1, PartOf

\* A wallet that gains nothing, and holds no purchase and no payment it did not,
\* is worth no more.
LEMMA WorthFalls ==
  ASSUME Billed, NEW u \in Users, NEW b \in Nat, b <= balance[u],
         NEW H, H \subseteq Held(u), NEW P, P \subseteq Paying(u), Worth(u) <= Funds
  PROVE  b + Price * (Cardinality(H) + Cardinality(P)) <= Funds
<1> DEFINE h == Cardinality(Held(u))
           q == Cardinality(Paying(u))
           k == Cardinality(H)
           l == Cardinality(P)
<1>1. h \in Nat /\ q \in Nat /\ k \in Nat /\ l \in Nat /\ k <= h /\ l <= q
  BY HeldIsFinite, PartOf
<1>2. balance[u] + Price * (h + q) <= Funds
  BY DEF Worth
<1>3. balance[u] \in Nat
  BY DEF Billed
<1> HIDE DEF h, q, k, l
<1>4. k + l \in Nat /\ h + q \in Nat /\ k + l <= h + q
  BY <1>1
<1>5. Price * (k + l) \in Nat /\ Price * (h + q) \in Nat /\ Price * (k + l) <= Price * (h + q)
  BY <1>4, PriceGrows
<1>6. b + Price * (k + l) <= Funds
  BY <1>2, <1>3, <1>5, FundsAreNat
<1> QED BY <1>6 DEF k, l

\* So a step that raises no balance and begins no payment keeps the wallets.
LEMMA QuietWallets ==
  ASSUME Shaped, Shaped', MoneyInv, NEW u \in Users,
         balance'[u] <= balance[u], Held(u)' \subseteq Held(u), Paying(u)' \subseteq Paying(u)
  PROVE  Worth(u)' <= Funds
<1>1. balance'[u] \in Nat
  BY DEF Shaped, Billed
<1>2. Worth(u) <= Funds
  BY DEF MoneyInv
<1>3. PICK H, P : H = Held(u)' /\ P = Paying(u)'
  OBVIOUS
<1>4. balance'[u] + Price * (Cardinality(H) + Cardinality(P)) <= Funds
  BY <1>1, <1>2, <1>3, WorthFalls DEF Shaped
<1> QED BY <1>3, <1>4 DEF Worth

\* Work takes nothing from a wallet that it does not hand back as a purchase,
\* and pays nothing back that was not held.
LEMMA WorkPays ==
  ASSUME PayMethods \subseteq {"wallet"}, Shaped, Shaped', TicketsOwned, RefundsClaimed, MoneyInv,
         NEW r \in Requests, Work(r), NEW u \in Users
  PROVE  Worth(u)' <= Funds
<1>1. /\ Alone(r) /\ Billed /\ Controlled
      /\ Kept \/ ClaimsOne(r) \/ PaysOne(r) \/ DebitsOne(r) \/ RecordsOne(r)
  BY WorkKeepsShape DEF Worked, Shaped
<1>2. \A o \in Requests \ {r} : pc'[o] = pc[o] /\ req'[o] = req[o]
  BY <1>1 DEF Alone
<1>3. /\ balance[u] \in Nat /\ Price \in Nat
      /\ balance[u] + Price * (Cardinality(Held(u)) + Cardinality(Paying(u))) <= Funds
      /\ Cardinality(Held(u)) \in Nat /\ Cardinality(Paying(u)) \in Nat
  BY <1>1, PriceIsPositive, HeldIsFinite DEF MoneyInv, Worth, Billed
<1>4. \A p \in Purchases : settled[p] \in Nat /\ purchases[p].status \in {"new", "live", "lost"}
  BY <1>1 DEF Billed
<1>5. pc'[r] # "record" => Paying(u)' \subseteq Paying(u)
  BY <1>2 DEF Paying
<1>6. CASE Kept \/ ClaimsOne(r)
  <2>1. /\ \A p \in Purchases : SamePurchase(p)
        /\ balance' = balance /\ settled' = settled
    BY <1>6 DEF Kept, ClaimsOne
  <2>2. Held(u)' \subseteq Held(u)
    BY <2>1 DEF SamePurchase, Held, Live
  <2>3. pc'[r] # "record"
    <3>1. CASE Kept
      BY <1>1, <3>1, WhoWaits
    <3>2. CASE ClaimsOne(r)
      BY <3>2 DEF ClaimsOne
    <3> QED BY <1>6, <3>1, <3>2
  <2>4. balance'[u] <= balance[u]
    BY <1>3, <2>1
  <2> QED BY <1>5, <2>2, <2>3, <2>4, QuietWallets
<1>7. CASE PaysOne(r)
  <2> DEFINE p == req[r].purchase
  <2>1. /\ pc[r] = "refund" /\ pc'[r] = "put"
        /\ settled' = [settled EXCEPT ![p] = @ + 1] /\ purchases' = purchases
        /\ balance' = [balance EXCEPT ![req[r].user] = @ + Price]
    BY <1>7 DEF PaysOne, PayRefund
  <2>2. p \in Purchases /\ purchases[p].status = "live" /\ purchases[p].user = req[r].user
        /\ settled[p] = 0
    BY <1>1, <2>1 DEF RefundsClaimed, Controlled, Fitting
  <2>3. purchases[p].via = "wallet"
    BY <1>1, <2>2 DEF Billed, LivePurchase
  <2> HIDE DEF p
  <2>4. settled'[p] = 1 /\ \A o \in Purchases \ {p} : settled'[o] = settled[o]
    BY <1>1, <2>1, <2>2 DEF Billed
  <2>5. Held(u)' = Held(u) \ {p}
    BY <2>1, <2>2, <2>4 DEF Held, Live
  <2>6. Paying(u)' \subseteq Paying(u)
    BY <1>5, <2>1
  <2>7. CASE u = req[r].user
    <3>1. p \in Held(u)
      BY <2>2, <2>3, <2>7 DEF Held, Live
    <3>2. PICK H, P : H = Held(u)' /\ P = Paying(u)'
      OBVIOUS
    <3> DEFINE h == Cardinality(Held(u))
               q == Cardinality(Paying(u))
               k == Cardinality(H)
               l == Cardinality(P)
    <3>3. k = h - 1 /\ k \in Nat /\ h \in Nat
      <4>1. k = h - 1
        BY <2>5, <3>1, <3>2, HeldIsFinite, FS_RemoveElement
      <4>2. k \in Nat /\ h \in Nat
        BY <2>5, <3>2, HeldIsFinite, PartOf
      <4> QED BY <4>1, <4>2
    <3>4. l <= q /\ l \in Nat /\ q \in Nat
      BY <2>6, <3>2, HeldIsFinite, PartOf
    <3>5. balance'[u] = balance[u] + Price
      BY <1>1, <2>1, <2>7 DEF Billed
    <3>6. balance[u] + Price * (h + q) <= Funds
      BY <1>3
    <3> HIDE DEF h, q, k, l
    <3>7. k + l \in Nat /\ h + q \in Nat /\ k + l + 1 <= h + q
      BY <3>3, <3>4
    <3>8. /\ Price * (k + l + 1) = Price * (k + l) + Price
          /\ Price * (k + l + 1) <= Price * (h + q)
          /\ Price * (k + l) \in Nat /\ Price * (k + l + 1) \in Nat /\ Price * (h + q) \in Nat
      <4>1. Price * (k + l) \in Nat /\ Price * ((k + l) + 1) = Price * (k + l) + Price
        BY <3>7, PriceGrows
      <4>2. k + l + 1 \in Nat
        BY <3>7
      <4>3. Price * (k + l + 1) \in Nat /\ Price * (k + l + 1) <= Price * (h + q)
        BY <3>7, <4>2, PriceGrows
      <4>4. Price * (h + q) \in Nat
        BY <3>7, PriceGrows
      <4> QED BY <4>1, <4>3, <4>4
    <3>9. balance'[u] + Price * (k + l) <= Funds
      BY <1>3, <3>5, <3>6, <3>8, FundsAreNat
    <3> QED BY <3>2, <3>9 DEF Worth, k, l
  <2>8. CASE u # req[r].user
    <3>1. balance'[u] <= balance[u]
      BY <1>1, <1>3, <2>1, <2>8 DEF Billed
    <3> QED BY <2>5, <2>6, <3>1, QuietWallets
  <2> QED BY <2>7, <2>8
<1>8. CASE DebitsOne(r)
  <2>1. /\ pc[r] = "debit" /\ pc'[r] = "record" /\ req'[r] = req[r]
        /\ purchases' = purchases /\ settled' = settled
        /\ balance' = [balance EXCEPT ![req[r].user] = @ - Price]
        /\ balance[req[r].user] >= Price
    BY <1>8 DEF DebitsOne, Debit, CanPay
  <2>2. Held(u)' = Held(u)
    BY <2>1 DEF Held, Live
  <2>3. CASE u = req[r].user
    <3>1. Paying(u)' \subseteq Paying(u) \cup {r}
      BY <1>2 DEF Paying
    <3>2. PICK H, P : H = Held(u)' /\ P = Paying(u)'
      OBVIOUS
    <3> DEFINE h == Cardinality(Held(u))
               q == Cardinality(Paying(u))
               l == Cardinality(P)
    <3>3. l <= q + 1 /\ l \in Nat /\ q \in Nat
      BY <3>1, <3>2, HeldIsFinite, OneMore
    <3>4. balance'[u] = balance[u] - Price
      BY <1>1, <2>1, <2>3 DEF Billed
    <3>5. balance[u] + Price * (h + q) <= Funds /\ h \in Nat
      BY <1>3
    <3> HIDE DEF h, q, l
    <3>6. h + l \in Nat /\ h + q \in Nat /\ h + q + 1 \in Nat /\ h + l <= h + q + 1
      BY <3>3, <3>5
    <3>7. /\ Price * (h + l) <= Price * (h + q + 1) /\ Price * (h + l) \in Nat
          /\ Price * (h + q + 1) = Price * (h + q) + Price /\ Price * (h + q) \in Nat
      <4>1. Price * (h + l) <= Price * (h + q + 1) /\ Price * (h + l) \in Nat
        BY <3>6, PriceGrows
      <4>2. Price * ((h + q) + 1) = Price * (h + q) + Price /\ Price * (h + q) \in Nat
        BY <3>6, PriceGrows
      <4> QED BY <4>1, <4>2
    <3>8. balance'[u] + Price * (h + l) <= Funds
      BY <1>3, <3>4, <3>5, <3>7, FundsAreNat
    <3> QED BY <2>2, <3>2, <3>8 DEF Worth, h, l
  <2>4. CASE u # req[r].user
    <3>1. Paying(u)' \subseteq Paying(u)
      BY <1>2, <2>1, <2>4 DEF Paying
    <3>2. balance'[u] <= balance[u]
      BY <1>1, <1>3, <2>1, <2>4 DEF Billed
    <3> QED BY <2>2, <3>1, <3>2, QuietWallets
  <2> QED BY <2>3, <2>4
<1>9. CASE RecordsOne(r)
  <2>1. PICK p \in New : Record(p, req[r].user, req[r].via)
    BY <1>9 DEF RecordsOne
  <2>2. /\ pc[r] = "record" /\ pc'[r] = "idle"
        /\ settled' = settled /\ balance' = balance
    BY <1>9, <2>1 DEF RecordsOne, Record
  <2>3. p \in Purchases /\ purchases[p].status = "new"
    BY DEF New
  <2>4. \A o \in Purchases \ {p} : purchases'[o] = purchases[o]
    BY <1>1, <2>1 DEF Record, Billed
  <2>5. purchases'[p].user = req[r].user
    BY <1>1, <2>1, <2>3 DEF Record, Billed
  <2>6. Paying(u)' \subseteq Paying(u)
    BY <1>5, <2>2
  <2>7. CASE u = req[r].user
    <3>1. Held(u)' \subseteq Held(u) \cup {p}
      BY <2>2, <2>3, <2>4 DEF Held, Live
    <3>2. PICK H, P : H = Held(u)' /\ P = Paying(u)'
      OBVIOUS
    <3> DEFINE h == Cardinality(Held(u))
               q == Cardinality(Paying(u))
               k == Cardinality(H)
               l == Cardinality(P)
    <3>3. k <= h + 1 /\ k \in Nat /\ h \in Nat
      BY <3>1, <3>2, HeldIsFinite, OneMore
    <3>4. l + 1 <= q /\ l \in Nat /\ q \in Nat
      <4>1. r \in Paying(u) /\ r \notin P
        BY <2>2, <2>7, <3>2 DEF Paying
      <4> QED BY <2>6, <3>2, <4>1, HeldIsFinite, PartOf
    <3>5. balance'[u] = balance[u] /\ balance[u] + Price * (h + q) <= Funds
      BY <1>3, <2>2
    <3> HIDE DEF h, q, k, l
    <3>6. k + l \in Nat /\ h + q \in Nat /\ k + l <= h + q
      BY <3>3, <3>4
    <3>7. Price * (k + l) <= Price * (h + q) /\ Price * (k + l) \in Nat /\ Price * (h + q) \in Nat
      BY <3>6, PriceGrows
    <3>8. balance'[u] + Price * (k + l) <= Funds
      BY <1>3, <3>5, <3>7, FundsAreNat
    <3> QED BY <3>2, <3>8 DEF Worth, k, l
  <2>8. CASE u # req[r].user
    <3>1. Held(u)' \subseteq Held(u)
      BY <2>2, <2>3, <2>4, <2>5, <2>8 DEF Held, Live
    <3>2. balance'[u] <= balance[u]
      BY <1>3, <2>2
    <3> QED BY <2>6, <3>1, <3>2, QuietWallets
  <2> QED BY <2>7, <2>8
<1> QED BY <1>1, <1>6, <1>7, <1>8, <1>9

\* Every step keeps the wallets.
LEMMA MoneyKept ==
  ASSUME PayMethods \subseteq {"wallet"}, Shaped, TicketsOwned, RefundsClaimed, MoneyInv,
         [Next]_vars
  PROVE  MoneyInv'
<1> SUFFICES ASSUME NEW u \in Users
             PROVE  Worth(u)' <= Funds
  BY DEF MoneyInv
<1>1. Shaped' /\ balance[u] \in Nat
  BY ShapeKept DEF Shaped, Billed
<1>2. ASSUME UNCHANGED billingVars, Paying(u)' \subseteq Paying(u)
      PROVE  Worth(u)' <= Funds
  <2>1. Held(u)' \subseteq Held(u) /\ balance'[u] <= balance[u]
    BY <1>1, <1>2 DEF billingVars, Held, Live
  <2> QED BY <1>1, <1>2, <2>1, QuietWallets
<1>3. CASE UNCHANGED vars
  <2>1. UNCHANGED billingVars /\ pc' = pc /\ req' = req
    BY <1>3 DEF vars, controlVars, billingVars
  <2>2. Paying(u)' \subseteq Paying(u)
    BY <2>1 DEF Paying
  <2> QED BY <1>2, <2>1, <2>2
<1>4. ASSUME NEW r \in Requests, Alone(r), pc'[r] # "record"
      PROVE  Paying(u)' \subseteq Paying(u)
  BY <1>4 DEF Alone, Paying
<1>5. ASSUME NEW r \in Requests, Loads(r)
      PROVE  Worth(u)' <= Funds
  <2>1. UNCHANGED billingVars /\ Alone(r) /\ pc'[r] # "record"
    BY <1>5, LoadKeepsShape, LoadMoves DEF Shaped
  <2> QED BY <1>2, <1>4, <2>1
<1>6. ASSUME NEW r \in Requests, Work(r)
      PROVE  Worth(u)' <= Funds
  BY <1>1, <1>6, WorkPays
<1>7. ASSUME NEW r \in Requests, Arrival(r)
      PROVE  Worth(u)' <= Funds
  <2>1. /\ Arrived(r)
        /\ req'[r].op = "buy" => req'[r].via \in PayMethods
        /\ pc'[r] = "record" => req'[r].op = "buy" /\ req'[r].via # "wallet"
    BY <1>7, ArrivalArrives
  <2>2. pc'[r] # "record"
    BY <2>1
  <2>3. Alone(r) /\ UNCHANGED billingVars
    BY <2>1 DEF Arrived
  <2> QED BY <1>2, <1>4, <2>2, <2>3
<1>8. ASSUME NEW r \in Requests, RefundFails(r)
      PROVE  Worth(u)' <= Funds
  <2>1. Alone(r) /\ pc'[r] # "record" /\ UNCHANGED billingVars
    BY <1>8, RefusalMoves
  <2> QED BY <1>2, <1>4, <2>1
<1>9. ASSUME NEW i \in DOMAIN puts, Land(i) \/ PutFails(i)
      PROVE  Worth(u)' <= Funds
  <2> DEFINE r == puts[i].by
  <2>1. r \in Requests /\ i \in 1..Len(puts) /\ Settled(r, i)
    BY <1>9, StorageSettles
  <2> HIDE DEF r
  <2>2. Alone(r) /\ pc'[r] # "record"
    BY <2>1, SettledMoves DEF Shaped
  <2>3. UNCHANGED billingVars
    BY <2>1 DEF Settled
  <2> QED BY <1>2, <1>4, <2>1, <2>2, <2>3
<1>10. CASE Restart
  <2>1. \A r \in Requests : pc'[r] = "idle"
    BY <1>10, RestartMoves
  <2>2. /\ settled' = settled /\ balance' = balance
        /\ \A p \in Purchases : purchases'[p] = IF p \in Live THEN NoPurchase("lost") ELSE purchases[p]
    BY <1>10 DEF Restart, ForgetPurchases
  <2>3. Held(u)' \subseteq Held(u)
    BY <2>2 DEF Held, Live, NoPurchase
  <2>4. Paying(u)' \subseteq Paying(u)
    BY <2>1 DEF Paying
  <2>5. balance'[u] <= balance[u]
    BY <1>1, <2>2
  <2> QED BY <1>1, <2>3, <2>4, <2>5, QuietWallets
<1> QED BY <1>3, <1>5, <1>6, <1>7, <1>8, <1>9, <1>10, StepsAre

\* A wallet and the purchases made from it never add up to more than it held,
\* for any number of clients, purchases and requests, any interleaving, and any
\* refused write, refused refund or restart: no refund is paid that was not paid
\* for. (A purchase that goes through the gateway breaks this: see the run
\* consultation_gateway.)
THEOREM NoMoneyIsMade ==
  ASSUME PayMethods \subseteq {"wallet"}
  PROVE  Spec => []NoMoneyFromNothing
<1> DEFINE Inv == Shaped /\ TicketsOwned /\ RefundsClaimed /\ MoneyInv
<1>1. Init => Inv
  <2> SUFFICES ASSUME Init, NEW u \in Users
               PROVE  Shaped /\ TicketsOwned /\ RefundsClaimed /\ Worth(u) <= Funds
    BY InitShaped DEF MoneyInv
  <2>1. Held(u) = {} /\ Paying(u) = {}
    BY DEF Init, BillingInit, NoPurchase, Held, Live, Paying
  <2>2. balance[u] = Funds /\ Cardinality({}) = 0
    BY FS_EmptySet DEF Init, BillingInit
  <2>3. Price * (0 + 0) = 0
    BY PriceIsPositive
  <2>4. Worth(u) <= Funds
    BY <2>1, <2>2, <2>3, FundsAreNat DEF Worth
  <2> QED BY <2>4, InitShaped
<1>2. Inv /\ [Next]_vars => Inv'
  BY ShapeKept, ClaimsKept, MoneyKept
<1>3. Inv => NoMoneyFromNothing
  <2> SUFFICES ASSUME Inv, NEW u \in Users
               PROVE  balance[u] + Price * Cardinality(Held(u)) <= Funds
    BY DEF NoMoneyFromNothing, Held
  <2>1. {} \subseteq Paying(u) /\ Cardinality({}) = 0 /\ balance[u] \in Nat
    BY FS_EmptySet DEF Shaped, Billed
  <2>2. balance[u] + Price * (Cardinality(Held(u)) + Cardinality({})) <= Funds
    BY <2>1, WorthFalls DEF MoneyInv, Shaped
  <2>3. Cardinality(Held(u)) + Cardinality({}) = Cardinality(Held(u))
    BY <2>1, HeldIsFinite
  <2> QED BY <2>2, <2>3
<1> HIDE DEF Inv
<1> QED BY <1>1, <1>2, <1>3, PTL DEF Spec
=============================================================================
