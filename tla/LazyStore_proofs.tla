----------------------------- MODULE LazyStore_proofs -----------------------------
(***************************************************************************)
(* Lemmas that several components rest on.                                 *)
(*                                                                         *)
(* About the stores of LazyStore whose puts land in the order they were    *)
(* sent: what an acknowledged fact says of the documents stays said, over  *)
(* later puts, refused ones, crashes and reloads.  About sums: what the    *)
(* elements of a finite set add up to, in whatever order they are taken.   *)
(***************************************************************************)
EXTENDS LazyStore, SequenceTheorems, FiniteSetTheorems, WellFoundedInduction, TLAPS

-----------------------------------------------------------------------------
(* The queue of puts.                                                      *)

\* The first put leaves the queue, the others move up.
LEMMA FirstRemoved ==
  ASSUME NEW S, NEW q \in Seq(S), Len(q) >= 1
  PROVE  /\ RemoveAt(q, 1) \in Seq(S)
         /\ Len(RemoveAt(q, 1)) = Len(q) - 1
         /\ \A k \in 1..(Len(q) - 1) : RemoveAt(q, 1)[k] = q[k + 1] /\ k + 1 \in 1..Len(q)
<1>1. Len(q) \in Nat /\ \A k \in 1..Len(q) : q[k] \in S
  BY LenProperties, ElementOfSeq
<1> DEFINE none == SubSeq(q, 1, 0)
           rest == SubSeq(q, 2, Len(q))
<1>2. none \in Seq(S) /\ Len(none) = 0
  BY <1>1, SubSeqProperties
<1>3. /\ rest \in Seq(S)
      /\ Len(rest) = Len(q) - 1
      /\ \A k \in 1..(Len(q) - 1) : rest[k] = q[k + 1]
  <2>1. \A k \in 2..Len(q) : q[k] \in S
    BY <1>1
  <2>2. /\ rest \in Seq(S)
        /\ Len(rest) = IF 2 <= Len(q) THEN Len(q) - 2 + 1 ELSE 0
        /\ \A k \in 1..(Len(q) - 2 + 1) : rest[k] = q[2 + k - 1]
    BY <1>1, <2>1, SubSeqProperties
  <2> HIDE DEF rest
  <2>3. ASSUME NEW k \in 1..(Len(q) - 1)
        PROVE  rest[k] = q[k + 1]
    <3>1. k \in 1..(Len(q) - 2 + 1) /\ 2 + k - 1 = k + 1
      BY <1>1
    <3>2. rest[k] = q[2 + k - 1]
      BY <2>2, <3>1
    <3> QED BY <3>1, <3>2
  <2>4. Len(rest) = Len(q) - 1
    <3>1. CASE 2 <= Len(q)
      <4>1. Len(rest) = Len(q) - 2 + 1
        BY <2>2, <3>1
      <4> QED BY <1>1, <4>1
    <3>2. CASE ~(2 <= Len(q))
      <4>1. Len(q) = 1
        <5>1. \A m \in Nat : m >= 1 /\ ~(2 <= m) => m = 1
          OBVIOUS
        <5> QED BY <1>1, <3>2, <5>1
      <4>2. Len(rest) = 0
        BY <2>2, <3>2
      <4> QED BY <4>1, <4>2
    <3> QED BY <3>1, <3>2
  <2> QED BY <2>2, <2>3, <2>4
<1>4. RemoveAt(q, 1) = none \o rest
  BY DEF RemoveAt
<1> HIDE DEF none, rest
<1>5. /\ none \o rest \in Seq(S)
      /\ Len(none \o rest) = Len(rest)
      /\ \A k \in 1..Len(rest) : (none \o rest)[k] = rest[k]
  <2>1. /\ none \o rest \in Seq(S)
        /\ Len(none \o rest) = Len(none) + Len(rest)
        /\ \A i \in 1..(Len(none) + Len(rest)) :
              (none \o rest)[i] = IF i <= Len(none) THEN none[i] ELSE rest[i - Len(none)]
    BY <1>2, <1>3, ConcatProperties
  <2>2. Len(rest) \in Nat
    BY <1>3, LenProperties
  <2>3. ASSUME NEW k \in 1..Len(rest)
        PROVE  (none \o rest)[k] = rest[k]
    <3>1. k \in 1..(Len(none) + Len(rest)) /\ ~(k <= Len(none)) /\ k - Len(none) = k
      BY <1>2, <2>2
    <3> QED BY <2>1, <3>1
  <2> QED BY <1>2, <2>1, <2>2, <2>3
<1>6. ASSUME NEW k \in 1..(Len(q) - 1)
      PROVE  (none \o rest)[k] = q[k + 1] /\ k + 1 \in 1..Len(q)
  <2>1. k + 1 \in 1..Len(q)
    BY <1>1
  <2>2. k \in 1..Len(rest)
    BY <1>3
  <2> QED BY <1>3, <1>5, <2>1, <2>2
<1>7. Len(none \o rest) = Len(q) - 1
  BY <1>3, <1>5
<1> QED BY <1>4, <1>5, <1>6, <1>7

-----------------------------------------------------------------------------
(* What each operation makes of the record.                                *)

Puts(docs, facts) == [doc : docs, fact : facts]

\* Nothing is on its way before the first read of a boot.
Quiet(st) ==
    ~st.loaded => Len(st.puts) = 0

\* A store is its five fields.
LEMMA StoreFields ==
  ASSUME NEW docs, NEW facts, NEW st \in StoreType(docs, facts)
  PROVE  /\ st.mem \in docs /\ st.disk \in docs /\ st.loaded \in BOOLEAN
         /\ st.puts \in Seq(Puts(docs, facts)) /\ st.acked \subseteq facts
         /\ Len(st.puts) \in Nat /\ DOMAIN st.puts = 1..Len(st.puts)
         /\ \A i \in 1..Len(st.puts) : /\ st.puts[i] \in Puts(docs, facts)
                                       /\ st.puts[i].doc \in docs
                                       /\ st.puts[i].fact \in facts
<1>1. /\ st.mem \in docs /\ st.disk \in docs /\ st.loaded \in BOOLEAN
      /\ st.puts \in Seq(Puts(docs, facts)) /\ st.acked \subseteq facts
  BY DEF StoreType, Puts
<1>2. Len(st.puts) \in Nat /\ DOMAIN st.puts = 1..Len(st.puts)
  BY <1>1, LenProperties
<1>3. \A i \in 1..Len(st.puts) : st.puts[i] \in Puts(docs, facts)
  BY <1>1, ElementOfSeq
<1>4. \A p \in Puts(docs, facts) : p.doc \in docs /\ p.fact \in facts
  BY DEF Puts
<1> QED BY <1>1, <1>2, <1>3, <1>4

\* The first state of a store.
LEMMA NewStoreType ==
  ASSUME NEW docs, NEW facts, NEW none \in docs
  PROVE  /\ NewStore(none) \in StoreType(docs, facts)
         /\ NewStore(none).mem = none /\ NewStore(none).disk = none
         /\ NewStore(none).acked = {}
         /\ ~NewStore(none).loaded
         /\ Len(NewStore(none).puts) = 0
         /\ Quiet(NewStore(none))
<1>1. <<>> \in Seq([doc : docs, fact : facts]) /\ Len(<<>>) = 0
  BY EmptySeq
<1> QED BY <1>1 DEF NewStore, StoreType, Quiet

\* ensure().
LEMMA LoadedStore ==
  ASSUME NEW docs, NEW facts, NEW st \in StoreType(docs, facts)
  PROVE  /\ Load(st) \in StoreType(docs, facts)
         /\ Load(st).mem = st.disk /\ Load(st).disk = st.disk /\ Load(st).loaded
         /\ Load(st).puts = st.puts /\ Load(st).acked = st.acked
BY DEF Load, StoreType

\* The process ends.
LEMMA CrashedStore ==
  ASSUME NEW docs, NEW facts, NEW st \in StoreType(docs, facts), NEW none \in docs
  PROVE  /\ Crash(st, none) \in StoreType(docs, facts)
         /\ Crash(st, none).mem = none /\ Crash(st, none).disk = st.disk
         /\ ~Crash(st, none).loaded
         /\ Len(Crash(st, none).puts) = 0 /\ Crash(st, none).acked = st.acked
<1>1. <<>> \in Seq([doc : docs, fact : facts]) /\ Len(<<>>) = 0
  BY EmptySeq
<1> QED BY <1>1 DEF Crash, StoreType

\* What persist() makes of the fields.
SavedAs(st, st2, doc, fact) ==
    /\ st2.mem = doc /\ st2.disk = st.disk /\ st2.acked = st.acked
    /\ (st.loaded => st2.loaded) /\ (st2.loaded => st.loaded)
    /\ Len(st2.puts) = Len(st.puts) + 1
    /\ \A i \in 1..Len(st.puts) : st2.puts[i] = st.puts[i]
    /\ st2.puts[Len(st.puts) + 1] = [doc |-> doc, fact |-> fact]

\* persist(): the new put is the last one.
LEMMA SavedStore ==
  ASSUME NEW docs, NEW facts, NEW st \in StoreType(docs, facts),
         NEW doc \in docs, NEW fact \in facts
  PROVE  /\ Save(st, doc, fact) \in StoreType(docs, facts)
         /\ SavedAs(st, Save(st, doc, fact), doc, fact)
<1> DEFINE put == [doc |-> doc, fact |-> fact]
<1>1. st.puts \in Seq(Puts(docs, facts)) /\ Len(st.puts) \in Nat
  BY StoreFields
<1>2. put \in Puts(docs, facts)
  BY DEF Puts
<1> HIDE DEF put
<1>3. /\ Append(st.puts, put) \in Seq(Puts(docs, facts))
      /\ Len(Append(st.puts, put)) = Len(st.puts) + 1
      /\ \A i \in 1..Len(st.puts) : Append(st.puts, put)[i] = st.puts[i]
      /\ Append(st.puts, put)[Len(st.puts) + 1] = put
  BY <1>1, <1>2, AppendProperties
<1>4. Save(st, doc, fact) = [st EXCEPT !.mem = doc, !.puts = Append(st.puts, put)]
  BY DEF Save, put
<1>5. /\ Save(st, doc, fact) \in StoreType(docs, facts)
      /\ Save(st, doc, fact).mem = doc /\ Save(st, doc, fact).disk = st.disk
      /\ (st.loaded => Save(st, doc, fact).loaded) /\ (Save(st, doc, fact).loaded => st.loaded) /\ Save(st, doc, fact).acked = st.acked
      /\ Save(st, doc, fact).puts = Append(st.puts, put)
  BY <1>3, <1>4 DEF StoreType, Puts
<1> QED BY <1>3, <1>5 DEF put, SavedAs

\* The first put lands.
LEMMA LandedStore ==
  ASSUME NEW docs, NEW facts, NEW st \in StoreType(docs, facts), Len(st.puts) >= 1
  PROVE  /\ Land(st, 1) \in StoreType(docs, facts)
         /\ Land(st, 1).mem = st.mem /\ (st.loaded => Land(st, 1).loaded) /\ (Land(st, 1).loaded => st.loaded)
         /\ Land(st, 1).disk = st.puts[1].doc
         /\ Land(st, 1).acked = st.acked \cup {st.puts[1].fact}
         /\ Len(Land(st, 1).puts) = Len(st.puts) - 1
         /\ \A k \in 1..(Len(st.puts) - 1) :
               Land(st, 1).puts[k] = st.puts[k + 1] /\ k + 1 \in 1..Len(st.puts)
<1>1. st.puts \in Seq(Puts(docs, facts)) /\ Len(st.puts) \in Nat
  BY StoreFields
<1>2. /\ RemoveAt(st.puts, 1) \in Seq(Puts(docs, facts))
      /\ Len(RemoveAt(st.puts, 1)) = Len(st.puts) - 1
      /\ \A k \in 1..(Len(st.puts) - 1) :
            RemoveAt(st.puts, 1)[k] = st.puts[k + 1] /\ k + 1 \in 1..Len(st.puts)
  BY <1>1, FirstRemoved
<1>3. 1 \in 1..Len(st.puts)
  BY <1>1
<1>4. st.puts[1].doc \in docs /\ st.puts[1].fact \in facts
  BY <1>3, StoreFields
<1>5. /\ Land(st, 1) \in StoreType(docs, facts)
      /\ Land(st, 1).mem = st.mem /\ (st.loaded => Land(st, 1).loaded) /\ (Land(st, 1).loaded => st.loaded)
      /\ Land(st, 1).disk = st.puts[1].doc
      /\ Land(st, 1).acked = st.acked \cup {st.puts[1].fact}
      /\ Land(st, 1).puts = RemoveAt(st.puts, 1)
  BY <1>2, <1>4 DEF Land, StoreType, Puts
<1> QED BY <1>2, <1>5

\* The first put is refused.
LEMMA RefusedStore ==
  ASSUME NEW docs, NEW facts, NEW st \in StoreType(docs, facts), Len(st.puts) >= 1
  PROVE  /\ Refuse(st, 1) \in StoreType(docs, facts)
         /\ Refuse(st, 1).mem = st.mem /\ (st.loaded => Refuse(st, 1).loaded) /\ (Refuse(st, 1).loaded => st.loaded)
         /\ Refuse(st, 1).disk = st.disk /\ Refuse(st, 1).acked = st.acked
         /\ Len(Refuse(st, 1).puts) = Len(st.puts) - 1
         /\ \A k \in 1..(Len(st.puts) - 1) :
               Refuse(st, 1).puts[k] = st.puts[k + 1] /\ k + 1 \in 1..Len(st.puts)
<1>1. st.puts \in Seq(Puts(docs, facts)) /\ Len(st.puts) \in Nat
  BY StoreFields
<1>2. /\ RemoveAt(st.puts, 1) \in Seq(Puts(docs, facts))
      /\ Len(RemoveAt(st.puts, 1)) = Len(st.puts) - 1
      /\ \A k \in 1..(Len(st.puts) - 1) :
            RemoveAt(st.puts, 1)[k] = st.puts[k + 1] /\ k + 1 \in 1..Len(st.puts)
  BY <1>1, FirstRemoved
<1>3. /\ Refuse(st, 1) \in StoreType(docs, facts)
      /\ Refuse(st, 1).mem = st.mem /\ (st.loaded => Refuse(st, 1).loaded) /\ (Refuse(st, 1).loaded => st.loaded)
      /\ Refuse(st, 1).disk = st.disk /\ Refuse(st, 1).acked = st.acked
      /\ Refuse(st, 1).puts = RemoveAt(st.puts, 1)
  BY <1>2 DEF Refuse, StoreType, Puts
<1> QED BY <1>2, <1>3

\* Whichever put leaves, the others are still puts.
LEMMA OneRemoved ==
  ASSUME NEW S, NEW q \in Seq(S), NEW i \in 1..Len(q)
  PROVE  RemoveAt(q, i) \in Seq(S)
<1>1. Len(q) \in Nat /\ \A k \in 1..Len(q) : q[k] \in S
  BY LenProperties, ElementOfSeq
<1>2. SubSeq(q, 1, i - 1) \in Seq(S)
  <2>1. \A k \in 1..(i - 1) : q[k] \in S
    BY <1>1
  <2> QED BY <1>1, <2>1, SubSeqProperties
<1>3. SubSeq(q, i + 1, Len(q)) \in Seq(S)
  <2>1. \A k \in (i + 1)..Len(q) : q[k] \in S
    BY <1>1
  <2> QED BY <1>1, <2>1, SubSeqProperties
<1> QED BY <1>2, <1>3, ConcatProperties DEF RemoveAt

\* Memory is none of a put's business.
SameInMemory(st, st2) ==
    st2.mem = st.mem /\ (st.loaded => st2.loaded) /\ (st2.loaded => st.loaded)

\* A store that settles, in whatever order, is a store.
LEMMA SettlingType ==
  ASSUME NEW docs, NEW facts, NEW st \in StoreType(docs, facts),
         NEW inOrder, NEW st2 \in Settles(st, inOrder)
  PROVE  /\ st2 \in StoreType(docs, facts)
         /\ SameInMemory(st, st2)
<1>1. PICK i \in Due(st, inOrder) : st2 = Land(st, i) \/ st2 = Refuse(st, i)
  BY DEF Settles, Landings, Refusals
<1>2. i \in 1..Len(st.puts) /\ st.puts \in Seq(Puts(docs, facts))
  BY StoreFields DEF Due
<1>3. RemoveAt(st.puts, i) \in Seq(Puts(docs, facts))
  BY <1>2, OneRemoved
<1>4. st.puts[i].doc \in docs /\ st.puts[i].fact \in facts
  BY <1>2, StoreFields
<1>5. CASE st2 = Land(st, i)
  BY <1>3, <1>4, <1>5 DEF Land, StoreType, Puts, SameInMemory
<1>6. CASE st2 = Refuse(st, i)
  BY <1>3, <1>6 DEF Refuse, StoreType, Puts, SameInMemory
<1> QED BY <1>1, <1>5, <1>6

\* In order, only the first put is due.
LEMMA FirstIsDue ==
  ASSUME NEW docs, NEW facts, NEW st \in StoreType(docs, facts),
         NEW st2 \in Settles(st, TRUE)
  PROVE  Len(st.puts) >= 1 /\ (st2 = Land(st, 1) \/ st2 = Refuse(st, 1))
<1>1. PICK i \in Due(st, TRUE) : st2 = Land(st, i) \/ st2 = Refuse(st, i)
  BY DEF Settles, Landings, Refusals
<1>2. i = 1 /\ i \in 1..Len(st.puts) /\ Len(st.puts) \in Nat
  BY <1>1, StoreFields DEF Due
<1> QED BY <1>1, <1>2

-----------------------------------------------------------------------------
(* What a fact says of the documents.  D are the documents that agree with *)
(* the fact, P the puts that may follow the one that reports it.           *)

\* Every document of the store is one of D.
Agrees(st, D) ==
    /\ st.disk \in D
    /\ st.loaded => st.mem \in D
    /\ \A i \in 1..Len(st.puts) : st.puts[i].doc \in D

\* Once the fact is acknowledged, or on its way, what comes later agrees with it.
Follows(st, fact, D, P) ==
    /\ fact \in st.acked =>
          /\ st.disk \in D
          /\ st.loaded => st.mem \in D
          /\ \A i \in 1..Len(st.puts) : st.puts[i] \in P
    /\ \A i \in 1..Len(st.puts) : st.puts[i].fact = fact =>
          /\ st.puts[i].doc \in D
          /\ st.mem \in D
          /\ \A j \in 1..Len(st.puts) : i < j => st.puts[j] \in P

\* What a store may become without an operation of its service that changes it.
Rests(st, st2, docs) ==
    \/ st2 = st
    \/ ~st.loaded /\ st2 = Load(st)
    \/ st2 \in Settles(st, TRUE)
    \/ \E none \in docs : st2 = Crash(st, none)

\* Types, and that nothing is on its way before the first read.
LEMMA RestingType ==
  ASSUME NEW docs, NEW facts, NEW st \in StoreType(docs, facts), Quiet(st),
         NEW st2, Rests(st, st2, docs)
  PROVE  st2 \in StoreType(docs, facts) /\ Quiet(st2) /\ st.acked \subseteq st2.acked
<1>1. CASE st2 = st
  BY <1>1
<1>2. CASE st2 = Load(st)
  BY <1>2, LoadedStore DEF Quiet
<1>3. CASE st2 \in Settles(st, TRUE)
  <2>1. Len(st.puts) >= 1 /\ (st2 = Land(st, 1) \/ st2 = Refuse(st, 1))
    BY <1>3, FirstIsDue
  <2>2. Len(st.puts) \in Nat /\ st.loaded
    BY <2>1, StoreFields DEF Quiet
  <2> QED BY <2>1, <2>2, LandedStore, RefusedStore DEF Quiet
<1>4. ASSUME NEW none \in docs, st2 = Crash(st, none)
      PROVE  st2 \in StoreType(docs, facts) /\ Quiet(st2) /\ st.acked \subseteq st2.acked
  <2>1. /\ Crash(st, none).disk = st.disk /\ ~Crash(st, none).loaded
        /\ Len(Crash(st, none).puts) = 0 /\ Crash(st, none).acked = st.acked
        /\ Crash(st, none) \in StoreType(docs, facts)
    BY CrashedStore
  <2> QED BY <1>4, <2>1 DEF Quiet
<1> QED BY <1>1, <1>2, <1>3, <1>4 DEF Rests

\* A store that rests says of its documents what it said.
LEMMA RestingHolds ==
  ASSUME NEW docs, NEW facts, NEW st \in StoreType(docs, facts), Quiet(st),
         NEW st2, Rests(st, st2, docs), NEW D, Agrees(st, D)
  PROVE  Agrees(st2, D)
<1>1. CASE st2 = st
  BY <1>1
<1>2. CASE st2 = Load(st)
  <2>1. /\ Load(st).mem = st.disk /\ Load(st).disk = st.disk /\ Load(st).loaded
        /\ Load(st).puts = st.puts /\ Load(st).acked = st.acked
    BY LoadedStore
  <2> QED BY <1>2, <2>1 DEF Agrees
<1>3. CASE st2 \in Settles(st, TRUE)
  <2>1. Len(st.puts) >= 1 /\ (st2 = Land(st, 1) \/ st2 = Refuse(st, 1))
    BY <1>3, FirstIsDue
  <2>2. Len(st.puts) \in Nat /\ 1 \in 1..Len(st.puts)
    BY <2>1, StoreFields
  <2>3. /\ Len(st2.puts) = Len(st.puts) - 1
        /\ \A k \in 1..(Len(st.puts) - 1) :
              st2.puts[k] = st.puts[k + 1] /\ k + 1 \in 1..Len(st.puts)
        /\ st2.mem = st.mem /\ (st.loaded => st2.loaded) /\ (st2.loaded => st.loaded)
        /\ st2.disk = st.disk \/ st2.disk = st.puts[1].doc
    BY <2>1, LandedStore, RefusedStore
  <2>4. \A k \in 1..Len(st2.puts) : st2.puts[k].doc \in D
    BY <2>3 DEF Agrees
  <2> QED BY <2>2, <2>3, <2>4 DEF Agrees
<1>4. ASSUME NEW none \in docs, st2 = Crash(st, none)
      PROVE  Agrees(st2, D)
  <2>1. /\ Crash(st, none).disk = st.disk /\ ~Crash(st, none).loaded
        /\ Len(Crash(st, none).puts) = 0 /\ Crash(st, none).acked = st.acked
        /\ Crash(st, none) \in StoreType(docs, facts)
    BY CrashedStore
  <2> QED BY <1>4, <2>1 DEF Agrees
<1> QED BY <1>1, <1>2, <1>3, <1>4 DEF Rests

\* And a change of the document that agrees with D keeps it.
LEMMA SavingHolds ==
  ASSUME NEW docs, NEW facts, NEW st \in StoreType(docs, facts), st.loaded,
         NEW doc \in docs, NEW fact \in facts, NEW D, Agrees(st, D),
         st.mem \in D => doc \in D
  PROVE  Agrees(Save(st, doc, fact), D)
<1> DEFINE st2 == Save(st, doc, fact)
           n == Len(st.puts)
<1>1. /\ st2.mem = doc /\ st2.disk = st.disk /\ (st.loaded => st2.loaded) /\ (st2.loaded => st.loaded)
      /\ Len(st2.puts) = n + 1
      /\ \A i \in 1..n : st2.puts[i] = st.puts[i]
      /\ st2.puts[n + 1].doc = doc
      /\ n \in Nat
  <2>1. n \in Nat
    BY StoreFields
  <2>2. SavedAs(st, Save(st, doc, fact), doc, fact)
    BY SavedStore
  <2> QED BY <2>1, <2>2 DEF SavedAs
<1>2. doc \in D
  BY DEF Agrees
<1> HIDE DEF st2
<1>3. ASSUME NEW i \in 1..Len(st2.puts)
      PROVE  st2.puts[i].doc \in D
  <2>1. n \in Nat /\ \A k \in 1..n : st.puts[k].doc \in D
    BY <1>1 DEF Agrees
  <2> HIDE DEF n
  <2>2. i \in 1..n \/ i = n + 1
    BY <1>1, <2>1
  <2> QED BY <1>1, <1>2, <2>1, <2>2
<1> QED BY <1>1, <1>2, <1>3 DEF Agrees, st2

\* A store that rests keeps to what it has acknowledged.
LEMMA RestingFollows ==
  ASSUME NEW docs, NEW facts, NEW st \in StoreType(docs, facts), Quiet(st),
         NEW st2, Rests(st, st2, docs), NEW fact, NEW D, NEW P,
         \A p \in P : p.doc \in D,
         Follows(st, fact, D, P)
  PROVE  Follows(st2, fact, D, P)
<1>1. CASE st2 = st
  BY <1>1
<1>2. CASE ~st.loaded /\ st2 = Load(st)
  <2>1. /\ Load(st).mem = st.disk /\ Load(st).disk = st.disk /\ Load(st).loaded
        /\ Load(st).puts = st.puts /\ Load(st).acked = st.acked
    BY LoadedStore
  <2> QED BY <1>2, <2>1 DEF Follows, Quiet
<1>3. CASE st2 \in Settles(st, TRUE)
  <2>1. Len(st.puts) >= 1 /\ (st2 = Land(st, 1) \/ st2 = Refuse(st, 1))
    BY <1>3, FirstIsDue
  <2>2. Len(st.puts) \in Nat /\ 1 \in 1..Len(st.puts)
    BY <2>1, StoreFields
  <2>3. /\ Len(st2.puts) = Len(st.puts) - 1
        /\ \A k \in 1..(Len(st.puts) - 1) :
              st2.puts[k] = st.puts[k + 1] /\ k + 1 \in 1..Len(st.puts)
        /\ st2.mem = st.mem /\ (st.loaded => st2.loaded) /\ (st2.loaded => st.loaded)
        /\ \/ st2.disk = st.disk /\ st2.acked = st.acked
           \/ st2.disk = st.puts[1].doc /\ st2.acked = st.acked \cup {st.puts[1].fact}
    BY <2>1, LandedStore, RefusedStore
  <2>4. ASSUME NEW i \in 1..Len(st2.puts), st2.puts[i].fact = fact
        PROVE  /\ st2.puts[i].doc \in D /\ st2.mem \in D
               /\ \A j \in 1..Len(st2.puts) : i < j => st2.puts[j] \in P
    <3>1. st.puts[i + 1].fact = fact /\ i + 1 \in 1..Len(st.puts)
      BY <2>3, <2>4
    <3>2. \A j \in 1..Len(st2.puts) : i < j => i + 1 < j + 1
      BY <2>2, <2>3
    <3>3. st.puts[i + 1].doc \in D /\ st.mem \in D
          /\ \A j \in 1..Len(st.puts) : i + 1 < j => st.puts[j] \in P
      BY <3>1 DEF Follows
    <3> QED BY <2>3, <3>2, <3>3
  <2>5. ASSUME fact \in st2.acked
        PROVE  /\ st2.disk \in D
               /\ st2.loaded => st2.mem \in D
               /\ \A i \in 1..Len(st2.puts) : st2.puts[i] \in P
    <3>1. CASE fact \in st.acked
      <4>1. /\ st.disk \in D /\ (st.loaded => st.mem \in D)
            /\ \A i \in 1..Len(st.puts) : st.puts[i] \in P
        BY <3>1 DEF Follows
      <4> QED BY <2>2, <2>3, <4>1
    <3>2. CASE fact \notin st.acked
      <4>1. fact = st.puts[1].fact /\ st2.disk = st.puts[1].doc
        BY <2>3, <2>5, <3>2
      <4>2. st.puts[1].doc \in D /\ st.mem \in D
            /\ \A j \in 1..Len(st.puts) : 1 < j => st.puts[j] \in P
        BY <2>2, <4>1 DEF Follows
      <4>3. \A k \in 1..Len(st2.puts) : 1 < k + 1
        BY <2>2, <2>3
      <4> QED BY <2>3, <4>1, <4>2, <4>3
    <3> QED BY <3>1, <3>2
  <2> QED BY <2>4, <2>5 DEF Follows
<1>4. ASSUME NEW none \in docs, st2 = Crash(st, none)
      PROVE  Follows(st2, fact, D, P)
  <2>1. /\ Crash(st, none).disk = st.disk /\ ~Crash(st, none).loaded
        /\ Len(Crash(st, none).puts) = 0 /\ Crash(st, none).acked = st.acked
        /\ Crash(st, none) \in StoreType(docs, facts)
    BY CrashedStore
  <2> QED BY <1>4, <2>1 DEF Follows
<1> QED BY <1>1, <1>2, <1>3, <1>4 DEF Rests

\* And so does a change that agrees with D wherever memory did, or reports the fact.
LEMMA SavingFollows ==
  ASSUME NEW docs, NEW facts, NEW st \in StoreType(docs, facts), st.loaded,
         NEW doc \in docs, NEW new \in facts,
         NEW fact, NEW D, NEW P, Follows(st, fact, D, P),
         st.mem \in D => doc \in D /\ [doc |-> doc, fact |-> new] \in P,
         new = fact => doc \in D
  PROVE  Follows(Save(st, doc, new), fact, D, P)
<1> DEFINE st2 == Save(st, doc, new)
           n == Len(st.puts)
           put == [doc |-> doc, fact |-> new]
<1>1. /\ st2.mem = doc /\ st2.disk = st.disk /\ (st.loaded => st2.loaded) /\ (st2.loaded => st.loaded) /\ st2.acked = st.acked
      /\ Len(st2.puts) = n + 1
      /\ \A i \in 1..n : st2.puts[i] = st.puts[i]
      /\ st2.puts[n + 1] = put
      /\ n \in Nat
  <2>1. n \in Nat
    BY StoreFields
  <2>2. SavedAs(st, Save(st, doc, new), doc, new)
    BY SavedStore
  <2> QED BY <2>1, <2>2 DEF SavedAs
<1>2. put.doc = doc /\ put.fact = new
  OBVIOUS
<1>3. st.mem \in D => put \in P
  OBVIOUS
<1> HIDE DEF st2, put
<1>4. /\ fact \in st.acked =>
            st.disk \in D /\ st.mem \in D /\ \A i \in 1..n : st.puts[i] \in P
      /\ \A i \in 1..n : st.puts[i].fact = fact =>
            /\ st.puts[i].doc \in D /\ st.mem \in D
            /\ \A j \in 1..n : i < j => st.puts[j] \in P
  BY DEF Follows
<1> HIDE DEF n
<1>5. \A i \in 1..Len(st2.puts) : i \in 1..n \/ i = n + 1
  BY <1>1
<1>6. ASSUME fact \in st2.acked
      PROVE  /\ st2.disk \in D /\ st2.mem \in D
             /\ \A i \in 1..Len(st2.puts) : st2.puts[i] \in P
  BY <1>1, <1>3, <1>4, <1>5, <1>6
<1>7. ASSUME NEW i \in 1..Len(st2.puts), st2.puts[i].fact = fact
      PROVE  /\ st2.puts[i].doc \in D /\ st2.mem \in D
             /\ \A j \in 1..Len(st2.puts) : i < j => st2.puts[j] \in P
  <2>1. CASE i \in 1..n
    BY <1>1, <1>3, <1>4, <1>5, <1>7, <2>1
  <2>2. CASE i = n + 1
    <3>1. \A j \in 1..Len(st2.puts) : ~(i < j)
      BY <1>1, <2>2
    <3> QED BY <1>1, <1>2, <1>7, <2>2, <3>1
  <2> QED BY <1>5, <2>1, <2>2
<1> QED BY <1>6, <1>7 DEF Follows, st2

\* What is acknowledged, all documents agree with.
LEMMA AckedHolds ==
  ASSUME NEW st, NEW fact \in st.acked, NEW D, NEW P, \A p \in P : p.doc \in D,
         Follows(st, fact, D, P)
  PROVE  Agrees(st, D)
BY DEF Follows, Agrees

\* At first nothing is acknowledged or on its way.
LEMMA NewKeeps ==
  ASSUME NEW none
  PROVE  /\ \A fact, D, P : Follows(NewStore(none), fact, D, P)
         /\ \A D : none \in D => Agrees(NewStore(none), D)
<1>1. Len(<<>>) = 0
  BY EmptySeq
<1> QED BY <1>1 DEF NewStore, Follows, Agrees
-----------------------------------------------------------------------------
(* Sums.  FoldFunction and MapThenSumSet take the elements one by one in the *)
(* order CHOOSE has; what they add up to does not depend on it.             *)

\* A set of natural numbers has a least one.
LEMMA LeastOf ==
  ASSUME NEW S \in SUBSET Nat, S # {}
  PROVE  \E x \in S : \A y \in S : x <= y
<1> DEFINE less == {ss \in Nat \X Nat : ss[1] < ss[2]}
<1>1. IsWellFoundedOn(less, Nat)
  BY NatLessThanWellFounded DEF OpToRel
<1>2. \A m, n \in Nat : m < n => <<m, n>> \in less
  OBVIOUS
<1> HIDE DEF less
<1>3. PICK x \in S : \A y \in S : ~(<<y, x>> \in less)
  <2>1. S \subseteq Nat
    OBVIOUS
  <2> QED BY <1>1, <2>1, WFMin, Zenon
<1>4. ASSUME NEW y \in S
      PROVE  x <= y
  <2>1. x \in Nat /\ y \in Nat
    OBVIOUS
  <2>2. ~(y < x)
    BY <1>2, <1>3, <1>4, <2>1
  <2> QED BY <2>1, <2>2
<1> QED BY <1>4

\* Sets that have all their parts short of one element have all finite sets.
LEMMA FinitePartsIn ==
  ASSUME NEW S, IsFiniteSet(S), NEW Good,
         \A t \in SUBSET S : (\A x \in t : t \ {x} \in Good) => t \in Good
  PROVE  \A t \in SUBSET S : t \in Good
<1> DEFINE Bad == {n \in Nat : \E t \in SUBSET S : t \notin Good /\ Cardinality(t) = n}
<1>1. ASSUME NEW t \in SUBSET S
      PROVE  IsFiniteSet(t) /\ Cardinality(t) \in Nat
  <2>1. IsFiniteSet(t)
    BY FS_Subset
  <2> QED BY <2>1, FS_CardinalityType
<1>2. SUFFICES ASSUME NEW t0 \in SUBSET S, t0 \notin Good
               PROVE  FALSE
  OBVIOUS
<1>3. Cardinality(t0) \in Bad
  BY <1>1, <1>2
<1>4. PICK n \in Bad : \A m \in Bad : n <= m
  <2>1. Bad \in SUBSET Nat /\ Bad # {}
    BY <1>3
  <2> HIDE DEF Bad
  <2> QED BY <2>1, LeastOf
<1>5. PICK t \in SUBSET S : t \notin Good /\ Cardinality(t) = n
  OBVIOUS
<1>6. ASSUME NEW x \in t
      PROVE  t \ {x} \in Good
  <2>1. Cardinality(t \ {x}) = Cardinality(t) - 1
    BY <1>1, FS_RemoveElement
  <2>2. t \ {x} \in SUBSET S /\ Cardinality(t \ {x}) \in Nat /\ n \in Nat
    BY <1>1
  <2>3. ~(n <= Cardinality(t \ {x}))
    BY <1>5, <2>1, <2>2
  <2>4. Cardinality(t \ {x}) \notin Bad
    BY <1>4, <2>3
  <2> QED BY <2>2, <2>4
<1> QED BY <1>5, <1>6

\* How a fold takes the elements of a set.
Picked(s) == CHOOSE x \in s : TRUE

AddsUp(f, S, g) ==
    g = [s \in SUBSET S |-> IF s = {} THEN 0 ELSE f[Picked(s)] + g[s \ {Picked(s)}]]

Iter(f, S) ==
    CHOOSE g : AddsUp(f, S, g)

SumOver(f, S) ==
    Iter(f, S)[S]

LEMMA FoldIsTotal ==
  ASSUME NEW f
  PROVE  FoldFunction(+, 0, f) = SumOver(f, DOMAIN f)
BY Zenon DEF FoldFunction, FoldFunctionOnSet, MapThenFoldSet, SumOver, Iter, AddsUp, Picked

\* The element a fold takes is one of the set, and what is left is smaller.
LEMMA PickedIsThere ==
  ASSUME NEW s, s # {}
  PROVE  Picked(s) \in s
BY DEF Picked

\* There is a function that adds up the parts of a finite set.
LEMMA AddsUpExists ==
  ASSUME NEW f, NEW S, IsFiniteSet(S)
  PROVE  \E g : AddsUp(f, S, g)
<1> DEFINE Level(n) == {s \in SUBSET S : Cardinality(s) <= n}
           Upto(n, g) == g = [s \in Level(n) |->
                                 IF s = {} THEN 0 ELSE f[Picked(s)] + g[s \ {Picked(s)}]]
           Bad == {n \in Nat : ~\E g : Upto(n, g)}
<1>1. ASSUME NEW s \in SUBSET S
      PROVE  IsFiniteSet(s) /\ Cardinality(s) \in Nat /\ (Cardinality(s) = 0 => s = {})
  <2>1. IsFiniteSet(s)
    BY FS_Subset
  <2> QED BY <2>1, FS_CardinalityType, FS_EmptySet
<1>2. \E g : Upto(0, g)
  <2> DEFINE g == [s \in Level(0) |-> 0]
  <2>1. \A s \in Level(0) : s = {}
    BY <1>1
  <2>2. g = [s \in Level(0) |-> IF s = {} THEN 0 ELSE f[Picked(s)] + g[s \ {Picked(s)}]]
    BY <2>1
  <2> QED BY <2>2
<1>3. ASSUME NEW n \in Nat, NEW h, Upto(n, h)
      PROVE  \E g : Upto(n + 1, g)
  <2> DEFINE g == [s \in Level(n + 1) |->
                      IF s = {} THEN 0 ELSE f[Picked(s)] + h[s \ {Picked(s)}]]
  <2>1. ASSUME NEW s \in Level(n + 1), s # {}
        PROVE  h[s \ {Picked(s)}] = g[s \ {Picked(s)}]
    <3> DEFINE rest == s \ {Picked(s)}
    <3>1. Picked(s) \in s
      BY <2>1, PickedIsThere
    <3>2. Cardinality(rest) = Cardinality(s) - 1
      BY <1>1, <3>1, FS_RemoveElement
    <3>3. rest \in Level(n) /\ rest \in Level(n + 1)
      BY <1>1, <3>2
    <3> HIDE DEF rest
    <3>4. h[rest] = IF rest = {} THEN 0 ELSE f[Picked(rest)] + h[rest \ {Picked(rest)}]
      BY <1>3, <3>3
    <3>5. g[rest] = IF rest = {} THEN 0 ELSE f[Picked(rest)] + h[rest \ {Picked(rest)}]
      BY <3>3
    <3> QED BY <3>4, <3>5 DEF rest
  <2>2. g = [s \in Level(n + 1) |->
                IF s = {} THEN 0 ELSE f[Picked(s)] + g[s \ {Picked(s)}]]
    BY <2>1
  <2> QED BY <2>2
<1>4. Bad = {}
  <2> SUFFICES ASSUME Bad # {}
               PROVE  FALSE
    OBVIOUS
  <2> HIDE DEF Upto
  <2>1. PICK n \in Bad : \A m \in Bad : n <= m
    <3>1. Bad \in SUBSET Nat
      OBVIOUS
    <3> HIDE DEF Bad
    <3> QED BY <3>1, LeastOf
  <2>2. n \in Nat /\ n # 0
    BY <1>2
  <2>3. n - 1 \in Nat /\ ~(n <= n - 1) /\ (n - 1) + 1 = n
    BY <2>2
  <2>4. n - 1 \notin Bad
    BY <2>1, <2>3
  <2>5. \E g : Upto(n, g)
    <3>1. PICK h : Upto(n - 1, h)
      BY <2>3, <2>4
    <3>2. \E g : Upto((n - 1) + 1, g)
      BY <1>3, <2>3, <3>1
    <3> QED BY <2>3, <3>2
  <2>6. ~\E g : Upto(n, g)
    BY <2>1
  <2> QED BY <2>5, <2>6
<1>5. \E g : Upto(Cardinality(S), g)
  <2>1. Cardinality(S) \in Nat
    BY <1>1
  <2> HIDE DEF Upto
  <2> QED BY <1>4, <2>1
<1>6. Level(Cardinality(S)) = SUBSET S
  <2>1. ASSUME NEW s \in SUBSET S
        PROVE  Cardinality(s) <= Cardinality(S)
    BY FS_Subset
  <2> QED BY <2>1
<1> QED BY <1>5, <1>6 DEF AddsUp

\* So the fold's own function is one.
AddedUp(f, S) ==
    \A s \in SUBSET S :
        Iter(f, S)[s] = IF s = {} THEN 0 ELSE f[Picked(s)] + Iter(f, S)[s \ {Picked(s)}]

LEMMA IterAddsUp ==
  ASSUME NEW f, NEW S, IsFiniteSet(S)
  PROVE  AddedUp(f, S)
<1>1. AddsUp(f, S, Iter(f, S))
  BY AddsUpExists DEF Iter
<1> DEFINE g == Iter(f, S)
<1>2. AddsUp(f, S, g)
  BY <1>1
<1> HIDE DEF g
<1>3. \A s \in SUBSET S : g[s] = IF s = {} THEN 0 ELSE f[Picked(s)] + g[s \ {Picked(s)}]
  BY <1>2 DEF AddsUp
<1> QED BY <1>3 DEF g, AddedUp

\* The sum of a part is the same, whatever set it is taken as a part of, and
\* depends on the summands of the part only.
LEMMA SameTotal ==
  ASSUME NEW f, NEW g, NEW S, IsFiniteSet(S), NEW T, IsFiniteSet(T), T \subseteq S,
         \A x \in T : f[x] = g[x]
  PROVE  \A t \in SUBSET T : Iter(f, T)[t] = Iter(g, S)[t]
<1> DEFINE Good == {t \in SUBSET T : Iter(f, T)[t] = Iter(g, S)[t]}
<1>0. AddedUp(f, T) /\ AddedUp(g, S)
  BY IterAddsUp
<1>1. ASSUME NEW t \in SUBSET T, \A x \in t : t \ {x} \in Good
      PROVE  t \in Good
  <2> DEFINE ff == Iter(f, T)
             gg == Iter(g, S)
  <2>1. ff[t] = IF t = {} THEN 0 ELSE f[Picked(t)] + ff[t \ {Picked(t)}]
    BY <1>0 DEF AddedUp
  <2>2. gg[t] = IF t = {} THEN 0 ELSE g[Picked(t)] + gg[t \ {Picked(t)}]
    <3>1. t \in SUBSET S
      OBVIOUS
    <3> QED BY <1>0, <3>1 DEF AddedUp
  <2>3. t # {} => Picked(t) \in t
    BY PickedIsThere
  <2>4. t # {} => ff[t \ {Picked(t)}] = gg[t \ {Picked(t)}] /\ f[Picked(t)] = g[Picked(t)]
    BY <1>1, <2>3
  <2> HIDE DEF ff, gg
  <2>5. ff[t] = gg[t]
    BY <2>1, <2>2, <2>4
  <2> QED BY <2>5 DEF ff, gg
<1> HIDE DEF Good
<1>2. \A t \in SUBSET T : t \in Good
  BY <1>1, FinitePartsIn
<1> QED BY <1>2 DEF Good

LEMMA TotalOf ==
  ASSUME NEW f, NEW S, IsFiniteSet(S)
  PROVE  /\ SumOver(f, {}) = 0
         /\ S # {} => SumOver(f, S) = f[Picked(S)] + SumOver(f, S \ {Picked(S)})
<1>1. SumOver(f, {}) = 0
  <2>1. IsFiniteSet({})
    BY FS_EmptySet
  <2>2. Iter(f, {})[{}] = 0
    BY <2>1, IterAddsUp DEF AddedUp
  <2> QED BY <2>2 DEF SumOver
<1>2. ASSUME S # {}
      PROVE  SumOver(f, S) = f[Picked(S)] + SumOver(f, S \ {Picked(S)})
  <2> DEFINE rest == S \ {Picked(S)}
  <2>1. IsFiniteSet(rest) /\ rest \subseteq S
    BY FS_RemoveElement
  <2>2. Iter(f, rest)[rest] = Iter(f, S)[rest]
    <3> HIDE DEF rest
    <3>1. rest \in SUBSET rest
      OBVIOUS
    <3>2. \A t \in SUBSET rest : Iter(f, rest)[t] = Iter(f, S)[t]
      BY <2>1, SameTotal
    <3> QED BY <3>1, <3>2
  <2>3. S \in SUBSET S
    OBVIOUS
  <2>4. Iter(f, S)[S] = f[Picked(S)] + Iter(f, S)[rest]
    BY <1>2, <2>3, IterAddsUp DEF AddedUp
  <2> QED BY <2>2, <2>4 DEF SumOver
<1> QED BY <1>1, <1>2

\* Totals depend on the summands only.
LEMMA TotalsAgree ==
  ASSUME NEW f, NEW g, NEW S, IsFiniteSet(S), \A x \in S : f[x] = g[x]
  PROVE  SumOver(f, S) = SumOver(g, S)
<1>1. S \in SUBSET S /\ S \subseteq S
  OBVIOUS
<1>2. \A t \in SUBSET S : Iter(f, S)[t] = Iter(g, S)[t]
  BY <1>1, SameTotal
<1> QED BY <1>1, <1>2 DEF SumOver

LEMMA TotalIsInt ==
  ASSUME NEW f, NEW S, IsFiniteSet(S), \A x \in S : f[x] \in Int
  PROVE  \A t \in SUBSET S : SumOver(f, t) \in Int
<1> DEFINE Good == {t \in SUBSET S : SumOver(f, t) \in Int}
<1>1. ASSUME NEW t \in SUBSET S, \A x \in t : t \ {x} \in Good
      PROVE  t \in Good
  <2>1. IsFiniteSet(t)
    BY FS_Subset
  <2>2. CASE t = {}
    <3>1. SumOver(f, t) = 0
      BY <2>1, <2>2, TotalOf
    <3> QED BY <3>1
  <2>3. CASE t # {}
    <3>1. SumOver(f, t) = f[Picked(t)] + SumOver(f, t \ {Picked(t)})
      BY <2>1, <2>3, TotalOf
    <3>2. Picked(t) \in t
      BY <2>3, PickedIsThere
    <3>3. SumOver(f, t \ {Picked(t)}) \in Int /\ f[Picked(t)] \in Int
      BY <1>1, <3>2
    <3> QED BY <3>1, <3>3
  <2> QED BY <2>2, <2>3
<1> HIDE DEF Good
<1>2. \A t \in SUBSET S : t \in Good
  BY <1>1, FinitePartsIn
<1> QED BY <1>2 DEF Good

\* Any element may be taken first.
LEMMA TakeAny ==
  ASSUME NEW f, NEW S, IsFiniteSet(S), \A x \in S : f[x] \in Int, NEW x \in S
  PROVE  SumOver(f, S) = f[x] + SumOver(f, S \ {x})
<1> DEFINE Good == {t \in SUBSET S : \A y \in t : SumOver(f, t) = f[y] + SumOver(f, t \ {y})}
<1>1. ASSUME NEW t \in SUBSET S, \A y \in t : t \ {y} \in Good
      PROVE  t \in Good
  <2>1. IsFiniteSet(t)
    BY FS_Subset
  <2>2. ASSUME NEW y \in t
        PROVE  SumOver(f, t) = f[y] + SumOver(f, t \ {y})
    <3> DEFINE c == Picked(t)
    <3>1. SumOver(f, t) = f[c] + SumOver(f, t \ {c}) /\ c \in t
      BY <2>1, TotalOf, PickedIsThere
    <3> HIDE DEF c
    <3>2. CASE c = y
      BY <3>1, <3>2
    <3>3. CASE c # y
      <4>1. SumOver(f, t \ {c}) = f[y] + SumOver(f, (t \ {c}) \ {y})
        BY <1>1, <3>1, <3>3
      <4>2. SumOver(f, t \ {y}) = f[c] + SumOver(f, (t \ {y}) \ {c})
        BY <1>1, <3>1, <3>3
      <4>3. (t \ {c}) \ {y} = (t \ {y}) \ {c} /\ (t \ {y}) \ {c} \in SUBSET S
        OBVIOUS
      <4>4. SumOver(f, (t \ {y}) \ {c}) \in Int
        BY <4>3, TotalIsInt
      <4>5. PICK w \in Int : w = SumOver(f, (t \ {y}) \ {c})
        BY <4>4
      <4>6. PICK a \in Int, b \in Int : a = f[y] /\ b = f[c]
        BY <3>1
      <4>7. SumOver(f, t) = b + (a + w)
        BY <3>1, <4>1, <4>3, <4>5, <4>6
      <4>8. SumOver(f, t \ {y}) = b + w
        BY <4>2, <4>5, <4>6
      <4>9. b + (a + w) = a + (b + w)
        OBVIOUS
      <4> QED BY <4>6, <4>7, <4>8, <4>9
    <3> QED BY <3>2, <3>3
  <2> QED BY <2>2
<1> HIDE DEF Good
<1>2. S \in Good
  <2>1. S \in SUBSET S
    OBVIOUS
  <2>2. \A t \in SUBSET S : t \in Good
    BY <1>1, FinitePartsIn
  <2> QED BY <2>1, <2>2
<1> QED BY <1>2 DEF Good

\* What one summand does to the total.
LEMMA TotalChanges ==
  ASSUME NEW f, NEW g, NEW S, IsFiniteSet(S), \A y \in S : f[y] \in Int /\ g[y] \in Int,
         NEW x \in S, \A y \in S \ {x} : g[y] = f[y]
  PROVE  SumOver(g, S) = SumOver(f, S) + (g[x] - f[x])
<1>1. SumOver(f, S) = f[x] + SumOver(f, S \ {x}) /\ SumOver(g, S) = g[x] + SumOver(g, S \ {x})
  BY TakeAny
<1>2. IsFiniteSet(S \ {x}) /\ S \ {x} \in SUBSET S
  BY FS_RemoveElement
<1>3. SumOver(g, S \ {x}) = SumOver(f, S \ {x})
  <2> DEFINE R == S \ {x}
  <2>1. IsFiniteSet(R) /\ \A y \in R : g[y] = f[y]
    BY <1>2
  <2> HIDE DEF R
  <2>2. SumOver(g, R) = SumOver(f, R)
    BY <2>1, TotalsAgree
  <2> QED BY <2>2 DEF R
<1>4. PICK w \in Int : w = SumOver(f, S \ {x})
  BY <1>2, TotalIsInt
<1>5. PICK a \in Int, b \in Int : a = f[x] /\ b = g[x]
  OBVIOUS
<1>6. SumOver(f, S) = a + w /\ SumOver(g, S) = b + w
  BY <1>1, <1>3, <1>4, <1>5
<1> QED BY <1>5, <1>6

\* Smaller summands, smaller total.
LEMMA TotalMonotone ==
  ASSUME NEW f, NEW g, NEW S, IsFiniteSet(S),
         \A y \in S : f[y] \in Int /\ g[y] \in Int /\ f[y] <= g[y]
  PROVE  SumOver(f, S) <= SumOver(g, S)
<1> DEFINE Good == {t \in SUBSET S : SumOver(f, t) <= SumOver(g, t)}
<1>1. ASSUME NEW t \in SUBSET S, \A x \in t : t \ {x} \in Good
      PROVE  t \in Good
  <2>1. IsFiniteSet(t)
    BY FS_Subset
  <2>2. CASE t = {}
    <3>1. SumOver(f, {}) = 0 /\ SumOver(g, {}) = 0
      BY <2>1, <2>2, TotalOf
    <3> QED BY <2>2, <3>1
  <2>3. CASE t # {}
    <3>1. PICK c \in t : TRUE
      BY <2>3
    <3>2. SumOver(f, t) = f[c] + SumOver(f, t \ {c}) /\ SumOver(g, t) = g[c] + SumOver(g, t \ {c})
      BY <2>1, TakeAny
    <3>3. t \ {c} \in SUBSET S
      OBVIOUS
    <3>4. PICK v \in Int, w \in Int : v = SumOver(f, t \ {c}) /\ w = SumOver(g, t \ {c})
      BY <3>3, TotalIsInt
    <3>5. v <= w
      BY <1>1, <3>4
    <3>6. PICK a \in Int, b \in Int : a = f[c] /\ b = g[c] /\ a <= b
      OBVIOUS
    <3>7. SumOver(f, t) = a + v /\ SumOver(g, t) = b + w
      BY <3>2, <3>4, <3>6
    <3> QED BY <3>5, <3>6, <3>7
  <2> QED BY <2>2, <2>3
<1> HIDE DEF Good
<1>2. S \in Good
  <2>1. S \in SUBSET S
    OBVIOUS
  <2>2. \A t \in SUBSET S : t \in Good
    BY <1>1, FinitePartsIn
  <2> QED BY <2>1, <2>2
<1> QED BY <1>2 DEF Good

\* A total of nothing, and of numbers.
LEMMA TotalIsNat ==
  ASSUME NEW f, NEW S, IsFiniteSet(S), \A y \in S : f[y] \in Nat
  PROVE  SumOver(f, S) \in Nat
<1> DEFINE Good == {t \in SUBSET S : SumOver(f, t) \in Nat}
<1>1. ASSUME NEW t \in SUBSET S, \A x \in t : t \ {x} \in Good
      PROVE  t \in Good
  <2>1. IsFiniteSet(t)
    BY FS_Subset
  <2>2. CASE t = {}
    <3>1. SumOver(f, {}) = 0
      BY <2>1, <2>2, TotalOf
    <3> QED BY <2>2, <3>1
  <2>3. CASE t # {}
    <3>1. SumOver(f, t) = f[Picked(t)] + SumOver(f, t \ {Picked(t)})
      BY <2>1, <2>3, TotalOf
    <3>2. Picked(t) \in t
      BY <2>3, PickedIsThere
    <3>3. SumOver(f, t \ {Picked(t)}) \in Nat /\ f[Picked(t)] \in Nat
      BY <1>1, <3>2
    <3> QED BY <3>1, <3>3
  <2> QED BY <2>2, <2>3
<1> HIDE DEF Good
<1>2. S \in Good
  <2>1. S \in SUBSET S
    OBVIOUS
  <2>2. \A t \in SUBSET S : t \in Good
    BY <1>1, FinitePartsIn
  <2> QED BY <2>1, <2>2
<1> QED BY <1>2 DEF Good

LEMMA TotalOfZeros ==
  ASSUME NEW f, NEW S, IsFiniteSet(S), \A y \in S : f[y] = 0
  PROVE  SumOver(f, S) = 0
<1> DEFINE Good == {t \in SUBSET S : SumOver(f, t) = 0}
<1>1. ASSUME NEW t \in SUBSET S, \A x \in t : t \ {x} \in Good
      PROVE  t \in Good
  <2>1. IsFiniteSet(t)
    BY FS_Subset
  <2>2. CASE t = {}
    <3>1. SumOver(f, {}) = 0
      BY <2>1, <2>2, TotalOf
    <3> QED BY <2>2, <3>1
  <2>3. CASE t # {}
    <3>1. SumOver(f, t) = f[Picked(t)] + SumOver(f, t \ {Picked(t)})
      BY <2>1, <2>3, TotalOf
    <3>2. Picked(t) \in t
      BY <2>3, PickedIsThere
    <3>3. SumOver(f, t \ {Picked(t)}) = 0 /\ f[Picked(t)] = 0
      BY <1>1, <3>2
    <3> QED BY <3>1, <3>3
  <2> QED BY <2>2, <2>3
<1> HIDE DEF Good
<1>2. S \in Good
  <2>1. S \in SUBSET S
    OBVIOUS
  <2>2. \A t \in SUBSET S : t \in Good
    BY <1>1, FinitePartsIn
  <2> QED BY <2>1, <2>2
<1> QED BY <1>2 DEF Good
=================================================================================
