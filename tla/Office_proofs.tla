----------------------------- MODULE Office_proofs -----------------------------
(***************************************************************************)
(* Proofs about what the office keeps.                                     *)
(*                                                                         *)
(* Leader, for any users, talks, settings and files and any number of      *)
(* crashes and failed puts: what a talk with the Leader leaves behind      *)
(* stays, by way of the puts of the brain's document (which rise), the     *)
(* proposals' numbers, and the lines a turn has written so far.            *)
(* Society, for any agents, topics and dispatches: a privileged task stays *)
(* local, and a task runs on a grant that was in force at its check.       *)
(* Budget, for any days and questions: no answer is charged to a month     *)
(* twice.                                                                  *)
(* Providers, for any categories and adapters: who stands in is of the     *)
(* kind asked for.  Backups, for any kinds: what retention takes away is   *)
(* outnumbered by what is newer and kept, and a restore that says done has *)
(* restored.  Bundles, for any keys and saves: a bundle of the Postgres    *)
(* storage holds every document that lasted while it was made.             *)
(*                                                                         *)
(* At the end, that the office's behaviours are behaviours of these parts. *)
(***************************************************************************)
EXTENDS MCOffice, LazyStore_proofs

-----------------------------------------------------------------------------
(* Leader.                                                                 *)

USE LeaderAssumption

LeaderSpec == LeaderInit /\ [][LeaderNext]_leaderVars

Hubs == {"brain", "profile"}
SettingDocs == [Settings -> Nat]
Lines == Nat \X {"lawyer", "leader"}
Proposals == [id : Nat \ {0}, user : Users, setting : Settings]
Sensitivities == {"none", "normal", "privileged"}

TalkPcs == {"idle", "load", "put", "read", "answered", "remember"}
InTurn == {"read", "answered", "remember"}

TalkType ==
    [pc : TalkPcs, user : Users \cup {""}, setting : Settings \cup {""}, change : Nat,
     proposal : Nat, said : BOOLEAN, attached : SUBSET (Files \X Sensitivities),
     form : {"normal", "privileged"}, secret : BOOLEAN, turn : Nat, recalled : Seq(Lines)]

\* Who sets something names it, and waits for the first read of the profile only;
\* who asks something has a name, and nobody else recalls anything.
AtWork(talk) ==
    /\ talk.pc \in {"load", "put"} => talk.setting \in Settings
    /\ talk.pc = "load" => Document(talk.setting) = "profile"
    /\ talk.pc \in InTurn => talk.user \in Users
    /\ talk.pc \notin InTurn => talk.recalled = <<>>

LeaderTyped ==
    /\ hub \in [Hubs -> StoreType(SettingDocs, Talks)]
    /\ hub["brain"].loaded
    /\ pending \subseteq Proposals
    /\ talks \in [Talks -> TalkType]
    /\ \A t \in Talks : AtWork(talks[t])
    /\ records \in [Files -> Sensitivities]
    /\ memory \in [Users -> Seq(Lines)]
    /\ leader \in [proposals : Nat, changes : Nat, turns : Nat, uploads : Nat, faults : Nat,
                   done : SUBSET (Settings \X Nat \X Nat)]

\* A setting belongs to one of the two documents.
LEMMA TwoHubs ==
  ASSUME NEW s
  PROVE  Document(s) \in Hubs
BY DEF Document, Hubs

\* Nobody talks yet.
LEMMA IdleTalk ==
  /\ Idle \in TalkType /\ AtWork(Idle) /\ Idle.pc = "idle" /\ Idle.proposal = 0
  /\ Idle.recalled = <<>> /\ ~Idle.said /\ Idle.turn = 0 /\ Idle.attached = {}
<1>1. <<>> \in Seq(Lines)
  BY EmptySeq
<1>2. {} \in SUBSET (Files \X Sensitivities)
  OBVIOUS
<1> QED BY <1>1, <1>2 DEF Idle, TalkType, TalkPcs, AtWork, InTurn

\* A talk goes on.
LEMMA TalkGoes ==
  ASSUME NEW talk \in TalkType, NEW p \in TalkPcs
  PROVE  LET next == [talk EXCEPT !.pc = p]
         IN  /\ next \in TalkType /\ next.pc = p
             /\ next.user = talk.user /\ next.setting = talk.setting /\ next.change = talk.change
             /\ next.proposal = talk.proposal /\ next.recalled = talk.recalled
             /\ next.turn = talk.turn /\ next.said = talk.said
BY DEF TalkType

\* A talk that has changed a setting.
TalkChanged(talk, n) ==
    [talk EXCEPT !.pc = "put", !.change = n]

\* It is the same talk in all else.
LEMMA TalkChanges ==
  ASSUME NEW talk \in TalkType, NEW n \in Nat
  PROVE  /\ TalkChanged(talk, n) \in TalkType
         /\ TalkChanged(talk, n).pc = "put" /\ TalkChanged(talk, n).change = n
         /\ TalkChanged(talk, n).setting = talk.setting
         /\ TalkChanged(talk, n).proposal = talk.proposal
         /\ TalkChanged(talk, n).recalled = talk.recalled
<1>1. PICK mid : mid = [talk EXCEPT !.pc = "put"]
  OBVIOUS
<1>2. /\ mid \in TalkType /\ mid.pc = "put" /\ mid.setting = talk.setting
      /\ mid.proposal = talk.proposal /\ mid.recalled = talk.recalled
  BY <1>1 DEF TalkType, TalkPcs
<1>3. TalkChanged(talk, n) = [mid EXCEPT !.change = n]
  BY <1>1 DEF TalkType, TalkChanged
<1> QED BY <1>2, <1>3 DEF TalkType

\* The talks, one of them replaced.
LEMMA OneTalk ==
  ASSUME NEW t \in Talks, NEW talk \in TalkType, Becomes(t, talk), LeaderTyped
  PROVE  /\ talks' \in [Talks -> TalkType]
         /\ talks'[t] = talk
         /\ \A q \in Talks : q # t => talks'[q] = talks[q]
BY DEF Becomes, LeaderTyped

-----------------------------------------------------------------------------
(* The brain's settings.  Later documents have later changes: of two puts  *)
(* on their way the second, and of all documents the one in memory.        *)

Rising(st, n) ==
    \A s \in Settings :
        /\ st.disk[s] <= st.mem[s] /\ st.mem[s] <= n
        /\ \A i \in 1..Len(st.puts) :
               /\ st.disk[s] <= st.puts[i].doc[s] /\ st.puts[i].doc[s] <= st.mem[s]
               /\ \A j \in 1..Len(st.puts) : i < j => st.puts[i].doc[s] <= st.puts[j].doc[s]

\* A document in which a talk's change, or one after it, is made.
Made(talk, doc) ==
    /\ talk.pc = "put" /\ talk.setting \in Settings /\ Document(talk.setting) = "brain"
    /\ talk.change <= doc[talk.setting]

\* A put on its way, or acknowledged, is the one put of the talk that waits for it.
SettingReported(st, ts) ==
    /\ \A i \in 1..Len(st.puts) :
           /\ Made(ts[st.puts[i].fact], st.puts[i].doc)
           /\ st.puts[i].fact \notin st.acked
           /\ \A j \in 1..Len(st.puts) : i # j => st.puts[i].fact # st.puts[j].fact
    /\ \A t \in st.acked : Made(ts[t], st.disk)

SettingStored(st, done) ==
    \A d \in done : Document(d[1]) = "brain" => d[2] <= st.disk[d[1]]

BrainInv ==
    /\ Rising(hub["brain"], leader.changes)
    /\ SettingReported(hub["brain"], talks)
    /\ SettingStored(hub["brain"], leader.done)

-----------------------------------------------------------------------------

\* Numbers in order stay in order.
LEMMA InOrderOf ==
  ASSUME NEW x \in Nat, NEW y \in Nat, NEW z \in Nat, x <= y, y <= z
  PROVE  x <= z
OBVIOUS

\* The values a document of the brain gives.
LEMMA ValuesAre ==
  ASSUME NEW st \in StoreType(SettingDocs, Talks), NEW s \in Settings
  PROVE  /\ st.disk[s] \in Nat /\ st.mem[s] \in Nat /\ Len(st.puts) \in Nat
         /\ \A i \in 1..Len(st.puts) : st.puts[i].doc[s] \in Nat /\ st.puts[i].fact \in Talks
<1>1. /\ st.disk \in SettingDocs /\ st.mem \in SettingDocs /\ Len(st.puts) \in Nat
      /\ \A i \in 1..Len(st.puts) : st.puts[i].doc \in SettingDocs /\ st.puts[i].fact \in Talks
  BY StoreFields
<1> QED BY <1>1 DEF SettingDocs

\* The first put lands or is refused.
LEMMA BrainSettles ==
  ASSUME NEW st \in StoreType(SettingDocs, Talks), NEW st2 \in Settles(st, TRUE),
         NEW n \in Nat, NEW ts \in [Talks -> TalkType],
         NEW done \in SUBSET (Settings \X Nat \X Nat),
         Rising(st, n), SettingReported(st, ts), SettingStored(st, done)
  PROVE  Rising(st2, n) /\ SettingReported(st2, ts) /\ SettingStored(st2, done)
<1>1. Len(st.puts) >= 1 /\ (st2 = Land(st, 1) \/ st2 = Refuse(st, 1))
  BY FirstIsDue
<1>2. PICK m \in Nat : m = Len(st.puts) /\ 1 \in 1..m
  BY <1>1, StoreFields
<1>3. /\ st2.mem = st.mem /\ Len(st2.puts) = m - 1
      /\ \A k \in 1..(m - 1) : st2.puts[k] = st.puts[k + 1] /\ k + 1 \in 1..m
      /\ \/ st2.disk = st.disk /\ st2.acked = st.acked
         \/ st2.disk = st.puts[1].doc /\ st2.acked = st.acked \cup {st.puts[1].fact}
  <2>1. CASE st2 = Land(st, 1)
    <3>1. /\ Land(st, 1).mem = st.mem /\ Len(Land(st, 1).puts) = Len(st.puts) - 1
          /\ \A k \in 1..(Len(st.puts) - 1) :
                 Land(st, 1).puts[k] = st.puts[k + 1] /\ k + 1 \in 1..Len(st.puts)
          /\ Land(st, 1).disk = st.puts[1].doc
          /\ Land(st, 1).acked = st.acked \cup {st.puts[1].fact}
      BY <1>1, LandedStore
    <3> QED BY <1>2, <2>1, <3>1
  <2>2. CASE st2 = Refuse(st, 1)
    BY <1>1, <1>2, <2>2, RefusedStore
  <2> QED BY <1>1, <2>1, <2>2
<1>4. \A i, j \in 1..(m - 1) : /\ i < j => i + 1 < j + 1
                               /\ i # j => i + 1 # j + 1
                               /\ 1 < i + 1
  BY <1>2
<1>5. Rising(st2, n)
  <2>1. ASSUME NEW s \in Settings
        PROVE  /\ st2.disk[s] <= st2.mem[s] /\ st2.mem[s] <= n
               /\ \A i \in 1..Len(st2.puts) :
                      /\ st2.disk[s] <= st2.puts[i].doc[s] /\ st2.puts[i].doc[s] <= st2.mem[s]
                      /\ \A j \in 1..Len(st2.puts) : i < j => st2.puts[i].doc[s] <= st2.puts[j].doc[s]
    <3>1. /\ st.disk[s] <= st.mem[s] /\ st.mem[s] <= n
          /\ \A i \in 1..m :
                 /\ st.disk[s] <= st.puts[i].doc[s] /\ st.puts[i].doc[s] <= st.mem[s]
                 /\ \A j \in 1..m : i < j => st.puts[i].doc[s] <= st.puts[j].doc[s]
      BY <1>2 DEF Rising
    <3>2. st2.disk[s] <= st2.mem[s]
      BY <1>2, <1>3, <3>1
    <3>3. ASSUME NEW i \in 1..(m - 1)
          PROVE  /\ st2.disk[s] <= st2.puts[i].doc[s] /\ st2.puts[i].doc[s] <= st2.mem[s]
                 /\ \A j \in 1..(m - 1) : i < j => st2.puts[i].doc[s] <= st2.puts[j].doc[s]
      <4>1. st2.puts[i] = st.puts[i + 1] /\ i + 1 \in 1..m /\ 1 < i + 1
        BY <1>3, <1>4
      <4>2. \A j \in 1..(m - 1) : i < j => st2.puts[i].doc[s] <= st2.puts[j].doc[s]
        BY <1>3, <1>4, <3>1, <4>1
      <4>3. st2.disk[s] <= st2.puts[i].doc[s]
        BY <1>2, <1>3, <3>1, <4>1
      <4> QED BY <1>3, <3>1, <4>1, <4>2, <4>3
    <3> QED BY <1>3, <3>1, <3>2, <3>3
  <2> QED BY <2>1 DEF Rising
<1>6. SettingReported(st2, ts)
  <2>1. ASSUME NEW i \in 1..(m - 1)
        PROVE  /\ Made(ts[st2.puts[i].fact], st2.puts[i].doc)
               /\ st2.puts[i].fact \notin st2.acked
               /\ \A j \in 1..(m - 1) : i # j => st2.puts[i].fact # st2.puts[j].fact
    <3>1. st2.puts[i] = st.puts[i + 1] /\ i + 1 \in 1..m /\ i + 1 # 1
      BY <1>3, <1>4
    <3>2. /\ Made(ts[st.puts[i + 1].fact], st.puts[i + 1].doc)
          /\ st.puts[i + 1].fact \notin st.acked
          /\ \A j \in 1..m : i + 1 # j => st.puts[i + 1].fact # st.puts[j].fact
      BY <1>2, <3>1 DEF SettingReported
    <3>3. st2.puts[i].fact \notin st2.acked
      BY <1>2, <1>3, <3>1, <3>2
    <3>4. \A j \in 1..(m - 1) : i # j => st2.puts[i].fact # st2.puts[j].fact
      BY <1>3, <1>4, <3>1, <3>2
    <3> QED BY <3>1, <3>2, <3>3, <3>4
  <2>2. ASSUME NEW t \in st2.acked
        PROVE  Made(ts[t], st2.disk)
    <3>1. CASE st2.disk = st.disk /\ st2.acked = st.acked
      BY <2>2, <3>1 DEF SettingReported
    <3>2. CASE st2.disk = st.puts[1].doc /\ st2.acked = st.acked \cup {st.puts[1].fact}
      <4>1. CASE t = st.puts[1].fact
        BY <1>2, <3>2, <4>1 DEF SettingReported
      <4>2. CASE t \in st.acked
        <5>1. Made(ts[t], st.disk)
          BY <4>2 DEF SettingReported
        <5>2. st.acked \subseteq Talks
          BY StoreFields
        <5>3. PICK s \in Settings : s = ts[t].setting /\ Document(s) = "brain"
                                  /\ ts[t].pc = "put" /\ ts[t].change <= st.disk[s]
          BY <5>1 DEF Made
        <5>4. ts[t].change \in Nat
          BY <4>2, <5>2 DEF TalkType
        <5>5. st.disk[s] \in Nat /\ st2.disk[s] \in Nat /\ st.disk[s] <= st2.disk[s]
          <6>1. /\ st.disk[s] \in Nat /\ st.puts[1].doc[s] \in Nat
                /\ st.disk[s] <= st.puts[1].doc[s]
            BY <1>2, ValuesAre DEF Rising
          <6> QED BY <3>2, <6>1
        <5>6. ts[t].change <= st2.disk[s]
          BY <5>3, <5>4, <5>5, InOrderOf, Zenon
        <5> QED BY <5>3, <5>6 DEF Made
      <4> QED BY <2>2, <3>2, <4>1, <4>2
    <3> QED BY <1>3, <3>1, <3>2
  <2> QED BY <1>3, <2>1, <2>2 DEF SettingReported
<1>7. ASSUME NEW s \in Settings
      PROVE  st.disk[s] \in Nat /\ st2.disk[s] \in Nat /\ st.disk[s] <= st2.disk[s]
  <2>1. /\ st.disk[s] \in Nat /\ st.puts[1].doc[s] \in Nat
        /\ st.disk[s] <= st.puts[1].doc[s]
    BY <1>2, ValuesAre DEF Rising
  <2> QED BY <1>3, <2>1
<1>8. SettingStored(st2, done)
  <2>1. ASSUME NEW d \in done, Document(d[1]) = "brain"
        PROVE  d[2] <= st2.disk[d[1]]
    <3>1. PICK s, x : s = d[1] /\ x = d[2] /\ s \in Settings /\ x \in Nat
      OBVIOUS
    <3>2. x <= st.disk[s]
      BY <2>1, <3>1 DEF SettingStored
    <3>3. st.disk[s] \in Nat /\ st2.disk[s] \in Nat /\ st.disk[s] <= st2.disk[s]
      BY <1>7, <3>1
    <3>4. x <= st2.disk[s]
      BY <3>1, <3>2, <3>3, InOrderOf, Zenon
    <3> QED BY <3>1, <3>4
  <2> QED BY <2>1 DEF SettingStored
<1> QED BY <1>5, <1>6, <1>8

\* A setting is changed in memory, and put.
LEMMA BrainSaves ==
  ASSUME NEW st \in StoreType(SettingDocs, Talks), st.loaded,
         NEW n \in Nat, NEW ts \in [Talks -> TalkType], NEW ts2 \in [Talks -> TalkType],
         NEW done \in SUBSET (Settings \X Nat \X Nat),
         NEW t \in Talks, ts[t].pc # "put",
         ts2[t].pc = "put", ts2[t].setting \in Settings, Document(ts2[t].setting) = "brain",
         ts2[t].change = n + 1,
         \A q \in Talks : q # t => ts2[q] = ts[q],
         Rising(st, n), SettingReported(st, ts), SettingStored(st, done)
  PROVE  LET st2 == Save(st, [st.mem EXCEPT ![ts2[t].setting] = n + 1], t)
         IN  /\ st2 \in StoreType(SettingDocs, Talks) /\ st2.loaded
             /\ Rising(st2, n + 1) /\ SettingReported(st2, ts2) /\ SettingStored(st2, done)
<1>0. PICK m \in Nat, s \in Settings : m = Len(st.puts) /\ s = ts2[t].setting
  BY StoreFields
<1>1. PICK doc : doc = [st.mem EXCEPT ![s] = n + 1]
  OBVIOUS
<1>2. PICK st2 : st2 = Save(st, doc, t)
  OBVIOUS
<1>3. /\ doc \in SettingDocs /\ doc[s] = n + 1
      /\ \A r \in Settings : r # s => doc[r] = st.mem[r]
  <2>1. st.mem \in SettingDocs
    BY StoreFields
  <2> QED BY <1>1, <2>1 DEF SettingDocs
<1>4. /\ st2 \in StoreType(SettingDocs, Talks) /\ st2.loaded
      /\ st2.mem = doc /\ st2.disk = st.disk /\ st2.acked = st.acked
      /\ Len(st2.puts) = m + 1
      /\ \A i \in 1..m : st2.puts[i] = st.puts[i]
      /\ st2.puts[m + 1].doc = doc /\ st2.puts[m + 1].fact = t
  <2>1. st2 \in StoreType(SettingDocs, Talks) /\ SavedAs(st, st2, doc, t)
    BY <1>2, <1>3, SavedStore
  <2>2. \A x : x = [doc |-> doc, fact |-> t] => x.doc = doc /\ x.fact = t
    OBVIOUS
  <2> QED BY <1>0, <2>1, <2>2 DEF SavedAs
<1>5. \A i \in 1..(m + 1) : i \in 1..m \/ i = m + 1
  OBVIOUS
<1>6. Rising(st2, n + 1)
  <2>1. ASSUME NEW r \in Settings
        PROVE  /\ st2.disk[r] <= st2.mem[r] /\ st2.mem[r] <= n + 1
               /\ \A i \in 1..(m + 1) :
                      /\ st2.disk[r] <= st2.puts[i].doc[r] /\ st2.puts[i].doc[r] <= st2.mem[r]
                      /\ \A j \in 1..(m + 1) : i < j => st2.puts[i].doc[r] <= st2.puts[j].doc[r]
    <3>1. /\ st.disk[r] <= st.mem[r] /\ st.mem[r] <= n
          /\ st.disk[r] \in Nat /\ st.mem[r] \in Nat
          /\ \A i \in 1..m :
                 /\ st.puts[i].doc[r] \in Nat
                 /\ st.disk[r] <= st.puts[i].doc[r] /\ st.puts[i].doc[r] <= st.mem[r]
                 /\ \A j \in 1..m : i < j => st.puts[i].doc[r] <= st.puts[j].doc[r]
      BY <1>0, ValuesAre DEF Rising
    <3>2. st.mem[r] <= doc[r] /\ doc[r] <= n + 1 /\ doc[r] \in Nat
      BY <1>3, <3>1
    <3>3. st2.disk[r] <= st2.mem[r] /\ st2.mem[r] <= n + 1
      <4>1. st.disk[r] <= doc[r]
        BY <3>1, <3>2
      <4> QED BY <1>4, <3>2, <4>1
    <3>4. ASSUME NEW i \in 1..m
          PROVE  /\ st2.disk[r] <= st2.puts[i].doc[r] /\ st2.puts[i].doc[r] <= doc[r]
                 /\ \A j \in 1..m : i < j => st2.puts[i].doc[r] <= st2.puts[j].doc[r]
      <4>1. st2.puts[i] = st.puts[i] /\ \A j \in 1..m : st2.puts[j] = st.puts[j]
        BY <1>4
      <4>2. st.puts[i].doc[r] <= doc[r]
        BY <3>1, <3>2
      <4>3. /\ st.disk[r] <= st.puts[i].doc[r]
            /\ \A j \in 1..m : i < j => st.puts[i].doc[r] <= st.puts[j].doc[r]
        BY <3>1
      <4> QED BY <1>4, <4>1, <4>2, <4>3
    <3>5. st2.puts[m + 1].doc[r] = doc[r] /\ st2.disk[r] <= doc[r] /\ doc[r] <= doc[r]
      <4>1. st.disk[r] <= doc[r] /\ doc[r] <= doc[r]
        BY <3>1, <3>2
      <4>2. st2.puts[m + 1].doc = doc /\ st2.disk = st.disk
        BY <1>4
      <4> QED BY <4>1, <4>2
    <3>6. \A j \in 1..(m + 1) : ~(m + 1 < j)
      OBVIOUS
    <3>7. st2.mem = doc
      BY <1>4
    <3>8. ASSUME NEW i \in 1..(m + 1)
          PROVE  /\ st2.disk[r] <= st2.puts[i].doc[r] /\ st2.puts[i].doc[r] <= doc[r]
                 /\ \A j \in 1..(m + 1) : i < j => st2.puts[i].doc[r] <= st2.puts[j].doc[r]
      <4>1. CASE i \in 1..m
        BY <1>5, <3>4, <3>5, <4>1
      <4>2. CASE i = m + 1
        BY <3>5, <3>6, <4>2
      <4> QED BY <1>5, <4>1, <4>2
    <3> QED BY <3>3, <3>7, <3>8
  <2> QED BY <1>4, <2>1 DEF Rising
<1>7. \A i \in 1..m : st.puts[i].fact # t /\ st.puts[i].fact \in Talks
  <2>1. ASSUME NEW i \in 1..m
        PROVE  st.puts[i].fact # t /\ st.puts[i].fact \in Talks
    <3>1. ts[st.puts[i].fact].pc = "put"
      BY <1>0 DEF SettingReported, Made
    <3> QED BY <1>0, <3>1, StoreFields
  <2> QED BY <2>1
<1>8. t \notin st.acked /\ st.acked \subseteq Talks
  BY StoreFields DEF SettingReported, Made
<1>9. SettingReported(st2, ts2)
  <2>1. ASSUME NEW i \in 1..m
        PROVE  /\ Made(ts2[st2.puts[i].fact], st2.puts[i].doc)
               /\ st2.puts[i].fact \notin st2.acked
               /\ \A j \in 1..m : i # j => st2.puts[i].fact # st2.puts[j].fact
               /\ st2.puts[i].fact # t
    <3>1. /\ Made(ts[st.puts[i].fact], st.puts[i].doc)
          /\ st.puts[i].fact \notin st.acked
          /\ \A j \in 1..m : i # j => st.puts[i].fact # st.puts[j].fact
      BY <1>0 DEF SettingReported
    <3>2. /\ st2.puts[i] = st.puts[i] /\ st2.acked = st.acked
          /\ \A j \in 1..m : st2.puts[j] = st.puts[j]
      BY <1>4
    <3>3. st.puts[i].fact # t /\ ts2[st.puts[i].fact] = ts[st.puts[i].fact]
      BY <1>7
    <3> QED BY <3>1, <3>2, <3>3
  <2>2. Made(ts2[t], doc)
    BY <1>0, <1>3 DEF Made
  <2>3. ASSUME NEW q \in st2.acked
        PROVE  Made(ts2[q], st2.disk)
    <3>1. Made(ts[q], st.disk) /\ ts2[q] = ts[q]
      BY <1>4, <1>8, <2>3 DEF SettingReported
    <3> QED BY <1>4, <3>1
  <2>4. st2.puts[m + 1].doc = doc /\ st2.puts[m + 1].fact = t /\ t \notin st2.acked
    BY <1>4, <1>8
  <2>5. ASSUME NEW i \in 1..(m + 1)
        PROVE  /\ Made(ts2[st2.puts[i].fact], st2.puts[i].doc)
               /\ st2.puts[i].fact \notin st2.acked
               /\ \A j \in 1..(m + 1) : i # j => st2.puts[i].fact # st2.puts[j].fact
    <3>1. CASE i \in 1..m
      BY <1>5, <2>1, <2>4, <3>1
    <3>2. CASE i = m + 1
      BY <1>5, <2>1, <2>2, <2>4, <3>2
    <3> QED BY <1>5, <3>1, <3>2
  <2>6. Len(st2.puts) = m + 1
    BY <1>4
  <2> QED BY <2>3, <2>5, <2>6 DEF SettingReported
<1>10. SettingStored(st2, done)
  BY <1>4 DEF SettingStored
<1> QED BY <1>0, <1>1, <1>2, <1>4, <1>6, <1>9, <1>10

\* A talk that waits for nothing of the brain's may do what it likes.
LEMMA OthersTalk ==
  ASSUME NEW st \in StoreType(SettingDocs, Talks), NEW ts, NEW ts2, NEW t,
         \A i \in 1..Len(st.puts) : st.puts[i].fact # t,
         t \notin st.acked,
         \A q \in Talks : q # t => ts2[q] = ts[q],
         SettingReported(st, ts)
  PROVE  SettingReported(st, ts2)
<1>1. /\ \A i \in 1..Len(st.puts) : st.puts[i].fact \in Talks
      /\ st.acked \subseteq Talks
  BY StoreFields
<1> QED BY <1>1 DEF SettingReported

\* Neither does a talk that is at no put of the brain's.
LEMMA WaitsForNothing ==
  ASSUME NEW st, NEW ts, NEW t, SettingReported(st, ts),
         ts[t].pc # "put" \/ Document(ts[t].setting) # "brain"
  PROVE  t \notin st.acked /\ \A i \in 1..Len(st.puts) : st.puts[i].fact # t
BY DEF SettingReported, Made

\* The answer: the talk is over, and what it says is stored.
LEMMA BrainAnswers ==
  ASSUME NEW st \in StoreType(SettingDocs, Talks), NEW n, NEW ts, NEW ts2,
         NEW t \in st.acked, NEW done, NEW proposal,
         \A q \in Talks : q # t => ts2[q] = ts[q],
         Rising(st, n), SettingReported(st, ts), SettingStored(st, done)
  PROVE  LET st2 == [st EXCEPT !.acked = @ \ {t}]
         IN  /\ st2 \in StoreType(SettingDocs, Talks) /\ st2.loaded = st.loaded
             /\ Rising(st2, n) /\ SettingReported(st2, ts2) /\ SettingStored(st2, done)
             /\ SettingStored(st2, done \cup {<<ts[t].setting, ts[t].change, proposal>>})
<1>1. PICK st2 : st2 = [st EXCEPT !.acked = @ \ {t}]
  OBVIOUS
<1>2. /\ st2 \in StoreType(SettingDocs, Talks) /\ st2.loaded = st.loaded
      /\ st2.mem = st.mem /\ st2.disk = st.disk /\ st2.puts = st.puts
      /\ st2.acked = st.acked \ {t}
  BY <1>1 DEF StoreType
<1>3. Rising(st2, n)
  BY <1>2 DEF Rising
<1>4. SettingReported(st2, ts)
  BY <1>2 DEF SettingReported
<1>5. \A i \in 1..Len(st2.puts) : st2.puts[i].fact # t
  BY <1>2 DEF SettingReported
<1>6. SettingReported(st2, ts2)
  <2>1. st2 \in StoreType(SettingDocs, Talks) /\ t \notin st2.acked
    BY <1>2
  <2> QED BY <1>4, <1>5, <2>1, OthersTalk
<1>7. Made(ts[t], st.disk)
  BY DEF SettingReported
<1>8. SettingStored(st2, done)
  BY <1>2 DEF SettingStored
<1>9. SettingStored(st2, done \cup {<<ts[t].setting, ts[t].change, proposal>>})
  BY <1>2, <1>7 DEF SettingStored, Made
<1> QED BY <1>1, <1>2, <1>3, <1>6, <1>8, <1>9

\* The next boot reads what was stored.
LEMMA BrainRestarts ==
  ASSUME NEW st \in StoreType(SettingDocs, Talks), NEW none \in SettingDocs, NEW n \in Nat, NEW ts,
         NEW done, Rising(st, n), SettingStored(st, done)
  PROVE  LET st2 == Load([Crash(st, none) EXCEPT !.acked = {}])
         IN  /\ st2 \in StoreType(SettingDocs, Talks) /\ st2.loaded
             /\ Rising(st2, n) /\ SettingReported(st2, ts) /\ SettingStored(st2, done)
<1>1. PICK st1, st2 : st1 = [Crash(st, none) EXCEPT !.acked = {}] /\ st2 = Load(st1)
  OBVIOUS
<1>2. /\ Crash(st, none) \in StoreType(SettingDocs, Talks)
      /\ Crash(st, none).disk = st.disk /\ Len(Crash(st, none).puts) = 0
  BY CrashedStore
<1>3. /\ st1 \in StoreType(SettingDocs, Talks) /\ st1.disk = st.disk
      /\ Len(st1.puts) = 0 /\ st1.acked = {}
  BY <1>1, <1>2 DEF StoreType
<1>4. /\ st2 \in StoreType(SettingDocs, Talks) /\ st2.loaded
      /\ st2.mem = st.disk /\ st2.disk = st.disk /\ Len(st2.puts) = 0 /\ st2.acked = {}
  <2>1. /\ Load(st1) \in StoreType(SettingDocs, Talks) /\ Load(st1).loaded
        /\ Load(st1).mem = st1.disk /\ Load(st1).disk = st1.disk
        /\ Load(st1).puts = st1.puts /\ Load(st1).acked = st1.acked
    BY <1>3, LoadedStore
  <2> QED BY <1>1, <1>3, <2>1
<1>5. Rising(st2, n)
  <2>1. ASSUME NEW s \in Settings
        PROVE  st.disk[s] <= st.disk[s] /\ st.disk[s] <= n
    BY ValuesAre DEF Rising
  <2> QED BY <1>4, <2>1 DEF Rising
<1>6. SettingReported(st2, ts)
  BY <1>4 DEF SettingReported
<1>7. SettingStored(st2, done)
  BY <1>4 DEF SettingStored
<1> QED BY <1>1, <1>4, <1>5, <1>6, <1>7

-----------------------------------------------------------------------------
(* The steps of the talks that set something, whoever asked for it.        *)

\* A proposal has an id of its own, and one that was answered is pending no more.
PendingInv ==
    /\ \A p \in pending : p.id <= leader.proposals
    /\ \A t \in Talks : talks[t].proposal <= leader.proposals
    /\ \A d \in leader.done : d[3] <= leader.proposals
    /\ DoneIsDone

\* The talk as it is when it waits for the profile, or for its put.
Setter(t, next, p) ==
    /\ next \in TalkType /\ AtWork(next)
    /\ next.pc = p
    /\ next.proposal <= leader.proposals
    /\ talks[t].pc \in {"idle", "load"}
    /\ Becomes(t, next)
    /\ UNCHANGED <<pending, records, memory>>

Queues(t, next) ==
    /\ Setter(t, next, "load")
    /\ UNCHANGED <<hub, leader>>

Sets(t, next, store) ==
    /\ Setter(t, next, "put")
    /\ next.change = leader.changes + 1
    /\ \/ store = hub[Document(next.setting)]
       \/ Document(next.setting) = "profile" /\ store = Load(hub["profile"])
    /\ store.loaded
    /\ hub' = [hub EXCEPT ![Document(next.setting)] =
                  Save(store, [store.mem EXCEPT ![next.setting] = leader.changes + 1], t)]
    /\ leader' = [leader EXCEPT !.changes = leader.changes + 1]

\* The change itself.
LEMMA ChangeSets ==
  ASSUME LeaderTyped, NEW t \in Talks, NEW talk \in TalkType, NEW store,
         talk.setting \in Settings, talk.recalled = <<>>, talk.proposal <= leader.proposals,
         talks[t].pc \in {"idle", "load"}, store.loaded,
         \/ store = hub[Document(talk.setting)]
         \/ Document(talk.setting) = "profile" /\ store = Load(hub["profile"]),
         Changes(t, talk, store), UNCHANGED <<pending, records, memory>>
  PROVE  \E next : Sets(t, next, store)
<1>1. PICK n \in Nat : n = leader.changes
  BY DEF LeaderTyped
<1>2. PICK k \in Nat : k = n + 1
  OBVIOUS
<1>3. PICK next : /\ next = TalkChanged(talk, k)
                  /\ next \in TalkType /\ next.pc = "put" /\ next.change = k
                  /\ next.setting = talk.setting
                  /\ next.proposal = talk.proposal /\ next.recalled = talk.recalled
  BY <1>2, TalkChanges
<1>4. AtWork(next)
  BY <1>3 DEF AtWork, InTurn
<1>5. /\ Becomes(t, next)
      /\ leader' = [leader EXCEPT !.changes = leader.changes + 1]
      /\ hub' = [hub EXCEPT ![Document(talk.setting)] =
                    Save(store, [store.mem EXCEPT ![talk.setting] = leader.changes + 1], t)]
  BY <1>1, <1>2, <1>3 DEF Changes, TalkChanged
<1>6. Setter(t, next, "put")
  BY <1>3, <1>4, <1>5 DEF Setter
<1> QED BY <1>1, <1>2, <1>3, <1>5, <1>6 DEF Sets

\* A request begins.
LEMMA RequestSets ==
  ASSUME LeaderTyped, NEW t \in Talks, NEW talk \in TalkType,
         talk.setting \in Settings, talk.recalled = <<>>, talk.proposal <= leader.proposals,
         Starts(t, talk)
  PROVE  \E next : Queues(t, next) \/ \E store : Sets(t, next, store)
<1>1. PICK store : store = hub[Document(talk.setting)]
  OBVIOUS
<1>2. talks[t].pc \in {"idle", "load"} /\ UNCHANGED <<pending, records, memory>>
  BY IdleTalk DEF Starts
<1>3. CASE store.loaded
  <2>1. Changes(t, talk, store)
    BY <1>1, <1>3 DEF Starts
  <2> QED BY <1>1, <1>2, <1>3, <2>1, ChangeSets
<1>4. CASE ~store.loaded
  <2>1. PICK next : next = [talk EXCEPT !.pc = "load"]
    OBVIOUS
  <2>2. Becomes(t, next) /\ UNCHANGED <<hub, leader>>
    BY <1>1, <1>4, <2>1 DEF Starts
  <2>3. /\ next \in TalkType /\ next.pc = "load" /\ next.setting = talk.setting
        /\ next.proposal = talk.proposal /\ next.recalled = <<>>
    BY <2>1, TalkGoes DEF TalkPcs
  <2>4. Document(talk.setting) = "profile"
    BY <1>1, <1>4 DEF LeaderTyped, Document
  <2>5. AtWork(next)
    BY <2>3, <2>4 DEF AtWork, InTurn
  <2>6. Setter(t, next, "load")
    BY <1>2, <2>2, <2>3, <2>5 DEF Setter
  <2> QED BY <2>2, <2>6 DEF Queues
<1> QED BY <1>3, <1>4

\* What the requests ask for: by hand, with the button, or with a yes.
Wishes(u, s, p) ==
    {[Idle EXCEPT !.user = u, !.setting = s],
     [Idle EXCEPT !.user = u, !.setting = s, !.proposal = p],
     [Idle EXCEPT !.user = u, !.setting = s, !.proposal = p, !.said = TRUE]}

\* Each is a request to set that.
LEMMA Asking ==
  ASSUME NEW u \in Users, NEW s \in Settings, NEW p \in Nat, NEW talk \in Wishes(u, s, p)
  PROVE  /\ talk \in TalkType /\ talk.setting = s /\ talk.recalled = <<>>
         /\ talk.proposal \in {0, p}
<1>1. PICK q \in {0, p}, b \in BOOLEAN :
          talk = [pc |-> "idle", user |-> u, setting |-> s, change |-> 0, proposal |-> q,
                  said |-> b, attached |-> {}, form |-> "normal", secret |-> FALSE, turn |-> 0,
                  recalled |-> <<>>]
  <2>1. CASE talk = [Idle EXCEPT !.user = u, !.setting = s]
    BY <2>1 DEF Idle
  <2>2. CASE talk = [Idle EXCEPT !.user = u, !.setting = s, !.proposal = p]
    BY <2>2 DEF Idle
  <2>3. CASE talk = [Idle EXCEPT !.user = u, !.setting = s, !.proposal = p, !.said = TRUE]
    BY <2>3 DEF Idle
  <2> QED BY <2>1, <2>2, <2>3 DEF Wishes
<1>2. <<>> \in Seq(Lines)
  BY EmptySeq
<1>3. {} \in SUBSET (Files \X Sensitivities)
  OBVIOUS
<1>4. q \in Nat /\ u \in Users \cup {""} /\ s \in Settings \cup {""}
  <2>1. q \in Nat
    BY <1>1
  <2>2. u \in Users \cup {""} /\ s \in Settings \cup {""}
    BY Zenon
  <2> QED BY <2>1, <2>2
<1>5. talk.setting = s /\ talk.recalled = <<>> /\ talk.proposal = q
  BY <1>1
<1>6. talk \in TalkType
  BY <1>1, <1>2, <1>3, <1>4 DEF TalkType, TalkPcs
<1> QED BY <1>5, <1>6

\* All of them together.
LEMMA SettingSteps ==
  ASSUME LeaderTyped, PendingInv, NEW t \in Talks,
         \/ \E user \in Users :
                \/ SaysYes(t, user)
                \/ \E setting \in Settings : SetByHand(t, user, setting)
                \/ \E id \in 1..MaxProposals : Accepts(t, user, id)
         \/ ProfileRead(t)
  PROVE  \E next : Queues(t, next) \/ \E store : Sets(t, next, store)
<1>0. leader.proposals \in Nat
  BY DEF LeaderTyped
<1>1. ASSUME NEW user \in Users, NEW p \in PendingOf(user)
      PROVE  p.id \in Nat /\ p.setting \in Settings /\ p.id <= leader.proposals
  BY DEF PendingOf, PendingInv, LeaderTyped, Proposals
<1>2. ASSUME NEW user \in Users, NEW s \in Settings, NEW p \in Nat, p <= leader.proposals,
             NEW talk \in Wishes(user, s, p), Starts(t, talk)
      PROVE  \E next : Queues(t, next) \/ \E store : Sets(t, next, store)
  <2>1. /\ talk \in TalkType /\ talk.setting = s /\ talk.recalled = <<>>
        /\ talk.proposal \in {0, p}
    BY <1>2, Asking
  <2>2. talk.proposal <= leader.proposals
    BY <1>0, <1>2, <2>1
  <2> QED BY <1>2, <2>1, <2>2, RequestSets
<1>3. ASSUME NEW user \in Users, SaysYes(t, user)
      PROVE  \E next : Queues(t, next) \/ \E store : Sets(t, next, store)
  <2>1. PICK p \in PendingOf(user) :
            Starts(t, [Idle EXCEPT !.user = user, !.setting = p.setting,
                                   !.proposal = p.id, !.said = TRUE])
    BY <1>3 DEF SaysYes
  <2> QED BY <1>1, <1>2, <2>1 DEF Wishes
<1>4. ASSUME NEW user \in Users, NEW setting \in Settings, SetByHand(t, user, setting)
      PROVE  \E next : Queues(t, next) \/ \E store : Sets(t, next, store)
  <2>1. 0 \in Nat /\ 0 <= leader.proposals
    BY <1>0
  <2> QED BY <1>2, <1>4, <2>1 DEF SetByHand, Wishes
<1>5. ASSUME NEW user \in Users, NEW id, Accepts(t, user, id)
      PROVE  \E next : Queues(t, next) \/ \E store : Sets(t, next, store)
  <2>1. PICK p \in PendingOf(user) :
            /\ p.id = id
            /\ Starts(t, [Idle EXCEPT !.user = user, !.setting = p.setting, !.proposal = id])
    BY <1>5 DEF Accepts
  <2> QED BY <1>1, <1>2, <2>1 DEF Wishes
<1>6. ASSUME ProfileRead(t)
      PROVE  \E next : Queues(t, next) \/ \E store : Sets(t, next, store)
  <2>1. PICK talk \in TalkType : talk = talks[t] /\ AtWork(talk)
    BY DEF LeaderTyped
  <2>2. /\ talk.pc = "load" /\ Changes(t, talk, Load(hub["profile"]))
        /\ UNCHANGED <<pending, records, memory>>
    BY <1>6, <2>1 DEF ProfileRead
  <2>3. /\ talk.setting \in Settings /\ Document(talk.setting) = "profile"
        /\ talk.recalled = <<>> /\ talk.proposal <= leader.proposals
    BY <2>1, <2>2 DEF AtWork, InTurn, PendingInv
  <2>4. Load(hub["profile"]).loaded
    <3>1. hub["profile"] \in StoreType(SettingDocs, Talks)
      BY DEF LeaderTyped, Hubs
    <3> QED BY <3>1, LoadedStore
  <2> QED BY <2>1, <2>2, <2>3, <2>4, ChangeSets
<1> QED BY <1>3, <1>4, <1>5, <1>6

-----------------------------------------------------------------------------
(* The steps of a turn.                                                    *)

SameTurn(next, talk) ==
    /\ next.turn = talk.turn /\ next.user = talk.user /\ next.attached = talk.attached
    /\ next.proposal = talk.proposal

\* The talk as a step of its turn leaves it.
TalkGoesOn(t, next) ==
    /\ next \in TalkType /\ AtWork(next)
    /\ Becomes(t, next)
    /\ UNCHANGED <<hub, pending, records>>

\* The question and the records it holds.
LEMMA AskGoes ==
  ASSUME LeaderTyped, NEW t \in Talks, NEW user \in Users, NEW files \in SUBSET Files,
         NEW form \in {"normal", "privileged"}, Ask(t, user, files, form)
  PROVE  /\ \E next : /\ TalkGoesOn(t, next)
                      /\ next.pc = "read" /\ ~next.said /\ next.recalled = <<>>
                      /\ next.turn = leader.turns + 1 /\ next.proposal = 0
         /\ talks[t] = Idle
         /\ leader' = [leader EXCEPT !.turns = leader.turns + 1]
         /\ UNCHANGED memory
<1>1. PICK n, held : n = leader.turns + 1
                     /\ held = {<<f, records[f]>> : f \in {g \in files : records[g] # "none"}}
  OBVIOUS
<1>2. n \in Nat
  BY <1>1 DEF LeaderTyped
<1>3. held \in SUBSET (Files \X Sensitivities)
  BY <1>1 DEF LeaderTyped
<1>4. <<>> \in Seq(Lines) /\ {} \in SUBSET (Files \X Sensitivities) /\ user \in Users \cup {""}
  <2>1. user \in Users \cup {""}
    BY Zenon
  <2> QED BY <2>1, EmptySeq
<1>5. PICK mid : mid = [Idle EXCEPT !.pc = "read", !.user = user, !.form = form]
  OBVIOUS
<1>6. /\ mid \in TalkType /\ mid.pc = "read" /\ mid.user = user /\ ~mid.said
      /\ mid.recalled = <<>> /\ mid.proposal = 0
  <2>1. mid = [pc |-> "read", user |-> user, setting |-> "", change |-> 0,
               proposal |-> 0, said |-> FALSE, attached |-> {}, form |-> form,
               secret |-> FALSE, turn |-> 0, recalled |-> <<>>]
    BY <1>5 DEF Idle
  <2> QED BY <1>4, <2>1 DEF TalkType, TalkPcs
<1>7. PICK more : more = [mid EXCEPT !.turn = n]
  OBVIOUS
<1>8. /\ more \in TalkType /\ more.pc = "read" /\ more.user = user /\ ~more.said
      /\ more.recalled = <<>> /\ more.proposal = 0 /\ more.turn = n
  BY <1>2, <1>6, <1>7 DEF TalkType
<1>9. PICK next : next = [more EXCEPT !.attached = held]
  OBVIOUS
<1>10. /\ next \in TalkType /\ next.pc = "read" /\ next.user = user /\ ~next.said
       /\ next.recalled = <<>> /\ next.proposal = 0 /\ next.turn = n
  BY <1>3, <1>8, <1>9 DEF TalkType
<1>11. Becomes(t, next)
  <2>1. [Idle EXCEPT !.pc = "read", !.user = user, !.form = form, !.turn = n, !.attached = held]
            = next
    BY <1>5, <1>7, <1>9 DEF Idle
  <2> QED BY <1>1, <2>1 DEF Ask
<1>12. AtWork(next)
  BY <1>10 DEF AtWork, InTurn
<1>13. UNCHANGED <<hub, pending, records, memory>>
  BY DEF Ask
<1>14. TalkGoesOn(t, next)
  BY <1>10, <1>11, <1>12, <1>13 DEF TalkGoesOn
<1>15. talks[t] = Idle /\ leader' = [leader EXCEPT !.turns = leader.turns + 1]
  BY DEF Ask
<1> QED BY <1>1, <1>10, <1>13, <1>14, <1>15

\* Its dispatch.
LEMMA DispatchGoes ==
  ASSUME LeaderTyped, NEW t \in Talks, Dispatch(t)
  PROVE  /\ \E next : /\ TalkGoesOn(t, next)
                      /\ next.pc = "answered" /\ SameTurn(next, talks[t])
                      /\ next.said = talks[t].said /\ next.recalled = talks[t].recalled
                      /\ (\E a \in next.attached : a[2] = "privileged") => next.secret
         /\ talks[t].pc = "read"
         /\ UNCHANGED <<leader, memory>>
<1>1. PICK talk \in TalkType : talk = talks[t] /\ AtWork(talk)
  BY DEF LeaderTyped
<1> DEFINE b == "privileged" \in OnRecordThen(talk) \cup {talk.form}
<1>2. /\ b \in BOOLEAN
      /\ "privileged" \in OnRecordThen(talk) => b
      /\ Becomes(t, [talk EXCEPT !.pc = "answered", !.secret = b])
  BY <1>1 DEF Dispatch
<1> HIDE DEF b
<1>3. PICK next : next = [talk EXCEPT !.pc = "answered", !.secret = b]
  OBVIOUS
<1>4. Becomes(t, next) /\ talk.pc = "read" /\ UNCHANGED <<hub, pending, records, memory, leader>>
  BY <1>1, <1>2, <1>3 DEF Dispatch
<1>5. /\ next \in TalkType /\ next.pc = "answered" /\ next.secret = b
      /\ next.turn = talk.turn /\ next.user = talk.user /\ next.attached = talk.attached
      /\ next.proposal = talk.proposal /\ next.said = talk.said /\ next.recalled = talk.recalled
  <2>1. PICK mid : mid = [talk EXCEPT !.pc = "answered"]
    OBVIOUS
  <2>2. /\ mid \in TalkType /\ mid.pc = "answered"
        /\ mid.turn = talk.turn /\ mid.user = talk.user /\ mid.attached = talk.attached
        /\ mid.proposal = talk.proposal /\ mid.said = talk.said /\ mid.recalled = talk.recalled
    BY <2>1 DEF TalkType, TalkPcs
  <2>3. ASSUME NEW v \in BOOLEAN
        PROVE  LET n == [mid EXCEPT !.secret = v]
               IN  /\ n \in TalkType /\ n.pc = "answered" /\ n.secret = v
                   /\ n.turn = talk.turn /\ n.user = talk.user /\ n.attached = talk.attached
                   /\ n.proposal = talk.proposal /\ n.said = talk.said
                   /\ n.recalled = talk.recalled
    BY <2>2 DEF TalkType
  <2>4. next = [mid EXCEPT !.secret = b]
    BY <1>3, <2>1 DEF TalkType
  <2> QED BY <1>2, <2>3, <2>4, Zenon
<1>6. AtWork(next)
  BY <1>1, <1>4, <1>5 DEF AtWork, InTurn
<1>7. (\E a \in next.attached : a[2] = "privileged") => next.secret
  BY <1>2, <1>5 DEF OnRecordThen
<1>8. TalkGoesOn(t, next)
  BY <1>4, <1>5, <1>6 DEF TalkGoesOn
<1>9. SameTurn(next, talk)
  BY <1>5 DEF SameTurn
<1> QED BY <1>1, <1>4, <1>5, <1>7, <1>8, <1>9

-----------------------------------------------------------------------------
(* The lines of the short memory.                                          *)

LEMMA PlaceBehind ==
  ASSUME NEW n \in Nat, NEW since \in 1..(n + 1), NEW i \in 1..(n + 1 - since)
  PROVE  i \in 1..(n - since + 1) /\ since + i - 1 = i + since - 1 /\ i + since - 1 \in 1..n
OBVIOUS

\* The end of a list of lines, from the line at since.
LEMMA EndOf ==
  ASSUME NEW lines \in Seq(Lines), NEW since \in 1..(Len(lines) + 1)
  PROVE  LET kept == SubSeq(lines, since, Len(lines))
         IN  /\ kept \in Seq(Lines)
             /\ Len(kept) = Len(lines) + 1 - since
             /\ \A i \in 1..Len(kept) : kept[i] = lines[i + since - 1]
                                        /\ i + since - 1 \in 1..Len(lines)
<1>1. PICK n \in Nat : n = Len(lines)
  BY LenProperties
<1>2. PICK kept : kept = SubSeq(lines, since, n)
  OBVIOUS
<1>3. \A i \in since..n : lines[i] \in Lines
  <2>1. \A i \in since..n : i \in 1..n
    BY <1>1
  <2> QED BY <1>1, <2>1, ElementOfSeq
<1>4. /\ kept \in Seq(Lines)
      /\ Len(kept) = IF since <= n THEN n - since + 1 ELSE 0
      /\ \A i \in 1..(n - since + 1) : kept[i] = lines[since + i - 1]
  <2>1. since \in Int /\ n \in Int
    BY <1>1
  <2> HIDE DEF Lines
  <2>2. /\ SubSeq(lines, since, n) \in Seq(Lines)
        /\ Len(SubSeq(lines, since, n)) = IF since <= n THEN n - since + 1 ELSE 0
        /\ \A i \in 1..(n - since + 1) : SubSeq(lines, since, n)[i] = lines[since + i - 1]
    BY <1>3, <2>1, SubSeqProperties
  <2> QED BY <1>2, <2>2
<1>5. Len(kept) = n + 1 - since
  BY <1>1, <1>4
<1>6. ASSUME NEW i \in 1..Len(kept)
      PROVE  kept[i] = lines[i + since - 1] /\ i + since - 1 \in 1..n
  <2>1. since \in 1..(n + 1) /\ i \in 1..(n + 1 - since)
    BY <1>1, <1>5
  <2>2. i \in 1..(n - since + 1) /\ since + i - 1 = i + since - 1 /\ i + since - 1 \in 1..n
    BY <2>1, PlaceBehind
  <2> QED BY <1>4, <2>2
<1> QED BY <1>1, <1>2, <1>4, <1>5, <1>6

\* What is remembered of the turns before, to be written with a line more.
LEMMA ReadGoes ==
  ASSUME LeaderTyped, NEW t \in Talks, NEW since, ReadMemory(t, since)
  PROVE  /\ \E next : /\ TalkGoesOn(t, next)
                      /\ next.pc = "remember" /\ SameTurn(next, talks[t])
                      /\ next.said = talks[t].said /\ next.secret = talks[t].secret
                      /\ \E user \in Users :
                             /\ since \in 1..(Len(memory[user]) + 1)
                             /\ next.recalled = SubSeq(memory[user], since, Len(memory[user]))
         /\ talks[t].pc = "answered"
         /\ UNCHANGED <<leader, memory>>
<1>1. PICK talk \in TalkType : talk = talks[t] /\ AtWork(talk)
  BY DEF LeaderTyped
<1>2. /\ talk.pc = "answered" /\ since \in 1..(Len(memory[talk.user]) + 1)
      /\ Becomes(t, [talk EXCEPT !.pc = "remember", !.recalled = Recalled(talk.user, since)])
      /\ UNCHANGED <<hub, pending, records, memory, leader>>
  BY <1>1 DEF ReadMemory
<1>3. talk.user \in Users
  BY <1>1, <1>2 DEF AtWork, InTurn
<1>4. PICK kept : kept = SubSeq(memory[talk.user], since, Len(memory[talk.user]))
  OBVIOUS
<1>5. kept \in Seq(Lines) /\ kept = Recalled(talk.user, since)
  <2>1. memory[talk.user] \in Seq(Lines)
    BY <1>3 DEF LeaderTyped
  <2> QED BY <1>2, <1>4, <2>1, EndOf DEF Recalled
<1>6. PICK next : next = [talk EXCEPT !.pc = "remember", !.recalled = kept]
  OBVIOUS
<1>7. /\ next \in TalkType /\ next.pc = "remember" /\ next.recalled = kept
      /\ next.turn = talk.turn /\ next.user = talk.user /\ next.attached = talk.attached
      /\ next.proposal = talk.proposal /\ next.said = talk.said /\ next.secret = talk.secret
  <2>1. PICK mid : mid = [talk EXCEPT !.pc = "remember"]
    OBVIOUS
  <2>2. /\ mid \in TalkType /\ mid.pc = "remember"
        /\ mid.turn = talk.turn /\ mid.user = talk.user /\ mid.attached = talk.attached
        /\ mid.proposal = talk.proposal /\ mid.said = talk.said /\ mid.secret = talk.secret
    BY <2>1 DEF TalkType, TalkPcs
  <2>3. next = [mid EXCEPT !.recalled = kept]
    BY <1>6, <2>1 DEF TalkType
  <2> QED BY <1>5, <2>2, <2>3 DEF TalkType
<1>8. AtWork(next)
  BY <1>3, <1>7 DEF AtWork, InTurn
<1>9. TalkGoesOn(t, next)
  BY <1>2, <1>5, <1>6, <1>7, <1>8 DEF TalkGoesOn
<1>10. SameTurn(next, talk)
  BY <1>7 DEF SameTurn
<1> QED BY <1>1, <1>2, <1>3, <1>4, <1>7, <1>9, <1>10

\* The line is written: the lawyer's, then the Leader's.
LEMMA RememberGoes ==
  ASSUME LeaderTyped, NEW t \in Talks, Remember(t)
  PROVE  /\ \E next : /\ TalkGoesOn(t, next)
                      /\ \/ talks[t].said /\ next = Idle
                         \/ /\ ~talks[t].said /\ next.pc = "answered" /\ next.said
                            /\ SameTurn(next, talks[t]) /\ next.secret = talks[t].secret
                            /\ next.recalled = <<>>
         /\ talks[t].pc = "remember" /\ talks[t].user \in Users
         /\ memory' = [memory EXCEPT ![talks[t].user] =
                          LastLines(Append(talks[t].recalled,
                                           <<talks[t].turn,
                                             IF talks[t].said THEN "leader" ELSE "lawyer">>))]
         /\ UNCHANGED leader
<1>1. PICK talk \in TalkType : talk = talks[t] /\ AtWork(talk)
  BY DEF LeaderTyped
<1>2. /\ talk.pc = "remember"
      /\ memory' = [memory EXCEPT ![talk.user] =
                      LastLines(Append(talk.recalled,
                                       <<talk.turn, IF talk.said THEN "leader" ELSE "lawyer">>))]
      /\ UNCHANGED <<hub, pending, records, leader>>
  BY <1>1 DEF Remember
<1>3. talk.user \in Users
  BY <1>1, <1>2 DEF AtWork, InTurn
<1>4. CASE talk.said
  <2>1. Becomes(t, Idle)
    BY <1>1, <1>4 DEF Remember
  <2>2. TalkGoesOn(t, Idle)
    BY <1>2, <2>1, IdleTalk DEF TalkGoesOn
  <2> QED BY <1>1, <1>2, <1>3, <1>4, <2>2
<1>5. CASE ~talk.said
  <2>1. PICK next : next = [talk EXCEPT !.pc = "answered", !.said = TRUE, !.recalled = <<>>]
    OBVIOUS
  <2>2. Becomes(t, next)
    BY <1>1, <1>5, <2>1 DEF Remember
  <2>3. PICK mid : mid = [talk EXCEPT !.pc = "answered"]
    OBVIOUS
  <2>4. /\ mid \in TalkType /\ mid.pc = "answered"
        /\ mid.turn = talk.turn /\ mid.user = talk.user /\ mid.attached = talk.attached
        /\ mid.proposal = talk.proposal /\ mid.secret = talk.secret
    BY <2>3 DEF TalkType, TalkPcs
  <2>5. PICK more : more = [mid EXCEPT !.said = TRUE]
    OBVIOUS
  <2>6. /\ more \in TalkType /\ more.pc = "answered" /\ more.said
        /\ more.turn = talk.turn /\ more.user = talk.user /\ more.attached = talk.attached
        /\ more.proposal = talk.proposal /\ more.secret = talk.secret
    BY <2>4, <2>5 DEF TalkType
  <2>7. next = [more EXCEPT !.recalled = <<>>]
    BY <2>1, <2>3, <2>5 DEF TalkType
  <2>8. <<>> \in Seq(Lines)
    BY EmptySeq
  <2>9. /\ next \in TalkType /\ next.pc = "answered" /\ next.said
        /\ next.turn = talk.turn /\ next.user = talk.user /\ next.attached = talk.attached
        /\ next.proposal = talk.proposal /\ next.secret = talk.secret /\ next.recalled = <<>>
    BY <2>6, <2>7, <2>8 DEF TalkType
  <2>10. AtWork(next)
    BY <1>3, <2>9 DEF AtWork, InTurn
  <2>11. TalkGoesOn(t, next)
    BY <1>2, <2>2, <2>9, <2>10 DEF TalkGoesOn
  <2>12. SameTurn(next, talk)
    BY <2>9 DEF SameTurn
  <2> QED BY <1>1, <1>2, <1>3, <1>5, <2>9, <2>11, <2>12
<1> QED BY <1>4, <1>5

-----------------------------------------------------------------------------
(* Settings and proposals, step by step.                                   *)

SettingsInv ==
    LeaderTyped /\ BrainInv /\ PendingInv

Counts == [proposals : Nat, changes : Nat, turns : Nat, uploads : Nat, faults : Nat,
           done : SUBSET (Settings \X Nat \X Nat)]

\* The counters that no proposal and no change moves.
LEMMA OtherCounts ==
  ASSUME NEW c \in Counts,
         NEW c2 \in {c, [c EXCEPT !.turns = c.turns + 1], [c EXCEPT !.uploads = c.uploads + 1],
                     [c EXCEPT !.faults = c.faults + 1]}
  PROVE  /\ c2 \in Counts
         /\ c2.changes = c.changes /\ c2.proposals = c.proposals /\ c2.done = c.done
BY DEF Counts

\* One talk goes on, and nothing of the settings or proposals moves.
LEMMA TalkKeeps ==
  ASSUME SettingsInv, NEW t \in Talks, talks[t].pc # "put",
         NEW next \in TalkType, AtWork(next), Becomes(t, next),
         next.proposal <= leader.proposals,
         UNCHANGED <<hub, pending, records>>,
         memory' \in [Users -> Seq(Lines)],
         leader' \in Counts,
         leader'.changes = leader.changes, leader'.proposals = leader.proposals,
         leader'.done = leader.done
  PROVE  SettingsInv'
<1>1. /\ talks' \in [Talks -> TalkType]
      /\ talks'[t] = next
      /\ \A q \in Talks : q # t => talks'[q] = talks[q]
  BY OneTalk DEF SettingsInv
<1>2. \A q \in Talks : AtWork(talks[q]) /\ talks[q].proposal <= leader.proposals
  BY DEF SettingsInv, LeaderTyped, PendingInv
<1>3. \A q \in Talks : AtWork(talks'[q]) /\ talks'[q].proposal <= leader.proposals
  BY <1>1, <1>2
<1>4. LeaderTyped'
  <2>1. \A q \in Talks : AtWork(talks[q])'
    BY <1>3 DEF AtWork, Document, InTurn
  <2> QED BY <1>1, <2>1 DEF SettingsInv, LeaderTyped, Counts
<1>5. BrainInv'
  <2>1. hub["brain"] \in StoreType(SettingDocs, Talks)
    BY DEF SettingsInv, LeaderTyped, Hubs
  <2>2. /\ Rising(hub["brain"], leader.changes) /\ SettingReported(hub["brain"], talks)
        /\ SettingStored(hub["brain"], leader.done)
    BY DEF SettingsInv, BrainInv
  <2>3. t \notin hub["brain"].acked
        /\ \A i \in 1..Len(hub["brain"].puts) : hub["brain"].puts[i].fact # t
    BY <2>2, WaitsForNothing
  <2>4. SettingReported(hub["brain"], talks')
    <3>1. PICK st, ts, ts2 : st = hub["brain"] /\ ts = talks /\ ts2 = talks'
      OBVIOUS
    <3>2. /\ SettingReported(st, ts) /\ st \in StoreType(SettingDocs, Talks)
          /\ t \notin st.acked /\ \A i \in 1..Len(st.puts) : st.puts[i].fact # t
      BY <2>1, <2>2, <2>3, <3>1
    <3>3. \A q \in Talks : q # t => ts2[q] = ts[q]
      BY <1>1, <3>1
    <3>4. SettingReported(st, ts2)
      BY <3>2, <3>3, OthersTalk
    <3> QED BY <3>1, <3>4
  <2>5. /\ Rising(hub'["brain"], leader'.changes) /\ SettingReported(hub'["brain"], talks')
        /\ SettingStored(hub'["brain"], leader'.done)
    BY <2>2, <2>4
  <2> QED BY <2>5 DEF BrainInv, Rising, SettingReported, Made, SettingStored, Document
<1>6. PendingInv'
  BY <1>3 DEF SettingsInv, PendingInv, DoneIsDone
<1> QED BY <1>4, <1>5, <1>6 DEF SettingsInv

\* A talk waits for the profile.
LEMMA QueueKeeps ==
  ASSUME SettingsInv, NEW t \in Talks, NEW next, Queues(t, next)
  PROVE  SettingsInv'
<1>1. leader' = leader /\ leader \in Counts /\ memory' \in [Users -> Seq(Lines)]
  BY DEF Queues, Setter, SettingsInv, LeaderTyped, Counts
<1> QED BY <1>1, TalkKeeps DEF Queues, Setter

\* A change is made and put.
LEMMA SetKeeps ==
  ASSUME SettingsInv, NEW t \in Talks, NEW next, NEW store, Sets(t, next, store)
  PROVE  SettingsInv'
<1>1. /\ talks' \in [Talks -> TalkType]
      /\ talks'[t] = next
      /\ \A q \in Talks : q # t => talks'[q] = talks[q]
  BY OneTalk DEF SettingsInv, Sets, Setter
<1>2. /\ next \in TalkType /\ AtWork(next) /\ next.pc = "put" /\ next.setting \in Settings
      /\ next.proposal <= leader.proposals
      /\ talks[t].pc # "put"
      /\ UNCHANGED <<pending, records, memory>>
  BY DEF Sets, Setter, AtWork
<1>3. PICK n \in Nat, s \in Settings, doc \in Hubs :
          n = leader.changes /\ s = next.setting /\ doc = Document(s)
  BY <1>2, TwoHubs DEF SettingsInv, LeaderTyped
<1>4. PICK st2 : st2 = Save(store, [store.mem EXCEPT ![s] = n + 1], t)
  OBVIOUS
<1>5. /\ next.change = n + 1
      /\ store.loaded
      /\ \/ store = hub[doc]
         \/ doc = "profile" /\ store = Load(hub["profile"])
      /\ hub' = [hub EXCEPT ![doc] = st2]
      /\ leader' = [leader EXCEPT !.changes = n + 1]
  BY <1>3, <1>4 DEF Sets
<1>6. /\ hub \in [Hubs -> StoreType(SettingDocs, Talks)] /\ hub["brain"].loaded
      /\ leader \in Counts
  BY DEF SettingsInv, LeaderTyped, Counts
<1>7. store \in StoreType(SettingDocs, Talks)
  <2>1. Load(hub["profile"]) \in StoreType(SettingDocs, Talks)
    BY <1>6, LoadedStore DEF Hubs
  <2> QED BY <1>5, <1>6, <2>1
<1>8. st2 \in StoreType(SettingDocs, Talks) /\ st2.loaded
  <2>1. [store.mem EXCEPT ![s] = n + 1] \in SettingDocs
    <3>1. store.mem \in SettingDocs
      BY <1>7, StoreFields
    <3> QED BY <3>1 DEF SettingDocs
  <2>2. /\ st2 \in StoreType(SettingDocs, Talks)
        /\ SavedAs(store, st2, [store.mem EXCEPT ![s] = n + 1], t)
    BY <1>4, <1>7, <2>1, SavedStore
  <2> QED BY <1>5, <2>2 DEF SavedAs
<1>9. /\ hub' \in [Hubs -> StoreType(SettingDocs, Talks)]
      /\ hub'[doc] = st2
      /\ \A d \in Hubs : d # doc => hub'[d] = hub[d]
  BY <1>5, <1>6, <1>8
<1>10. /\ leader' \in Counts
       /\ leader'.changes = n + 1 /\ leader'.proposals = leader.proposals
       /\ leader'.done = leader.done
  <2>1. n + 1 \in Nat
    OBVIOUS
  <2> QED BY <1>5, <1>6, <2>1 DEF Counts
<1>11. /\ Rising(hub["brain"], n) /\ SettingReported(hub["brain"], talks)
       /\ SettingStored(hub["brain"], leader.done)
       /\ talks \in [Talks -> TalkType]
       /\ leader.done \in SUBSET (Settings \X Nat \X Nat)
  BY <1>3, <1>6 DEF SettingsInv, BrainInv, LeaderTyped, Counts
<1>12. /\ Rising(hub'["brain"], n + 1) /\ SettingReported(hub'["brain"], talks')
       /\ SettingStored(hub'["brain"], leader.done) /\ hub'["brain"].loaded
  <2>1. CASE doc = "brain"
    <3>1. store = hub["brain"]
      BY <1>5, <2>1
    <3>2. st2 = Save(store, [store.mem EXCEPT ![talks'[t].setting] = n + 1], t)
      BY <1>1, <1>3, <1>4
    <3>3. /\ talks'[t].pc = "put" /\ talks'[t].setting \in Settings
          /\ Document(talks'[t].setting) = "brain" /\ talks'[t].change = n + 1
      BY <1>1, <1>2, <1>3, <1>5, <2>1
    <3>4. /\ st2.loaded /\ Rising(st2, n + 1) /\ SettingReported(st2, talks')
          /\ SettingStored(st2, leader.done)
      BY <1>1, <1>2, <1>5, <1>7, <1>11, <3>1, <3>2, <3>3, BrainSaves
    <3> QED BY <1>9, <2>1, <3>4
  <2>2. CASE doc # "brain"
    <3>1. hub'["brain"] = hub["brain"] /\ hub["brain"] \in StoreType(SettingDocs, Talks)
      BY <1>6, <1>9, <2>2 DEF Hubs
    <3>2. SettingReported(hub["brain"], talks')
      <4>1. PICK st, ts, ts2 : st = hub["brain"] /\ ts = talks /\ ts2 = talks'
        OBVIOUS
      <4>2. SettingReported(st, ts) /\ ts[t].pc # "put"
        BY <1>2, <1>11, <4>1
      <4>3. t \notin st.acked /\ \A i \in 1..Len(st.puts) : st.puts[i].fact # t
        BY <4>2, WaitsForNothing
      <4>4. \A q \in Talks : q # t => ts2[q] = ts[q]
        BY <1>1, <4>1
      <4>5. st \in StoreType(SettingDocs, Talks)
        BY <3>1, <4>1
      <4>6. SettingReported(st, ts2)
        BY <4>2, <4>3, <4>4, <4>5, OthersTalk
      <4> QED BY <4>1, <4>6
    <3>3. Rising(hub["brain"], n + 1)
      <4>1. \A x \in Nat : x <= n => x <= n + 1
        OBVIOUS
      <4> QED BY <1>11, <3>1, <4>1, ValuesAre DEF Rising
    <3> QED BY <1>6, <1>11, <3>1, <3>2, <3>3
  <2> QED BY <2>1, <2>2
<1>13. BrainInv'
  BY <1>10, <1>12 DEF BrainInv, Rising, SettingReported, Made, SettingStored, Document
<1>14. \A q \in Talks : AtWork(talks'[q]) /\ talks'[q].proposal <= leader.proposals
  BY <1>1, <1>2 DEF SettingsInv, LeaderTyped, PendingInv
<1>15. LeaderTyped'
  <2>1. \A q \in Talks : AtWork(talks[q])'
    BY <1>14 DEF AtWork, Document, InTurn
  <2> QED BY <1>1, <1>2, <1>9, <1>10, <1>12, <2>1 DEF SettingsInv, LeaderTyped, Counts
<1>16. PendingInv'
  BY <1>2, <1>10, <1>14 DEF SettingsInv, PendingInv, DoneIsDone
<1> QED BY <1>13, <1>15, <1>16 DEF SettingsInv

\* The answer: the change is stored, and its proposal is pending no more.
LEMMA AppliedKeeps ==
  ASSUME SettingsInv, NEW t \in Talks, Applied(t)
  PROVE  SettingsInv'
<1>1. PICK talk \in TalkType : talk = talks[t]
  BY DEF SettingsInv, LeaderTyped
<1>2. /\ talk.pc = "put" /\ t \in hub[Document(talk.setting)].acked
      /\ hub' = [hub EXCEPT ![Document(talk.setting)].acked = @ \ {t}]
      /\ pending' = Without(talk.proposal)
      /\ \/ leader' = leader
         \/ leader' = [leader EXCEPT !.done =
                           leader.done \cup {<<talk.setting, talk.change, talk.proposal>>}]
      /\ Becomes(t, Idle)
      /\ UNCHANGED <<records, memory>>
  BY <1>1 DEF Applied
<1>3. /\ talks' \in [Talks -> TalkType] /\ talks'[t] = Idle
      /\ \A q \in Talks : q # t => talks'[q] = talks[q]
  BY <1>2, OneTalk, IdleTalk DEF SettingsInv
<1>4. /\ hub \in [Hubs -> StoreType(SettingDocs, Talks)] /\ hub["brain"].loaded
      /\ leader \in Counts /\ talk.setting \in Settings
      /\ talk.change \in Nat /\ talk.proposal \in Nat /\ talk.proposal <= leader.proposals
  BY <1>1, <1>2 DEF SettingsInv, LeaderTyped, Counts, AtWork, PendingInv, TalkType
<1>5. PICK doc \in Hubs : doc = Document(talk.setting)
  BY TwoHubs
<1>6. PICK d : d = <<talk.setting, talk.change, talk.proposal>>
  OBVIOUS
<1>7. PICK st, st2 : st = hub[doc] /\ st2 = [st EXCEPT !.acked = @ \ {t}]
  OBVIOUS
<1>8. st \in StoreType(SettingDocs, Talks) /\ st2 \in StoreType(SettingDocs, Talks)
      /\ st2.loaded = st.loaded
  <2>1. st \in StoreType(SettingDocs, Talks)
    BY <1>4, <1>7
  <2> QED BY <1>7, <2>1 DEF StoreType
<1>9. /\ hub' \in [Hubs -> StoreType(SettingDocs, Talks)]
      /\ hub'[doc] = st2
      /\ \A h \in Hubs : h # doc => hub'[h] = hub[h]
  <2>1. hub' = [hub EXCEPT ![doc] = st2]
    BY <1>2, <1>4, <1>5, <1>7
  <2> QED BY <1>4, <1>8, <2>1
<1>10. /\ leader' \in Counts
       /\ leader'.changes = leader.changes /\ leader'.proposals = leader.proposals
       /\ leader'.done \in {leader.done, leader.done \cup {d}}
  <2>1. d \in Settings \X Nat \X Nat
    BY <1>4, <1>6
  <2>2. leader.done \cup {d} \in SUBSET (Settings \X Nat \X Nat)
    BY <1>4, <2>1 DEF Counts
  <2> QED BY <1>2, <1>4, <1>6, <2>2 DEF Counts
<1>11. /\ Rising(hub["brain"], leader.changes) /\ SettingReported(hub["brain"], talks)
       /\ SettingStored(hub["brain"], leader.done)
       /\ hub["brain"] \in StoreType(SettingDocs, Talks)
  BY <1>4 DEF SettingsInv, BrainInv, Hubs
<1>12. PICK ts, ts2, n, done : ts = talks /\ ts2 = talks' /\ n = leader.changes
                               /\ done = leader.done
  OBVIOUS
<1>13. ts[t] = talk
  BY <1>1, <1>12
<1>14. \A q \in Talks : q # t => ts2[q] = ts[q]
  BY <1>3, <1>12
<1>15. PICK b : b = hub'["brain"]
  OBVIOUS
<1>16. b.loaded /\ Rising(b, n) /\ SettingReported(b, ts2) /\ SettingStored(b, done) /\ SettingStored(b, done \cup {d})
  <2>1. CASE doc = "brain"
    <3>1. /\ b = st2 /\ st = hub["brain"] /\ t \in st.acked /\ st.loaded
      BY <1>2, <1>4, <1>5, <1>7, <1>9, <1>15, <2>1
    <3>2. Rising(st, n) /\ SettingReported(st, ts) /\ SettingStored(st, done)
      BY <1>11, <1>12, <3>1
    <3>3. /\ st2.loaded = st.loaded /\ Rising(st2, n) /\ SettingReported(st2, ts2) /\ SettingStored(st2, done)
          /\ SettingStored(st2, done \cup {<<ts[t].setting, ts[t].change, talk.proposal>>})
      BY <1>7, <1>8, <1>13, <1>14, <3>1, <3>2, BrainAnswers
    <3> QED BY <1>6, <1>13, <3>1, <3>3
  <2>2. CASE doc # "brain"
    <3>1. b = hub["brain"] /\ b.loaded /\ b \in StoreType(SettingDocs, Talks)
      BY <1>4, <1>9, <1>11, <1>15, <2>2 DEF Hubs
    <3>2. Rising(b, n) /\ SettingReported(b, ts) /\ SettingStored(b, done)
      BY <1>11, <1>12, <3>1
    <3>3. Document(ts[t].setting) # "brain"
      BY <1>5, <1>13, <2>2
    <3>4. t \notin b.acked /\ \A i \in 1..Len(b.puts) : b.puts[i].fact # t
      BY <3>2, <3>3, WaitsForNothing
    <3>5. SettingReported(b, ts2)
      <4>1. b \in StoreType(SettingDocs, Talks)
        BY <3>1
      <4>2. SettingReported(b, ts)
        BY <3>2
      <4> QED BY <1>14, <3>4, <4>1, <4>2, OthersTalk
    <3>6. SettingStored(b, done \cup {d})
      BY <1>5, <1>6, <2>2, <3>2 DEF SettingStored
    <3> QED BY <3>1, <3>2, <3>5, <3>6
  <2> QED BY <2>1, <2>2
<1>17. BrainInv'
  <2>1. /\ Rising(hub'["brain"], leader'.changes) /\ SettingReported(hub'["brain"], talks')
        /\ SettingStored(hub'["brain"], leader'.done)
    BY <1>10, <1>12, <1>15, <1>16
  <2> QED BY <2>1 DEF BrainInv, Rising, SettingReported, Made, SettingStored, Document
<1>18. \A q \in Talks : AtWork(talks'[q]) /\ talks'[q].proposal <= leader.proposals
  <2>1. leader.proposals \in Nat
    BY <1>4 DEF Counts
  <2>2. \A q \in Talks : AtWork(talks[q]) /\ talks[q].proposal <= leader.proposals
    BY DEF SettingsInv, LeaderTyped, PendingInv
  <2> QED BY <1>3, <2>1, <2>2, IdleTalk
<1>19. pending' = {p \in pending : p.id # talk.proposal}
  BY <1>2 DEF Without
<1>20. LeaderTyped'
  <2>1. \A q \in Talks : AtWork(talks[q])'
    BY <1>18 DEF AtWork, Document, InTurn
  <2>2. hub'["brain"].loaded
    BY <1>15, <1>16
  <2> QED BY <1>2, <1>3, <1>9, <1>10, <1>19, <2>1, <2>2 DEF SettingsInv, LeaderTyped, Counts
<1>21. PendingInv'
  <2>1. \A e \in leader'.done : e[3] <= leader.proposals
    BY <1>4, <1>6, <1>10 DEF SettingsInv, PendingInv
  <2>2. DoneIsDone'
    BY <1>6, <1>10, <1>19 DEF SettingsInv, PendingInv, DoneIsDone
  <2> QED BY <1>10, <1>18, <1>19, <2>1, <2>2 DEF SettingsInv, PendingInv
<1> QED BY <1>17, <1>20, <1>21 DEF SettingsInv

\* The put failed, or its process did not get to it: the talk is over.
LEMMA NotAppliedKeeps ==
  ASSUME SettingsInv, NEW t \in Talks, NotApplied(t)
  PROVE  SettingsInv'
<1>1. /\ talks' \in [Talks -> TalkType] /\ talks'[t] = Idle
      /\ \A q \in Talks : q # t => talks'[q] = talks[q]
  BY OneTalk, IdleTalk DEF SettingsInv, NotApplied
<1>2. UNCHANGED <<hub, pending, records, memory, leader>>
  BY DEF NotApplied
<1>3. PICK st, ts, ts2 : st = hub["brain"] /\ ts = talks /\ ts2 = talks'
  OBVIOUS
<1>4. /\ st \in StoreType(SettingDocs, Talks) /\ SettingReported(st, ts)
      /\ \A q \in Talks : q # t => ts2[q] = ts[q]
  BY <1>1, <1>3 DEF SettingsInv, LeaderTyped, BrainInv, Hubs
<1>5. t \notin st.acked /\ \A i \in 1..Len(st.puts) : st.puts[i].fact # t
  <2>1. PICK doc \in Hubs : doc = Document(talks[t].setting)
    BY TwoHubs
  <2>2. CASE doc = "brain"
    <3>1. t \notin st.acked /\ ~Waiting(st, t)
      BY <1>3, <2>1, <2>2 DEF NotApplied
    <3>2. DOMAIN st.puts = 1..Len(st.puts)
      BY <1>4, StoreFields
    <3> QED BY <3>1, <3>2 DEF Waiting
  <2>3. CASE doc # "brain"
    <3>1. Document(ts[t].setting) # "brain"
      BY <1>3, <2>1, <2>3
    <3> QED BY <1>4, <3>1, WaitsForNothing
  <2> QED BY <2>2, <2>3
<1>6. SettingReported(st, ts2)
  BY <1>4, <1>5, OthersTalk
<1>7. BrainInv'
  <2>1. Rising(hub["brain"], leader.changes) /\ SettingStored(hub["brain"], leader.done)
    BY DEF SettingsInv, BrainInv
  <2>2. hub' = hub /\ leader' = leader /\ SettingReported(hub["brain"], talks')
    BY <1>2, <1>3, <1>6
  <2>3. /\ Rising(hub'["brain"], leader'.changes) /\ SettingReported(hub'["brain"], talks')
        /\ SettingStored(hub'["brain"], leader'.done)
    BY <2>1, <2>2
  <2> QED BY <2>3 DEF BrainInv, Rising, SettingReported, Made, SettingStored, Document
<1>8. \A q \in Talks : AtWork(talks'[q]) /\ talks'[q].proposal <= leader.proposals
  <2>1. leader.proposals \in Nat
    BY DEF SettingsInv, LeaderTyped
  <2>2. \A q \in Talks : AtWork(talks[q]) /\ talks[q].proposal <= leader.proposals
    BY DEF SettingsInv, LeaderTyped, PendingInv
  <2> QED BY <1>1, <2>1, <2>2, IdleTalk
<1>9. LeaderTyped'
  <2>1. \A q \in Talks : AtWork(talks[q])'
    BY <1>8 DEF AtWork, Document, InTurn
  <2> QED BY <1>1, <1>2, <2>1 DEF SettingsInv, LeaderTyped
<1>10. PendingInv'
  BY <1>2, <1>8 DEF SettingsInv, PendingInv, DoneIsDone
<1> QED BY <1>7, <1>9, <1>10 DEF SettingsInv

\* The store settles: a put lands or fails.
LEMMA SettlingKeeps ==
  ASSUME SettingsInv, NEW doc \in DOMAIN hub, NEW st2 \in Settles(hub[doc], TRUE),
         hub' = [hub EXCEPT ![doc] = st2],
         leader' = leader \/ leader' = [leader EXCEPT !.faults = leader.faults + 1],
         UNCHANGED <<pending, talks, records, memory>>
  PROVE  SettingsInv'
<1>1. /\ hub \in [Hubs -> StoreType(SettingDocs, Talks)] /\ hub["brain"].loaded
      /\ leader \in Counts /\ doc \in Hubs
  BY DEF SettingsInv, LeaderTyped, Counts
<1>2. /\ leader' \in Counts
      /\ leader'.changes = leader.changes /\ leader'.proposals = leader.proposals
      /\ leader'.done = leader.done
  BY <1>1, OtherCounts
<1>3. PICK st : st = hub[doc]
  OBVIOUS
<1>4. st \in StoreType(SettingDocs, Talks)
  BY <1>1, <1>3
<1>5. st2 \in StoreType(SettingDocs, Talks) /\ (st.loaded => st2.loaded)
  BY <1>3, <1>4, SettlingType DEF SameInMemory
<1>6. /\ hub' \in [Hubs -> StoreType(SettingDocs, Talks)]
      /\ hub'[doc] = st2
      /\ \A h \in Hubs : h # doc => hub'[h] = hub[h]
  BY <1>1, <1>5
<1>7. /\ Rising(hub["brain"], leader.changes) /\ SettingReported(hub["brain"], talks)
      /\ SettingStored(hub["brain"], leader.done) /\ leader.changes \in Nat
      /\ talks \in [Talks -> TalkType] /\ leader.done \in SUBSET (Settings \X Nat \X Nat)
  BY <1>1 DEF SettingsInv, BrainInv, LeaderTyped, Counts
<1>8. PICK b : b = hub'["brain"]
  OBVIOUS
<1>9. b.loaded /\ Rising(b, leader.changes) /\ SettingReported(b, talks) /\ SettingStored(b, leader.done)
  <2>1. CASE doc = "brain"
    <3>1. b = st2 /\ st = hub["brain"]
      BY <1>3, <1>6, <1>8, <2>1
    <3>2. Rising(st, leader.changes) /\ SettingReported(st, talks) /\ SettingStored(st, leader.done)
      BY <1>7, <3>1
    <3>3. Rising(st2, leader.changes) /\ SettingReported(st2, talks) /\ SettingStored(st2, leader.done)
      BY <1>3, <1>4, <1>7, <3>2, BrainSettles
    <3> QED BY <1>1, <1>5, <3>1, <3>3
  <2>2. CASE doc # "brain"
    <3>1. b = hub["brain"]
      BY <1>6, <1>8, <2>2 DEF Hubs
    <3> QED BY <1>1, <1>7, <3>1
  <2> QED BY <2>1, <2>2
<1>10. BrainInv'
  <2>1. /\ Rising(hub'["brain"], leader'.changes) /\ SettingReported(hub'["brain"], talks')
        /\ SettingStored(hub'["brain"], leader'.done)
    BY <1>2, <1>8, <1>9
  <2> QED BY <2>1 DEF BrainInv, Rising, SettingReported, Made, SettingStored, Document
<1>11. LeaderTyped'
  <2>1. \A q \in Talks : AtWork(talks[q])'
    BY DEF SettingsInv, LeaderTyped, AtWork, Document, InTurn
  <2>2. hub'["brain"].loaded
    BY <1>8, <1>9
  <2> QED BY <1>2, <1>6, <2>1, <2>2 DEF SettingsInv, LeaderTyped, Counts
<1>12. PendingInv'
  BY <1>2 DEF SettingsInv, PendingInv, DoneIsDone
<1> QED BY <1>10, <1>11, <1>12 DEF SettingsInv

\* What one proposal more, or one upload, does.
OneProposalMore ==
    /\ leader' \in Counts
    /\ leader'.changes = leader.changes /\ leader'.done = leader.done
    /\ UNCHANGED <<hub, talks, memory>>
    /\ records' \in [Files -> Sensitivities]
    /\ \/ leader'.proposals = leader.proposals /\ pending' = pending
       \/ /\ leader'.proposals = leader.proposals + 1
          /\ \E p \in Proposals : /\ pending' = pending \cup {p}
                                  /\ p.id = leader.proposals + 1

\* The words that ask for a change, and the files put on record.
LEMMA ProposeKeeps ==
  ASSUME SettingsInv,
         \/ \E user \in Users, setting \in Settings : Propose(user, setting)
         \/ \E f \in Files, s \in {"normal", "privileged"} : Upload(f, s)
  PROVE  SettingsInv'
<1>1. /\ leader \in Counts /\ pending \subseteq Proposals
      /\ records \in [Files -> Sensitivities]
  BY DEF SettingsInv, LeaderTyped, Counts
<1>2. OneProposalMore
  <2>1. ASSUME NEW user \in Users, NEW setting \in Settings, Propose(user, setting)
        PROVE  OneProposalMore
    <3>1. PICK n \in Nat : n = leader.proposals /\ n + 1 \in Nat \ {0} /\ n + 1 \in Nat
      BY <1>1 DEF Counts
    <3>2. /\ leader' = [leader EXCEPT !.proposals = n + 1]
          /\ pending' = pending \cup {[id |-> n + 1, user |-> user, setting |-> setting]}
          /\ UNCHANGED <<hub, talks, records, memory>>
      BY <2>1, <3>1 DEF Propose
    <3>3. PICK p \in Proposals : p = [id |-> n + 1, user |-> user, setting |-> setting]
      BY <3>1 DEF Proposals
    <3>4. /\ leader' \in Counts /\ leader'.changes = leader.changes
          /\ leader'.done = leader.done /\ leader'.proposals = n + 1
      BY <1>1, <3>1, <3>2 DEF Counts
    <3>5. p.id = n + 1 /\ pending' = pending \cup {p}
      BY <3>2, <3>3
    <3> QED BY <1>1, <3>1, <3>2, <3>4, <3>5 DEF OneProposalMore
  <2>2. ASSUME NEW f \in Files, NEW s \in {"normal", "privileged"}, Upload(f, s)
        PROVE  OneProposalMore
    <3>1. /\ leader' = [leader EXCEPT !.uploads = leader.uploads + 1]
          /\ records' = [records EXCEPT ![f] = s]
          /\ UNCHANGED <<hub, pending, talks, memory>>
      BY <2>2 DEF Upload
    <3>2. /\ leader' \in Counts /\ leader'.changes = leader.changes
          /\ leader'.done = leader.done /\ leader'.proposals = leader.proposals
      BY <1>1, <3>1, OtherCounts
    <3>3. records' \in [Files -> Sensitivities]
      BY <1>1, <3>1 DEF Sensitivities
    <3> QED BY <3>1, <3>2, <3>3 DEF OneProposalMore
  <2> QED BY <2>1, <2>2
<1>3. BrainInv'
  <2>1. /\ hub' = hub /\ talks' = talks
        /\ leader'.changes = leader.changes /\ leader'.done = leader.done
    BY <1>2 DEF OneProposalMore
  <2>2. /\ Rising(hub'["brain"], leader'.changes) /\ SettingReported(hub'["brain"], talks')
        /\ SettingStored(hub'["brain"], leader'.done)
    BY <2>1 DEF SettingsInv, BrainInv
  <2> QED BY <2>2 DEF BrainInv, Rising, SettingReported, Made, SettingStored, Document
<1>4. LeaderTyped'
  <2>1. \A q \in Talks : AtWork(talks[q])'
    BY <1>2 DEF OneProposalMore, SettingsInv, LeaderTyped, AtWork, Document, InTurn
  <2>2. pending' \subseteq Proposals
    BY <1>1, <1>2 DEF OneProposalMore
  <2> QED BY <1>2, <2>1, <2>2 DEF OneProposalMore, SettingsInv, LeaderTyped, Counts
<1>5. PendingInv'
  <2>1. CASE leader'.proposals = leader.proposals /\ pending' = pending
    BY <1>2, <2>1 DEF OneProposalMore, SettingsInv, PendingInv, DoneIsDone
  <2>2. ASSUME leader'.proposals = leader.proposals + 1,
               NEW p \in Proposals, pending' = pending \cup {p}, p.id = leader.proposals + 1
        PROVE  PendingInv'
    <3>1. PICK n \in Nat : n = leader.proposals
      BY <1>1 DEF Counts
    <3>2. \A x \in Nat : x <= n => x <= n + 1 /\ x # n + 1
      OBVIOUS
    <3>3. n + 1 <= n + 1
      BY <3>1
    <3>4. /\ \A r \in pending : r.id \in Nat /\ r.id <= n
          /\ \A t \in Talks : talks[t].proposal \in Nat /\ talks[t].proposal <= n
          /\ \A d \in leader.done : d[3] \in Nat /\ d[3] <= n
      <4>1. \A r \in pending : r.id \in Nat
        BY <1>1 DEF Proposals
      <4>2. \A t \in Talks : talks[t].proposal \in Nat
        BY DEF SettingsInv, LeaderTyped, TalkType
      <4>3. \A d \in leader.done : d[3] \in Nat
        BY <1>1 DEF Counts
      <4> QED BY <3>1, <4>1, <4>2, <4>3 DEF SettingsInv, PendingInv
    <3>5. \A r \in pending' : r.id <= n + 1
      BY <2>2, <3>1, <3>2, <3>3, <3>4
    <3>6. \A t \in Talks : talks'[t].proposal <= n + 1
      BY <1>2, <3>2, <3>4 DEF OneProposalMore
    <3>7. \A d \in leader'.done : d[3] <= n + 1
      BY <1>2, <3>2, <3>4 DEF OneProposalMore
    <3>8. DoneIsDone'
      <4>1. \A d \in leader.done : \A r \in pending \cup {p} : r.id # d[3]
        BY <2>2, <3>1, <3>2, <3>4 DEF SettingsInv, PendingInv, DoneIsDone
      <4> QED BY <1>2, <2>2, <4>1 DEF OneProposalMore, DoneIsDone
    <3> QED BY <2>2, <3>1, <3>5, <3>6, <3>7, <3>8 DEF PendingInv
  <2> QED BY <1>2, <2>1, <2>2 DEF OneProposalMore
<1> QED BY <1>3, <1>4, <1>5 DEF SettingsInv

\* The two stores by their names.
LEMMA TwoStores ==
  ASSUME NEW b \in StoreType(SettingDocs, Talks), NEW p \in StoreType(SettingDocs, Talks)
  PROVE  /\ [brain |-> b, profile |-> p] \in [Hubs -> StoreType(SettingDocs, Talks)]
         /\ [brain |-> b, profile |-> p]["brain"] = b
BY DEF Hubs

\* Nothing is set yet.
LEMMA NothingIsSet ==
  Defaults \in SettingDocs /\ \A s \in Settings : Defaults[s] = 0
BY DEF Defaults, SettingDocs

\* The process ends, and boots.
LEMMA RestartKeeps ==
  ASSUME SettingsInv, LeaderRestart
  PROVE  SettingsInv'
<1>1. /\ hub["brain"] \in StoreType(SettingDocs, Talks)
      /\ hub["profile"] \in StoreType(SettingDocs, Talks)
      /\ leader \in Counts /\ leader.changes \in Nat /\ leader.proposals \in Nat
      /\ Rising(hub["brain"], leader.changes) /\ SettingStored(hub["brain"], leader.done)
  BY DEF SettingsInv, LeaderTyped, BrainInv, Counts, Hubs
<1>2. PICK b, p, n, done, ts2 :
          /\ b = Load([Crash(hub["brain"], Defaults) EXCEPT !.acked = {}])
          /\ p = [Crash(hub["profile"], Defaults) EXCEPT !.acked = {}]
          /\ n = leader.changes /\ done = leader.done /\ ts2 = talks'
  OBVIOUS
<1>3. /\ hub' = [brain |-> b, profile |-> p]
      /\ leader' = [leader EXCEPT !.faults = leader.faults + 1]
      /\ pending' = {}
      /\ talks' = [t \in Talks |-> Idle]
      /\ records' = [f \in Files |-> "none"]
      /\ memory' = memory
  BY <1>2 DEF LeaderRestart
<1>4. /\ leader' \in Counts
      /\ leader'.changes = leader.changes /\ leader'.proposals = leader.proposals
      /\ leader'.done = leader.done
  BY <1>1, <1>3, OtherCounts
<1>5. /\ b \in StoreType(SettingDocs, Talks) /\ b.loaded
      /\ Rising(b, n) /\ SettingReported(b, ts2) /\ SettingStored(b, done)
  <2>1. PICK st : st = hub["brain"]
    OBVIOUS
  <2>2. /\ st \in StoreType(SettingDocs, Talks) /\ n \in Nat
        /\ Rising(st, n) /\ SettingStored(st, done)
        /\ b = Load([Crash(st, Defaults) EXCEPT !.acked = {}])
    BY <1>1, <1>2, <2>1
  <2> QED BY <2>2, BrainRestarts, NothingIsSet
<1>6. p \in StoreType(SettingDocs, Talks)
  <2>1. Crash(hub["profile"], Defaults) \in StoreType(SettingDocs, Talks)
    BY <1>1, CrashedStore, NothingIsSet
  <2> QED BY <1>2, <2>1 DEF StoreType
<1>7. hub' \in [Hubs -> StoreType(SettingDocs, Talks)] /\ hub'["brain"] = b
  BY <1>3, <1>5, <1>6, TwoStores
<1>8. /\ talks' \in [Talks -> TalkType]
      /\ \A t \in Talks : AtWork(talks'[t]) /\ talks'[t].proposal <= leader.proposals
  BY <1>1, <1>3, IdleTalk
<1>9. BrainInv'
  <2>1. /\ Rising(hub'["brain"], leader'.changes) /\ SettingReported(hub'["brain"], talks')
        /\ SettingStored(hub'["brain"], leader'.done)
    BY <1>2, <1>4, <1>5, <1>7
  <2> QED BY <2>1 DEF BrainInv, Rising, SettingReported, Made, SettingStored, Document
<1>10. LeaderTyped'
  <2>1. \A t \in Talks : AtWork(talks[t])'
    BY <1>8 DEF AtWork, Document, InTurn
  <2>2. records' \in [Files -> Sensitivities]
    BY <1>3 DEF Sensitivities
  <2>3. hub'["brain"].loaded
    BY <1>5, <1>7
  <2>4. pending' \subseteq Proposals
    BY <1>3
  <2> QED BY <1>3, <1>4, <1>7, <1>8, <2>1, <2>2, <2>3, <2>4 DEF SettingsInv, LeaderTyped, Counts
<1>11. PendingInv'
  BY <1>3, <1>4, <1>8 DEF SettingsInv, PendingInv, DoneIsDone
<1> QED BY <1>9, <1>10, <1>11 DEF SettingsInv

-----------------------------------------------------------------------------
(* What every list of lines keeps: those of the memory, and those a talk   *)
(* is about to write.                                                      *)

Honest(lines) ==
    \A i, j \in 1..Len(lines) : i < j =>
        /\ lines[i] # lines[j]
        /\ lines[i][1] = lines[j][1] => lines[i][2] = "lawyer"

\* No line is of a turn to come.
Past(lines, n) ==
    \A i \in 1..Len(lines) : lines[i][1] <= n

\* The talk's next line is not there, nor one that comes after it.
Unsaid(lines, turn, said) ==
    \A i \in 1..Len(lines) : /\ ~said => lines[i][1] # turn
                             /\ lines[i] # <<turn, "leader">>

Lists ==
    {memory[u] : u \in Users} \cup {talks[t].recalled : t \in Talks}

Secret(talk) ==
    /\ talk.pc \in {"answered", "remember"}
    /\ \E a \in talk.attached : a[2] = "privileged"
    => talk.secret

\* The turns ts, when the lists are ls and n turns have begun.
TurnsOf(ts, ls, n) ==
    /\ \A l \in ls : Honest(l) /\ Past(l, n)
    /\ \A t \in Talks : ts[t].pc \in InTurn =>
           ts[t].turn <= n /\ \A l \in ls : Unsaid(l, ts[t].turn, ts[t].said)
    /\ \A t, q \in Talks : t # q /\ ts[t].pc \in InTurn /\ ts[q].pc \in InTurn =>
           ts[t].turn # ts[q].turn
    /\ \A t \in Talks : ts[t].pc = "read" => ~ts[t].said
    /\ \A t \in Talks : Secret(ts[t])

TurnsInv ==
    /\ \A u \in Users : Len(memory[u]) <= MemoryTurns
    /\ TurnsOf(talks, Lists, leader.turns)

-----------------------------------------------------------------------------

\* The end of a list keeps what the list keeps.
LEMMA EndKeeps ==
  ASSUME NEW l \in Seq(Lines), NEW since \in 1..(Len(l) + 1), NEW n, NEW turn, NEW said
  PROVE  LET k == SubSeq(l, since, Len(l))
         IN  /\ Honest(l) => Honest(k)
             /\ Past(l, n) => Past(k, n)
             /\ Unsaid(l, turn, said) => Unsaid(k, turn, said)
<1>1. PICK k : k = SubSeq(l, since, Len(l))
  OBVIOUS
<1>2. PICK m \in Nat : m = Len(k) /\ Len(l) \in Nat /\ since \in Nat
  <2>1. k \in Seq(Lines)
    BY <1>1, EndOf
  <2>2. Len(k) \in Nat /\ Len(l) \in Nat
    BY <2>1, LenProperties
  <2>3. since \in Nat
    BY <2>2
  <2> QED BY <2>2, <2>3
<1>3. \A i \in 1..m : k[i] = l[i + since - 1] /\ i + since - 1 \in 1..Len(l)
  BY <1>1, <1>2, EndOf
<1>4. \A i, j \in 1..m : i < j => i + since - 1 < j + since - 1
  BY <1>2
<1>5. Honest(l) => Honest(k)
  <2>1. ASSUME Honest(l), NEW i \in 1..m, NEW j \in 1..m, i < j
        PROVE  k[i] # k[j] /\ (k[i][1] = k[j][1] => k[i][2] = "lawyer")
    <3>1. PICK x \in 1..Len(l), y \in 1..Len(l) : x < y /\ k[i] = l[x] /\ k[j] = l[y]
      BY <1>3, <1>4, <2>1
    <3> QED BY <2>1, <3>1 DEF Honest
  <2> QED BY <1>2, <2>1 DEF Honest
<1>6. Past(l, n) => Past(k, n)
  BY <1>2, <1>3 DEF Past
<1>7. Unsaid(l, turn, said) => Unsaid(k, turn, said)
  BY <1>2, <1>3 DEF Unsaid
<1> QED BY <1>1, <1>5, <1>6, <1>7

\* A list with the talk's next line at its end.
LEMMA LineSaid ==
  ASSUME NEW l \in Seq(Lines), NEW n \in Nat, NEW turn \in Nat, turn <= n, NEW said \in BOOLEAN,
         NEW who, who = IF said THEN "leader" ELSE "lawyer",
         Honest(l), Past(l, n), Unsaid(l, turn, said)
  PROVE  LET k == Append(l, <<turn, who>>)
         IN  /\ k \in Seq(Lines) /\ Len(k) = Len(l) + 1
             /\ Honest(k) /\ Past(k, n)
             /\ ~said => Unsaid(k, turn, TRUE)
             /\ \A other, s : other # turn /\ Unsaid(l, other, s) => Unsaid(k, other, s)
<1>1. PICK k, m, row : k = Append(l, row) /\ m = Len(l) /\ row = <<turn, who>>
  OBVIOUS
<1>2. m \in Nat /\ row \in Lines /\ row[1] = turn /\ row[2] = who
      /\ (~said => row # <<turn, "leader">>)
  BY <1>1, LenProperties DEF Lines
<1>3. /\ k \in Seq(Lines) /\ Len(k) = m + 1
      /\ \A i \in 1..m : k[i] = l[i]
      /\ k[m + 1] = row
  BY <1>1, <1>2, AppendProperties
<1>4. \A i \in 1..(m + 1) : i \in 1..m \/ i = m + 1
  BY <1>2
<1>5. \A i, j \in 1..(m + 1) : i < j => i \in 1..m
  BY <1>2
<1>6. \A i \in 1..m : l[i] \in Lines /\ l[i] = <<l[i][1], l[i][2]>> /\ l[i][2] \in {"lawyer", "leader"}
  <2>1. \A i \in 1..m : l[i] \in Lines
    BY <1>1, ElementOfSeq
  <2>2. \A x \in Lines : x = <<x[1], x[2]>> /\ x[2] \in {"lawyer", "leader"}
    BY DEF Lines
  <2> QED BY <2>1, <2>2
<1>7. Honest(k)
  <2>1. ASSUME NEW i \in 1..m
        PROVE  l[i] # row /\ (l[i][1] = turn => l[i][2] = "lawyer")
    <3>1. (~said => l[i][1] # turn) /\ l[i] # <<turn, "leader">>
      BY <1>1 DEF Unsaid
    <3> QED BY <1>1, <1>2, <1>6, <3>1
  <2>2. \A i, j \in 1..m : i < j =>
            /\ l[i] # l[j]
            /\ l[i][1] = l[j][1] => l[i][2] = "lawyer"
    BY <1>1 DEF Honest
  <2>3. ASSUME NEW i \in 1..(m + 1), NEW j \in 1..(m + 1), i < j
        PROVE  k[i] # k[j] /\ (k[i][1] = k[j][1] => k[i][2] = "lawyer")
    <3>1. i \in 1..m
      BY <1>5, <2>3
    <3>2. CASE j \in 1..m
      BY <1>3, <2>2, <2>3, <3>1, <3>2
    <3>3. CASE j = m + 1
      BY <1>2, <1>3, <2>1, <3>1, <3>3
    <3> QED BY <1>4, <3>2, <3>3
  <2> QED BY <1>3, <2>3 DEF Honest
<1>8. Past(k, n)
  BY <1>1, <1>2, <1>3, <1>4 DEF Past
<1>9. ASSUME ~said
      PROVE  Unsaid(k, turn, TRUE)
  BY <1>1, <1>2, <1>3, <1>4, <1>9 DEF Unsaid
<1>10. ASSUME NEW other, NEW s, other # turn, Unsaid(l, other, s)
       PROVE  Unsaid(k, other, s)
  <2>1. row[1] # other /\ row # <<other, "leader">>
    BY <1>1, <1>2, <1>10
  <2> QED BY <1>1, <1>3, <1>4, <1>10, <2>1 DEF Unsaid
<1> QED BY <1>1, <1>3, <1>7, <1>8, <1>9, <1>10

\* The memory that is written.
LEMMA LastKeep ==
  ASSUME NEW l \in Seq(Lines), NEW n, NEW turn, NEW said
  PROVE  /\ LastLines(l) \in Seq(Lines) /\ Len(LastLines(l)) <= MemoryTurns
         /\ Honest(l) => Honest(LastLines(l))
         /\ Past(l, n) => Past(LastLines(l), n)
         /\ Unsaid(l, turn, said) => Unsaid(LastLines(l), turn, said)
<1>1. Len(l) \in Nat /\ MemoryTurns \in Nat
  BY LenProperties, LeaderAssumption
<1>2. PICK since : since = IF Len(l) > MemoryTurns THEN Len(l) - MemoryTurns + 1 ELSE 1
  OBVIOUS
<1>3. since \in 1..(Len(l) + 1) /\ Len(l) + 1 - since <= MemoryTurns
  BY <1>1, <1>2
<1>4. LastLines(l) = SubSeq(l, since, Len(l))
  BY <1>2 DEF LastLines
<1> QED BY <1>3, <1>4, EndOf, EndKeeps

-----------------------------------------------------------------------------

\* Nothing is remembered of nobody.
LEMMA NoLines ==
  <<>> \in Seq(Lines) /\ Honest(<<>>)
  /\ \A n : Past(<<>>, n)
  /\ \A turn, said : Unsaid(<<>>, turn, said)
<1>1. <<>> \in Seq(Lines) /\ Len(<<>>) = 0
  BY EmptySeq
<1>2. 1..0 = {}
  OBVIOUS
<1> QED BY <1>1, <1>2 DEF Honest, Past, Unsaid

\* One talk goes on, one list at most is new, and turns may have begun.
LEMMA TurnGoes ==
  ASSUME NEW ts \in [Talks -> TalkType], NEW ts2, NEW t \in Talks, NEW next \in TalkType,
         NEW ls \in SUBSET Seq(Lines), NEW ls2, NEW k, NEW n \in Nat, NEW n2 \in Nat, n <= n2,
         TurnsOf(ts, ls, n),
         ts2[t] = next, \A q \in Talks : q # t => ts2[q] = ts[q],
         ls2 \subseteq ls \cup {<<>>, k},
         Honest(k), Past(k, n2),
         \A q \in Talks : q # t /\ ts[q].pc \in InTurn => Unsaid(k, ts[q].turn, ts[q].said),
         next.pc \in InTurn =>
             /\ next.turn <= n2
             /\ \A l \in ls \cup {k} : Unsaid(l, next.turn, next.said)
             /\ \A q \in Talks : q # t /\ ts[q].pc \in InTurn => ts[q].turn # next.turn,
         next.pc = "read" => ~next.said,
         Secret(next)
  PROVE  TurnsOf(ts2, ls2, n2)
<1>1. ASSUME NEW l \in ls2
      PROVE  l \in ls \/ l = <<>> \/ l = k
  OBVIOUS
<1>2. \A l \in ls2 : Honest(l) /\ Past(l, n2)
  <2>1. ASSUME NEW l \in ls
        PROVE  Honest(l) /\ Past(l, n2)
    <3>1. Honest(l) /\ Past(l, n)
      BY DEF TurnsOf
    <3>2. \A i \in 1..Len(l) : l[i] \in Lines
      BY ElementOfSeq
    <3>3. \A i \in 1..Len(l) : l[i][1] \in Nat
      BY <3>2 DEF Lines
    <3>4. \A x \in Nat : x <= n => x <= n2
      OBVIOUS
    <3> QED BY <3>1, <3>3, <3>4 DEF Past
  <2> QED BY <1>1, <2>1, NoLines
<1>3. ASSUME NEW q \in Talks, ts2[q].pc \in InTurn
      PROVE  ts2[q].turn <= n2 /\ \A l \in ls2 : Unsaid(l, ts2[q].turn, ts2[q].said)
  <2>1. CASE q = t
    BY <1>1, <1>3, <2>1, NoLines
  <2>2. CASE q # t
    <3>1. /\ ts2[q] = ts[q] /\ ts[q].turn <= n /\ ts[q].turn \in Nat
          /\ \A l \in ls : Unsaid(l, ts[q].turn, ts[q].said)
          /\ Unsaid(k, ts[q].turn, ts[q].said)
      BY <1>3, <2>2 DEF TurnsOf, TalkType
    <3>2. ts[q].turn <= n2
      BY <3>1
    <3> QED BY <1>1, <3>1, <3>2, NoLines
  <2> QED BY <2>1, <2>2
<1>4. ASSUME NEW p \in Talks, NEW q \in Talks, p # q,
             ts2[p].pc \in InTurn, ts2[q].pc \in InTurn
      PROVE  ts2[p].turn # ts2[q].turn
  BY <1>4 DEF TurnsOf
<1>5. \A q \in Talks : (ts2[q].pc = "read" => ~ts2[q].said) /\ Secret(ts2[q])
  BY DEF TurnsOf
<1> QED BY <1>2, <1>3, <1>4, <1>5 DEF TurnsOf

\* The lists are lists of lines, and there are as many as talks and users.
LEMMA ListsAre ==
  ASSUME LeaderTyped
  PROVE  /\ Lists \in SUBSET Seq(Lines)
         /\ \A t \in Talks : talks[t].recalled \in Lists
         /\ \A u \in Users : memory[u] \in Lists
<1>1. \A u \in Users : memory[u] \in Seq(Lines)
  BY DEF LeaderTyped
<1>2. \A t \in Talks : talks[t].recalled \in Seq(Lines)
  <2>1. \A talk \in TalkType : talk.recalled \in Seq(Lines)
    BY DEF TalkType
  <2> QED BY <2>1 DEF LeaderTyped
<1> QED BY <1>1, <1>2 DEF Lists

\* A talk goes on with what it recalls now; the memory is as it was.
LEMMA OneList ==
  ASSUME LeaderTyped, NEW t \in Talks, NEW next \in TalkType, Becomes(t, next), memory' = memory
  PROVE  Lists' \subseteq Lists \cup {<<>>, next.recalled}
<1>1. talks'[t] = next /\ \A q \in Talks : q # t => talks'[q] = talks[q]
  BY OneTalk
<1>2. \A q \in Talks : talks'[q].recalled \in Lists \cup {<<>>, next.recalled}
  BY <1>1 DEF Lists
<1>3. \A u \in Users : memory'[u] \in Lists
  BY DEF Lists
<1> QED BY <1>2, <1>3 DEF Lists

\* A talk that is in no turn any more, or not yet.
LEMMA OutOfTurn ==
  ASSUME LeaderTyped, TurnsInv, NEW t \in Talks, NEW next \in TalkType, AtWork(next),
         next.pc \notin InTurn, Becomes(t, next), memory' = memory, leader'.turns = leader.turns
  PROVE  TurnsInv'
<1>1. PICK ts, ts2, ls, ls2, n :
          ts = talks /\ ts2 = talks' /\ ls = Lists /\ ls2 = Lists' /\ n = leader.turns
  OBVIOUS
<1>2. ts \in [Talks -> TalkType] /\ ls \in SUBSET Seq(Lines) /\ n \in Nat /\ n <= n
  <2>1. ts \in [Talks -> TalkType] /\ n \in Nat
    BY <1>1 DEF LeaderTyped
  <2>2. ls \in SUBSET Seq(Lines)
    BY <1>1, ListsAre
  <2> QED BY <2>1, <2>2
<1>3. ts2[t] = next /\ \A q \in Talks : q # t => ts2[q] = ts[q]
  BY <1>1, OneTalk
<1>4. ls2 \subseteq ls \cup {<<>>, <<>>}
  <2>1. next.recalled = <<>>
    BY DEF AtWork
  <2> QED BY <1>1, <2>1, OneList
<1>5. TurnsOf(ts, ls, n)
  BY <1>1 DEF TurnsInv
<1>6. Secret(next) /\ (next.pc = "read" => ~next.said)
  BY DEF Secret, InTurn
<1>7. \A q \in Talks : q # t /\ ts[q].pc \in InTurn => Unsaid(<<>>, ts[q].turn, ts[q].said)
  BY NoLines
<1>8. TurnsOf(ts2, ls2, n)
  <2>1. Honest(<<>>) /\ Past(<<>>, n)
    BY NoLines
  <2>2. next.pc \in InTurn =>
            /\ next.turn <= n
            /\ \A l \in ls \cup {<<>>} : Unsaid(l, next.turn, next.said)
            /\ \A q \in Talks : q # t /\ ts[q].pc \in InTurn => ts[q].turn # next.turn
    OBVIOUS
  <2>3. ls \in SUBSET Seq(Lines) /\ n <= n
    BY <1>2
  <2> QED BY <1>2, <1>3, <1>4, <1>5, <1>6, <1>7, <2>1, <2>2, <2>3, TurnGoes
<1>9. TurnsOf(talks', Lists', leader'.turns)
  BY <1>1, <1>8
<1> QED BY <1>9 DEF TurnsInv, TurnsOf, Honest, Past, Unsaid, Secret, InTurn, Lists

\* The same, of the variables.
LEMMA NextTurn ==
  ASSUME LeaderTyped, TurnsInv, NEW t \in Talks, NEW next \in TalkType, Becomes(t, next), NEW k,
         leader'.turns \in Nat, leader.turns <= leader'.turns,
         \A u \in Users : Len(memory'[u]) <= MemoryTurns,
         Lists' \subseteq Lists \cup {<<>>, k},
         Honest(k), Past(k, leader'.turns),
         \A q \in Talks : q # t /\ talks[q].pc \in InTurn => Unsaid(k, talks[q].turn, talks[q].said),
         next.pc \in InTurn =>
             /\ next.turn <= leader'.turns
             /\ \A l \in Lists \cup {k} : Unsaid(l, next.turn, next.said)
             /\ \A q \in Talks : q # t /\ talks[q].pc \in InTurn => talks[q].turn # next.turn,
         next.pc = "read" => ~next.said,
         Secret(next)
  PROVE  TurnsInv'
<1>1. PICK ts, ts2, ls, ls2, n, n2 :
          /\ ts = talks /\ ts2 = talks' /\ ls = Lists /\ ls2 = Lists'
          /\ n = leader.turns /\ n2 = leader'.turns
  OBVIOUS
<1>2. /\ ts \in [Talks -> TalkType] /\ ls \in SUBSET Seq(Lines)
      /\ n \in Nat /\ n2 \in Nat /\ n <= n2
  BY <1>1, ListsAre DEF LeaderTyped
<1>3. ts2[t] = next /\ \A q \in Talks : q # t => ts2[q] = ts[q]
  BY <1>1, OneTalk
<1>4. TurnsOf(ts, ls, n)
  BY <1>1 DEF TurnsInv
<1>5. ls2 \subseteq ls \cup {<<>>, k} /\ Past(k, n2)
  BY <1>1
<1>6. \A q \in Talks : q # t /\ ts[q].pc \in InTurn => Unsaid(k, ts[q].turn, ts[q].said)
  BY <1>1
<1>7. next.pc \in InTurn =>
          /\ next.turn <= n2
          /\ \A l \in ls \cup {k} : Unsaid(l, next.turn, next.said)
          /\ \A q \in Talks : q # t /\ ts[q].pc \in InTurn => ts[q].turn # next.turn
  BY <1>1
<1>8. TurnsOf(ts2, ls2, n2)
  BY <1>2, <1>3, <1>4, <1>5, <1>6, <1>7, TurnGoes
<1>9. TurnsOf(talks', Lists', leader'.turns)
  BY <1>1, <1>8
<1> QED BY <1>9 DEF TurnsInv, TurnsOf, Honest, Past, Unsaid, Secret, InTurn, Lists

\* What the turns say of a list there is, and of a talk in its turn.
LEMMA TurnsSay ==
  ASSUME LeaderTyped, TurnsInv
  PROVE  /\ \A u \in Users : Len(memory[u]) <= MemoryTurns
         /\ \A l \in Lists : /\ Honest(l) /\ Past(l, leader.turns)
                             /\ \A t \in Talks : talks[t].pc \in InTurn =>
                                    Unsaid(l, talks[t].turn, talks[t].said)
         /\ \A t \in Talks : Secret(talks[t]) /\ (talks[t].pc = "read" => ~talks[t].said)
         /\ \A t \in Talks : talks[t].pc \in InTurn =>
                /\ talks[t].turn <= leader.turns
                /\ \A q \in Talks : q # t /\ talks[q].pc \in InTurn => talks[q].turn # talks[t].turn
BY DEF TurnsInv, TurnsOf

\* What the Leader may not have said yet is a part of what the lawyer's line comes before.
LEMMA StillUnsaid ==
  ASSUME NEW l, NEW turn, NEW said, Unsaid(l, turn, said)
  PROVE  Unsaid(l, turn, TRUE)
BY DEF Unsaid

\* A question is asked.
LEMMA AskTurns ==
  ASSUME LeaderTyped, TurnsInv, NEW t \in Talks, NEW user \in Users, NEW files \in SUBSET Files,
         NEW form \in {"normal", "privileged"}, Ask(t, user, files, form)
  PROVE  TurnsInv'
<1>1. PICK next : /\ TalkGoesOn(t, next)
                  /\ next.pc = "read" /\ ~next.said /\ next.recalled = <<>>
                  /\ next.turn = leader.turns + 1
  BY AskGoes
<1>2. leader' = [leader EXCEPT !.turns = leader.turns + 1] /\ memory' = memory
  BY AskGoes
<1>3. PICK n \in Nat : n = leader.turns
  BY DEF LeaderTyped
<1>4. leader'.turns = n + 1 /\ leader'.turns \in Nat /\ leader.turns <= leader'.turns
  BY <1>2, <1>3 DEF LeaderTyped
<1>5. next \in TalkType /\ Becomes(t, next)
  BY <1>1 DEF TalkGoesOn
<1>6. Lists' \subseteq Lists \cup {<<>>, <<>>}
  BY <1>1, <1>2, <1>5, OneList
<1>7. \A u \in Users : Len(memory'[u]) <= MemoryTurns
  BY <1>2, TurnsSay
<1>8. Honest(<<>>) /\ Past(<<>>, leader'.turns)
      /\ \A q \in Talks : Unsaid(<<>>, talks[q].turn, talks[q].said)
  BY NoLines
<1>9. \A l \in Lists \cup {<<>>} : Unsaid(l, next.turn, next.said)
  <2>1. ASSUME NEW l \in Lists
        PROVE  Unsaid(l, next.turn, next.said)
    <3>1. \A i \in 1..Len(l) : l[i][1] <= n
      BY <1>3, TurnsSay DEF Past
    <3>2. \A i \in 1..Len(l) : l[i] \in Lines
      BY ListsAre, ElementOfSeq
    <3>3. \A i \in 1..Len(l) : l[i][1] \in Nat
      BY <3>2 DEF Lines
    <3>4. \A i \in 1..Len(l) : l[i][1] # n + 1
      BY <3>1, <3>3
    <3>5. next.turn = n + 1
      BY <1>1, <1>3
    <3>6. \A i \in 1..Len(l) : l[i][1] # next.turn
      BY <3>4, <3>5
    <3> QED BY <3>6 DEF Unsaid
  <2> QED BY <2>1, NoLines
<1>10. \A q \in Talks : q # t /\ talks[q].pc \in InTurn => talks[q].turn # next.turn
  <2>1. \A q \in Talks : talks[q].turn \in Nat
    BY DEF LeaderTyped, TalkType
  <2>2. \A q \in Talks : talks[q].pc \in InTurn => talks[q].turn <= n
    BY <1>3, TurnsSay
  <2> QED BY <1>1, <1>3, <2>1, <2>2
<1>11. Secret(next)
  BY <1>1 DEF Secret
<1>12. next.turn <= leader'.turns
  BY <1>1, <1>3, <1>4
<1> QED BY <1>1, <1>4, <1>5, <1>6, <1>7, <1>8, <1>9, <1>10, <1>11, <1>12, NextTurn

\* A talk in its turn goes on in it, with no new line.
LEMMA SameTurnGoes ==
  ASSUME LeaderTyped, TurnsInv, NEW t \in Talks, NEW next, TalkGoesOn(t, next), NEW k,
         SameTurn(next, talks[t]), next.said = talks[t].said,
         talks[t].pc \in InTurn, next.pc # "read", Secret(next),
         UNCHANGED <<leader, memory>>,
         next.recalled = k,
         Honest(k), Past(k, leader.turns),
         \A q \in Talks : talks[q].pc \in InTurn => Unsaid(k, talks[q].turn, talks[q].said)
  PROVE  TurnsInv'
<1>1. next \in TalkType /\ Becomes(t, next)
  BY DEF TalkGoesOn
<1>2. leader.turns \in Nat /\ leader'.turns = leader.turns /\ leader.turns <= leader'.turns
  BY DEF LeaderTyped
<1>3. Lists' \subseteq Lists \cup {<<>>, k}
  BY <1>1, OneList
<1>4. \A u \in Users : Len(memory'[u]) <= MemoryTurns
  BY TurnsSay
<1>5. next.turn = talks[t].turn
  BY DEF SameTurn
<1>6. \A l \in Lists \cup {k} : Unsaid(l, next.turn, next.said)
  BY <1>5, TurnsSay
<1>7. /\ next.turn <= leader'.turns
      /\ \A q \in Talks : q # t /\ talks[q].pc \in InTurn => talks[q].turn # next.turn
  BY <1>2, <1>5, TurnsSay
<1>8. leader'.turns \in Nat /\ Past(k, leader'.turns)
  BY <1>2
<1>9. \A q \in Talks : q # t /\ talks[q].pc \in InTurn => Unsaid(k, talks[q].turn, talks[q].said)
  OBVIOUS
<1> QED BY <1>1, <1>2, <1>3, <1>4, <1>6, <1>7, <1>8, <1>9, NextTurn

\* Its dispatch.
LEMMA DispatchTurns ==
  ASSUME LeaderTyped, TurnsInv, NEW t \in Talks, Dispatch(t)
  PROVE  TurnsInv'
<1>1. PICK next : /\ TalkGoesOn(t, next)
                  /\ next.pc = "answered" /\ SameTurn(next, talks[t])
                  /\ next.said = talks[t].said /\ next.recalled = talks[t].recalled
                  /\ (\E a \in next.attached : a[2] = "privileged") => next.secret
  BY DispatchGoes
<1>2. talks[t].pc = "read" /\ UNCHANGED <<leader, memory>>
  BY DispatchGoes
<1>3. talks[t].recalled \in Lists
  BY ListsAre
<1>4. /\ Honest(talks[t].recalled) /\ Past(talks[t].recalled, leader.turns)
      /\ \A q \in Talks : talks[q].pc \in InTurn =>
             Unsaid(talks[t].recalled, talks[q].turn, talks[q].said)
  BY <1>3, TurnsSay
<1>5. Secret(next) /\ talks[t].pc \in InTurn /\ next.pc # "read"
  BY <1>1, <1>2 DEF Secret, InTurn
<1> QED BY <1>1, <1>2, <1>4, <1>5, SameTurnGoes

\* The memory is read.
LEMMA ReadTurns ==
  ASSUME LeaderTyped, TurnsInv, NEW t \in Talks, NEW since, ReadMemory(t, since)
  PROVE  TurnsInv'
<1>1. PICK next : /\ TalkGoesOn(t, next)
                  /\ next.pc = "remember" /\ SameTurn(next, talks[t])
                  /\ next.said = talks[t].said /\ next.secret = talks[t].secret
                  /\ \E user \in Users :
                         /\ since \in 1..(Len(memory[user]) + 1)
                         /\ next.recalled = SubSeq(memory[user], since, Len(memory[user]))
  BY ReadGoes
<1>2. talks[t].pc = "answered" /\ UNCHANGED <<leader, memory>>
  BY ReadGoes
<1>3. PICK l \in Lists :
          since \in 1..(Len(l) + 1) /\ next.recalled = SubSeq(l, since, Len(l))
  BY <1>1, ListsAre
<1>4. l \in Seq(Lines)
  BY <1>3, ListsAre
<1>5. /\ Honest(next.recalled) /\ Past(next.recalled, leader.turns)
      /\ \A q \in Talks : talks[q].pc \in InTurn =>
             Unsaid(next.recalled, talks[q].turn, talks[q].said)
  BY <1>3, <1>4, EndKeeps, TurnsSay
<1>6. Secret(next)
  <2>1. Secret(talks[t])
    BY TurnsSay
  <2> QED BY <1>1, <1>2, <2>1 DEF Secret, SameTurn
<1>7. talks[t].pc \in InTurn /\ next.pc # "read"
  BY <1>1, <1>2 DEF InTurn
<1> QED BY <1>1, <1>2, <1>5, <1>6, <1>7, SameTurnGoes

\* The line is written.
LEMMA RememberTurns ==
  ASSUME LeaderTyped, TurnsInv, NEW t \in Talks, Remember(t)
  PROVE  TurnsInv' /\ memory' \in [Users -> Seq(Lines)]
<1>1. PICK next : /\ TalkGoesOn(t, next)
                  /\ \/ talks[t].said /\ next = Idle
                     \/ /\ ~talks[t].said /\ next.pc = "answered" /\ next.said
                        /\ SameTurn(next, talks[t]) /\ next.secret = talks[t].secret
                        /\ next.recalled = <<>>
  BY RememberGoes
<1>2. PICK user, l, turn, said, who, n :
          /\ user = talks[t].user /\ l = talks[t].recalled /\ turn = talks[t].turn
          /\ said = talks[t].said /\ who = (IF said THEN "leader" ELSE "lawyer")
          /\ n = leader.turns
  OBVIOUS
<1>3. PICK k, new : k = LastLines(new) /\ new = Append(l, <<turn, who>>)
  OBVIOUS
<1>4. /\ talks[t].pc = "remember" /\ leader' = leader
      /\ memory' = [memory EXCEPT ![user] = k]
  BY <1>2, <1>3, RememberGoes
<1>5. /\ l \in Seq(Lines) /\ n \in Nat /\ turn \in Nat /\ turn <= n
      /\ Honest(l) /\ Past(l, n) /\ Unsaid(l, turn, said)
  <2>1. l \in Lists /\ talks[t].pc \in InTurn
    BY <1>2, <1>4, ListsAre DEF InTurn
  <2>2. l \in Seq(Lines) /\ n \in Nat /\ turn \in Nat
    BY <1>2, <2>1, ListsAre DEF LeaderTyped, TalkType
  <2> QED BY <1>2, <2>1, <2>2, TurnsSay
<1>6. said \in BOOLEAN
  <2>1. \A talk \in TalkType : talk.said \in BOOLEAN
    BY DEF TalkType
  <2> QED BY <1>2, <2>1 DEF LeaderTyped
<1>7. /\ new \in Seq(Lines) /\ Honest(new) /\ Past(new, n)
      /\ ~said => Unsaid(new, turn, TRUE)
      /\ \A other, s : other # turn /\ Unsaid(l, other, s) => Unsaid(new, other, s)
  <2>1. l \in Seq(Lines) /\ Honest(l) /\ Past(l, n) /\ Unsaid(l, turn, said)
    BY <1>5
  <2>2. n \in Nat /\ turn \in Nat /\ turn <= n
    BY <1>5
  <2>3. who = IF said THEN "leader" ELSE "lawyer"
    BY <1>2
  <2>4. new = Append(l, <<turn, who>>)
    BY <1>3
  <2> QED BY <1>6, <2>1, <2>2, <2>3, <2>4, LineSaid
<1>8. /\ k \in Seq(Lines) /\ Len(k) <= MemoryTurns /\ Honest(k) /\ Past(k, n)
      /\ ~said => Unsaid(k, turn, TRUE)
      /\ \A other, s : Unsaid(new, other, s) => Unsaid(k, other, s)
  BY <1>3, <1>7, LastKeep
<1>9. \A q \in Talks : q # t /\ talks[q].pc \in InTurn => Unsaid(k, talks[q].turn, talks[q].said)
  <2>1. ASSUME NEW q \in Talks, q # t, talks[q].pc \in InTurn
        PROVE  Unsaid(k, talks[q].turn, talks[q].said)
    <3>1. talks[q].turn # turn /\ Unsaid(l, talks[q].turn, talks[q].said)
      BY <1>2, <1>4, <2>1, ListsAre, TurnsSay DEF InTurn
    <3> QED BY <1>7, <1>8, <3>1
  <2> QED BY <2>1
<1>10. next \in TalkType /\ Becomes(t, next)
  BY <1>1 DEF TalkGoesOn
<1>11. Lists' \subseteq Lists \cup {<<>>, k}
  <2>1. talks'[t] = next /\ \A q \in Talks : q # t => talks'[q] = talks[q]
    BY <1>10, OneTalk
  <2>2. next.recalled = <<>>
    BY <1>1, IdleTalk
  <2>3. \A q \in Talks : talks'[q].recalled \in Lists \cup {<<>>, k}
    BY <2>1, <2>2 DEF Lists
  <2>4. \A u \in Users : memory'[u] \in Lists \cup {<<>>, k}
    BY <1>4 DEF Lists, LeaderTyped
  <2> QED BY <2>3, <2>4 DEF Lists
<1>12. memory' \in [Users -> Seq(Lines)] /\ \A u \in Users : Len(memory'[u]) <= MemoryTurns
  <2>1. \A u \in Users : Len(memory[u]) <= MemoryTurns
    BY TurnsSay
  <2> QED BY <1>4, <1>8, <2>1 DEF LeaderTyped
<1>13. /\ leader'.turns \in Nat /\ leader.turns <= leader'.turns
       /\ Past(k, leader'.turns) /\ turn <= leader'.turns
  BY <1>2, <1>4, <1>5, <1>8
<1>14. next.pc \in InTurn =>
           /\ next.turn <= leader'.turns
           /\ \A m \in Lists \cup {k} : Unsaid(m, next.turn, next.said)
           /\ \A q \in Talks : q # t /\ talks[q].pc \in InTurn => talks[q].turn # next.turn
  <2>1. CASE next = Idle
    BY <2>1, IdleTalk DEF InTurn
  <2>2. CASE ~talks[t].said /\ next.said /\ SameTurn(next, talks[t])
    <3>1. next.turn = turn /\ next.said = TRUE /\ ~said /\ talks[t].pc \in InTurn
      BY <1>2, <1>4, <1>10, <2>2 DEF SameTurn, InTurn, TalkType
    <3>2. \A m \in Lists : Unsaid(m, turn, TRUE)
      BY <1>2, <3>1, TurnsSay, StillUnsaid
    <3>3. \A q \in Talks : q # t /\ talks[q].pc \in InTurn => talks[q].turn # turn
      BY <1>2, <3>1, TurnsSay
    <3> QED BY <1>8, <1>13, <3>1, <3>2, <3>3
  <2> QED BY <1>1, <2>1, <2>2
<1>15. Secret(next) /\ next.pc # "read"
  <2>1. CASE next = Idle
    BY <2>1, IdleTalk DEF Secret
  <2>2. CASE next.pc = "answered" /\ SameTurn(next, talks[t]) /\ next.secret = talks[t].secret
    <3>1. Secret(talks[t])
      BY TurnsSay
    <3> QED BY <1>4, <2>2, <3>1 DEF Secret, SameTurn
  <2> QED BY <1>1, <2>1, <2>2
<1>16. TurnsInv'
  BY <1>8, <1>9, <1>10, <1>11, <1>12, <1>13, <1>14, <1>15, NextTurn
<1> QED BY <1>12, <1>16

-----------------------------------------------------------------------------
(* Every step of the Leader.                                               *)

\* A step of a turn, for the settings and the proposals.
LEMMA GoesKeeps ==
  ASSUME SettingsInv, NEW t \in Talks, NEW next, TalkGoesOn(t, next), talks[t].pc # "put",
         next.proposal = 0 \/ next.proposal = talks[t].proposal,
         memory' \in [Users -> Seq(Lines)],
         leader' = leader \/ leader' = [leader EXCEPT !.turns = leader.turns + 1]
  PROVE  SettingsInv'
<1>1. /\ leader' \in Counts
      /\ leader'.changes = leader.changes /\ leader'.proposals = leader.proposals
      /\ leader'.done = leader.done
  <2>1. leader \in Counts
    BY DEF SettingsInv, LeaderTyped, Counts
  <2> QED BY <2>1, OtherCounts
<1>2. next.proposal <= leader.proposals
  <2>1. leader.proposals \in Nat /\ talks[t].proposal <= leader.proposals
    BY DEF SettingsInv, LeaderTyped, PendingInv
  <2> QED BY <2>1
<1>3. /\ next \in TalkType /\ AtWork(next) /\ Becomes(t, next)
      /\ UNCHANGED <<hub, pending, records>>
  BY DEF TalkGoesOn
<1> QED BY <1>1, <1>2, <1>3, TalkKeeps

\* A step that is in no turn, for the turns.
LEMMA NoTurnStep ==
  ASSUME LeaderTyped, TurnsInv, memory' = memory, leader'.turns = leader.turns,
         \/ talks' = talks
         \/ talks' = [t \in Talks |-> Idle]
  PROVE  TurnsInv'
<1>1. CASE talks' = talks
  <2>1. Lists' = Lists
    BY <1>1 DEF Lists
  <2> QED BY <1>1, <2>1 DEF TurnsInv, TurnsOf, Honest, Past, Unsaid, Secret, InTurn, Lists
<1>2. CASE talks' = [t \in Talks |-> Idle]
  <2>1. \A t \in Talks : talks'[t] = Idle
    BY <1>2
  <2>2. ASSUME NEW l \in Lists'
        PROVE  Honest(l) /\ Past(l, leader.turns)
    <3>1. l = <<>> \/ l \in Lists
      BY <2>1, <2>2, IdleTalk DEF Lists
    <3> QED BY <3>1, NoLines, TurnsSay
  <2>3. \A t \in Talks : talks'[t].pc \notin InTurn /\ Secret(talks'[t])
                         /\ talks'[t].pc # "read"
    BY <2>1, IdleTalk DEF InTurn, Secret
  <2>4. TurnsOf(talks', Lists', leader'.turns)
    BY <2>2, <2>3 DEF TurnsOf
  <2>5. \A u \in Users : Len(memory'[u]) <= MemoryTurns
    BY TurnsSay
  <2> QED BY <2>4, <2>5 DEF TurnsInv, TurnsOf, Honest, Past, Unsaid, Secret, InTurn, Lists
<1> QED BY <1>1, <1>2

\* One talk of setting something.
LEMMA SettingTalks ==
  ASSUME LeaderTyped, TurnsInv, NEW t \in Talks, NEW next,
         \/ Queues(t, next)
         \/ \E store : Sets(t, next, store)
  PROVE  TurnsInv'
<1>1. /\ next \in TalkType /\ AtWork(next) /\ next.pc \in {"load", "put"}
      /\ Becomes(t, next) /\ memory' = memory
  BY DEF Queues, Sets, Setter
<1>2. leader' = leader \/ leader' = [leader EXCEPT !.changes = leader.changes + 1]
  BY DEF Queues, Sets
<1>3. leader'.turns = leader.turns /\ next.pc \notin InTurn
  BY <1>1, <1>2 DEF LeaderTyped, InTurn
<1> QED BY <1>1, <1>3, OutOfTurn

\* A talk that ends.
LEMMA AnsweredTurns ==
  ASSUME LeaderTyped, TurnsInv, NEW t \in Talks, Applied(t) \/ NotApplied(t)
  PROVE  TurnsInv'
<1>1. Becomes(t, Idle) /\ memory' = memory
  BY DEF Applied, NotApplied
<1>2. PICK done : leader' = leader \/ leader' = [leader EXCEPT !.done = done]
  BY DEF Applied, NotApplied
<1>3. leader'.turns = leader.turns
  BY <1>2 DEF LeaderTyped
<1> QED BY <1>1, <1>3, IdleTalk, OutOfTurn DEF InTurn

\* One talk's step.
LEMMA TalkStep ==
  ASSUME SettingsInv, TurnsInv, NEW t \in Talks,
         \/ \E user \in Users :
                \/ SaysYes(t, user)
                \/ \E setting \in Settings : SetByHand(t, user, setting)
                \/ \E id \in 1..MaxProposals : Accepts(t, user, id)
                \/ \E files \in SUBSET Files, form \in {"normal", "privileged"} :
                       Ask(t, user, files, form)
         \/ ProfileRead(t) \/ Applied(t) \/ NotApplied(t)
         \/ Dispatch(t) \/ Remember(t)
         \/ \E since \in 1..(MemoryTurns + 1) : ReadMemory(t, since)
  PROVE  SettingsInv' /\ TurnsInv'
<1>1. LeaderTyped /\ PendingInv /\ memory \in [Users -> Seq(Lines)]
  BY DEF SettingsInv, LeaderTyped
<1>2. CASE \/ \E user \in Users :
                  \/ SaysYes(t, user)
                  \/ \E setting \in Settings : SetByHand(t, user, setting)
                  \/ \E id \in 1..MaxProposals : Accepts(t, user, id)
           \/ ProfileRead(t)
  <2>1. PICK next : Queues(t, next) \/ \E store : Sets(t, next, store)
    BY <1>1, <1>2, SettingSteps
  <2>2. SettingsInv'
    BY <2>1, QueueKeeps, SetKeeps
  <2>3. TurnsInv'
    BY <1>1, <2>1, SettingTalks
  <2> QED BY <2>2, <2>3
<1>3. ASSUME NEW user \in Users, NEW files \in SUBSET Files,
             NEW form \in {"normal", "privileged"}, Ask(t, user, files, form)
      PROVE  SettingsInv' /\ TurnsInv'
  <2>1. PICK next : TalkGoesOn(t, next) /\ next.proposal = 0
    BY <1>1, <1>3, AskGoes
  <2>2. /\ talks[t] = Idle /\ memory' = memory
        /\ leader' = [leader EXCEPT !.turns = leader.turns + 1]
    BY <1>1, <1>3, AskGoes
  <2>3. talks[t].pc # "put"
    BY <2>2, IdleTalk
  <2>4. SettingsInv'
    BY <1>1, <2>1, <2>2, <2>3, GoesKeeps
  <2>5. TurnsInv'
    BY <1>1, <1>3, AskTurns
  <2> QED BY <2>4, <2>5
<1>4. CASE Applied(t)
  BY <1>1, <1>4, AppliedKeeps, AnsweredTurns
<1>5. CASE NotApplied(t)
  BY <1>1, <1>5, NotAppliedKeeps, AnsweredTurns
<1>6. CASE Dispatch(t)
  <2>1. PICK next : TalkGoesOn(t, next) /\ next.proposal = talks[t].proposal
    BY <1>1, <1>6, DispatchGoes DEF SameTurn
  <2>2. talks[t].pc # "put" /\ leader' = leader /\ memory' = memory
    BY <1>1, <1>6, DispatchGoes
  <2>3. SettingsInv'
    BY <1>1, <2>1, <2>2, GoesKeeps
  <2> QED BY <1>1, <1>6, <2>3, DispatchTurns
<1>7. CASE Remember(t)
  <2>1. TurnsInv' /\ memory' \in [Users -> Seq(Lines)]
    BY <1>1, <1>7, RememberTurns
  <2>2. PICK next : TalkGoesOn(t, next) /\ (next = Idle \/ SameTurn(next, talks[t]))
    <3>1. PICK next : /\ TalkGoesOn(t, next)
                      /\ \/ talks[t].said /\ next = Idle
                         \/ /\ ~talks[t].said /\ next.pc = "answered" /\ next.said
                            /\ SameTurn(next, talks[t]) /\ next.secret = talks[t].secret
                            /\ next.recalled = <<>>
      BY <1>1, <1>7, RememberGoes
    <3> QED BY <3>1
  <2>3. next.proposal = 0 \/ next.proposal = talks[t].proposal
    BY <2>2, IdleTalk DEF SameTurn
  <2>4. talks[t].pc # "put" /\ leader' = leader
    BY <1>1, <1>7, RememberGoes
  <2> QED BY <2>1, <2>2, <2>3, <2>4, GoesKeeps
<1>8. ASSUME NEW since, ReadMemory(t, since)
      PROVE  SettingsInv' /\ TurnsInv'
  <2>1. PICK next : TalkGoesOn(t, next) /\ next.proposal = talks[t].proposal
    BY <1>1, <1>8, ReadGoes DEF SameTurn
  <2>2. talks[t].pc # "put" /\ leader' = leader /\ memory' = memory
    BY <1>1, <1>8, ReadGoes
  <2>3. SettingsInv'
    BY <1>1, <2>1, <2>2, GoesKeeps
  <2> QED BY <1>1, <1>8, <2>3, ReadTurns
<1> QED BY <1>2, <1>3, <1>4, <1>5, <1>6, <1>7, <1>8

\* The provider's step.
LEMMA HubStep ==
  ASSUME SettingsInv, TurnsInv, HubPutLands \/ HubPutFails
  PROVE  SettingsInv' /\ TurnsInv'
<1>1. PICK doc \in DOMAIN hub : \E st2 \in Settles(hub[doc], TRUE) : hub' = [hub EXCEPT ![doc] = st2]
  BY DEF HubPutLands, HubPutFails, Settles
<1>2. /\ leader' = leader \/ leader' = [leader EXCEPT !.faults = leader.faults + 1]
      /\ UNCHANGED <<pending, talks, records, memory>>
  BY DEF HubPutLands, HubPutFails
<1>3. LeaderTyped /\ leader'.turns = leader.turns
  BY <1>2 DEF SettingsInv, LeaderTyped
<1>4. SettingsInv'
  BY <1>1, <1>2, SettlingKeeps
<1>5. TurnsInv'
  BY <1>2, <1>3, NoTurnStep
<1> QED BY <1>4, <1>5

\* Every step.
LEMMA LeaderStep ==
  ASSUME SettingsInv, TurnsInv, [LeaderNext]_leaderVars
  PROVE  SettingsInv' /\ TurnsInv'
<1>1. LeaderTyped
  BY DEF SettingsInv
<1>2. CASE \/ \E user \in Users, setting \in Settings : Propose(user, setting)
           \/ \E f \in Files, s \in {"normal", "privileged"} : Upload(f, s)
  <2>1. \/ leader' = [leader EXCEPT !.proposals = leader.proposals + 1]
        \/ leader' = [leader EXCEPT !.uploads = leader.uploads + 1]
    BY <1>2 DEF Propose, Upload
  <2>2. talks' = talks /\ memory' = memory
    BY <1>2 DEF Propose, Upload
  <2>3. leader'.turns = leader.turns
    BY <1>1, <2>1 DEF LeaderTyped
  <2> QED BY <1>1, <1>2, <2>2, <2>3, ProposeKeeps, NoTurnStep
<1>3. CASE LeaderRestart
  <2>1. /\ talks' = [t \in Talks |-> Idle] /\ memory' = memory
        /\ leader' = [leader EXCEPT !.faults = leader.faults + 1]
    BY <1>3 DEF LeaderRestart
  <2>2. leader'.turns = leader.turns
    BY <1>1, <2>1 DEF LeaderTyped
  <2> QED BY <1>1, <1>3, <2>1, <2>2, RestartKeeps, NoTurnStep
<1>4. CASE HubPutLands \/ HubPutFails
  BY <1>4, HubStep
<1>5. CASE UNCHANGED leaderVars
  <2>1. /\ hub' = hub /\ pending' = pending /\ talks' = talks /\ records' = records
        /\ memory' = memory /\ leader' = leader
    BY <1>5 DEF leaderVars
  <2>2. SettingsInv'
    BY <2>1 DEF SettingsInv, LeaderTyped, BrainInv, PendingInv, DoneIsDone, Rising, SettingReported,
                Made, SettingStored, Document, AtWork, InTurn
  <2>3. TurnsInv'
    BY <1>1, <2>1, NoTurnStep
  <2> QED BY <2>2, <2>3
<1> QED BY <1>2, <1>3, <1>4, <1>5, TalkStep DEF LeaderNext

\* As it begins.
LEMMA LeaderBegins ==
  ASSUME LeaderInit
  PROVE  SettingsInv /\ TurnsInv
<1>1. PICK st : st = NewStore(Defaults)
  OBVIOUS
<1>2. /\ st \in StoreType(SettingDocs, Talks)
      /\ st.disk = Defaults /\ Len(st.puts) = 0 /\ st.acked = {} /\ st.puts = <<>>
  BY <1>1, NothingIsSet, NewStoreType, EmptySeq DEF NewStore
<1>3. PICK b : b = Load(st)
  OBVIOUS
<1>4. /\ b \in StoreType(SettingDocs, Talks) /\ b.loaded
      /\ b.mem = Defaults /\ b.disk = Defaults /\ Len(b.puts) = 0 /\ b.acked = {}
  BY <1>2, <1>3, LoadedStore
<1>5. /\ hub = [brain |-> b, profile |-> st] /\ pending = {}
      /\ talks = [t \in Talks |-> Idle]
      /\ records = [f \in Files |-> "none"]
      /\ memory = [u \in Users |-> <<>>]
      /\ leader = [proposals |-> 0, changes |-> 0, turns |-> 0, uploads |-> 0, faults |-> 0,
                   done |-> {}]
  BY <1>1, <1>3 DEF LeaderInit
<1>6. hub \in [Hubs -> StoreType(SettingDocs, Talks)] /\ hub["brain"] = b
  BY <1>2, <1>4, <1>5, TwoStores
<1>7. \A t \in Talks : talks[t] = Idle
  BY <1>5
<1>8. LeaderTyped
  <2>1. talks \in [Talks -> TalkType] /\ \A t \in Talks : AtWork(talks[t])
    BY <1>5, IdleTalk
  <2>2. records \in [Files -> Sensitivities]
    BY <1>5 DEF Sensitivities
  <2>3. memory \in [Users -> Seq(Lines)]
    BY <1>5, EmptySeq
  <2>4. leader \in [proposals : Nat, changes : Nat, turns : Nat, uploads : Nat, faults : Nat,
                    done : SUBSET (Settings \X Nat \X Nat)]
    <3>1. {} \in SUBSET (Settings \X Nat \X Nat)
      OBVIOUS
    <3> QED BY <1>5, <3>1
  <2>5. pending \subseteq Proposals
    BY <1>5
  <2> QED BY <1>4, <1>6, <2>1, <2>2, <2>3, <2>4, <2>5 DEF LeaderTyped
<1>9. BrainInv
  <2>1. 1..Len(b.puts) = {}
    BY <1>4
  <2>2. Rising(b, 0)
    BY <1>4, <2>1, NothingIsSet DEF Rising
  <2>3. SettingReported(b, talks)
    BY <1>4, <2>1 DEF SettingReported
  <2>4. SettingStored(b, {})
    BY DEF SettingStored
  <2> QED BY <1>5, <1>6, <2>2, <2>3, <2>4 DEF BrainInv
<1>10. PendingInv
  BY <1>5, <1>7, IdleTalk DEF PendingInv, DoneIsDone
<1>11. TurnsInv
  <2>1. \A l \in Lists : l = <<>>
    BY <1>5, <1>7, IdleTalk DEF Lists
  <2>2. \A t \in Talks : /\ talks[t].pc \notin InTurn /\ Secret(talks[t])
                         /\ talks[t].pc # "read"
    BY <1>7, IdleTalk DEF InTurn, Secret
  <2>3. TurnsOf(talks, Lists, leader.turns)
    BY <2>1, <2>2, NoLines DEF TurnsOf
  <2>4. \A u \in Users : Len(memory[u]) <= MemoryTurns
    BY <1>5, EmptySeq, LeaderAssumption
  <2> QED BY <2>3, <2>4 DEF TurnsInv
<1> QED BY <1>8, <1>9, <1>10, <1>11 DEF SettingsInv

\* What the settings, the proposals and the turns keep is what the Leader keeps.
LEMMA LeaderIsTrue ==
  ASSUME SettingsInv, TurnsInv
  PROVE  LeaderKeeps
<1>1. SettingsSurvive
  <2>1. hub["brain"] \in StoreType(SettingDocs, Talks)
    BY DEF SettingsInv, LeaderTyped, Hubs
  <2>2. ASSUME NEW d \in leader.done, Document(d[1]) = "brain"
        PROVE  hub["brain"].mem[d[1]] >= d[2] /\ hub["brain"].disk[d[1]] >= d[2]
    <3>1. d[1] \in Settings /\ d[2] \in Nat
      BY DEF SettingsInv, LeaderTyped
    <3>2. hub["brain"].disk[d[1]] \in Nat /\ hub["brain"].mem[d[1]] \in Nat
      BY <2>1, <3>1, ValuesAre
    <3>3. hub["brain"].disk[d[1]] <= hub["brain"].mem[d[1]]
      BY <3>1 DEF SettingsInv, BrainInv, Rising
    <3>4. d[2] <= hub["brain"].disk[d[1]]
      BY <2>2 DEF SettingsInv, BrainInv, SettingStored
    <3> QED BY <3>1, <3>2, <3>3, <3>4
  <2> QED BY <2>2 DEF SettingsSurvive
<1>2. DoneIsDone
  BY DEF SettingsInv, PendingInv
<1>3. LeaderTyped
  BY DEF SettingsInv
<1>4. SecretsStick
  BY <1>3, TurnsSay DEF SecretsStick, Secret
<1>5. MemoryHonest
  <2>1. ASSUME NEW u \in Users
        PROVE  /\ Len(memory[u]) <= MemoryTurns /\ Honest(memory[u])
               /\ DOMAIN memory[u] = 1..Len(memory[u])
    <3>1. memory[u] \in Seq(Lines)
      BY <1>3 DEF LeaderTyped
    <3> QED BY <1>3, <3>1, ListsAre, TurnsSay, LenProperties
  <2> QED BY <2>1 DEF MemoryHonest, Honest
<1> QED BY <1>1, <1>2, <1>4, <1>5 DEF LeaderKeeps

\* What the owner was told is set in the brain stays set and stored, whoever sets
\* something at the same time, whatever puts fail and after every restart; what was
\* answered with "done" is pending no more; a turn over a privileged file stays
\* privileged; and the short memory keeps its bound and the order of a turn's lines.
THEOREM TheLeaderKeepsItsWord ==
  LeaderSpec => []LeaderKeeps
<1>1. LeaderInit => SettingsInv /\ TurnsInv
  BY LeaderBegins
<1>2. SettingsInv /\ TurnsInv /\ [LeaderNext]_leaderVars => (SettingsInv /\ TurnsInv)'
  BY LeaderStep
<1>3. SettingsInv /\ TurnsInv => LeaderKeeps
  BY LeaderIsTrue
<1> QED BY <1>1, <1>2, <1>3, PTL DEF LeaderSpec

HIDE LeaderAssumption

-----------------------------------------------------------------------------
(* Society.                                                                 *)

Targets == {"none", "local", "cloud"}
UnderWay == {"check", "decide", "run"}
PastTheGate == {"decide", "run", "answered"}

AnswerType == [ok : BOOLEAN, grounded : BOOLEAN, review : BOOLEAN]
TaskType == [pc : {"idle", "route", "tie", "answered", "refused"} \cup UnderWay,
             privileged : BOOLEAN, question : SUBSET Topics, cited : BOOLEAN,
             field : Fields \cup {"general"}, agent : Agents \cup {Nobody},
             grant : Nat, checked : Nat, target : Targets, asked : BOOLEAN,
             answer : AnswerType]
GrantType == [agent : Agents, field : Fields, expires : Nat, revoked : Nat]
DeskType == [members : SUBSET Agents, disabled : SUBSET Agents, grants : Seq(GrantType),
             pins : [Agents -> Targets]]
MetricsType == [routed : Nat, completed : Nat, failed : Nat]

SocietyTyped ==
    /\ society \in DeskType
    /\ tasks \in [Dispatches -> TaskType]
    /\ fleet \in [Agents -> MetricsType]
    /\ now \in Nat

\* The grant a task was let through with was for it, and in force then.
LetThrough(task, grants) ==
    /\ task.grant \in DOMAIN grants
    /\ grants[task.grant].agent = task.agent
    /\ grants[task.grant].field = task.field
    /\ task.checked < grants[task.grant].expires
    /\ grants[task.grant].revoked = NotYet \/ task.checked <= grants[task.grant].revoked

\* What is kept of one task.
TaskHolds(task, grants, time) ==
    /\ task.privileged => task.target # "cloud" /\ ~task.asked
    /\ task.pc \in PastTheGate => LetThrough(task, grants)
    /\ task.checked <= time
    /\ task.pc \in UnderWay => task.agent \in Agents
    /\ task.answer.grounded => task.cited /\ task.answer.review

\* The agent that a task is counted under and not yet answered for.  One that
\* waits for its tie to be broken was counted already.
Held(task) ==
    IF task.pc \in UnderWay \cup {"tie"} THEN {task.agent} ELSE {}

InHand(ts, a) == {d \in Dispatches : a \in Held(ts[d])}

CardOf(ts, card, a) ==
    /\ IsFiniteSet(InHand(ts, a))
    /\ card.completed + card.failed + Cardinality(InHand(ts, a)) <= card.routed

Expiring(grants) ==
    \E bound \in Nat : \A g \in DOMAIN grants : grants[g].expires <= bound

SocietyInv ==
    /\ SocietyTyped
    /\ \A d \in Dispatches : TaskHolds(tasks[d], society.grants, now)
    /\ \A a \in Agents : CardOf(tasks, fleet[a], a)
    /\ Expiring(society.grants)

USE SocietyAssumption, NobodyAssumption, MaxClockAssumption

\* A task that goes changes what its agents have in hand by itself only.
LEMMA HandChanges ==
  ASSUME NEW ts \in [Dispatches -> TaskType], NEW d \in Dispatches, NEW t,
         NEW us, us = [ts EXCEPT ![d] = t], NEW a
  PROVE  InHand(us, a) = (InHand(ts, a) \ {d}) \cup (IF a \in Held(t) THEN {d} ELSE {})
<1>1. us[d] = t /\ \A e \in Dispatches : e # d => us[e] = ts[e]
  OBVIOUS
<1> QED BY <1>1 DEF InHand

\* A card that nobody counted on stands, if the task is in no new hand.
LEMMA CardStands ==
  ASSUME NEW ts \in [Dispatches -> TaskType], NEW d \in Dispatches, NEW t,
         NEW us, us = [ts EXCEPT ![d] = t], NEW a, NEW card \in MetricsType,
         CardOf(ts, card, a), a \in Held(t) => a \in Held(ts[d])
  PROVE  CardOf(us, card, a)
<1>1. InHand(us, a) \subseteq InHand(ts, a)
  BY HandChanges DEF InHand
<1>2. IsFiniteSet(InHand(us, a)) /\ Cardinality(InHand(us, a)) <= Cardinality(InHand(ts, a))
  BY <1>1, FS_Subset DEF CardOf
<1>3. Cardinality(InHand(us, a)) \in Nat /\ Cardinality(InHand(ts, a)) \in Nat
  BY <1>2, FS_CardinalityType DEF CardOf
<1>4. card.completed \in Nat /\ card.failed \in Nat /\ card.routed \in Nat
  BY DEF MetricsType
<1> QED BY <1>2, <1>3, <1>4 DEF CardOf

\* A task routed to an agent is counted under it.
LEMMA CardRouted ==
  ASSUME NEW ts \in [Dispatches -> TaskType], NEW d \in Dispatches, NEW t,
         NEW us, us = [ts EXCEPT ![d] = t], NEW a, NEW card \in MetricsType,
         CardOf(ts, card, a)
  PROVE  CardOf(us, [card EXCEPT !.routed = @ + 1], a)
<1>1. InHand(us, a) \subseteq InHand(ts, a) \cup {d}
  BY HandChanges DEF InHand
<1>2. /\ IsFiniteSet(InHand(ts, a) \cup {d})
      /\ Cardinality(InHand(ts, a) \cup {d}) \in Nat
      /\ Cardinality(InHand(ts, a)) \in Nat
      /\ Cardinality(InHand(ts, a) \cup {d}) <= Cardinality(InHand(ts, a)) + 1
  <2>1. IsFiniteSet(InHand(ts, a))
    BY DEF CardOf
  <2>2. Cardinality(InHand(ts, a)) \in Nat
    BY <2>1, FS_CardinalityType
  <2>3. /\ IsFiniteSet(InHand(ts, a) \cup {d})
        /\ \/ Cardinality(InHand(ts, a) \cup {d}) = Cardinality(InHand(ts, a))
           \/ Cardinality(InHand(ts, a) \cup {d}) = Cardinality(InHand(ts, a)) + 1
    BY <2>1, FS_AddElement
  <2> QED BY <2>2, <2>3
<1>3. /\ IsFiniteSet(InHand(us, a))
      /\ Cardinality(InHand(us, a)) \in Nat
      /\ Cardinality(InHand(us, a)) <= Cardinality(InHand(ts, a) \cup {d})
  BY <1>1, <1>2, FS_Subset, FS_CardinalityType
<1>4. PICK new : new = [card EXCEPT !.routed = @ + 1]
  OBVIOUS
<1>5. new.completed = card.completed /\ new.failed = card.failed /\ new.routed = card.routed + 1
  BY <1>4 DEF MetricsType
<1>6. card.completed \in Nat /\ card.failed \in Nat /\ card.routed \in Nat
  BY DEF MetricsType
<1>7. card.completed + card.failed + Cardinality(InHand(ts, a)) <= card.routed
  BY DEF CardOf
<1>8. new.completed + new.failed + Cardinality(InHand(us, a)) <= new.routed
  BY <1>2, <1>3, <1>5, <1>6, <1>7
<1>9. CardOf(us, new, a)
  BY <1>3, <1>8 DEF CardOf
<1> QED BY <1>4, <1>9

\* A task answered for leaves the hand of its agent.
LEMMA CardAnswered ==
  ASSUME NEW ts \in [Dispatches -> TaskType], NEW d \in Dispatches, NEW t,
         NEW us, us = [ts EXCEPT ![d] = t], NEW a, NEW card \in MetricsType,
         CardOf(ts, card, a), a \in Held(ts[d]), a \notin Held(t),
         NEW new, \/ new = [card EXCEPT !.completed = @ + 1]
                  \/ new = [card EXCEPT !.failed = @ + 1]
  PROVE  CardOf(us, new, a) /\ new \in MetricsType
<1>1. InHand(us, a) = InHand(ts, a) \ {d} /\ d \in InHand(ts, a)
  BY HandChanges DEF InHand
<1>2. /\ IsFiniteSet(InHand(us, a))
      /\ Cardinality(InHand(us, a)) \in Nat
      /\ Cardinality(InHand(ts, a)) \in Nat
      /\ Cardinality(InHand(us, a)) = Cardinality(InHand(ts, a)) - 1
  <2>1. IsFiniteSet(InHand(ts, a))
    BY DEF CardOf
  <2>2. Cardinality(InHand(ts, a)) \in Nat
    BY <2>1, FS_CardinalityType
  <2>3. /\ IsFiniteSet(InHand(ts, a) \ {d})
        /\ Cardinality(InHand(ts, a) \ {d}) = Cardinality(InHand(ts, a)) - 1
    BY <1>1, <2>1, FS_RemoveElement
  <2>4. Cardinality(InHand(ts, a) \ {d}) \in Nat
    BY <2>3, FS_CardinalityType
  <2> QED BY <1>1, <2>2, <2>3, <2>4
<1>3. card.completed \in Nat /\ card.failed \in Nat /\ card.routed \in Nat
  BY DEF MetricsType
<1>4. /\ new.routed = card.routed
      /\ new.completed + new.failed = card.completed + card.failed + 1
      /\ new.completed \in Nat /\ new.failed \in Nat
  BY <1>3 DEF MetricsType
<1>5. new \in MetricsType
  BY <1>3 DEF MetricsType
<1>6. card.completed + card.failed + Cardinality(InHand(ts, a)) <= card.routed
  BY DEF CardOf
<1>7. new.completed + new.failed + Cardinality(InHand(us, a)) <= new.routed
  BY <1>2, <1>3, <1>4, <1>6
<1> QED BY <1>2, <1>5, <1>7 DEF CardOf

\* One task goes, and the cards are right about it: the invariant stands.
LEMMA TaskGoes ==
  ASSUME SocietyInv, NEW d \in Dispatches, NEW t \in TaskType, Goes(d, t),
         TaskHolds(t, society.grants, now),
         fleet' \in [Agents -> MetricsType],
         \A a \in Agents : CardOf(tasks', fleet'[a], a),
         UNCHANGED <<society, now>>
  PROVE  SocietyInv'
<1>1. tasks \in [Dispatches -> TaskType] /\ tasks' = [tasks EXCEPT ![d] = t]
  BY DEF SocietyInv, SocietyTyped, Goes
<1>2. tasks' \in [Dispatches -> TaskType] /\ tasks'[d] = t
      /\ \A e \in Dispatches : e # d => tasks'[e] = tasks[e]
  BY <1>1
<1>3. \A e \in Dispatches : TaskHolds(tasks'[e], society.grants, now)
  BY <1>2 DEF SocietyInv
<1>4. SocietyTyped'
  BY <1>2 DEF SocietyInv, SocietyTyped
<1>5. Expiring(society.grants)
  BY DEF SocietyInv
<1>6. society' = society /\ now' = now
  OBVIOUS
<1> QED BY <1>3, <1>4, <1>5, <1>6 DEF SocietyInv

\* The same of a task that goes uncounted,
LEMMA QuietlyGoes ==
  ASSUME SocietyInv, NEW d \in Dispatches, NEW t \in TaskType, Goes(d, t),
         TaskHolds(t, society.grants, now),
         \A a \in Agents : a \in Held(t) => a \in Held(tasks[d]),
         UNCHANGED <<society, now, fleet>>
  PROVE  SocietyInv'
<1>1. tasks \in [Dispatches -> TaskType] /\ tasks' = [tasks EXCEPT ![d] = t]
  BY DEF SocietyInv, SocietyTyped, Goes
<1>2. fleet \in [Agents -> MetricsType]
  BY DEF SocietyInv, SocietyTyped
<1>3. ASSUME NEW a \in Agents
      PROVE  CardOf(tasks', fleet[a], a)
  <2>1. fleet[a] \in MetricsType /\ CardOf(tasks, fleet[a], a)
    BY <1>2 DEF SocietyInv
  <2> QED BY <1>1, <2>1, CardStands
<1> QED BY <1>2, <1>3, TaskGoes

\* of one that is routed,
LEMMA RoutedGoes ==
  ASSUME SocietyInv, NEW d \in Dispatches, NEW t \in TaskType, Goes(d, t),
         TaskHolds(t, society.grants, now),
         NEW agent \in Agents, Counted(agent, "routed"), Held(t) \subseteq {agent},
         UNCHANGED <<society, now>>
  PROVE  SocietyInv'
<1>1. tasks \in [Dispatches -> TaskType] /\ tasks' = [tasks EXCEPT ![d] = t]
  BY DEF SocietyInv, SocietyTyped, Goes
<1>2. fleet \in [Agents -> MetricsType] /\ fleet[agent] \in MetricsType
  BY DEF SocietyInv, SocietyTyped
<1>0. fleet[agent].routed \in Nat /\ fleet[agent].completed \in Nat /\ fleet[agent].failed \in Nat
  BY <1>2 DEF MetricsType
<1>3. PICK card : card = [fleet[agent] EXCEPT !.routed = @ + 1]
  OBVIOUS
<1>7. card \in MetricsType
  BY <1>0, <1>2, <1>3 DEF MetricsType
<1>4. fleet' = [fleet EXCEPT ![agent] = card]
  BY <1>3 DEF Counted
<1>5. /\ fleet' \in [Agents -> MetricsType]
      /\ fleet'[agent] = card
      /\ \A a \in Agents : a # agent => fleet'[a] = fleet[a]
  BY <1>2, <1>4, <1>7
<1>6. ASSUME NEW a \in Agents
      PROVE  CardOf(tasks', fleet'[a], a)
  <2>1. fleet[a] \in MetricsType /\ CardOf(tasks, fleet[a], a)
    BY <1>2 DEF SocietyInv
  <2>2. CASE a = agent
    <3>1. CardOf(tasks', [fleet[a] EXCEPT !.routed = @ + 1], a)
      BY <1>1, <2>1, CardRouted
    <3> QED BY <1>3, <1>5, <2>2, <3>1
  <2>3. CASE a # agent
    <3>1. a \notin Held(t)
      BY <2>3
    <3> QED BY <1>1, <1>5, <2>1, <2>3, <3>1, CardStands
  <2> QED BY <2>2, <2>3
<1> QED BY <1>5, <1>6, TaskGoes

\* and of one that is answered for.
LEMMA AnsweredGoes ==
  ASSUME SocietyInv, NEW d \in Dispatches, NEW t \in TaskType, Goes(d, t),
         TaskHolds(t, society.grants, now),
         NEW agent \in Agents, Held(tasks[d]) = {agent}, Held(t) = {},
         Counted(agent, "completed") \/ Counted(agent, "failed"),
         UNCHANGED <<society, now>>
  PROVE  SocietyInv'
<1>1. tasks \in [Dispatches -> TaskType] /\ tasks' = [tasks EXCEPT ![d] = t]
  BY DEF SocietyInv, SocietyTyped, Goes
<1>2. fleet \in [Agents -> MetricsType] /\ fleet[agent] \in MetricsType
      /\ CardOf(tasks, fleet[agent], agent)
  BY DEF SocietyInv, SocietyTyped
<1>3. PICK card : /\ fleet' = [fleet EXCEPT ![agent] = card]
                  /\ \/ card = [fleet[agent] EXCEPT !.completed = @ + 1]
                     \/ card = [fleet[agent] EXCEPT !.failed = @ + 1]
  <2>1. CASE Counted(agent, "completed")
    BY <2>1 DEF Counted
  <2>2. CASE Counted(agent, "failed")
    BY <2>2 DEF Counted
  <2> QED BY <2>1, <2>2
<1>4. agent \in Held(tasks[d]) /\ agent \notin Held(t)
  OBVIOUS
<1>5. CardOf(tasks', card, agent) /\ card \in MetricsType
  BY <1>1, <1>2, <1>3, <1>4, CardAnswered
<1>6. /\ fleet' \in [Agents -> MetricsType]
      /\ fleet'[agent] = card
      /\ \A a \in Agents : a # agent => fleet'[a] = fleet[a]
  BY <1>2, <1>3, <1>5
<1>7. ASSUME NEW a \in Agents, a # agent
      PROVE  CardOf(tasks', fleet'[a], a)
  <2>1. fleet[a] \in MetricsType /\ CardOf(tasks, fleet[a], a) /\ a \notin Held(t)
    BY <1>2 DEF SocietyInv
  <2> QED BY <1>1, <1>6, <1>7, <2>1, CardStands
<1> QED BY <1>5, <1>6, <1>7, TaskGoes

\* What is known of a task.
LEMMA TaskKnown ==
  ASSUME SocietyInv, NEW d \in Dispatches
  PROVE  /\ tasks[d] \in TaskType
         /\ TaskHolds(tasks[d], society.grants, now)
         /\ now \in Nat
BY DEF SocietyInv, SocietyTyped

\* A question is accepted as a task without a past.
LEMMA AcceptKeeps ==
  ASSUME SocietyInv, NEW d \in Dispatches, NEW question \in Questions,
         NEW privileged \in BOOLEAN, NEW cited \in BOOLEAN,
         Accept(d, question, privileged, cited)
  PROVE  SocietyInv'
<1>1. PICK t : t = [NoTask EXCEPT !.pc = "route", !.question = question,
                                  !.privileged = privileged, !.cited = cited]
  OBVIOUS
<1>2. question \in SUBSET Topics
  OBVIOUS
<1>3. t \in TaskType
  BY <1>1, <1>2 DEF TaskType, NoTask, UnderWay, Targets, AnswerType, ExpertFailed, Answer, Nobody
<1>4. /\ t.pc = "route" /\ t.target = "none" /\ ~t.asked /\ t.checked = 0
      /\ ~t.answer.grounded
  BY <1>1 DEF NoTask, ExpertFailed, Answer
<1>5. now \in Nat
  BY TaskKnown
<1>6. TaskHolds(t, society.grants, now) /\ Held(t) = {}
  BY <1>4, <1>5 DEF TaskHolds, Held, UnderWay, PastTheGate
<1>7. Goes(d, t) /\ UNCHANGED <<society, now, fleet>>
  BY <1>1 DEF Accept
<1> QED BY <1>3, <1>6, <1>7, QuietlyGoes

\* A task that is routed, be it for the first time or after its tie was broken.
LEMMA RoutedKeeps ==
  ASSUME SocietyInv, NEW d \in Dispatches, NEW task \in TaskType,
         TaskHolds(task, society.grants, now), task.pc \in {"route", "tie"},
         NEW field \in Fields, NEW agent \in Agents \cup {Nobody}, NEW pc \in {"check", "tie"},
         Routed(d, task, field, agent, pc), UNCHANGED <<society, now>>
  PROVE  SocietyInv'
<1>1. PICK to \in {"check", "tie", "refused"} :
          to = IF pc = "check" /\ agent = Nobody THEN "refused" ELSE pc
  OBVIOUS
<1>2. PICK t : t = [task EXCEPT !.field = field, !.agent = agent, !.pc = to]
  OBVIOUS
<1>3. t \in TaskType
  BY <1>2 DEF TaskType, UnderWay
<1>4. /\ t.pc = to /\ t.agent = agent /\ t.privileged = task.privileged
      /\ t.target = task.target /\ t.asked = task.asked /\ t.checked = task.checked
      /\ t.answer = task.answer /\ t.cited = task.cited
  BY <1>2 DEF TaskType
<1>5. t.pc \in UnderWay => t.agent \in Agents
  BY <1>1, <1>4 DEF UnderWay
<1>6. TaskHolds(t, society.grants, now)
  BY <1>4, <1>5 DEF TaskHolds, PastTheGate
<1>7. Goes(d, t)
  BY <1>1, <1>2 DEF Routed
<1>8. CASE agent = Nobody
  <2>1. t.pc \in UnderWay \cup {"tie"} => t.pc = "tie" /\ t.agent = Nobody
    BY <1>1, <1>4, <1>8 DEF UnderWay
  <2>2. \A a \in Agents : a \notin Held(t)
    BY <2>1 DEF Held
  <2>3. UNCHANGED fleet
    BY <1>8 DEF Routed
  <2> QED BY <1>3, <1>6, <1>7, <2>2, <2>3, QuietlyGoes
<1>9. CASE agent # Nobody
  <2>1. agent \in Agents /\ Counted(agent, "routed")
    BY <1>9 DEF Routed
  <2>2. Held(t) \subseteq {agent}
    BY <1>4 DEF Held
  <2> QED BY <1>3, <1>6, <1>7, <2>1, <2>2, RoutedGoes
<1> QED BY <1>8, <1>9

LEMMA RouteKeeps ==
  ASSUME SocietyInv, NEW d \in Dispatches, NEW field \in Fields,
         NEW agent \in Agents \cup {Nobody}, NEW sure \in BOOLEAN,
         Route(d, field, agent, sure)
  PROVE  SocietyInv'
<1>1. PICK pc \in {"check", "tie"} : pc = IF sure THEN "check" ELSE "tie"
  OBVIOUS
<1>2. /\ Routed(d, tasks[d], field, agent, pc)
      /\ tasks[d].pc = "route"
      /\ UNCHANGED <<society, now>>
  BY <1>1 DEF Route
<1> QED BY <1>2, TaskKnown, RoutedKeeps

\* A privileged question is not shown to whoever breaks the tie.
LEMMA BrokenKeeps ==
  ASSUME SocietyInv, NEW d \in Dispatches, NEW field \in Fields,
         NEW agent \in Agents \cup {Nobody}, TieBroken(d, field, agent)
  PROVE  SocietyInv'
<1>1. tasks[d] \in TaskType /\ TaskHolds(tasks[d], society.grants, now)
  BY TaskKnown
<1>2. PICK task : task = [tasks[d] EXCEPT !.asked = TRUE]
  OBVIOUS
<1>3. task.pc = "tie" /\ ~task.privileged /\ Routed(d, task, field, agent, "check")
      /\ UNCHANGED <<society, now>>
  BY <1>2 DEF TieBroken, Askable
<1>4. task \in TaskType
  BY <1>1, <1>2 DEF TaskType
<1>5. /\ task.checked = tasks[d].checked
      /\ task.answer = tasks[d].answer /\ task.cited = tasks[d].cited
  BY <1>1, <1>2 DEF TaskType
<1>6. TaskHolds(task, society.grants, now)
  BY <1>1, <1>3, <1>5 DEF TaskHolds, PastTheGate, UnderWay
<1> QED BY <1>3, <1>4, <1>6, RoutedKeeps

LEMMA StandsKeeps ==
  ASSUME SocietyInv, NEW d \in Dispatches, TieStands(d)
  PROVE  SocietyInv'
<1>1. tasks[d] \in TaskType /\ TaskHolds(tasks[d], society.grants, now)
  BY TaskKnown
<1>2. PICK to \in {"check", "refused"} :
          to = IF tasks[d].agent = Nobody THEN "refused" ELSE "check"
  OBVIOUS
<1>3. PICK wanted \in BOOLEAN : wanted = ~tasks[d].privileged
  BY <1>1, Zenon DEF TaskType
<1>4. PICK t : t = [tasks[d] EXCEPT !.pc = to, !.asked = wanted]
  OBVIOUS
<1>5. Goes(d, t) /\ tasks[d].pc = "tie" /\ UNCHANGED <<society, fleet, now>>
  BY <1>2, <1>3, <1>4 DEF TieStands, Askable
<1>6. t \in TaskType
  BY <1>1, <1>4 DEF TaskType, UnderWay
<1>7. /\ t.pc = to /\ t.agent = tasks[d].agent /\ t.privileged = tasks[d].privileged
      /\ t.target = tasks[d].target /\ t.asked = wanted /\ t.checked = tasks[d].checked
      /\ t.answer = tasks[d].answer /\ t.cited = tasks[d].cited
  BY <1>1, <1>4 DEF TaskType
<1>8. t.pc \in UnderWay => t.agent \in Agents
  BY <1>1, <1>2, <1>7 DEF UnderWay, TaskType
<1>9. TaskHolds(t, society.grants, now)
  BY <1>1, <1>2, <1>3, <1>7, <1>8 DEF TaskHolds, PastTheGate
<1>10. Held(t) \subseteq {tasks[d].agent} /\ Held(tasks[d]) = {tasks[d].agent}
  BY <1>5, <1>7 DEF Held
<1> QED BY <1>5, <1>6, <1>9, <1>10, QuietlyGoes

\* Of any grants for an agent and a field, one runs longest and was the first.
LEMMA SpeakingSpeaks ==
  ASSUME SocietyInv, NEW agent, NEW field, GrantsFor(agent, field) # {}
  PROVE  Speaking(agent, field) \in GrantsFor(agent, field)
<1>1. society.grants \in Seq(GrantType)
  BY DEF SocietyInv, SocietyTyped, DeskType
<1>2. \A g \in DOMAIN society.grants : g \in Nat /\ society.grants[g] \in GrantType
  BY <1>1
<1>3. \A g \in GrantsFor(agent, field) : g \in Nat /\ society.grants[g].expires \in Nat
  BY <1>2 DEF GrantsFor, GrantType
<1>4. PICK bound \in Nat : \A g \in GrantsFor(agent, field) : society.grants[g].expires <= bound
  BY DEF SocietyInv, Expiring, GrantsFor
<1> DEFINE left == {bound - society.grants[g].expires : g \in GrantsFor(agent, field)}
<1>5. left \in SUBSET Nat /\ left # {}
  BY <1>3, <1>4
<1>6. PICK least \in left : \A x \in left : least <= x
  BY <1>5, LeastOf
<1> DEFINE longest == {g \in GrantsFor(agent, field) : bound - society.grants[g].expires = least}
<1>7. longest \in SUBSET Nat /\ longest # {}
  BY <1>3, <1>6
<1>8. PICK g \in longest : \A h \in longest : g <= h
  BY <1>7, LeastOf
<1>9. ASSUME NEW h \in GrantsFor(agent, field)
      PROVE  \/ society.grants[g].expires > society.grants[h].expires
             \/ society.grants[g].expires = society.grants[h].expires /\ g <= h
  <2>1. bound - society.grants[g].expires <= bound - society.grants[h].expires
    BY <1>6, <1>8
  <2>2. bound - society.grants[g].expires = bound - society.grants[h].expires => g <= h
    BY <1>8
  <2> QED BY <1>3, <1>4, <1>8, <2>1, <2>2
<1> QED BY <1>8, <1>9 DEF Speaking

\* The grant gate.
LEMMA CheckKeeps ==
  ASSUME SocietyInv, NEW d \in Dispatches, CheckGrant(d)
  PROVE  SocietyInv'
<1>1. tasks[d] \in TaskType /\ TaskHolds(tasks[d], society.grants, now) /\ now \in Nat
  BY TaskKnown
<1>2. tasks[d].pc = "check" /\ tasks[d].agent \in Agents /\ UNCHANGED <<society, now>>
  BY <1>1 DEF CheckGrant, TaskHolds, UnderWay
<1>3. CASE GrantAllows(tasks[d].agent, tasks[d].field)
  <2>1. PICK grant : grant = Speaking(tasks[d].agent, tasks[d].field)
    OBVIOUS
  <2>2. /\ grant \in GrantsFor(tasks[d].agent, tasks[d].field)
        /\ society.grants[grant].revoked = NotYet /\ society.grants[grant].expires > now
    BY <1>3, <2>1, SpeakingSpeaks DEF GrantAllows
  <2>3. PICK t : t = [tasks[d] EXCEPT !.pc = "decide", !.checked = now, !.grant = grant]
    OBVIOUS
  <2>4. Goes(d, t) /\ UNCHANGED fleet
    BY <1>3, <2>1, <2>3 DEF CheckGrant
  <2>5. society.grants \in Seq(GrantType)
    BY DEF SocietyInv, SocietyTyped, DeskType
  <2>6. grant \in DOMAIN society.grants /\ grant \in Nat
        /\ society.grants[grant].agent = tasks[d].agent
        /\ society.grants[grant].field = tasks[d].field
        /\ society.grants[grant].expires \in Nat
    <3>1. grant \in DOMAIN society.grants
          /\ society.grants[grant].agent = tasks[d].agent
          /\ society.grants[grant].field = tasks[d].field
      BY <2>2 DEF GrantsFor
    <3>2. grant \in Nat /\ society.grants[grant] \in GrantType
      BY <2>5, <3>1
    <3> QED BY <3>1, <3>2 DEF GrantType
  <2>7. t \in TaskType
    BY <1>1, <2>3, <2>6 DEF TaskType, UnderWay
  <2>8. /\ t.pc = "decide" /\ t.agent = tasks[d].agent /\ t.privileged = tasks[d].privileged
        /\ t.target = tasks[d].target /\ t.asked = tasks[d].asked /\ t.checked = now
        /\ t.answer = tasks[d].answer /\ t.cited = tasks[d].cited
        /\ t.field = tasks[d].field /\ t.grant = grant
    BY <1>1, <2>3 DEF TaskType
  <2>9. LetThrough(t, society.grants)
    BY <1>1, <2>2, <2>6, <2>8 DEF LetThrough
  <2>10. TaskHolds(t, society.grants, now)
    BY <1>1, <1>2, <2>8, <2>9 DEF TaskHolds
  <2>11. Held(t) = Held(tasks[d])
    BY <1>2, <2>8 DEF Held, UnderWay
  <2> QED BY <1>2, <2>4, <2>7, <2>10, <2>11, QuietlyGoes
<1>4. CASE ~GrantAllows(tasks[d].agent, tasks[d].field)
  <2>1. PICK t : t = [tasks[d] EXCEPT !.pc = "refused"]
    OBVIOUS
  <2>2. Goes(d, t) /\ Counted(tasks[d].agent, "failed")
    BY <1>4, <2>1 DEF CheckGrant
  <2>3. t \in TaskType
    BY <1>1, <2>1 DEF TaskType
  <2>4. /\ t.pc = "refused" /\ t.privileged = tasks[d].privileged
        /\ t.target = tasks[d].target /\ t.asked = tasks[d].asked /\ t.checked = tasks[d].checked
        /\ t.answer = tasks[d].answer /\ t.cited = tasks[d].cited
    BY <1>1, <2>1 DEF TaskType
  <2>5. TaskHolds(t, society.grants, now)
    BY <1>1, <2>4 DEF TaskHolds, PastTheGate, UnderWay
  <2>6. Held(t) = {} /\ Held(tasks[d]) = {tasks[d].agent}
    BY <1>2, <2>4 DEF Held, UnderWay
  <2> QED BY <1>2, <2>2, <2>3, <2>5, <2>6, AnsweredGoes
<1> QED BY <1>3, <1>4

\* Where it runs: the secrecy law first.
LEMMA DecideKeeps ==
  ASSUME SocietyInv, NEW d \in Dispatches, NEW preset \in Presets,
         NEW healthy \in BOOLEAN, NEW budgetGone \in BOOLEAN,
         Decide(d, preset, healthy, budgetGone)
  PROVE  SocietyInv'
<1>1. tasks[d] \in TaskType /\ TaskHolds(tasks[d], society.grants, now)
  BY TaskKnown
<1>2. tasks[d].pc = "decide" /\ tasks[d].agent \in Agents /\ UNCHANGED <<society, fleet, now>>
  BY <1>1 DEF Decide, TaskHolds, UnderWay
<1>3. PICK target : target = Target(tasks[d].privileged, society.pins[tasks[d].agent],
                                    CurrentPolicy(preset), healthy, budgetGone)
  OBVIOUS
<1>4. society.pins[tasks[d].agent] \in Targets
  BY <1>2 DEF SocietyInv, SocietyTyped, DeskType
<1>5. target \in Targets /\ (tasks[d].privileged => target = "local")
  BY <1>1, <1>3, <1>4 DEF Target, Targets, TaskType
<1>6. PICK t : t = [tasks[d] EXCEPT !.pc = "run", !.target = target]
  OBVIOUS
<1>7. Goes(d, t)
  BY <1>3, <1>6 DEF Decide
<1>8. t \in TaskType
  BY <1>1, <1>5, <1>6 DEF TaskType, UnderWay
<1>9. /\ t.pc = "run" /\ t.agent = tasks[d].agent /\ t.privileged = tasks[d].privileged
      /\ t.target = target /\ t.asked = tasks[d].asked /\ t.checked = tasks[d].checked
      /\ t.answer = tasks[d].answer /\ t.cited = tasks[d].cited
      /\ t.field = tasks[d].field /\ t.grant = tasks[d].grant
  BY <1>1, <1>6 DEF TaskType
<1>10. LetThrough(t, society.grants)
  BY <1>1, <1>2, <1>9 DEF LetThrough, TaskHolds, PastTheGate
<1>11. TaskHolds(t, society.grants, now)
  BY <1>1, <1>2, <1>5, <1>9, <1>10 DEF TaskHolds
<1>12. Held(t) = Held(tasks[d])
  BY <1>2, <1>9 DEF Held, UnderWay
<1> QED BY <1>2, <1>7, <1>8, <1>11, <1>12, QuietlyGoes

\* An answer is an expert's, reviewed, and grounded as the shelf says.
LEMMA ExpertAnswers ==
  ASSUME NEW agent, NEW question, NEW skill
  PROVE  Expert(agent, question, skill) \in AnswerType /\ Expert(agent, question, skill).review
         /\ Expert(agent, question, skill).ok
<1>1. ASSUME NEW grounded \in BOOLEAN
      PROVE  Answer(TRUE, grounded) \in AnswerType /\ Answer(TRUE, grounded).review
             /\ Answer(TRUE, grounded).ok
  BY DEF Answer, AnswerType
<1>2. PICK grounded \in BOOLEAN : Expert(agent, question, skill) = Answer(TRUE, grounded)
  <2>1. CASE agent = "civil"
    BY <2>1, Zenon DEF Expert, CivilExpert
  <2>2. CASE agent = "criminal"
    BY <2>2, Zenon DEF Expert, CriminalExpert
  <2>3. CASE agent \notin {"civil", "criminal"}
    BY <2>3 DEF Expert, StandIn
  <2> QED BY <2>1, <2>2, <2>3
<1> QED BY <1>1, <1>2

LEMMA RunKeeps ==
  ASSUME SocietyInv, NEW d \in Dispatches, NEW skill \in Topics, NEW threw \in BOOLEAN,
         Run(d, skill, threw)
  PROVE  SocietyInv'
<1>1. tasks[d] \in TaskType /\ TaskHolds(tasks[d], society.grants, now)
  BY TaskKnown
<1>2. tasks[d].pc = "run" /\ tasks[d].agent \in Agents /\ UNCHANGED <<society, now>>
  BY <1>1 DEF Run, TaskHolds, UnderWay
<1>3. PICK said : said = IF threw THEN ExpertFailed
                         ELSE Expert(tasks[d].agent, tasks[d].question, skill)
  OBVIOUS
<1>4. said \in AnswerType /\ said.review
  <2>1. ExpertFailed \in AnswerType /\ ExpertFailed.review
    BY DEF ExpertFailed, Answer, AnswerType
  <2> QED BY <1>3, <2>1, ExpertAnswers
<1>5. PICK answer : answer = [said EXCEPT !.grounded = tasks[d].cited]
  OBVIOUS
<1>6. tasks[d].cited \in BOOLEAN
  BY <1>1 DEF TaskType
<1>7. answer \in AnswerType /\ answer.review /\ answer.grounded = tasks[d].cited
  BY <1>4, <1>5, <1>6 DEF AnswerType
<1>8. PICK t : t = [tasks[d] EXCEPT !.pc = "answered", !.answer = answer]
  OBVIOUS
<1>9. Goes(d, t)
  BY <1>3, <1>5, <1>8 DEF Run, Grounded
<1>10. Counted(tasks[d].agent, "completed") \/ Counted(tasks[d].agent, "failed")
  BY <1>3 DEF Run
<1>11. t \in TaskType
  BY <1>1, <1>7, <1>8 DEF TaskType
<1>12. /\ t.pc = "answered" /\ t.agent = tasks[d].agent /\ t.privileged = tasks[d].privileged
       /\ t.target = tasks[d].target /\ t.asked = tasks[d].asked /\ t.checked = tasks[d].checked
       /\ t.answer = answer /\ t.cited = tasks[d].cited
       /\ t.field = tasks[d].field /\ t.grant = tasks[d].grant
  BY <1>1, <1>8 DEF TaskType
<1>13. LetThrough(t, society.grants)
  BY <1>1, <1>2, <1>12 DEF LetThrough, TaskHolds, PastTheGate
<1>14. TaskHolds(t, society.grants, now)
  BY <1>1, <1>2, <1>7, <1>12, <1>13 DEF TaskHolds, UnderWay
<1>15. Held(t) = {} /\ Held(tasks[d]) = {tasks[d].agent}
  BY <1>2, <1>12 DEF Held, UnderWay
<1> QED BY <1>2, <1>9, <1>10, <1>11, <1>14, <1>15, AnsweredGoes

LEMMA NobodyRuns ==
  ASSUME SocietyInv, NEW d \in Dispatches, RunsNobody(d)
  PROVE  SocietyInv'
<1>1. tasks[d] \in TaskType /\ TaskHolds(tasks[d], society.grants, now)
  BY TaskKnown
<1>2. PICK t : t = [tasks[d] EXCEPT !.pc = "refused"]
  OBVIOUS
<1>3. Goes(d, t) /\ UNCHANGED <<society, fleet, now>>
  BY <1>2 DEF RunsNobody
<1>4. t \in TaskType
  BY <1>1, <1>2 DEF TaskType
<1>5. /\ t.pc = "refused" /\ t.privileged = tasks[d].privileged
      /\ t.target = tasks[d].target /\ t.asked = tasks[d].asked /\ t.checked = tasks[d].checked
      /\ t.answer = tasks[d].answer /\ t.cited = tasks[d].cited
  BY <1>1, <1>2 DEF TaskType
<1>6. TaskHolds(t, society.grants, now)
  BY <1>1, <1>5 DEF TaskHolds, PastTheGate, UnderWay
<1>7. Held(t) = {}
  BY <1>5 DEF Held, UnderWay
<1> QED BY <1>3, <1>4, <1>6, <1>7, QuietlyGoes

\* The desks change while nothing is run: each task keeps the grant it went
\* through with.
LEMMA DeskChanges ==
  ASSUME SocietyInv, society' \in DeskType, Expiring(society'.grants),
         \A d \in Dispatches : LetThrough(tasks[d], society.grants)
                                   => LetThrough(tasks[d], society'.grants),
         UNCHANGED <<tasks, fleet, now>>
  PROVE  SocietyInv'
<1>1. \A d \in Dispatches : TaskHolds(tasks[d], society'.grants, now)
  BY DEF SocietyInv, TaskHolds
<1>2. tasks' = tasks /\ fleet' = fleet /\ now' = now
  OBVIOUS
<1>3. SocietyTyped'
  BY <1>2 DEF SocietyInv, SocietyTyped
<1>4. \A a \in Agents : CardOf(tasks, fleet[a], a)
  BY DEF SocietyInv
<1> QED BY <1>1, <1>2, <1>3, <1>4 DEF SocietyInv

LEMMA IssueKeeps ==
  ASSUME SocietyInv, NEW agent \in Agents, NEW field \in Fields, NEW ttl \in Ttls,
         IssueGrant(agent, field, ttl)
  PROVE  SocietyInv'
<1>1. society \in DeskType /\ now \in Nat /\ ttl \in Nat
  BY DEF SocietyInv, SocietyTyped
<1>2. PICK grant : grant = [agent |-> agent, field |-> field, expires |-> now + ttl, revoked |-> NotYet]
  OBVIOUS
<1>3. grant \in GrantType /\ grant.expires = now + ttl
  BY <1>1, <1>2 DEF GrantType, NotYet
<1>4. PICK grants : grants = society.grants
  OBVIOUS
<1>5. grants \in Seq(GrantType)
  BY <1>1, <1>4 DEF DeskType
<1>6. society' = [society EXCEPT !.grants = Append(grants, grant)] /\ UNCHANGED <<tasks, fleet, now>>
  BY <1>2, <1>4 DEF IssueGrant
<1>7. society' \in DeskType /\ society'.grants = Append(grants, grant)
  <2>1. PICK new : new = Append(grants, grant)
    OBVIOUS
  <2>2. new \in Seq(GrantType)
    BY <1>3, <1>5, <2>1
  <2> QED BY <1>1, <1>6, <2>1, <2>2 DEF DeskType
<1>8. /\ DOMAIN Append(grants, grant) = DOMAIN grants \cup {Len(grants) + 1}
      /\ \A g \in DOMAIN grants : Append(grants, grant)[g] = grants[g]
      /\ Append(grants, grant)[Len(grants) + 1] = grant
      /\ \A g \in DOMAIN grants : grants[g] \in GrantType
  BY <1>3, <1>5
<1>9. Expiring(Append(grants, grant))
  <2>1. PICK bound \in Nat : \A g \in DOMAIN grants : grants[g].expires <= bound
    BY <1>4 DEF SocietyInv, Expiring
  <2>2. \A g \in DOMAIN grants : grants[g].expires \in Nat
    BY <1>8 DEF GrantType
  <2>3. \A g \in DOMAIN Append(grants, grant) :
            Append(grants, grant)[g].expires <= bound + (now + ttl)
    BY <1>1, <1>3, <1>8, <2>1, <2>2
  <2>4. bound + (now + ttl) \in Nat
    BY <1>1
  <2> QED BY <2>3, <2>4 DEF Expiring
<1>10. ASSUME NEW d \in Dispatches, LetThrough(tasks[d], grants)
       PROVE  LetThrough(tasks[d], Append(grants, grant))
  BY <1>8, <1>10 DEF LetThrough
<1> QED BY <1>4, <1>6, <1>7, <1>9, <1>10, DeskChanges

LEMMA RevokeKeeps ==
  ASSUME SocietyInv, NEW g \in 1..MaxGrants, RevokeGrant(g)
  PROVE  SocietyInv'
<1>1. society \in DeskType /\ now \in Nat
  BY DEF SocietyInv, SocietyTyped
<1>2. PICK grants : grants = society.grants
  OBVIOUS
<1>3. grants \in Seq(GrantType) /\ g \in DOMAIN grants
  BY <1>1, <1>2 DEF DeskType, RevokeGrant
<1>4. PICK grant : grant = [grants[g] EXCEPT !.revoked = now]
  OBVIOUS
<1>5. /\ grant \in GrantType /\ grant.agent = grants[g].agent /\ grant.field = grants[g].field
      /\ grant.expires = grants[g].expires /\ grant.revoked = now
  <2>1. grants[g] \in GrantType
    BY <1>3
  <2> QED BY <1>1, <1>4, <2>1 DEF GrantType
<1>6. PICK new : new = [grants EXCEPT ![g] = grant]
  OBVIOUS
<1>7. new \in Seq(GrantType)
  BY <1>3, <1>5, <1>6
<1>8. /\ DOMAIN new = DOMAIN grants /\ new[g] = grant
      /\ \A h \in DOMAIN grants : h # g => new[h] = grants[h]
  BY <1>3, <1>6
<1>9. society' = [society EXCEPT !.grants = new] /\ UNCHANGED <<tasks, fleet, now>>
  BY <1>2, <1>4, <1>6 DEF RevokeGrant, OwnerActs
<1>10. society' \in DeskType /\ society'.grants = new
  BY <1>1, <1>7, <1>9 DEF DeskType
<1>11. Expiring(new)
  <2>1. PICK bound \in Nat : \A h \in DOMAIN grants : grants[h].expires <= bound
    BY <1>2 DEF SocietyInv, Expiring
  <2>2. \A h \in DOMAIN new : new[h].expires <= bound
    BY <1>3, <1>5, <1>8, <2>1
  <2> QED BY <2>2 DEF Expiring
<1>12. ASSUME NEW d \in Dispatches, LetThrough(tasks[d], grants)
       PROVE  LetThrough(tasks[d], new)
  <2>1. tasks[d].checked <= now
    BY TaskKnown DEF TaskHolds
  <2>2. CASE tasks[d].grant = g
    BY <1>5, <1>8, <1>12, <2>1, <2>2 DEF LetThrough
  <2>3. CASE tasks[d].grant # g
    BY <1>8, <1>12, <2>3 DEF LetThrough
  <2> QED BY <2>2, <2>3
<1> QED BY <1>2, <1>9, <1>10, <1>11, <1>12, DeskChanges

\* The other requests of the owner leave the grants alone.
LEMMA OwnerKeeps ==
  ASSUME SocietyInv, NEW agent \in Agents, NEW off \in BOOLEAN, NEW target \in Targets,
         SetDisabled(agent, off) \/ Pin(agent, target) \/ Spawn(agent) \/ Retire(agent)
  PROVE  SocietyInv'
<1>1. society \in DeskType
  BY DEF SocietyInv, SocietyTyped
<1>2. society' \in DeskType /\ society'.grants = society.grants /\ UNCHANGED <<tasks, fleet, now>>
  <2>1. CASE SetDisabled(agent, off)
    <3>1. PICK S : S = IF off THEN society.disabled \cup {agent} ELSE society.disabled \ {agent}
      OBVIOUS
    <3>2. S \in SUBSET Agents
      BY <1>1, <3>1 DEF DeskType
    <3>3. society' = [society EXCEPT !.disabled = S] /\ UNCHANGED <<tasks, fleet, now>>
      BY <2>1, <3>1 DEF SetDisabled, OwnerActs
    <3> QED BY <1>1, <3>2, <3>3 DEF DeskType
  <2>2. CASE Pin(agent, target)
    <3>1. PICK pins : pins = [society.pins EXCEPT ![agent] = target]
      OBVIOUS
    <3>2. pins \in [Agents -> Targets]
      BY <1>1, <3>1 DEF DeskType
    <3>3. society' = [society EXCEPT !.pins = pins] /\ UNCHANGED <<tasks, fleet, now>>
      BY <2>2, <3>1 DEF Pin, OwnerActs
    <3> QED BY <1>1, <3>2, <3>3 DEF DeskType
  <2>3. CASE Spawn(agent) \/ Retire(agent)
    <3>1. PICK S \in SUBSET Agents : society' = [society EXCEPT !.members = S]
      <4>1. society.members \cup {agent} \in SUBSET Agents /\ society.members \ {agent} \in SUBSET Agents
        BY <1>1 DEF DeskType
      <4> QED BY <2>3, <4>1 DEF Spawn, Retire, OwnerActs
    <3>2. UNCHANGED <<tasks, fleet, now>>
      BY <2>3 DEF Spawn, Retire, OwnerActs
    <3> QED BY <1>1, <3>1, <3>2 DEF DeskType
  <2> QED BY <2>1, <2>2, <2>3
<1>3. Expiring(society.grants)
  BY DEF SocietyInv
<1> QED BY <1>2, <1>3, DeskChanges

\* A fleet that has just been started, at any time.
LEMMA FreshFleet ==
  /\ Fleet \in DeskType /\ Expiring(Fleet.grants)
  /\ [d \in Dispatches |-> NoTask] \in [Dispatches -> TaskType]
  /\ [a \in Agents |-> NoMetrics] \in [Agents -> MetricsType]
  /\ \A time \in Nat : TaskHolds(NoTask, Fleet.grants, time)
  /\ \A a \in Agents : CardOf([d \in Dispatches |-> NoTask], NoMetrics, a)
<1>1. Fleet \in DeskType /\ Fleet.grants = <<>>
  <2>1. Core \in SUBSET Agents /\ {} \in SUBSET Agents
    BY DEF Agents
  <2>2. [a \in Agents |-> "none"] \in [Agents -> Targets]
    BY DEF Targets
  <2>3. <<>> \in Seq(GrantType)
    OBVIOUS
  <2> QED BY <2>1, <2>2, <2>3 DEF Fleet, DeskType
<1>2. NoTask \in TaskType
  BY DEF NoTask, TaskType, Targets, AnswerType, ExpertFailed, Answer, UnderWay, Nobody
<1>3. /\ NoTask.pc = "idle" /\ NoTask.target = "none" /\ ~NoTask.asked /\ NoTask.checked = 0
      /\ ~NoTask.answer.grounded
  BY DEF NoTask, ExpertFailed, Answer
<1>4. Held(NoTask) = {}
  BY <1>3 DEF Held, UnderWay
<1>5. \A time \in Nat : TaskHolds(NoTask, Fleet.grants, time)
  BY <1>3 DEF TaskHolds, UnderWay, PastTheGate
<1>6. NoMetrics \in MetricsType /\ NoMetrics.completed = 0 /\ NoMetrics.failed = 0
      /\ NoMetrics.routed = 0
  BY DEF NoMetrics, MetricsType
<1>7. Expiring(<<>>)
  <2>1. \A g \in DOMAIN <<>> : <<>>[g].expires <= 0
    OBVIOUS
  <2> QED BY <2>1 DEF Expiring
<1>8. ASSUME NEW a \in Agents
      PROVE  CardOf([d \in Dispatches |-> NoTask], NoMetrics, a)
  <2>1. PICK ts : ts = [d \in Dispatches |-> NoTask]
    OBVIOUS
  <2>2. InHand(ts, a) = {}
    BY <1>4, <2>1 DEF InHand
  <2>3. IsFiniteSet(InHand(ts, a)) /\ Cardinality(InHand(ts, a)) = 0
    BY <2>2, FS_EmptySet, Zenon
  <2>4. CardOf(ts, NoMetrics, a)
    BY <1>6, <2>3 DEF CardOf
  <2> QED BY <2>1, <2>4
<1> QED BY <1>1, <1>2, <1>5, <1>6, <1>7, <1>8

LEMMA TickKeeps ==
  ASSUME SocietyInv, SocietyTick
  PROVE  SocietyInv'
<1>1. society' = society /\ tasks' = tasks /\ fleet' = fleet /\ now' = now + 1 /\ now \in Nat
  BY DEF SocietyTick, Tick, societyVars, SocietyInv, SocietyTyped
<1>2. ASSUME NEW d \in Dispatches
      PROVE  TaskHolds(tasks[d], society.grants, now + 1)
  <2>1. tasks[d].checked \in Nat /\ TaskHolds(tasks[d], society.grants, now)
    BY TaskKnown DEF TaskType
  <2> QED BY <1>1, <2>1 DEF TaskHolds
<1>3. SocietyTyped'
  BY <1>1 DEF SocietyInv, SocietyTyped
<1>4. (\A a \in Agents : CardOf(tasks, fleet[a], a)) /\ Expiring(society.grants)
  BY DEF SocietyInv
<1> QED BY <1>1, <1>2, <1>3, <1>4 DEF SocietyInv

LEMMA SocietyStep ==
  ASSUME SocietyInv, [SocietyNext]_<<now, societyVars>>
  PROVE  SocietyInv'
<1>1. ASSUME NEW d \in Dispatches,
             \/ \E question \in Questions, privileged, cited \in BOOLEAN :
                    Accept(d, question, privileged, cited)
             \/ \E field \in Fields, agent \in Agents \cup {Nobody} :
                    \/ \E sure \in BOOLEAN : Route(d, field, agent, sure)
                    \/ TieBroken(d, field, agent)
             \/ TieStands(d)
             \/ CheckGrant(d)
             \/ \E preset \in Presets, wired, budgetGone \in BOOLEAN :
                    \E healthy \in ProbeLocal(wired) : Decide(d, preset, healthy, budgetGone)
             \/ \E skill \in Topics, threw \in BOOLEAN : Run(d, skill, threw)
             \/ RunsNobody(d)
      PROVE  SocietyInv'
  <2>1. \A wired \in BOOLEAN : ProbeLocal(wired) \subseteq BOOLEAN
    BY DEF ProbeLocal
  <2> QED BY <1>1, <2>1, AcceptKeeps, RouteKeeps, BrokenKeeps, StandsKeeps, CheckKeeps,
             DecideKeeps, RunKeeps, NobodyRuns
<1>2. ASSUME NEW agent \in Agents,
             \/ \E field \in Fields, ttl \in Ttls : IssueGrant(agent, field, ttl)
             \/ \E off \in BOOLEAN : SetDisabled(agent, off)
             \/ \E target \in {"none", "local", "cloud"} : Pin(agent, target)
             \/ Spawn(agent)
             \/ Retire(agent)
      PROVE  SocietyInv'
  <2>1. "none" \in Targets /\ TRUE \in BOOLEAN /\ {"none", "local", "cloud"} = Targets
    BY DEF Targets
  <2> QED BY <1>2, <2>1, IssueKeeps, OwnerKeeps
<1>3. CASE \E g \in 1..MaxGrants : RevokeGrant(g)
  BY <1>3, RevokeKeeps
<1>4. CASE SocietyRestart
  <2>1. now' \in Nat
    BY <1>4 DEF SocietyRestart, SocietyInv, SocietyTyped
  <2>2. /\ society' = Fleet /\ tasks' = [d \in Dispatches |-> NoTask]
        /\ fleet' = [a \in Agents |-> NoMetrics]
    BY <1>4 DEF SocietyRestart
  <2> QED BY <2>1, <2>2, FreshFleet DEF SocietyInv, SocietyTyped
<1>5. CASE SocietyTick
  BY <1>5, TickKeeps
<1>6. CASE UNCHANGED <<now, societyVars>>
  BY <1>6 DEF societyVars, SocietyInv, SocietyTyped
<1> QED BY <1>1, <1>2, <1>3, <1>4, <1>5, <1>6 DEF SocietyNext

\* What the invariant says of an agent's card includes those that wait for
\* their tie to be broken.
LEMMA SocietyIsTrue ==
  ASSUME SocietyInv
  PROVE  SocietyHolds
<1>1. PrivilegedStaysLocal
  BY DEF PrivilegedStaysLocal, SocietyInv, TaskHolds
<1>2. RunsAreGranted
  BY DEF RunsAreGranted, SocietyInv, TaskHolds, LetThrough, PastTheGate
<1>3. GroundedHonest
  <2>1. \A d \in Dispatches : tasks[d].answer.grounded => tasks[d].cited /\ tasks[d].answer.review
    BY DEF SocietyInv, TaskHolds
  <2>2. ASSUME NEW a \in Agents,
               NEW busy, busy = {d \in Dispatches : tasks[d].agent = a
                                     /\ tasks[d].pc \in {"check", "decide", "run"}}
        PROVE  fleet[a].completed + fleet[a].failed + Cardinality(busy) <= fleet[a].routed
    <3>1. busy \subseteq InHand(tasks, a)
      BY <2>2 DEF InHand, Held, UnderWay
    <3>2. IsFiniteSet(InHand(tasks, a)) /\ CardOf(tasks, fleet[a], a) /\ fleet[a] \in MetricsType
      BY DEF SocietyInv, SocietyTyped, CardOf
    <3>3. Cardinality(busy) <= Cardinality(InHand(tasks, a)) /\ IsFiniteSet(busy)
      BY <3>1, <3>2, FS_Subset
    <3>4. Cardinality(busy) \in Nat /\ Cardinality(InHand(tasks, a)) \in Nat
      BY <3>2, <3>3, FS_CardinalityType
    <3>5. fleet[a].completed \in Nat /\ fleet[a].failed \in Nat /\ fleet[a].routed \in Nat
      BY <3>2 DEF MetricsType
    <3>6. fleet[a].completed + fleet[a].failed + Cardinality(InHand(tasks, a)) <= fleet[a].routed
      BY <3>2 DEF CardOf
    <3> QED BY <3>3, <3>4, <3>5, <3>6
  <2> QED BY <2>1, <2>2 DEF GroundedHonest
<1> QED BY <1>1, <1>2, <1>3 DEF SocietyHolds

\* Whatever the owner changes between the gates of however many dispatches
\* (orchestrator.service.ts, agent-governance.service.ts): a privileged turn
\* neither runs in the cloud nor is shown to whoever breaks ties; what runs went
\* through the gate with a grant for that agent and that field, in force then;
\* and no answer says it is grounded without law from the shelf.
THEOREM TheGatesHold == SocietySpec => []SocietyHolds
<1>1. SocietyInit /\ ClockInit => SocietyInv
  <2> SUFFICES ASSUME SocietyInit, ClockInit
               PROVE  SocietyInv
    OBVIOUS
  <2>1. /\ society = Fleet /\ tasks = [d \in Dispatches |-> NoTask]
        /\ fleet = [a \in Agents |-> NoMetrics] /\ now \in Nat
    BY DEF SocietyInit, ClockInit
  <2> QED BY <2>1, FreshFleet DEF SocietyInv, SocietyTyped
<1>2. SocietyInv /\ [SocietyNext]_<<now, societyVars>> => SocietyInv'
  BY SocietyStep
<1>3. SocietyInv => SocietyHolds
  BY SocietyIsTrue
<1> QED BY <1>1, <1>2, <1>3, PTL DEF SocietySpec

HIDE SocietyAssumption
HIDE NobodyAssumption
HIDE MaxClockAssumption

-----------------------------------------------------------------------------
(* Budget: no answer is charged to a month twice.                            *)

QueryRecords ==
    [pc : {"idle", "reading", "checking", "paid", "again", "spending", "monthly", "accruing"},
     day : Days, entry : Nat, spent : Nat]

\* Who is at its record has one in memory.
BudgetTypes ==
    /\ today \in Days
    /\ dayBook \in [Days -> Nat] /\ monthBook \in [Months -> Nat]
    /\ entries \in Seq(Nat) /\ cached \in 0..Len(entries)
    /\ queries \in [Queries -> QueryRecords]
    /\ reported \in Nat
    /\ \A a \in Queries :
          queries[a].pc \in {"checking", "spending"} => queries[a].entry \in 1..Len(entries)

\* What a question was reported to have cost and no month has been charged with.
Uncharged ==
    [a \in Queries |-> IF queries[a].pc \in {"again", "spending", "monthly"}
                       THEN queries[a].spent ELSE 0]

\* h is what was charged to each month by who read its record: what the record
\* says, and what those who have read it will make it say, is no more.
ChargedAs(h) ==
    /\ SumOver(h, Months) + SumOver(Uncharged, Queries) <= reported
    /\ \A m \in Months : monthBook[m] <= h[m]
    /\ \A a \in Queries : queries[a].pc = "accruing" =>
          queries[a].spent <= h[MonthOf[queries[a].day]]

BudgetInv ==
    BudgetTypes /\ \E h \in [Months -> Nat] : ChargedAs(h)

LEMMA DaysAndMonths ==
  /\ IsFiniteSet(Months) /\ Days = 1..Len(MonthOf) /\ 1 \in Days /\ Len(MonthOf) \in Nat
  /\ \A d \in Days : d \in Nat /\ MonthOf[d] \in Months
<1>1. Len(MonthOf) \in Nat /\ Days = 1..Len(MonthOf) /\ Len(MonthOf) # 0
  BY BudgetAssumption, LenProperties, EmptySeq DEF Days
<1>2. IsFiniteSet(1..Len(MonthOf))
  BY <1>1, FS_Interval
<1>3. IsFiniteSet(DOMAIN MonthOf)
  BY <1>1, <1>2 DEF Days
<1>4. Months = {MonthOf[d] : d \in DOMAIN MonthOf}
  BY DEF Months, Range
<1>5. MonthOf \in Surjection(DOMAIN MonthOf, Months)
  <2>1. MonthOf \in [1..Len(MonthOf) -> Nat]
    BY BudgetAssumption, LenProperties
  <2>2. MonthOf \in [DOMAIN MonthOf -> Months]
    BY <1>4, <2>1
  <2> QED BY <1>4, <2>2 DEF Surjection
<1>6. IsFiniteSet(Months)
  BY <1>3, <1>5, FS_Surjection
<1> QED BY <1>1, <1>4, <1>6 DEF Days

LEMMA BudgetStart ==
  BudgetInit => BudgetInv
<1> SUFFICES ASSUME BudgetInit PROVE BudgetInv
  OBVIOUS
<1>1. /\ today = 1 /\ dayBook = [d \in Days |-> 0] /\ monthBook = [m \in Months |-> 0]
      /\ entries = <<>> /\ cached = 0 /\ queries = [a \in Queries |-> NoQuery] /\ reported = 0
  BY DEF BudgetInit
<1>2. NoQuery \in QueryRecords /\ NoQuery.pc = "idle"
  BY DaysAndMonths DEF NoQuery, QueryRecords
<1>3. BudgetTypes
  <2>1. entries \in Seq(Nat) /\ Len(entries) = 0
    BY <1>1, EmptySeq
  <2> QED BY <1>1, <1>2, <2>1, DaysAndMonths DEF BudgetTypes
<1>4. \E h \in [Months -> Nat] : ChargedAs(h)
  <2> DEFINE h == [m \in Months |-> 0]
  <2>1. SumOver(h, Months) = 0
    BY DaysAndMonths, TotalOfZeros
  <2>2. \A a \in Queries : Uncharged[a] = 0
    BY <1>1, <1>2 DEF Uncharged
  <2>3. SumOver(Uncharged, Queries) = 0
    BY <2>2, BudgetAssumption, TotalOfZeros
  <2>4. h \in [Months -> Nat]
    OBVIOUS
  <2>5. \A a \in Queries : queries[a].pc # "accruing"
    BY <1>1, <1>2
  <2>6. \A m \in Months : monthBook[m] <= h[m]
    BY <1>1
  <2> HIDE DEF h
  <2>7. ChargedAs(h)
    BY <1>1, <2>1, <2>3, <2>5, <2>6 DEF ChargedAs
  <2> QED BY <2>4, <2>7
<1> QED BY <1>3, <1>4 DEF BudgetInv

LEMMA UnchargedType ==
  ASSUME BudgetTypes
  PROVE  /\ \A a \in Queries : Uncharged[a] \in Nat
         /\ SumOver(Uncharged, Queries) \in Nat
<1>1. \A a \in Queries : Uncharged[a] \in Nat
  BY DEF BudgetTypes, QueryRecords, Uncharged
<1> QED BY <1>1, BudgetAssumption, TotalIsNat

\* A step that reports nothing new and charges no month.
LEMMA NothingCharged ==
  ASSUME BudgetTypes, BudgetTypes', NEW h \in [Months -> Nat], ChargedAs(h),
         reported' = reported, monthBook' = monthBook,
         \A a \in Queries :
            \/ queries'[a] = queries[a]
            \/ queries'[a].pc \notin {"again", "spending", "monthly", "accruing"}
            \/ /\ queries'[a].pc \in {"spending", "monthly"} /\ queries'[a].spent = queries[a].spent
               /\ queries[a].pc \in {"again", "spending"}
  PROVE  ChargedAs(h)'
<1>1. \A a \in Queries : Uncharged'[a] <= Uncharged[a]
  BY DEF Uncharged, BudgetTypes, QueryRecords
<1>2. /\ \A a \in Queries : Uncharged[a] \in Nat
      /\ SumOver(Uncharged, Queries) \in Nat
  BY UnchargedType
<1>3. \A a \in Queries : Uncharged'[a] \in Nat
  BY DEF BudgetTypes, QueryRecords, Uncharged
<1>4. SumOver(Uncharged', Queries) <= SumOver(Uncharged, Queries) /\ SumOver(Uncharged', Queries) \in Nat
  <2>1. \A a \in Queries : /\ Uncharged'[a] \in Int /\ Uncharged[a] \in Int
                            /\ Uncharged'[a] <= Uncharged[a]
    BY <1>1, <1>2, <1>3
  <2>2. SumOver(Uncharged', Queries) <= SumOver(Uncharged, Queries)
    BY <2>1, BudgetAssumption, TotalMonotone
  <2>3. SumOver(Uncharged', Queries) \in Nat
    BY <1>3, BudgetAssumption, TotalIsNat
  <2> QED BY <2>2, <2>3
<1>5. SumOver(h, Months) + SumOver(Uncharged', Queries) <= reported'
  <2>1. SumOver(h, Months) \in Nat
    BY DaysAndMonths, TotalIsNat
  <2>2. SumOver(h, Months) + SumOver(Uncharged, Queries) <= reported /\ reported \in Nat
    BY DEF ChargedAs, BudgetTypes
  <2> QED BY <1>2, <1>4, <2>1, <2>2
<1>6. \A a \in Queries : queries'[a].pc = "accruing" => queries'[a] = queries[a]
  OBVIOUS
<1>7. \A a \in Queries : queries'[a].pc = "accruing" =>
         queries'[a].spent <= h[MonthOf[queries'[a].day]]
  BY <1>6 DEF ChargedAs
<1> QED BY <1>5, <1>7 DEF ChargedAs

\* One question moves, the records in memory stay or are more.
LEMMA OneMoves ==
  ASSUME BudgetTypes, NEW a \in Queries, NEW r \in QueryRecords,
         queries' = [queries EXCEPT ![a] = r],
         today' \in Days, dayBook' \in [Days -> Nat], monthBook' \in [Months -> Nat],
         reported' \in Nat, entries' \in Seq(Nat), Len(entries) <= Len(entries'),
         cached' \in 0..Len(entries'),
         r.pc \in {"checking", "spending"} => r.entry \in 1..Len(entries')
  PROVE  /\ BudgetTypes' /\ queries'[a] = r
         /\ \A b \in Queries \ {a} : queries'[b] = queries[b]
<1>1. queries' \in [Queries -> QueryRecords] /\ queries'[a] = r
      /\ \A b \in Queries \ {a} : queries'[b] = queries[b]
  BY DEF BudgetTypes
<1>2. Len(entries) \in Nat /\ Len(entries') \in Nat
  BY LenProperties DEF BudgetTypes
<1>3. \A k \in 1..Len(entries) : k \in 1..Len(entries')
  BY <1>2
<1>4. \A b \in Queries :
         queries'[b].pc \in {"checking", "spending"} => queries'[b].entry \in 1..Len(entries')
  BY <1>1, <1>3 DEF BudgetTypes
<1> QED BY <1>1, <1>4 DEF BudgetTypes

\* What BudgetTypes says of one question, and of the rest.
LEMMA BudgetFields ==
  ASSUME BudgetTypes, NEW a \in Queries
  PROVE  /\ queries[a] \in QueryRecords /\ queries[a].day \in Days /\ queries[a].spent \in Nat
         /\ queries[a].entry \in Nat /\ Len(entries) \in Nat /\ cached \in Nat
         /\ cached <= Len(entries) /\ Len(entries) <= Len(entries)
         /\ today \in Days /\ reported \in Nat /\ dayBook[queries[a].day] \in Nat
         /\ MonthOf[queries[a].day] \in Months /\ Month \in Months
         /\ monthBook[Month] \in Nat
<1>1. queries[a] \in QueryRecords /\ today \in Days /\ reported \in Nat
      /\ cached \in 0..Len(entries) /\ Len(entries) \in Nat
  BY LenProperties DEF BudgetTypes
<1>2. queries[a].day \in Days /\ queries[a].spent \in Nat /\ queries[a].entry \in Nat
  BY <1>1 DEF QueryRecords
<1>3. MonthOf[queries[a].day] \in Months /\ Month \in Months
  BY <1>1, <1>2, DaysAndMonths DEF Month
<1> QED BY <1>1, <1>2, <1>3 DEF BudgetTypes

\* The steps before a charge.
LEMMA DoubtStep ==
  ASSUME BudgetTypes, NEW a \in Queries, Doubt(a)
  PROVE  /\ BudgetTypes' /\ UNCHANGED <<reported, monthBook>>
         /\ queries'[a].pc \in {"checking", "reading"}
         /\ \A b \in Queries \ {a} : queries'[b] = queries[b]
<1>1. PICK c \in Nat, d \in Days, pc \in {"checking", "reading"} :
         /\ c = cached /\ d = today /\ pc = IF cached = 0 THEN "reading" ELSE "checking"
  BY BudgetFields
<1> DEFINE r == [queries[a] EXCEPT !.pc = pc, !.entry = c, !.day = d]
<1>2. queries' = [queries EXCEPT ![a] = r]
  BY <1>1 DEF Doubt, LoadDay, BudgetTypes, QueryRecords
<1>3. r \in QueryRecords /\ r.pc = pc /\ r.entry = c
  BY BudgetFields DEF QueryRecords
<1> HIDE DEF r
<1>4. UNCHANGED <<today, dayBook, monthBook, entries, cached, reported>>
  BY DEF Doubt
<1>5. r.pc = "checking" => r.entry \in 1..Len(entries)
  BY <1>1, <1>3, BudgetFields
<1>6. r.pc \in {"checking", "spending"} => r.entry \in 1..Len(entries')
  BY <1>3, <1>4, <1>5
<1>7. BudgetTypes' /\ queries'[a] = r /\ \A b \in Queries \ {a} : queries'[b] = queries[b]
  <2>1. today' \in Days /\ dayBook' \in [Days -> Nat] /\ monthBook' \in [Months -> Nat]
        /\ reported' \in Nat /\ entries' \in Seq(Nat) /\ Len(entries) <= Len(entries')
        /\ cached' \in 0..Len(entries')
    BY <1>4, BudgetFields DEF BudgetTypes
  <2> QED BY <1>2, <1>3, <1>6, <2>1, OneMoves
<1> QED BY <1>1, <1>3, <1>4, <1>7

\* A read of the day's record returns.
LEMMA LoadedStep ==
  ASSUME BudgetTypes, NEW a \in Queries, NEW pc \in {"checking", "spending"}, Loaded(a, pc),
         UNCHANGED <<today, dayBook, monthBook, reported>>
  PROVE  /\ BudgetTypes' /\ queries'[a].pc = pc /\ queries'[a].spent = queries[a].spent
         /\ \A b \in Queries \ {a} : queries'[b] = queries[b]
<1>1. PICK n \in Nat : entries' = Append(entries, n)
  BY BudgetFields DEF Loaded
<1>2. /\ entries' \in Seq(Nat) /\ Len(entries') = Len(entries) + 1 /\ Len(entries) \in Nat
      /\ cached' = Len(entries')
  BY <1>1, AppendProperties, LenProperties DEF Loaded, BudgetTypes
<1>3. PICK e \in Nat : e = Len(entries')
  BY <1>2
<1> DEFINE r == [queries[a] EXCEPT !.pc = pc, !.entry = e]
<1>4. queries' = [queries EXCEPT ![a] = r]
  BY <1>3 DEF Loaded, BudgetTypes, QueryRecords
<1>5. r \in QueryRecords /\ r.pc = pc /\ r.entry = e /\ r.spent = queries[a].spent
  BY BudgetFields DEF QueryRecords
<1> HIDE DEF r
<1>6. BudgetTypes' /\ queries'[a] = r /\ \A b \in Queries \ {a} : queries'[b] = queries[b]
  <2>1. today' \in Days /\ dayBook' \in [Days -> Nat] /\ monthBook' \in [Months -> Nat]
        /\ reported' \in Nat
    BY DEF BudgetTypes
  <2>2. /\ Len(entries) <= Len(entries') /\ cached' \in 0..Len(entries')
        /\ r.entry \in 1..Len(entries')
    BY <1>2, <1>3, <1>5
  <2> QED BY <1>2, <1>4, <1>5, <2>1, <2>2, OneMoves
<1> QED BY <1>5, <1>6

LEMMA CheckStep ==
  ASSUME BudgetTypes, NEW a \in Queries, Check(a)
  PROVE  /\ BudgetTypes' /\ UNCHANGED <<reported, monthBook>>
         /\ queries'[a].pc \in {"idle", "paid"}
         /\ \A b \in Queries \ {a} : queries'[b] = queries[b]
<1>1. PICK pc \in {"idle", "paid"} : queries' = [queries EXCEPT ![a].pc = pc]
  BY DEF Check, Moves
<1> DEFINE r == [queries[a] EXCEPT !.pc = pc]
<1>2. queries' = [queries EXCEPT ![a] = r]
  BY <1>1 DEF BudgetTypes
<1>3. r \in QueryRecords /\ r.pc = pc
  BY BudgetFields DEF QueryRecords
<1> HIDE DEF r
<1>4. UNCHANGED <<today, dayBook, monthBook, entries, cached, reported>>
  BY DEF Check
<1>5. BudgetTypes' /\ queries'[a] = r /\ \A b \in Queries \ {a} : queries'[b] = queries[b]
  <2>1. today' \in Days /\ dayBook' \in [Days -> Nat] /\ monthBook' \in [Months -> Nat]
        /\ reported' \in Nat /\ entries' \in Seq(Nat) /\ Len(entries) <= Len(entries')
        /\ cached' \in 0..Len(entries')
    BY <1>4, BudgetFields DEF BudgetTypes
  <2> QED BY <1>2, <1>3, <2>1, OneMoves
<1> QED BY <1>3, <1>4, <1>5

\* The answer and what it cost.
LEMMA PaidStep ==
  ASSUME BudgetTypes, NEW a \in Queries, PaidAnswer(a)
  PROVE  \E cost \in Nat :
            /\ BudgetTypes' /\ UNCHANGED monthBook /\ reported' = reported + cost
            /\ queries[a].pc = "paid"
            /\ queries'[a].pc \in {"again", "spending"} /\ queries'[a].spent = cost
            /\ \A b \in Queries \ {a} : queries'[b] = queries[b]
<1>1. PICK cost \in Usage : /\ reported' = reported + cost
                            /\ queries' = [queries EXCEPT ![a] =
                                 [pc |-> IF cached = 0 THEN "again" ELSE "spending",
                                  day |-> today, entry |-> cached, spent |-> cost]]
  BY DEF PaidAnswer
<1>2. cost \in Nat
  BY BudgetAssumption
<1>3. PICK c \in Nat, d \in Days, pc \in {"again", "spending"} :
         /\ c = cached /\ d = today /\ pc = IF cached = 0 THEN "again" ELSE "spending"
  BY BudgetFields
<1> DEFINE r == [pc |-> pc, day |-> d, entry |-> c, spent |-> cost]
<1>4. queries' = [queries EXCEPT ![a] = r]
  BY <1>1, <1>3
<1>5. r \in QueryRecords /\ r.pc = pc /\ r.entry = c /\ r.spent = cost
  BY <1>2 DEF QueryRecords
<1> HIDE DEF r
<1>6. UNCHANGED <<today, dayBook, monthBook, entries, cached>> /\ queries[a].pc = "paid"
  BY DEF PaidAnswer
<1>7. r.pc \in {"checking", "spending"} => r.entry \in 1..Len(entries')
  BY <1>3, <1>5, <1>6, BudgetFields
<1>8. BudgetTypes' /\ queries'[a] = r /\ \A b \in Queries \ {a} : queries'[b] = queries[b]
  <2>1. today' \in Days /\ dayBook' \in [Days -> Nat] /\ monthBook' \in [Months -> Nat]
        /\ reported' \in Nat /\ entries' \in Seq(Nat) /\ Len(entries) <= Len(entries')
        /\ cached' \in 0..Len(entries')
    BY <1>1, <1>2, <1>6, BudgetFields DEF BudgetTypes
  <2> QED BY <1>4, <1>5, <1>7, <2>1, OneMoves
<1> QED BY <1>1, <1>2, <1>5, <1>6, <1>8

\* The record grows; what it cost goes on to the month, or is lost.
LEMMA SpendStep ==
  ASSUME BudgetTypes, NEW a \in Queries, Spend(a)
  PROVE  /\ BudgetTypes' /\ UNCHANGED <<reported, monthBook>>
         /\ queries[a].pc = "spending"
         /\ \/ queries'[a].pc = "idle"
            \/ queries'[a].pc = "monthly" /\ queries'[a].spent = queries[a].spent
         /\ \A b \in Queries \ {a} : queries'[b] = queries[b]
<1>1. queries[a].pc = "spending" /\ UNCHANGED <<today, monthBook, cached, reported>>
  BY DEF Spend
<1>2. queries[a].entry \in 1..Len(entries)
  BY <1>1 DEF BudgetTypes
<1>0. entries[queries[a].entry] \in Nat /\ queries[a].spent \in Nat
  <2>1. entries \in Seq(Nat)
    BY DEF BudgetTypes
  <2>2. entries[queries[a].entry] \in Nat
    BY <1>2, <2>1, ElementOfSeq
  <2> QED BY <2>2, BudgetFields
<1>3. PICK total \in Nat : total = entries[queries[a].entry] + queries[a].spent
  BY <1>0
<1>4. /\ \/ entries' = entries
         \/ entries' = [entries EXCEPT ![queries[a].entry] = total]
      /\ dayBook' = dayBook \/ dayBook' = [dayBook EXCEPT ![today] = total]
  BY <1>3 DEF Spend
<1>5. entries' \in Seq(Nat) /\ Len(entries') = Len(entries)
  BY <1>2, <1>3, <1>4, ExceptSeq DEF BudgetTypes
<1>6. dayBook' \in [Days -> Nat]
  BY <1>3, <1>4, BudgetFields DEF BudgetTypes
<1>7. PICK pc \in {"idle", "monthly"}, d \in Days :
         queries' = [queries EXCEPT ![a].pc = pc, ![a].day = d]
  <2>1. CASE queries' = [queries EXCEPT ![a].pc = "idle"]
    <3>1. queries' = [queries EXCEPT ![a].pc = "idle", ![a].day = queries[a].day]
      BY <2>1 DEF BudgetTypes, QueryRecords
    <3> QED BY <3>1, BudgetFields
  <2>2. CASE queries' = [queries EXCEPT ![a].pc = "monthly", ![a].day = today]
    BY <2>2, BudgetFields
  <2> QED BY <2>1, <2>2 DEF Spend, Moves
<1> DEFINE r == [queries[a] EXCEPT !.pc = pc, !.day = d]
<1>8. queries' = [queries EXCEPT ![a] = r]
  BY <1>7 DEF BudgetTypes, QueryRecords
<1>9. r \in QueryRecords /\ r.pc = pc /\ r.spent = queries[a].spent
  BY BudgetFields DEF QueryRecords
<1> HIDE DEF r
<1>10. BudgetTypes' /\ queries'[a] = r /\ \A b \in Queries \ {a} : queries'[b] = queries[b]
  <2>1. today' \in Days /\ monthBook' \in [Months -> Nat] /\ reported' \in Nat
        /\ Len(entries) <= Len(entries') /\ cached' \in 0..Len(entries')
    BY <1>1, <1>5, BudgetFields DEF BudgetTypes
  <2> QED BY <1>5, <1>6, <1>8, <1>9, <2>1, OneMoves
<1> QED BY <1>1, <1>9, <1>10

\* The month's record is read, and what it will say is known.
LEMMA MonthlyReadStep ==
  ASSUME BudgetTypes, NEW a \in Queries, MonthlyRead(a)
  PROVE  /\ BudgetTypes' /\ UNCHANGED <<today, reported, monthBook>>
         /\ queries[a].pc = "monthly" /\ queries'[a].pc = "accruing"
         /\ MonthOf[queries'[a].day] = Month
         /\ queries'[a].spent \in Nat
         /\ queries'[a].spent <= queries[a].spent + monthBook[Month]
         /\ \A b \in Queries \ {a} : queries'[b] = queries[b]
<1>1. /\ queries[a].pc = "monthly"
      /\ UNCHANGED <<today, dayBook, monthBook, entries, cached, reported>>
  BY DEF MonthlyRead
<1>2. PICK read \in {0, monthBook[Month]} :
         queries' = [queries EXCEPT ![a].pc = "accruing", ![a].spent = @ + read, ![a].day = today]
  BY DEF MonthlyRead
<1>3. PICK s \in Nat, d \in Days : s = queries[a].spent + read /\ d = today
  BY BudgetFields
<1>4. s <= queries[a].spent + monthBook[Month]
  BY <1>3, BudgetFields
<1> DEFINE r == [queries[a] EXCEPT !.pc = "accruing", !.spent = s, !.day = d]
<1>5. queries' = [queries EXCEPT ![a] = r]
  BY <1>2, <1>3 DEF BudgetTypes, QueryRecords
<1>6. r \in QueryRecords /\ r.pc = "accruing" /\ r.spent = s /\ r.day = d
  BY BudgetFields DEF QueryRecords
<1> HIDE DEF r
<1>7. BudgetTypes' /\ queries'[a] = r /\ \A b \in Queries \ {a} : queries'[b] = queries[b]
  <2>1. today' \in Days /\ dayBook' \in [Days -> Nat] /\ monthBook' \in [Months -> Nat]
        /\ reported' \in Nat /\ entries' \in Seq(Nat) /\ Len(entries) <= Len(entries')
        /\ cached' \in 0..Len(entries')
    BY <1>1, BudgetFields DEF BudgetTypes
  <2> QED BY <1>5, <1>6, <2>1, OneMoves
<1>8. MonthOf[d] = Month
  BY <1>3 DEF Month
<1> QED BY <1>1, <1>3, <1>4, <1>6, <1>7, <1>8

\* The month's record is put, or refused.
LEMMA MonthlyPutStep ==
  ASSUME BudgetTypes, NEW a \in Queries, MonthlyPut(a)
  PROVE  /\ BudgetTypes' /\ UNCHANGED reported
         /\ queries[a].pc = "accruing" /\ queries'[a].pc = "idle"
         /\ \/ UNCHANGED monthBook
            \/ monthBook' = [monthBook EXCEPT ![MonthOf[queries[a].day]] = queries[a].spent]
         /\ \A b \in Queries \ {a} : queries'[b] = queries[b]
<1>1. /\ queries[a].pc = "accruing"
      /\ UNCHANGED <<today, dayBook, entries, cached, reported>>
      /\ \/ UNCHANGED monthBook
         \/ monthBook' = [monthBook EXCEPT ![MonthOf[queries[a].day]] = queries[a].spent]
  BY DEF MonthlyPut
<1> DEFINE r == [queries[a] EXCEPT !.pc = "idle"]
<1>2. queries' = [queries EXCEPT ![a] = r]
  BY DEF MonthlyPut, Moves, BudgetTypes
<1>3. r \in QueryRecords /\ r.pc = "idle"
  BY BudgetFields DEF QueryRecords
<1> HIDE DEF r
<1>4. BudgetTypes' /\ queries'[a] = r /\ \A b \in Queries \ {a} : queries'[b] = queries[b]
  <2>1. today' \in Days /\ dayBook' \in [Days -> Nat] /\ monthBook' \in [Months -> Nat]
        /\ reported' \in Nat /\ entries' \in Seq(Nat) /\ Len(entries) <= Len(entries')
        /\ cached' \in 0..Len(entries')
    BY <1>1, BudgetFields DEF BudgetTypes
  <2> QED BY <1>2, <1>3, <2>1, OneMoves
<1> QED BY <1>1, <1>3, <1>4

\* The charges stay justified, step by step.
LEMMA OneUncharged ==
  ASSUME BudgetTypes, BudgetTypes', NEW a \in Queries,
         \A b \in Queries \ {a} : queries'[b] = queries[b]
  PROVE  SumOver(Uncharged', Queries) = SumOver(Uncharged, Queries) + (Uncharged'[a] - Uncharged[a])
<1>1. \A b \in Queries : Uncharged[b] \in Int /\ Uncharged'[b] \in Int
  <2>1. \A b \in Queries : Uncharged[b] \in Int
    BY DEF Uncharged, BudgetTypes, QueryRecords
  <2>2. \A b \in Queries : Uncharged'[b] \in Int
    BY DEF Uncharged, BudgetTypes, QueryRecords
  <2> QED BY <2>1, <2>2
<1>2. \A b \in Queries \ {a} : Uncharged'[b] = Uncharged[b]
  BY DEF Uncharged
<1> QED BY <1>1, <1>2, BudgetAssumption, TotalChanges

LEMMA ChargedSums ==
  ASSUME BudgetTypes, NEW h \in [Months -> Nat]
  PROVE  SumOver(h, Months) \in Nat /\ SumOver(Uncharged, Queries) \in Nat /\ reported \in Nat
BY DaysAndMonths, TotalIsNat, UnchargedType DEF BudgetTypes

LEMMA PaidCharges ==
  ASSUME BudgetTypes, NEW h \in [Months -> Nat], ChargedAs(h), NEW a \in Queries, PaidAnswer(a)
  PROVE  BudgetTypes' /\ ChargedAs(h)'
<1>1. PICK cost \in Nat :
         /\ BudgetTypes' /\ UNCHANGED monthBook /\ reported' = reported + cost
         /\ queries[a].pc = "paid"
         /\ queries'[a].pc \in {"again", "spending"} /\ queries'[a].spent = cost
         /\ \A b \in Queries \ {a} : queries'[b] = queries[b]
  BY PaidStep
<1>2. Uncharged[a] = 0 /\ Uncharged'[a] = cost
  BY <1>1 DEF Uncharged
<1>3. SumOver(Uncharged', Queries) = SumOver(Uncharged, Queries) + cost
  <2>1. SumOver(Uncharged', Queries) = SumOver(Uncharged, Queries) + (cost - 0)
    BY <1>1, <1>2, OneUncharged
  <2> QED BY <2>1
<1>4. SumOver(h, Months) + SumOver(Uncharged', Queries) <= reported'
  <2>1. PICK x \in Nat, y \in Nat, z \in Nat :
           x = SumOver(h, Months) /\ y = SumOver(Uncharged, Queries) /\ z = reported
    BY ChargedSums
  <2>2. x + y <= z
    BY <2>1 DEF ChargedAs
  <2>3. SumOver(Uncharged', Queries) = y + cost /\ reported' = z + cost
    BY <1>1, <1>3, <2>1
  <2>4. x + (y + cost) <= z + cost
    BY <2>2
  <2> QED BY <2>1, <2>3, <2>4
<1>5. \A b \in Queries : queries'[b].pc = "accruing" => queries'[b] = queries[b]
  BY <1>1
<1>6. \A b \in Queries : queries'[b].pc = "accruing" =>
         queries'[b].spent <= h[MonthOf[queries'[b].day]]
  BY <1>5 DEF ChargedAs
<1>7. \A m \in Months : monthBook'[m] <= h[m]
  BY <1>1 DEF ChargedAs
<1> QED BY <1>1, <1>4, <1>6, <1>7 DEF ChargedAs

\* Who reads the month's record charges it with its answer.
LEMMA ReadCharges ==
  ASSUME BudgetTypes, NEW h \in [Months -> Nat], ChargedAs(h), NEW a \in Queries, MonthlyRead(a)
  PROVE  BudgetTypes' /\ \E g \in [Months -> Nat] : ChargedAs(g)'
<1>1. /\ BudgetTypes' /\ UNCHANGED <<today, reported, monthBook>>
      /\ queries[a].pc = "monthly" /\ queries'[a].pc = "accruing"
      /\ MonthOf[queries'[a].day] = Month
      /\ queries'[a].spent \in Nat
      /\ queries'[a].spent <= queries[a].spent + monthBook[Month]
      /\ \A b \in Queries \ {a} : queries'[b] = queries[b]
  BY MonthlyReadStep
<1>2. PICK cost \in Nat, m \in Months : cost = queries[a].spent /\ m = Month
  BY BudgetFields
<1>3. PICK g \in [Months -> Nat] : g = [h EXCEPT ![m] = @ + cost]
  <2>1. h[m] + cost \in Nat
    OBVIOUS
  <2>2. [h EXCEPT ![m] = h[m] + cost] \in [Months -> Nat]
    BY <2>1
  <2> QED BY <2>2
<1>4. /\ g[m] = h[m] + cost /\ \A k \in Months \ {m} : g[k] = h[k]
      /\ \A k \in Months : h[k] <= g[k] /\ h[k] \in Nat /\ g[k] \in Nat
  BY <1>3
<1>5. SumOver(g, Months) = SumOver(h, Months) + cost
  <2>1. \A y \in Months : h[y] \in Int /\ g[y] \in Int
    BY <1>4
  <2>2. SumOver(g, Months) = SumOver(h, Months) + (g[m] - h[m])
    BY <1>4, <2>1, DaysAndMonths, TotalChanges
  <2>3. g[m] - h[m] = cost
    BY <1>4
  <2> QED BY <2>2, <2>3
<1>6. SumOver(Uncharged', Queries) + cost = SumOver(Uncharged, Queries)
  <2>1. Uncharged[a] = cost /\ Uncharged'[a] = 0
    BY <1>1, <1>2 DEF Uncharged
  <2>2. SumOver(Uncharged', Queries) = SumOver(Uncharged, Queries) + (0 - cost)
    BY <1>1, <2>1, OneUncharged
  <2>3. SumOver(Uncharged, Queries) \in Nat
    BY ChargedSums
  <2> QED BY <2>2, <2>3
<1>7. SumOver(g, Months) + SumOver(Uncharged', Queries) <= reported'
  <2>1. PICK x \in Nat, y \in Nat, z \in Nat :
           x = SumOver(h, Months) /\ y = SumOver(Uncharged', Queries) /\ z = reported
    <3>1. \A b \in Queries : Uncharged'[b] \in Nat
      BY <1>1 DEF Uncharged, BudgetTypes, QueryRecords
    <3>2. SumOver(Uncharged', Queries) \in Nat
      BY <3>1, BudgetAssumption, TotalIsNat
    <3> QED BY <3>2, ChargedSums
  <2>2. x + (y + cost) <= z
    BY <1>6, <2>1 DEF ChargedAs
  <2>3. (x + cost) + y <= z
    BY <2>2
  <2> QED BY <1>1, <1>5, <2>1, <2>3
<1>8. \A b \in Queries : queries'[b].pc = "accruing" =>
         queries'[b].spent <= g[MonthOf[queries'[b].day]]
  <2>1. queries'[a].spent <= g[m]
    <3>1. monthBook[m] <= h[m] /\ monthBook[m] \in Nat
      BY <1>2 DEF ChargedAs, BudgetTypes
    <3>2. queries'[a].spent <= cost + monthBook[m]
      BY <1>1, <1>2
    <3> QED BY <1>1, <1>4, <3>1, <3>2
  <2>2. ASSUME NEW b \in Queries \ {a}, queries[b].pc = "accruing"
        PROVE  queries[b].spent <= g[MonthOf[queries[b].day]]
    <3>1. queries[b].spent <= h[MonthOf[queries[b].day]]
      BY <2>2 DEF ChargedAs
    <3>2. MonthOf[queries[b].day] \in Months /\ queries[b].spent \in Nat
      BY BudgetFields
    <3> QED BY <1>4, <3>1, <3>2
  <2> QED BY <1>1, <1>2, <2>1, <2>2
<1>9. \A k \in Months : monthBook'[k] <= g[k]
  <2>1. \A k \in Months : monthBook[k] <= h[k] /\ monthBook[k] \in Nat
    BY DEF ChargedAs, BudgetTypes
  <2> QED BY <1>1, <1>4, <2>1
<1>10. ChargedAs(g)'
  BY <1>7, <1>8, <1>9 DEF ChargedAs
<1> QED BY <1>1, <1>10

LEMMA PutCharges ==
  ASSUME BudgetTypes, NEW h \in [Months -> Nat], ChargedAs(h), NEW a \in Queries, MonthlyPut(a)
  PROVE  BudgetTypes' /\ ChargedAs(h)'
<1>1. /\ BudgetTypes' /\ UNCHANGED reported
      /\ queries[a].pc = "accruing" /\ queries'[a].pc = "idle"
      /\ \/ UNCHANGED monthBook
         \/ monthBook' = [monthBook EXCEPT ![MonthOf[queries[a].day]] = queries[a].spent]
      /\ \A b \in Queries \ {a} : queries'[b] = queries[b]
  BY MonthlyPutStep
<1>2. SumOver(Uncharged', Queries) = SumOver(Uncharged, Queries)
  <2>1. Uncharged[a] = 0 /\ Uncharged'[a] = 0
    BY <1>1 DEF Uncharged
  <2>2. SumOver(Uncharged', Queries) = SumOver(Uncharged, Queries) + (0 - 0)
    BY <1>1, <2>1, OneUncharged
  <2> QED BY <2>2, ChargedSums
<1>3. SumOver(h, Months) + SumOver(Uncharged', Queries) <= reported'
  BY <1>1, <1>2 DEF ChargedAs
<1>4. \A b \in Queries : queries'[b].pc = "accruing" => queries'[b] = queries[b]
  BY <1>1
<1>5. \A b \in Queries : queries'[b].pc = "accruing" =>
         queries'[b].spent <= h[MonthOf[queries'[b].day]]
  BY <1>4 DEF ChargedAs
<1>6. \A m \in Months : monthBook'[m] <= h[m]
  <2>1. queries[a].spent <= h[MonthOf[queries[a].day]]
    BY <1>1 DEF ChargedAs
  <2> QED BY <1>1, <2>1 DEF ChargedAs, BudgetTypes
<1> QED BY <1>1, <1>3, <1>5, <1>6 DEF ChargedAs

LEMMA BudgetStep ==
  ASSUME BudgetInv, [BudgetNext]_budgetVars
  PROVE  BudgetInv'
<1>1. PICK h \in [Months -> Nat] : ChargedAs(h)
  BY DEF BudgetInv
<1>2. BudgetTypes
  BY DEF BudgetInv
<1>3. SUFFICES BudgetTypes' /\ \E g \in [Months -> Nat] : ChargedAs(g)'
  BY DEF BudgetInv
<1>4. ASSUME NEW a \in Queries, Doubt(a) \/ FirstLook(a) \/ Check(a) \/ SecondLook(a) \/ Spend(a)
      PROVE  BudgetTypes' /\ ChargedAs(h)'
  <2>1. CASE Doubt(a)
    BY <1>1, <1>2, <2>1, DoubtStep, NothingCharged
  <2>2. CASE FirstLook(a)
    <3>1. Loaded(a, "checking") /\ UNCHANGED <<today, dayBook, monthBook, reported>>
      BY <2>2 DEF FirstLook
    <3>2. BudgetTypes' /\ queries'[a].pc = "checking"
          /\ \A b \in Queries \ {a} : queries'[b] = queries[b]
      BY <1>2, <3>1, LoadedStep
    <3> QED BY <1>1, <1>2, <3>1, <3>2, NothingCharged
  <2>3. CASE Check(a)
    BY <1>1, <1>2, <2>3, CheckStep, NothingCharged
  <2>4. CASE SecondLook(a)
    <3>1. /\ Loaded(a, "spending") /\ UNCHANGED <<today, dayBook, monthBook, reported>>
          /\ queries[a].pc = "again"
      BY <2>4 DEF SecondLook
    <3>2. BudgetTypes' /\ queries'[a].pc = "spending" /\ queries'[a].spent = queries[a].spent
          /\ \A b \in Queries \ {a} : queries'[b] = queries[b]
      BY <1>2, <3>1, LoadedStep
    <3> QED BY <1>1, <1>2, <3>1, <3>2, NothingCharged
  <2>5. CASE Spend(a)
    <3>1. /\ BudgetTypes' /\ UNCHANGED <<reported, monthBook>>
          /\ queries[a].pc = "spending"
          /\ \/ queries'[a].pc = "idle"
             \/ queries'[a].pc = "monthly" /\ queries'[a].spent = queries[a].spent
          /\ \A b \in Queries \ {a} : queries'[b] = queries[b]
      BY <1>2, <2>5, SpendStep
    <3> QED BY <1>1, <1>2, <3>1, NothingCharged
  <2> QED BY <1>4, <2>1, <2>2, <2>3, <2>4, <2>5
<1>5. CASE Midnight
  <2>1. today' = today + 1 /\ today < Len(MonthOf)
        /\ UNCHANGED <<dayBook, monthBook, entries, cached, queries, reported>>
    BY <1>5 DEF Midnight
  <2>2. today' \in Days
    BY <1>2, <2>1, DaysAndMonths DEF BudgetTypes
  <2>3. BudgetTypes'
    BY <1>2, <2>1, <2>2 DEF BudgetTypes
  <2> QED BY <1>1, <1>2, <2>1, <2>3, NothingCharged
<1>6. CASE BudgetRestart
  <2>1. cached' = 0 /\ entries' = <<>> /\ queries' = [a \in Queries |-> NoQuery]
        /\ UNCHANGED <<today, dayBook, monthBook, reported>>
    BY <1>6 DEF BudgetRestart
  <2>2. NoQuery \in QueryRecords /\ NoQuery.pc = "idle"
    BY DaysAndMonths DEF NoQuery, QueryRecords
  <2>3. entries' \in Seq(Nat) /\ Len(entries') = 0
    BY <2>1, EmptySeq
  <2>4. BudgetTypes'
    BY <1>2, <2>1, <2>2, <2>3 DEF BudgetTypes
  <2> QED BY <1>1, <1>2, <2>1, <2>2, <2>4, NothingCharged
<1>7. CASE UNCHANGED budgetVars
  <2>1. UNCHANGED <<today, dayBook, monthBook, entries, cached, queries, reported>>
    BY <1>7 DEF budgetVars
  <2>2. BudgetTypes'
    BY <1>2, <2>1 DEF BudgetTypes
  <2> QED BY <1>1, <1>2, <2>1, <2>2, NothingCharged
<1>8. ASSUME NEW a \in Queries, PaidAnswer(a)
      PROVE  BudgetTypes' /\ ChargedAs(h)'
  BY <1>1, <1>2, <1>8, PaidCharges
<1>9. ASSUME NEW a \in Queries, MonthlyRead(a)
      PROVE  BudgetTypes' /\ \E g \in [Months -> Nat] : ChargedAs(g)'
  BY <1>1, <1>2, <1>9, ReadCharges
<1>10. ASSUME NEW a \in Queries, MonthlyPut(a)
       PROVE  BudgetTypes' /\ ChargedAs(h)'
  BY <1>1, <1>2, <1>10, PutCharges
<1> QED BY <1>4, <1>5, <1>6, <1>7, <1>8, <1>9, <1>10 DEF BudgetNext

\* The records of the months never add up to more than providers reported,
\* whatever overlaps, is refused or falls over midnight (budget-gate.service.ts,
\* consume() and loadMonthly()): each answer is charged to one month, once, and a
\* record that is written says no more than what was charged to it.
THEOREM TheMonthNeverOverstates == BudgetSpec => []MonthlyNeverOverstates
<1>1. BudgetInit => BudgetInv
  BY BudgetStart
<1>2. BudgetInv /\ [BudgetNext]_budgetVars => BudgetInv'
  BY BudgetStep
<1>3. BudgetInv => MonthlyNeverOverstates
  <2> SUFFICES ASSUME BudgetInv PROVE MonthlyNeverOverstates
    OBVIOUS
  <2>1. PICK h \in [Months -> Nat] : ChargedAs(h)
    BY DEF BudgetInv
  <2>2. BudgetTypes
    BY DEF BudgetInv
  <2>3. FoldFunction(+, 0, monthBook) = SumOver(monthBook, DOMAIN monthBook)
    BY FoldIsTotal
  <2>4. DOMAIN monthBook = Months
    BY <2>2 DEF BudgetTypes
  <2>5. SumOver(monthBook, Months) <= SumOver(h, Months) /\ SumOver(monthBook, Months) \in Nat
    <3>1. \A m \in Months : monthBook[m] \in Int /\ h[m] \in Int /\ monthBook[m] <= h[m]
      BY <2>1, <2>2 DEF ChargedAs, BudgetTypes
    <3>2. \A m \in Months : monthBook[m] \in Nat
      BY <2>2 DEF BudgetTypes
    <3> QED BY <3>1, <3>2, DaysAndMonths, TotalMonotone, TotalIsNat
  <2>6. PICK x \in Nat, y \in Nat, z \in Nat, w \in Nat :
           /\ x = SumOver(h, Months) /\ y = SumOver(Uncharged, Queries) /\ z = reported
           /\ w = SumOver(monthBook, Months)
    BY <2>2, <2>5, ChargedSums
  <2>7. x + y <= z /\ w <= x
    BY <2>1, <2>5, <2>6 DEF ChargedAs
  <2>8. w <= z
    BY <2>7
  <2> QED BY <2>3, <2>4, <2>6, <2>8 DEF MonthlyNeverOverstates
<1> QED BY <1>1, <1>2, <1>3, PTL DEF BudgetSpec

-----------------------------------------------------------------------------
(* Providers: what serves, and what stands in.                               *)

ProviderRows ==
    [type : Categories, adapter : AdapterKeys, active : BOOLEAN,
     health : {"unknown", "healthy", "unhealthy"}, fallback : Nat, stamp : Nat]

\* What the dashboard may send of a row, and what it falls back on.
RowPatches ==
    [{"adapter"} -> AdapterKeys] \cup [{"active"} -> BOOLEAN]
        \cup [adapter : AdapterKeys, active : BOOLEAN]

\* Rows, their stamps, all different and none from the future, and the row each
\* falls back on.
RowsHold ==
    /\ \A id \in Ids : configs[id].type \in InTable /\ configs[id].stamp <= configWrites
    /\ \A i, j \in Ids : configs[i].stamp = configs[j].stamp => i = j
    /\ \A id \in Ids : configs[id].fallback # NoFallback =>
          /\ configs[id].fallback \in Ids \ {id}
          /\ configs[configs[id].fallback].type = configs[id].type

ProvidersInv ==
    /\ configs \in Seq(ProviderRows) /\ configWrites \in Nat
    /\ tests \in [Testers -> [todo : Seq(Nat), asked : {"no", "healthy", "unhealthy"}]]
    /\ \A t \in Testers : \A i \in DOMAIN tests[t].todo : tests[t].todo[i] \in Ids
    /\ RowsHold

LEMMA PatchLaw ==
  ASSUME NEW id \in Ids, configs[id] \in ProviderRows, configWrites' \in Nat,
         NEW patch \in RowPatches
  PROVE  /\ Patched(id, patch) \in ProviderRows
         /\ Patched(id, patch).stamp = configWrites'
         /\ Patched(id, patch).type = configs[id].type
         /\ Patched(id, patch).fallback = configs[id].fallback
<1> PICK row \in ProviderRows, n \in Nat : row = configs[id] /\ n = configWrites'
  OBVIOUS
<1> DEFINE new == [f \in DOMAIN row |-> IF f \in DOMAIN patch THEN patch[f]
                                        ELSE IF f = "stamp" THEN n ELSE row[f]]
<1>0. Patched(id, patch) = new
  BY DEF Patched
<1>1. CASE patch \in [{"adapter"} -> AdapterKeys]
  <2>1. new = [row EXCEPT !.adapter = patch.adapter, !.stamp = n]
    BY <1>1 DEF ProviderRows
  <2> QED BY <1>0, <1>1, <2>1 DEF ProviderRows
<1>2. CASE patch \in [{"active"} -> BOOLEAN]
  <2>1. new = [row EXCEPT !.active = patch.active, !.stamp = n]
    BY <1>2 DEF ProviderRows
  <2> QED BY <1>0, <1>2, <2>1 DEF ProviderRows
<1>3. CASE patch \in [adapter : AdapterKeys, active : BOOLEAN]
  <2>1. new = [row EXCEPT !.adapter = patch.adapter, !.active = patch.active, !.stamp = n]
    BY <1>3 DEF ProviderRows
  <2> QED BY <1>0, <1>3, <2>1 DEF ProviderRows
<1> QED BY <1>1, <1>2, <1>3 DEF RowPatches

LEMMA FallbackLaw ==
  ASSUME NEW id \in Ids, configs[id] \in ProviderRows, configWrites' \in Nat,
         NEW other \in Nat
  PROVE  /\ Patched(id, [fallback |-> other]) \in ProviderRows
         /\ Patched(id, [fallback |-> other]).stamp = configWrites'
         /\ Patched(id, [fallback |-> other]).type = configs[id].type
         /\ Patched(id, [fallback |-> other]).fallback = other
<1> PICK row \in ProviderRows, n \in Nat : row = configs[id] /\ n = configWrites'
  OBVIOUS
<1> DEFINE sent == [fallback |-> other]
<1>0. sent \in [fallback : Nat] /\ sent.fallback = other
  OBVIOUS
<1> HIDE DEF sent
<1> PICK patch \in [fallback : Nat] : patch = sent /\ patch.fallback = other
  BY <1>0
<1> DEFINE new == [f \in DOMAIN row |-> IF f \in DOMAIN patch THEN patch[f]
                                        ELSE IF f = "stamp" THEN n ELSE row[f]]
<1>1. Patched(id, patch) = new
  BY DEF Patched
<1>2. new = [row EXCEPT !.fallback = patch.fallback, !.stamp = n]
  BY DEF ProviderRows
<1>3. /\ Patched(id, sent) \in ProviderRows
      /\ Patched(id, sent).stamp = configWrites'
      /\ Patched(id, sent).type = configs[id].type
      /\ Patched(id, sent).fallback = other
  BY <1>1, <1>2 DEF ProviderRows
<1> QED BY <1>3 DEF sent

\* A row is stamped anew, and keeps its category.
LEMMA RowStamped ==
  ASSUME ProvidersInv, NEW id \in Ids, NEW row \in ProviderRows,
         configWrites' = configWrites + 1, row.stamp = configWrites',
         row.type = configs[id].type,
         configs' = [configs EXCEPT ![id] = row],
         \/ row.fallback = configs[id].fallback
         \/ row.fallback \in Ids \cup {NoFallback} /\ MayStandIn(id, row.fallback)
  PROVE  /\ configs' \in Seq(ProviderRows) /\ Ids' = Ids /\ RowsHold'
<1>1. Ids = 1..Len(configs) /\ Len(configs) \in Nat
      /\ \A i \in Ids : configs[i] \in ProviderRows
  BY LenProperties, ElementOfSeq DEF ProvidersInv, Ids
<1>2. /\ configs' \in Seq(ProviderRows) /\ Len(configs') = Len(configs)
      /\ configs'[id] = row /\ \A i \in Ids \ {id} : configs'[i] = configs[i]
  BY <1>1, ExceptSeq DEF ProvidersInv
<1>3. Ids' = Ids
  BY <1>1, <1>2, LenProperties DEF Ids
<1>4. \A i \in Ids : configs'[i].type = configs[i].type
  BY <1>2
<1>5. \A i \in Ids : /\ configs[i].stamp \in Nat /\ configs[i].stamp <= configWrites
                     /\ configs[i].fallback \in Nat
  BY <1>1 DEF ProviderRows, ProvidersInv, RowsHold
<1>6. \A i \in Ids : configs'[i].type \in InTable /\ configs'[i].stamp <= configWrites'
  BY <1>2, <1>4, <1>5 DEF ProvidersInv, ProviderRows, RowsHold
<1>7. \A i, j \in Ids : configs'[i].stamp = configs'[j].stamp => i = j
  <2>1. \A i \in Ids \ {id} : configs'[i].stamp # configWrites'
    BY <1>2, <1>5 DEF ProvidersInv
  <2> QED BY <1>2, <2>1 DEF ProvidersInv, RowsHold
<1>8. ASSUME NEW i \in Ids, configs'[i].fallback # NoFallback
      PROVE  /\ configs'[i].fallback \in Ids \ {i}
             /\ configs'[configs'[i].fallback].type = configs'[i].type
  <2>1. /\ configs'[i].fallback \in Ids \ {i}
        /\ configs[configs'[i].fallback].type = configs[i].type
    <3>1. CASE i = id /\ row.fallback # configs[id].fallback
      BY <1>2, <1>8, <3>1 DEF MayStandIn
    <3>2. CASE ~(i = id /\ row.fallback # configs[id].fallback)
      BY <1>2, <1>8, <3>2 DEF ProvidersInv, RowsHold
    <3> QED BY <3>1, <3>2
  <2> QED BY <1>4, <2>1
<1> QED BY <1>2, <1>3, <1>6, <1>7, <1>8 DEF RowsHold

LEMMA UpdateInv ==
  ASSUME ProvidersInv, NEW id \in Ids, NEW patch, Update(id, patch), tests' = tests,
         \/ patch = <<>>
         \/ patch \in RowPatches
         \/ \E other \in Ids \cup {NoFallback} :
               patch = [fallback |-> other] /\ MayStandIn(id, other)
  PROVE  ProvidersInv'
<1>1. Ids = 1..Len(configs) /\ Len(configs) \in Nat /\ NoFallback \in Nat
      /\ \A i \in Ids : configs[i] \in ProviderRows
  BY LenProperties, ElementOfSeq DEF ProvidersInv, Ids, NoFallback
<1>2. CASE UNCHANGED configs /\ (UNCHANGED configWrites \/ configWrites' = configWrites + 1)
  <2>1. Ids' = Ids /\ configWrites' \in Nat /\ configWrites <= configWrites'
    BY <1>2 DEF Ids, ProvidersInv
  <2>2. \A i \in Ids : configs[i].stamp \in Nat
    BY <1>1 DEF ProviderRows
  <2>3. RowsHold'
    BY <1>2, <2>1, <2>2 DEF RowsHold, ProvidersInv
  <2> QED BY <1>2, <2>1, <2>3 DEF ProvidersInv
<1>3. CASE /\ patch # <<>> /\ configWrites' = configWrites + 1
           /\ configs' = [configs EXCEPT ![id] = Patched(id, patch)]
  <2>1. configWrites' \in Nat
    BY <1>3 DEF ProvidersInv
  <2>2. /\ Patched(id, patch) \in ProviderRows
        /\ Patched(id, patch).stamp = configWrites'
        /\ Patched(id, patch).type = configs[id].type
        /\ \/ Patched(id, patch).fallback = configs[id].fallback
           \/ /\ Patched(id, patch).fallback \in Ids \cup {NoFallback}
              /\ MayStandIn(id, Patched(id, patch).fallback)
    <3>1. CASE patch \in RowPatches
      BY <1>1, <2>1, <3>1, PatchLaw
    <3>2. CASE \E other \in Ids \cup {NoFallback} :
                  patch = [fallback |-> other] /\ MayStandIn(id, other)
      <4> PICK other \in Ids \cup {NoFallback} :
                  patch = [fallback |-> other] /\ MayStandIn(id, other)
        BY <3>2
      <4>1. other \in Nat
        BY <1>1
      <4> QED BY <1>1, <2>1, <4>1, FallbackLaw
    <3> QED BY <1>3, <3>1, <3>2
  <2> PICK row \in ProviderRows : row = Patched(id, patch)
    BY <2>2
  <2>3. configs' \in Seq(ProviderRows) /\ Ids' = Ids /\ RowsHold'
    BY <1>3, <2>2, RowStamped
  <2> QED BY <2>1, <2>3 DEF ProvidersInv
<1> QED BY <1>2, <1>3 DEF Update, Statement

LEMMA CreateConfigInv == ASSUME ProvidersInv, CreateConfig PROVE ProvidersInv'
<1> PICK type \in Categories, adapter \in AdapterKeys, active \in BOOLEAN :
        /\ configWrites' = configWrites + 1
        /\ configs' = IF Refuses(NewRow(type, adapter, active), NoFallback) THEN configs
                      ELSE Append(configs, NewRow(type, adapter, active))
  BY DEF CreateConfig, Statement
<1>1. Ids = 1..Len(configs) /\ Len(configs) \in Nat
      /\ \A i \in Ids : configs[i] \in ProviderRows
  BY LenProperties, ElementOfSeq DEF ProvidersInv, Ids
<1>2. \A i \in Ids : configs[i].stamp \in Nat
  BY <1>1 DEF ProviderRows
<1>6. ASSUME NEW i \in Ids
      PROVE  configs[i].stamp <= configWrites' /\ configs[i].stamp # configWrites'
  <2> PICK m \in Nat, n \in Nat : m = configs[i].stamp /\ n = configWrites
    BY <1>2 DEF ProvidersInv
  <2>1. m <= n /\ configWrites' = n + 1
    BY DEF ProvidersInv, RowsHold
  <2> QED BY <2>1
<1>3. configWrites' \in Nat /\ configWrites < configWrites' /\ tests' = tests
  BY DEF ProvidersInv, CreateConfig
<1> DEFINE row == NewRow(type, adapter, active)
<1>4. CASE configs' = configs
  <2>1. Ids' = Ids
    BY <1>4 DEF Ids
  <2>2. RowsHold'
    BY <1>2, <1>3, <1>4, <2>1 DEF RowsHold, ProvidersInv
  <2> QED BY <1>3, <1>4, <2>1, <2>2 DEF ProvidersInv
<1>5. CASE ~Refuses(row, NoFallback) /\ configs' = Append(configs, row)
  <2>1. row \in ProviderRows /\ row.stamp = configWrites' /\ row.fallback = NoFallback
        /\ row.type \in InTable
    BY <1>3, <1>5 DEF NewRow, ProviderRows, NoFallback, Untested, Refuses
  <2> HIDE DEF row
  <2> PICK r \in ProviderRows : r = row
    BY <2>1
  <2>2. /\ configs' \in Seq(ProviderRows) /\ Len(configs') = Len(configs) + 1
        /\ \A i \in 1..Len(configs) : configs'[i] = configs[i]
        /\ configs'[Len(configs) + 1] = r
    BY <1>5, AppendProperties DEF ProvidersInv
  <2>3. Ids' = 1..(Len(configs) + 1)
    BY <2>2, LenProperties DEF Ids
  <2>4. \A i \in Ids' : i \in Ids \/ i = Len(configs) + 1
    BY <1>1, <2>3
  <2>5. Ids \subseteq Ids' /\ Len(configs) + 1 \notin Ids
    BY <1>1, <2>3
  <2>6. \A i \in Ids : configs'[i] = configs[i]
    BY <1>1, <2>2
  <2>7. ASSUME NEW i \in Ids'
        PROVE  configs'[i].type \in InTable /\ configs'[i].stamp <= configWrites'
    <3>1. CASE i \in Ids
      BY <1>6, <2>6, <3>1 DEF ProvidersInv, RowsHold
    <3>2. CASE i = Len(configs) + 1
      BY <1>3, <2>1, <2>2, <3>2
    <3> QED BY <2>4, <3>1, <3>2
  <2>8. ASSUME NEW i \in Ids', NEW j \in Ids', configs'[i].stamp = configs'[j].stamp
        PROVE  i = j
    <3>1. \A k \in Ids : configs'[k].stamp # configWrites'
      BY <1>6, <2>6
    <3>2. configs'[Len(configs) + 1].stamp = configWrites'
      BY <2>1, <2>2
    <3>3. CASE i \in Ids /\ j \in Ids
      <4>1. configs[i].stamp = configs[j].stamp
        BY <2>6, <2>8, <3>3
      <4> QED BY <3>3, <4>1 DEF ProvidersInv, RowsHold
    <3> QED BY <2>4, <2>8, <3>1, <3>2, <3>3
  <2>9. ASSUME NEW i \in Ids', configs'[i].fallback # NoFallback
        PROVE  /\ configs'[i].fallback \in Ids' \ {i}
               /\ configs'[configs'[i].fallback].type = configs'[i].type
    <3>1. i \in Ids
      BY <2>1, <2>2, <2>4, <2>9
    <3>2. configs[i].fallback \in Ids \ {i} /\ configs[configs[i].fallback].type = configs[i].type
      BY <2>6, <2>9, <3>1 DEF ProvidersInv, RowsHold
    <3> QED BY <2>5, <2>6, <3>1, <3>2
  <2>10. RowsHold'
    BY <2>7, <2>8, <2>9 DEF RowsHold
  <2>11. \A t \in Testers : \A i \in DOMAIN tests[t].todo : tests[t].todo[i] \in Ids'
    BY <2>5 DEF ProvidersInv
  <2> QED BY <1>3, <2>2, <2>10, <2>11 DEF ProvidersInv
<1> QED BY <1>4, <1>5

LEMMA UpdateConfigInv == ASSUME ProvidersInv, UpdateConfig PROVE ProvidersInv'
BY UpdateInv DEF UpdateConfig, RowPatches

LEMMA SetFallbackInv == ASSUME ProvidersInv, SetFallback PROVE ProvidersInv'
BY UpdateInv DEF SetFallback

LEMMA TestConfigInv ==
  ASSUME ProvidersInv, NEW t \in Testers, TestConfig(t)
  PROVE  ProvidersInv'
<1> PICK rows \in {<<id>> : id \in Ids} \cup {[id \in Ids |-> id]} :
        tests' = [tests EXCEPT ![t].todo = rows]
  BY DEF TestConfig
<1>1. Ids = 1..Len(configs) /\ Len(configs) \in Nat
  BY LenProperties DEF ProvidersInv, Ids
<1>2. rows \in Seq(Nat) /\ \A i \in DOMAIN rows : rows[i] \in Ids
  <2>1. CASE rows = [id \in Ids |-> id]
    BY <1>1, <2>1, IsASeq
  <2>2. CASE \E id \in Ids : rows = <<id>>
    BY <1>1, <2>2
  <2> QED BY <2>1, <2>2
<1> DEFINE r == [tests[t] EXCEPT !.todo = rows]
<1>3. tests' = [tests EXCEPT ![t] = r]
  BY DEF ProvidersInv
<1>4. r \in [todo : Seq(Nat), asked : {"no", "healthy", "unhealthy"}] /\ r.todo = rows
  BY <1>2 DEF ProvidersInv
<1> HIDE DEF r
<1>5. /\ tests' \in [Testers -> [todo : Seq(Nat), asked : {"no", "healthy", "unhealthy"}]]
      /\ tests'[t] = r /\ \A s \in Testers : s # t => tests'[s] = tests[s]
  BY <1>3, <1>4 DEF ProvidersInv
<1>6. UNCHANGED <<configs, configWrites>> /\ Ids' = Ids
  BY DEF TestConfig, Ids
<1>7. \A s \in Testers : \A i \in DOMAIN tests'[s].todo : tests'[s].todo[i] \in Ids
  BY <1>2, <1>4, <1>5 DEF ProvidersInv
<1>8. RowsHold'
  BY <1>6 DEF ProvidersInv, RowsHold
<1> QED BY <1>5, <1>6, <1>7, <1>8 DEF ProvidersInv

LEMMA AskAdapterInv ==
  ASSUME ProvidersInv, NEW t \in Testers, AskAdapter(t)
  PROVE  ProvidersInv'
<1> PICK verdict \in {"healthy", "unhealthy"} : tests' = [tests EXCEPT ![t].asked = verdict]
  BY DEF AskAdapter
<1> DEFINE r == [tests[t] EXCEPT !.asked = verdict]
<1>3. tests' = [tests EXCEPT ![t] = r]
  BY DEF ProvidersInv
<1>4. r \in [todo : Seq(Nat), asked : {"no", "healthy", "unhealthy"}] /\ r.todo = tests[t].todo
  BY DEF ProvidersInv
<1> HIDE DEF r
<1>5. /\ tests' \in [Testers -> [todo : Seq(Nat), asked : {"no", "healthy", "unhealthy"}]]
      /\ \A s \in Testers : tests'[s].todo = tests[s].todo
  BY <1>3, <1>4 DEF ProvidersInv
<1>6. UNCHANGED <<configs, configWrites>> /\ Ids' = Ids
  BY DEF AskAdapter, Ids
<1>8. RowsHold'
  BY <1>6 DEF ProvidersInv, RowsHold
<1> QED BY <1>5, <1>6, <1>8 DEF ProvidersInv

LEMMA RecordHealthInv ==
  ASSUME ProvidersInv, NEW t \in Testers, RecordHealth(t)
  PROVE  ProvidersInv'
<1>1. tests[t].todo \in Seq(Nat) /\ tests[t].todo # <<>> /\ tests[t].asked \in {"healthy", "unhealthy"}
  BY DEF ProvidersInv, RecordHealth
<1>2. /\ Head(tests[t].todo) = tests[t].todo[1] /\ 1 \in DOMAIN tests[t].todo
      /\ Tail(tests[t].todo) \in Seq(Nat)
      /\ \A i \in DOMAIN Tail(tests[t].todo) :
            i + 1 \in DOMAIN tests[t].todo /\ Tail(tests[t].todo)[i] = tests[t].todo[i + 1]
  BY <1>1, HeadTailProperties, EmptySeq, LenProperties
<1> PICK id \in Ids : id = Head(tests[t].todo)
  BY <1>2 DEF ProvidersInv
<1>3. configs[id] \in ProviderRows /\ configWrites' = configWrites + 1 /\ configWrites' \in Nat
  BY ElementOfSeq, LenProperties DEF ProvidersInv, Ids, RecordHealth, Statement
<1> PICK n \in Nat : n = configWrites'
  BY <1>3
<1> DEFINE row == [configs[id] EXCEPT !.health = tests[t].asked, !.stamp = n]
<1>4. configs' = [configs EXCEPT ![id] = row]
  BY DEF RecordHealth, ProvidersInv, Ids
<1>5. /\ row \in ProviderRows /\ row.stamp = n /\ row.type = configs[id].type
      /\ row.fallback = configs[id].fallback
  BY <1>1, <1>3 DEF ProviderRows
<1> HIDE DEF row
<1>6. configs' \in Seq(ProviderRows) /\ Ids' = Ids /\ RowsHold'
  BY <1>3, <1>4, <1>5, RowStamped
<1> DEFINE rest == Tail(tests[t].todo)
           r == [tests[t] EXCEPT !.todo = rest, !.asked = "no"]
<1>7. tests' = [tests EXCEPT ![t] = r]
  BY DEF ProvidersInv, RecordHealth
<1>8. \A i \in DOMAIN rest : rest[i] \in Ids
  BY <1>2 DEF ProvidersInv
<1>9. rest \in Seq(Nat)
  BY <1>2
<1> HIDE DEF rest
<1>10. r \in [todo : Seq(Nat), asked : {"no", "healthy", "unhealthy"}] /\ r.todo = rest
  BY <1>9 DEF ProvidersInv
<1> HIDE DEF r
<1>11. /\ tests' \in [Testers -> [todo : Seq(Nat), asked : {"no", "healthy", "unhealthy"}]]
       /\ \A s \in Testers : tests'[s] = IF s = t THEN r ELSE tests[s]
  BY <1>7, <1>10 DEF ProvidersInv
<1>12. \A s \in Testers : \A i \in DOMAIN tests'[s].todo : tests'[s].todo[i] \in Ids
  BY <1>8, <1>10, <1>11 DEF ProvidersInv
<1> QED BY <1>3, <1>6, <1>11, <1>12 DEF ProvidersInv

\* Of the active rows of a category one is stamped last.
LEMMA OneServes ==
  ASSUME ProvidersInv
  PROVE  StandInsAreOfTheirKind
<1>1. ASSUME NEW type \in Categories
      PROVE  Cardinality(Serving(type)) <= IF type \in InTable THEN 1 ELSE 0
  <2>1. \A i, j \in Serving(type) : i \in Ids /\ j \in Ids /\ configs[i].stamp = configs[j].stamp
    <3> TAKE i, j \in Serving(type)
    <3>1. /\ i \in Ids /\ j \in Ids
          /\ configs[i].stamp <= configs[j].stamp /\ configs[j].stamp <= configs[i].stamp
      BY DEF Serving
    <3>2. configs[i] \in ProviderRows /\ configs[j] \in ProviderRows
      BY <3>1, ElementOfSeq, LenProperties DEF ProvidersInv, Ids
    <3>3. configs[i].stamp \in Nat /\ configs[j].stamp \in Nat
      BY <3>2 DEF ProviderRows
    <3> QED BY <3>1, <3>3
  <2>2. \A i, j \in Serving(type) : i = j
    BY <2>1 DEF ProvidersInv, RowsHold
  <2>3. Serving(type) # {} => type \in InTable
    BY DEF Serving, ProvidersInv, RowsHold
  <2>4. CASE Serving(type) = {}
    BY <2>4, FS_EmptySet
  <2>5. CASE \E i : Serving(type) = {i}
    BY <2>3, <2>5, FS_Singleton
  <2> QED BY <2>2, <2>4, <2>5
<1> QED BY <1>1 DEF StandInsAreOfTheirKind, ProvidersInv, RowsHold

LEMMA ProvidersStep ==
  ASSUME ProvidersInv, [ProvidersNext]_providerVars
  PROVE  ProvidersInv'
<1>1. CASE UNCHANGED providerVars
  BY <1>1 DEF ProvidersInv, RowsHold, providerVars, Ids
<1>2. CASE CreateConfig
  BY <1>2, CreateConfigInv
<1>3. CASE UpdateConfig
  BY <1>3, UpdateConfigInv
<1>4. CASE SetFallback
  BY <1>4, SetFallbackInv
<1>5. ASSUME NEW t \in Testers, TestConfig(t) \/ AskAdapter(t) \/ RecordHealth(t)
      PROVE  ProvidersInv'
  BY <1>5, TestConfigInv, AskAdapterInv, RecordHealthInv
<1> QED BY <1>1, <1>2, <1>3, <1>4, <1>5 DEF ProvidersNext

LEMMA ProvidersBegin == ProvidersInit => ProvidersInv
<1> SUFFICES ASSUME ProvidersInit PROVE ProvidersInv
  OBVIOUS
<1>1. configs \in Seq(ProviderRows) /\ Ids = {} /\ configWrites = 0
  BY EmptySeq DEF ProvidersInit, Ids
<1>2. RowsHold
  BY <1>1 DEF RowsHold
<1>3. NoTest \in [todo : Seq(Nat), asked : {"no", "healthy", "unhealthy"}] /\ DOMAIN NoTest.todo = {}
  BY EmptySeq DEF NoTest
<1> QED BY <1>1, <1>2, <1>3 DEF ProvidersInv, ProvidersInit

\* A category is served by one row at most, by none if the table refuses it, and what
\* stands in for a row is another row of its category, whatever dashboards write and
\* test at once (providers.repository.ts,
\* findActiveByType(), providers.service.ts, setFallback()).
THEOREM OneProviderServes == ProvidersSpec => []StandInsAreOfTheirKind
<1>1. ProvidersInv /\ [ProvidersNext]_providerVars => ProvidersInv'
  BY ProvidersStep
<1>2. ProvidersInv => StandInsAreOfTheirKind
  BY OneServes
<1> QED BY <1>1, <1>2, ProvidersBegin, PTL DEF ProvidersSpec

-----------------------------------------------------------------------------
(* Backups: what is known of a restore, and of what the retention takes.     *)

Dumps == {"", "whole", "torn", "placeholder"}

Archives ==
    [at : Nat, kind : Kinds \cup {"old", ""}, place : {"root", "kind", "offsite"}, day : Nat,
     locked : BOOLEAN, suffix : BOOLEAN, dump : Dumps, work : Nat, whole : BOOLEAN]

DatabaseRecords ==
    [work : Nat, base : Nat, torn : BOOLEAN, providers : BOOLEAN, up : BOOLEAN]

RestoreRecords ==
    [step : {"none", "open", "stop", "database", "compose", "files"}, archive : SUBSET Archives,
     test : BOOLEAN, said : {"", "corrupted", "verified", "failed", "restored", "killed"}]

ShellRecords ==
    [step : {"none", "dump", "copy", "root", "list", "prune", "sweep", "upload"},
     kind : Kinds \cup {"old", ""}, encrypt : BOOLEAN, upload : BOOLEAN,
     dump : Dumps, work : Nat, at : Nat, doomed : SUBSET Archives]

BackupRecords == [url : Urls, today : Nat, restores : Nat, faults : Nat]

\* The restore, and the database it works on.
RestoreInv ==
    /\ database \in DatabaseRecords
    /\ restoring \in RestoreRecords
    /\ restoring.step # "none" => restoring.said = ""
    /\ restoring.step # "none" \/ restoring.said = "restored" =>
          \E a \in Archives : restoring.archive = {a}
    /\ restoring.step = "files" \/ restoring.said = "restored" =>
          /\ database.base = Restored.at
          /\ database.torn => Restored.dump = "torn"

\* The scripts that make backups.
ScriptInv ==
    /\ shells \in [Shells -> ShellRecords]
    /\ \A s \in Shells : shells[s].step # "none" => shells[s].kind \in Kinds \cup {"old"}

\* The archives of the kinds each have their number.
ArchivesInv ==
    /\ disk \subseteq Archives /\ IsFiniteSet(disk)
    /\ copied \in Seq(Kinds \cup {"old"}) /\ swept \subseteq Nat
    /\ \A a \in disk : a.place = "kind" =>
          a.kind \in Kinds /\ a.at \in DOMAIN copied /\ copied[a.at] = a.kind
    /\ \A a, b \in disk : a.place = "kind" /\ b.place = "kind" /\ a.at = b.at => a = b

\* The archives of a kind that count as kept, those that are gone, and those that
\* some script is about to remove.
Kept(kind) ==
    {b \in DOMAIN copied : copied[b] = kind /\ (b \in swept \/ \E a \in OfKind(kind) : a.at = b)}

Gone(kind) ==
    {x \in DOMAIN copied \ swept : copied[x] = kind /\ \A a \in OfKind(kind) : a.at # x}

Doomed(kind) ==
    {x \in Nat : \E s \in Shells : \E d \in shells[s].doomed : d.kind = kind /\ d.at = x}

\* Enough that are kept are newer than all of those: some number divides them.
Shielded(kind) ==
    \/ Gone(kind) \cup Doomed(kind) = {}
    \/ \E g \in Nat : \E W \in SUBSET Kept(kind) :
          /\ Cardinality(W) >= Retention[kind]
          /\ \A x \in Gone(kind) \cup Doomed(kind) : x <= g
          /\ \A w \in W : w > g

BackupsInv ==
    /\ backups \in BackupRecords
    /\ RestoreInv /\ ScriptInv /\ ArchivesInv
    /\ \A kind \in Kinds : Shielded(kind)

LEMMA FailsCount ==
  ASSUME backups \in BackupRecords, Fails \/ UNCHANGED backups
  PROVE  backups' \in BackupRecords
<1> PICK old \in BackupRecords, n \in Nat : old = backups /\ n = old.faults + 1
  BY DEF BackupRecords
<1>1. backups' \in {old, [old EXCEPT !.faults = n]}
  BY DEF Fails
<1> QED BY <1>1 DEF BackupRecords

\* What is kept stays kept and nothing more goes: the cover stays.
LEMMA CoverStays ==
  ASSUME NEW kind \in Kinds, Shielded(kind), Kept(kind) \subseteq Kept(kind)',
         Gone(kind)' \subseteq Gone(kind), Doomed(kind)' \subseteq Doomed(kind)
  PROVE  Shielded(kind)'
<1> PICK lost, lost2, some, some2 :
       /\ lost = Gone(kind) \cup Doomed(kind) /\ lost2 = Gone(kind)' \cup Doomed(kind)'
       /\ some = Kept(kind) /\ some2 = Kept(kind)'
  OBVIOUS
<1>0. lost2 \subseteq lost /\ some \subseteq some2
  OBVIOUS
<1>1. CASE lost = {}
  <2>1. Gone(kind)' \cup Doomed(kind)' = {}
    BY <1>0, <1>1
  <2> QED BY <2>1 DEF Shielded
<1>2. CASE lost # {}
  <2> PICK g \in Nat, W \in SUBSET some :
          /\ Cardinality(W) >= Retention[kind]
          /\ \A x \in lost : x <= g
          /\ \A w \in W : w > g
    BY <1>2 DEF Shielded
  <2>1. W \in SUBSET some2 /\ \A x \in lost2 : x <= g
    BY <1>0
  <2>2. /\ W \in SUBSET Kept(kind)' /\ Cardinality(W) >= Retention[kind]
        /\ \A x \in Gone(kind)' \cup Doomed(kind)' : x <= g
        /\ \A w \in W : w > g
    BY <2>1
  <2> QED BY <2>2 DEF Shielded
<1> QED BY <1>1, <1>2

\* Scripts and restores that leave the archives of the kinds alone.
LEMMA ArchivesLeftAlone ==
  ASSUME ArchivesInv, ScriptInv, ScriptInv', \A kind \in Kinds : Shielded(kind),
         disk' \subseteq Archives, IsFiniteSet(disk'),
         \A a \in Archives : a.place = "kind" => (a \in disk' <=> a \in disk),
         UNCHANGED <<copied, swept>>,
         \A s \in Shells : shells'[s].doomed \subseteq shells[s].doomed
  PROVE  ArchivesInv' /\ \A kind \in Kinds : Shielded(kind)'
<1>1. ArchivesInv'
  BY DEF ArchivesInv
<1>2. ASSUME NEW kind \in Kinds
      PROVE  Shielded(kind)'
  <2>1. OfKind(kind)' = OfKind(kind)
    BY DEF OfKind, ArchivesInv
  <2>2. Kept(kind)' = Kept(kind) /\ Gone(kind)' = Gone(kind)
    BY <2>1 DEF Kept, Gone
  <2>3. Doomed(kind)' \subseteq Doomed(kind)
    BY DEF Doomed
  <2> QED BY <2>2, <2>3, CoverStays
<1> QED BY <1>1, <1>2

\* So does all that happens to the database and its restore.
LEMMA NoArchiveTouched ==
  ASSUME BackupsInv, UNCHANGED <<disk, copied, swept, shells>>
  PROVE  ScriptInv' /\ ArchivesInv' /\ \A kind \in Kinds : Shielded(kind)'
<1>1. ScriptInv'
  BY DEF BackupsInv, ScriptInv
<1> QED BY <1>1, ArchivesLeftAlone DEF BackupsInv, ArchivesInv

LEMMA NoRestoreTouched ==
  ASSUME RestoreInv, UNCHANGED <<database, restoring>>
  PROVE  RestoreInv'
BY DEF RestoreInv, Restored

-----------------------------------------------------------------------------
(* A restore's steps.                                                       *)

LEMMA RestoredIsIt ==
  ASSUME NEW a, restoring.archive = {a}
  PROVE  Restored = a
BY DEF Restored

\* Nothing that ends, and not as restored, says anything of the database.
LEMMA RestoreMoves ==
  ASSUME RestoreInv, restoring.step # "none", UNCHANGED database,
         \/ /\ RestoreEnds("corrupted") \/ RestoreEnds("verified") \/ RestoreEnds("killed")
         \/ RestoreGoes("stop") \/ RestoreGoes("database")
         \/ RestoreGoes("compose")
  PROVE  RestoreInv'
<1> PICK old \in RestoreRecords : old = restoring
  BY DEF RestoreInv
<1>1. old.said = "" /\ \E a \in Archives : old.archive = {a}
  BY DEF RestoreInv
<1>2. CASE \E step \in {"stop", "database", "compose"} : RestoreGoes(step)
  <2> PICK step \in {"stop", "database", "compose"} : restoring' = [old EXCEPT !.step = step]
    BY <1>2 DEF RestoreGoes
  <2>1. /\ restoring' \in RestoreRecords /\ restoring'.step = step /\ restoring'.said = ""
        /\ restoring'.archive = old.archive
    BY <1>1 DEF RestoreRecords
  <2> QED BY <1>1, <2>1 DEF RestoreInv
<1>3. CASE \E said \in {"corrupted", "verified", "killed"} : RestoreEnds(said)
  <2> PICK said \in {"corrupted", "verified", "killed"} :
         restoring' = [old EXCEPT !.step = "none", !.said = said]
    BY <1>3 DEF RestoreEnds
  <2>1. /\ restoring' \in RestoreRecords /\ restoring'.step = "none" /\ restoring'.said = said
        /\ restoring'.archive = old.archive
    BY <1>1 DEF RestoreRecords
  <2> QED BY <1>1, <2>1 DEF RestoreInv
<1> QED BY <1>2, <1>3

LEMMA StartRestoreInv ==
  ASSUME BackupsInv, NEW a \in disk, NEW test \in BOOLEAN, StartRestore(a, test),
         UNCHANGED <<disk, copied, swept, shells>>,
         database' \in {database, [database EXCEPT !.up = FALSE]}
  PROVE  BackupsInv'
<1> PICK old \in BackupRecords, n \in Nat : old = backups /\ n = old.restores + 1
  BY DEF BackupsInv, BackupRecords
<1>1. backups' = [old EXCEPT !.restores = n]
      /\ restoring' = [step |-> "open", archive |-> {a}, test |-> test, said |-> ""]
  BY DEF StartRestore
<1>2. backups' \in BackupRecords
  BY <1>1 DEF BackupRecords
<1>3. a \in Archives
  BY DEF BackupsInv, ArchivesInv
<1>4. /\ restoring' \in RestoreRecords /\ restoring'.step = "open" /\ restoring'.said = ""
      /\ restoring'.archive = {a}
  BY <1>1, <1>3 DEF RestoreRecords
<1>5. database' \in DatabaseRecords
  BY DEF BackupsInv, RestoreInv, DatabaseRecords
<1>6. RestoreInv'
  BY <1>3, <1>4, <1>5 DEF RestoreInv
<1> QED BY <1>2, <1>6, NoArchiveTouched DEF BackupsInv

LEMMA RestoreStarts == ASSUME BackupsInv, Restore \/ RollBack PROVE BackupsInv'
BY StartRestoreInv DEF Restore, RollBack

LEMMA RestoreWaits ==
  ASSUME BackupsInv, OpenArchive \/ StopServices \/ RestoreKilled
  PROVE  BackupsInv'
<1>1. restoring.step # "none" /\ UNCHANGED <<database, disk, copied, swept, shells>>
      /\ (Fails \/ UNCHANGED backups)
  BY DEF OpenArchive, StopServices, RestoreKilled
<1>2. \/ RestoreEnds("corrupted") \/ RestoreEnds("verified") \/ RestoreEnds("killed")
      \/ RestoreGoes("stop") \/ RestoreGoes("database")
  BY DEF OpenArchive, StopServices, RestoreKilled
<1>3. RestoreInv'
  BY <1>1, <1>2, RestoreMoves DEF BackupsInv
<1>4. backups' \in BackupRecords
  BY <1>1, FailsCount DEF BackupsInv
<1> QED BY <1>1, <1>3, <1>4, NoArchiveTouched DEF BackupsInv

\* A try that succeeds leaves what the archive holds.
LEMMA TryHolds ==
  ASSUME RestoreInv, restoring.step # "none", NEW otherwise \in BOOLEAN,
         TryRestore("files", otherwise),
         otherwise => RestoreGoes("compose") \/ RestoreEnds("failed")
  PROVE  RestoreInv' /\ (Fails \/ UNCHANGED backups)
<1> PICK old \in RestoreRecords, db \in DatabaseRecords : old = restoring /\ db = database
  BY DEF RestoreInv
<1> PICK a \in Archives : old.archive = {a}
  BY DEF RestoreInv
<1>0. Restored = a /\ old.said = ""
  BY RestoredIsIt DEF RestoreInv
<1>1. CASE /\ database' = Holds(Restored) /\ RestoreGoes("files") /\ UNCHANGED backups
  <2> PICK torn \in BOOLEAN : torn = (a.dump = "torn")
    OBVIOUS
  <2>1. database' = [db EXCEPT !.work = a.work, !.base = a.at, !.torn = torn, !.providers = FALSE]
    BY <1>0, <1>1 DEF Holds
  <2>2. a.work \in Nat /\ a.at \in Nat
    BY DEF Archives
  <2>3. database' \in DatabaseRecords /\ database'.base = a.at /\ database'.torn = torn
    BY <2>1, <2>2 DEF DatabaseRecords
  <2>4. restoring' = [old EXCEPT !.step = "files"]
    BY <1>1 DEF RestoreGoes
  <2>5. /\ restoring' \in RestoreRecords /\ restoring'.said = "" /\ restoring'.archive = {a}
        /\ restoring'.step = "files"
    BY <1>0, <2>4 DEF RestoreRecords
  <2>6. Restored' = a
    BY <2>5 DEF Restored
  <2> QED BY <1>1, <2>3, <2>5, <2>6 DEF RestoreInv
<1>2. CASE /\ database' \in {db, [db EXCEPT !.torn = TRUE]}
           /\ RestoreGoes("compose") \/ RestoreEnds("failed")
           /\ Fails \/ UNCHANGED backups
  <2>1. database' \in DatabaseRecords
    BY <1>2 DEF DatabaseRecords
  <2>2. restoring' \in {[old EXCEPT !.step = "compose"],
                        [old EXCEPT !.step = "none", !.said = "failed"]}
    BY <1>2 DEF RestoreGoes, RestoreEnds
  <2>3. /\ restoring' \in RestoreRecords /\ restoring'.archive = {a}
        /\ \/ restoring'.step = "compose" /\ restoring'.said = ""
           \/ restoring'.step = "none" /\ restoring'.said = "failed"
    BY <1>0, <2>2 DEF RestoreRecords
  <2> QED BY <1>2, <2>1, <2>3 DEF RestoreInv
<1> QED BY <1>1, <1>2 DEF TryRestore

LEMMA RestoreTries ==
  ASSUME BackupsInv, RestoreDirect \/ RestoreInContainer
  PROVE  BackupsInv'
<1>1. UNCHANGED <<disk, copied, swept, shells>>
  BY DEF RestoreDirect, RestoreInContainer
<1>2. RestoreInv' /\ (Fails \/ UNCHANGED backups)
  <2>1. CASE restoring.step = "database" /\ TryRestore("files", RestoreGoes("compose"))
    <3>1. RestoreGoes("compose") \in BOOLEAN
      BY DEF RestoreGoes
    <3> QED BY <2>1, <3>1, TryHolds DEF BackupsInv
  <2>2. CASE restoring.step = "compose" /\ TryRestore("files", RestoreEnds("failed"))
    <3>1. RestoreEnds("failed") \in BOOLEAN
      BY DEF RestoreEnds
    <3> QED BY <2>2, <3>1, TryHolds DEF BackupsInv
  <2>3. CASE restoring.step = "database" /\ RestoreGoes("compose") /\ UNCHANGED <<database, backups>>
    BY <2>3, RestoreMoves DEF BackupsInv
  <2> QED BY <2>1, <2>2, <2>3 DEF RestoreDirect, RestoreInContainer
<1>3. backups' \in BackupRecords
  BY <1>2, FailsCount DEF BackupsInv
<1> QED BY <1>1, <1>2, <1>3, NoArchiveTouched DEF BackupsInv

LEMMA FinishRestoreInv == ASSUME BackupsInv, FinishRestore PROVE BackupsInv'
<1> PICK old \in RestoreRecords : old = restoring
  BY DEF BackupsInv, RestoreInv
<1>1. /\ old.step = "files" /\ restoring' = [old EXCEPT !.step = "none", !.said = "restored"]
      /\ UNCHANGED <<database, disk, copied, swept, shells, backups>>
  BY DEF FinishRestore, RestoreEnds
<1>2. /\ restoring' \in RestoreRecords /\ restoring'.archive = old.archive
      /\ restoring'.step = "none" /\ restoring'.said = "restored"
  BY <1>1 DEF RestoreRecords
<1>3. Restored' = Restored
  BY <1>2 DEF Restored
<1>4. RestoreInv'
  BY <1>1, <1>2, <1>3 DEF RestoreInv, BackupsInv
<1> QED BY <1>1, <1>4, NoArchiveTouched DEF BackupsInv

LEMMA OfficeMeanwhile ==
  ASSUME BackupsInv, OfficeWorks \/ ComposeUp \/ DaysPass
  PROVE  BackupsInv'
<1> PICK db \in DatabaseRecords, old \in BackupRecords : db = database /\ old = backups
  BY DEF BackupsInv, RestoreInv
<1> PICK n \in Nat : n = db.work + 1
  BY DEF DatabaseRecords
<1> PICK m \in Nat : m = old.today + RetainDays + 1
  <2>1. old.today \in Nat /\ RetainDays \in Nat
    BY BackupsAssumption DEF BackupRecords
  <2> QED BY <2>1
<1>1. UNCHANGED <<disk, copied, swept, shells, restoring>>
  BY DEF OfficeWorks, ComposeUp, DaysPass
<1>2. database' \in {db, [db EXCEPT !.work = n], [db EXCEPT !.up = TRUE]}
  BY DEF OfficeWorks, ComposeUp, DaysPass
<1>3. database' \in DatabaseRecords /\ database'.base = db.base /\ database'.torn = db.torn
  BY <1>2 DEF DatabaseRecords
<1>4. backups' \in {old, [old EXCEPT !.today = m]}
  BY DEF OfficeWorks, ComposeUp, DaysPass
<1>5. backups' \in BackupRecords
  BY <1>4 DEF BackupRecords
<1>6. RestoreInv'
  BY <1>1, <1>3 DEF BackupsInv, RestoreInv, Restored
<1> QED BY <1>1, <1>5, <1>6, NoArchiveTouched DEF BackupsInv

-----------------------------------------------------------------------------
(* The scripts' steps.                                                      *)

LEMMA ShellBecomes ==
  ASSUME ScriptInv, NEW s \in Shells, NEW r \in ShellRecords, BecomesShell(s, r),
         r.step # "none" => r.kind \in Kinds \cup {"old"}
  PROVE  ScriptInv' /\ \A t \in Shells : shells'[t] = IF t = s THEN r ELSE shells[t]
<1>1. /\ shells' \in [Shells -> ShellRecords]
      /\ \A t \in Shells : shells'[t] = IF t = s THEN r ELSE shells[t]
  BY DEF ScriptInv, BecomesShell
<1> QED BY <1>1 DEF ScriptInv

\* A step that leaves the archives of the kinds as they are.
LEMMA QuietShell ==
  ASSUME BackupsInv, NEW s \in Shells, NEW r \in ShellRecords, BecomesShell(s, r),
         r.step # "none" => r.kind \in Kinds \cup {"old"},
         r.doomed \subseteq shells[s].doomed,
         disk' \subseteq Archives, IsFiniteSet(disk'),
         \A a \in Archives : a.place = "kind" => (a \in disk' <=> a \in disk),
         UNCHANGED <<copied, swept, database, restoring>>,
         Fails \/ UNCHANGED backups
  PROVE  BackupsInv'
<1>1. ScriptInv' /\ \A t \in Shells : shells'[t].doomed \subseteq shells[t].doomed
  BY ShellBecomes DEF BackupsInv
<1>2. ArchivesInv' /\ \A kind \in Kinds : Shielded(kind)'
  BY <1>1, ArchivesLeftAlone DEF BackupsInv
<1>3. RestoreInv' /\ backups' \in BackupRecords
  BY NoRestoreTouched, FailsCount DEF BackupsInv
<1> QED BY <1>1, <1>2, <1>3 DEF BackupsInv

LEMMA NoShellIsOne == NoShell \in ShellRecords /\ NoShell.step = "none" /\ NoShell.doomed = {}
BY DEF NoShell, ShellRecords, Dumps

LEMMA StartBackupInv ==
  ASSUME BackupsInv, NEW s \in Shells, StartBackup(s)
  PROVE  BackupsInv'
<1> PICK c \in Cron :
       BecomesShell(s, [NoShell EXCEPT !.step = "dump", !.kind = c.kind,
                                       !.encrypt = c.encrypt, !.upload = c.upload])
  BY DEF StartBackup
<1> DEFINE r == [NoShell EXCEPT !.step = "dump", !.kind = c.kind,
                                !.encrypt = c.encrypt, !.upload = c.upload]
<1>1. c.kind \in Kinds \cup {"old"} /\ c.encrypt \in BOOLEAN /\ c.upload \in BOOLEAN
  BY BackupsAssumption
<1>2. r \in ShellRecords /\ r.kind \in Kinds \cup {"old"} /\ r.doomed = {}
  BY <1>1 DEF NoShell, ShellRecords, Dumps
<1>3. BecomesShell(s, r)
  OBVIOUS
<1> HIDE DEF r
<1>4. UNCHANGED <<disk, copied, swept, database, restoring, backups>>
  BY DEF StartBackup
<1>5. disk' \subseteq Archives /\ IsFiniteSet(disk')
  BY <1>4 DEF BackupsInv, ArchivesInv
<1> QED BY <1>2, <1>3, <1>4, <1>5, QuietShell

\* What packing makes of a script's record.
LEMMA PackedIs ==
  ASSUME ScriptInv, NEW s \in Shells, shells[s].step # "none",
         NEW dump \in Dumps, NEW work \in Nat, Pack(s, dump, work)
  PROVE  \E r \in ShellRecords :
            /\ BecomesShell(s, r) /\ r.doomed \subseteq shells[s].doomed
            /\ r.step # "none" => r.kind \in Kinds \cup {"old"}
<1> PICK old \in ShellRecords : old = shells[s]
  BY DEF ScriptInv
<1>1. old.kind \in Kinds \cup {"old"}
  BY DEF ScriptInv
<1> DEFINE r == [old EXCEPT !.step = "copy", !.dump = dump, !.work = work]
<1>2. r \in ShellRecords /\ r.kind = old.kind /\ r.doomed = old.doomed
  BY DEF ShellRecords
<1>3. BecomesShell(s, r) \/ BecomesShell(s, NoShell)
  BY DEF Pack
<1> HIDE DEF r
<1> QED BY <1>1, <1>2, <1>3, NoShellIsOne

LEMMA DumpInv ==
  ASSUME BackupsInv, NEW s \in Shells, Dump(s)
  PROVE  BackupsInv'
<1>1. /\ UNCHANGED <<disk, copied, swept, database, restoring>>
      /\ Fails \/ UNCHANGED backups
      /\ shells[s].step # "none"
  BY DEF Dump, At
<1>2. database.work \in Nat
  BY DEF BackupsInv, RestoreInv, DatabaseRecords
<1>3. \/ BecomesShell(s, NoShell)
      \/ \E dump \in Dumps, work \in Nat : Pack(s, dump, work)
  <2>1. \/ Pack(s, IF database.torn THEN "torn" ELSE "whole", database.work)
        \/ OldDumpFails(s) \/ Pack(s, "placeholder", 0)
    BY DEF Dump
  <2>2. {"torn", "whole", "placeholder"} \subseteq Dumps /\ 0 \in Nat
    BY DEF Dumps
  <2>3. CASE Pack(s, IF database.torn THEN "torn" ELSE "whole", database.work)
    <3> PICK dump \in Dumps : dump = IF database.torn THEN "torn" ELSE "whole"
      BY <2>2
    <3>1. Pack(s, dump, database.work)
      BY <2>3
    <3> QED BY <3>1, <1>2
  <2>4. CASE OldDumpFails(s)
    BY <2>4 DEF OldDumpFails
  <2>5. CASE Pack(s, "placeholder", 0)
    BY <2>2, <2>5
  <2> QED BY <2>1, <2>3, <2>4, <2>5
<1>4. \E r \in ShellRecords :
            /\ BecomesShell(s, r) /\ r.doomed \subseteq shells[s].doomed
            /\ r.step # "none" => r.kind \in Kinds \cup {"old"}
  BY <1>1, <1>3, PackedIs, NoShellIsOne DEF BackupsInv
<1>5. disk' \subseteq Archives /\ IsFiniteSet(disk')
  BY <1>1 DEF BackupsInv, ArchivesInv
<1> QED BY <1>1, <1>4, <1>5, QuietShell

LEMMA ArchiveIsOne ==
  ASSUME BackupsInv, NEW s \in Shells, shells[s].step # "none", NEW at \in Nat,
         NEW place \in {"root", "kind", "offsite"}
  PROVE  /\ Archive(s, at, place) \in Archives
         /\ Archive(s, at, place).at = at
         /\ Archive(s, at, place).kind = shells[s].kind
         /\ Archive(s, at, place).place = place
<1> PICK r \in ShellRecords, b \in BackupRecords : r = shells[s] /\ b = backups
  BY DEF BackupsInv, ScriptInv
<1> QED BY DEF Archive, Archives, ShellRecords, BackupRecords

LEMMA CopyToRootInv ==
  ASSUME BackupsInv, NEW s \in Shells, CopyToRoot(s)
  PROVE  BackupsInv'
<1> PICK old \in ShellRecords : old = shells[s]
  BY DEF BackupsInv, ScriptInv
<1>0. old.step = "root" /\ old.kind \in Kinds \cup {"old"} /\ old.at \in Nat
  BY DEF CopyToRoot, At, BackupsInv, ScriptInv, ShellRecords
<1> PICK a \in Archives : a = Archive(s, old.at, "root") /\ a.place = "root"
  BY <1>0, ArchiveIsOne
<1>1. /\ disk' = disk \/ disk' = disk \cup {a}
      /\ UNCHANGED <<copied, swept, database, restoring, backups>>
  BY DEF CopyToRoot
<1>2. /\ disk' \subseteq Archives /\ IsFiniteSet(disk')
      /\ \A c \in Archives : c.place = "kind" => (c \in disk' <=> c \in disk)
  <2>1. disk \subseteq Archives /\ IsFiniteSet(disk) /\ IsFiniteSet(disk \cup {a})
    BY FS_AddElement DEF BackupsInv, ArchivesInv
  <2> QED BY <1>1, <2>1
<1> DEFINE r == [old EXCEPT !.step = "list"]
<1>3. r \in ShellRecords /\ r.kind = old.kind /\ r.doomed = old.doomed
  BY DEF ShellRecords
<1>4. BecomesShell(s, r)
  BY DEF CopyToRoot
<1> HIDE DEF r
<1> QED BY <1>0, <1>1, <1>2, <1>3, <1>4, QuietShell

LEMMA UploadOffsiteInv ==
  ASSUME BackupsInv, NEW s \in Shells, UploadOffsite(s)
  PROVE  BackupsInv'
<1> PICK old \in ShellRecords : old = shells[s]
  BY DEF BackupsInv, ScriptInv
<1>0. old.step = "upload" /\ old.at \in Nat
  BY DEF UploadOffsite, At, ShellRecords
<1> PICK b \in Archives : b = Archive(s, old.at, "offsite") /\ b.place = "offsite"
  BY <1>0, ArchiveIsOne
<1> PICK a \in Archives : a = [b EXCEPT !.suffix = FALSE] /\ a.place = "offsite"
  <2>1. [b EXCEPT !.suffix = FALSE] \in Archives /\ [b EXCEPT !.suffix = FALSE].place = b.place
    BY DEF Archives
  <2> QED BY <2>1
<1>1. /\ disk' = disk \/ disk' = disk \cup {a}
      /\ UNCHANGED <<copied, swept, database, restoring>>
      /\ Fails \/ UNCHANGED backups
      /\ BecomesShell(s, NoShell)
  BY DEF UploadOffsite
<1>2. /\ disk' \subseteq Archives /\ IsFiniteSet(disk')
      /\ \A c \in Archives : c.place = "kind" => (c \in disk' <=> c \in disk)
  <2>1. disk \subseteq Archives /\ IsFiniteSet(disk) /\ IsFiniteSet(disk \cup {a})
    BY FS_AddElement DEF BackupsInv, ArchivesInv
  <2> QED BY <1>1, <2>1
<1> QED BY <1>1, <1>2, NoShellIsOne, QuietShell

LEMMA ShellKilledInv ==
  ASSUME BackupsInv, NEW s \in Shells, ShellKilled(s)
  PROVE  BackupsInv'
<1>1. /\ UNCHANGED <<disk, copied, swept, database, restoring>>
      /\ Fails /\ BecomesShell(s, NoShell)
  BY DEF ShellKilled
<1>2. disk' \subseteq Archives /\ IsFiniteSet(disk')
  BY <1>1 DEF BackupsInv, ArchivesInv
<1> QED BY <1>1, <1>2, NoShellIsOne, QuietShell

\* A new archive, of a kind and under its number, or of the older script.
LEMMA OneArchiveMore ==
  ASSUME ArchivesInv, NEW k \in Kinds \cup {"old"}, NEW a \in Archives,
         copied' = Append(copied, k), disk' = disk \cup {a}, UNCHANGED swept,
         \/ k = "old" /\ a.place = "root"
         \/ k \in Kinds /\ a.place = "kind" /\ a.kind = k /\ a.at = Len(copied) + 1
  PROVE  ArchivesInv' /\ \A kind \in Kinds : /\ Kept(kind) \subseteq Kept(kind)'
                                             /\ Gone(kind)' \subseteq Gone(kind)
<1> DEFINE n == Len(copied) + 1
<1>0. copied \in Seq(Kinds \cup {"old"}) /\ n \in Nat /\ DOMAIN copied = 1..(n - 1)
  BY LenProperties DEF ArchivesInv
<1>1. /\ copied' \in Seq(Kinds \cup {"old"}) /\ DOMAIN copied' = 1..n
      /\ copied'[n] = k /\ \A i \in DOMAIN copied : copied'[i] = copied[i]
  BY <1>0, AppendProperties
<1>2. DOMAIN copied \subseteq DOMAIN copied' /\ n \notin DOMAIN copied
      /\ DOMAIN copied' = DOMAIN copied \cup {n}
  BY <1>0, <1>1
<1>3. \/ k = "old" /\ a.place # "kind"
      \/ k \in Kinds /\ a.place = "kind" /\ a.kind = k /\ a.at = n
  OBVIOUS
<1> HIDE DEF n
<1>4. disk' \subseteq Archives /\ IsFiniteSet(disk')
  <2>1. disk \subseteq Archives /\ IsFiniteSet(disk \cup {a})
    BY FS_AddElement DEF ArchivesInv
  <2> QED BY <2>1
<1>5. ArchivesInv'
  <2>1. \A b \in disk' : b.place = "kind" =>
           b.kind \in Kinds /\ b.at \in DOMAIN copied' /\ copied'[b.at] = b.kind
    BY <1>1, <1>2, <1>3 DEF ArchivesInv
  <2>2. \A b, c \in disk' : b.place = "kind" /\ c.place = "kind" /\ b.at = c.at => b = c
    BY <1>2, <1>3 DEF ArchivesInv
  <2>3. swept' \subseteq Nat
    BY DEF ArchivesInv
  <2> QED BY <1>1, <1>4, <2>1, <2>2, <2>3 DEF ArchivesInv
<1>6. ASSUME NEW kind \in Kinds
      PROVE  Kept(kind) \subseteq Kept(kind)' /\ Gone(kind)' \subseteq Gone(kind)
  <2>1. OfKind(kind) \subseteq OfKind(kind)'
    BY DEF OfKind
  <2>2. Kept(kind) \subseteq Kept(kind)'
    BY <1>1, <1>2, <2>1 DEF Kept
  <2>3. ASSUME NEW x \in Gone(kind)' PROVE x # n
    <3>1. SUFFICES ASSUME x = n PROVE FALSE
      OBVIOUS
    <3>2. copied'[n] = kind /\ \A b \in OfKind(kind)' : b.at # n
      BY <3>1, <2>3 DEF Gone
    <3>3. k = kind /\ kind # "old"
      BY <3>2, <1>1, BackupsAssumption
    <3>4. a \in OfKind(kind)'
      BY <3>3, <1>3 DEF OfKind
    <3> QED BY <3>2, <3>3, <3>4, <1>3
  <2>4. Gone(kind)' \subseteq Gone(kind)
    BY <1>1, <1>2, <2>1, <2>3 DEF Gone
  <2> QED BY <2>2, <2>4
<1> QED BY <1>5, <1>6

LEMMA CopyArchiveInv ==
  ASSUME BackupsInv, NEW s \in Shells, CopyArchive(s)
  PROVE  BackupsInv'
<1> PICK old \in ShellRecords : old = shells[s]
  BY DEF BackupsInv, ScriptInv
<1> PICK k \in Kinds \cup {"old"} : k = old.kind /\ old.step = "copy"
  BY DEF CopyArchive, At, BackupsInv, ScriptInv
<1> PICK n \in Nat : n = Len(copied) + 1
  <2>1. Len(copied) \in Nat
    BY LenProperties DEF BackupsInv, ArchivesInv
  <2> QED BY <2>1
<1> PICK new \in Archives :
       /\ new = IF OldScript(s) THEN OldArchive(s, n) ELSE Archive(s, n, "kind")
       /\ new.at = n /\ new.kind = k /\ new.place = IF k = "old" THEN "root" ELSE "kind"
  <2>1. OldScript(s) <=> k = "old"
    BY DEF OldScript
  <2> QED BY <2>1, ArchiveIsOne DEF OldArchive
<1> PICK half \in Archives : /\ half = [new EXCEPT !.whole = FALSE]
                             /\ half.at = n /\ half.kind = k /\ half.place = new.place
  <2>1. /\ [new EXCEPT !.whole = FALSE] \in Archives
        /\ [new EXCEPT !.whole = FALSE].at = n /\ [new EXCEPT !.whole = FALSE].kind = k
        /\ [new EXCEPT !.whole = FALSE].place = new.place
    BY DEF Archives
  <2> QED BY <2>1
<1> PICK step \in {"sweep", "root"} : step = IF OldScript(s) THEN "sweep" ELSE "root"
  OBVIOUS
<1> DEFINE r == [old EXCEPT !.at = n, !.step = step]
<1>1. r \in ShellRecords /\ r.kind = k /\ r.doomed = old.doomed
  BY DEF ShellRecords
<1>2. /\ copied' = Append(copied, k) /\ UNCHANGED <<swept, database, restoring>>
      /\ \/ disk' = disk \cup {new} /\ BecomesShell(s, r) /\ UNCHANGED backups
         \/ disk' = disk \cup {half} /\ BecomesShell(s, NoShell) /\ Fails
  BY DEF CopyArchive
<1> HIDE DEF r
<1>3. ScriptInv' /\ \A t \in Shells : shells'[t].doomed \subseteq shells[t].doomed
  BY <1>1, <1>2, ShellBecomes, NoShellIsOne DEF BackupsInv
<1>4. ArchivesInv' /\ \A kind \in Kinds : /\ Kept(kind) \subseteq Kept(kind)'
                                          /\ Gone(kind)' \subseteq Gone(kind)
  <2>1. PICK a \in {new, half} : disk' = disk \cup {a}
    BY <1>2
  <2>2. \/ k = "old" /\ a.place = "root"
        \/ k \in Kinds /\ a.place = "kind" /\ a.kind = k /\ a.at = Len(copied) + 1
    BY BackupsAssumption
  <2>3. a \in Archives
    OBVIOUS
  <2> QED BY <1>2, <2>1, <2>2, <2>3, OneArchiveMore DEF BackupsInv
<1>5. ASSUME NEW kind \in Kinds PROVE Shielded(kind)'
  <2>1. Doomed(kind)' \subseteq Doomed(kind)
    BY <1>3 DEF Doomed
  <2> QED BY <1>4, <2>1, CoverStays DEF BackupsInv
<1>6. RestoreInv' /\ backups' \in BackupRecords
  BY <1>2, NoRestoreTouched, FailsCount DEF BackupsInv
<1> QED BY <1>3, <1>4, <1>5, <1>6 DEF BackupsInv

LEMMA SweepByAgeInv ==
  ASSUME BackupsInv, NEW s \in Shells, SweepByAge(s)
  PROVE  BackupsInv'
<1> PICK old \in ShellRecords : old = shells[s]
  BY DEF BackupsInv, ScriptInv
<1>0. old.step = "sweep" /\ old.kind \in Kinds \cup {"old"}
  BY DEF SweepByAge, At, BackupsInv, ScriptInv
<1> DEFINE r == [old EXCEPT !.step = "upload"]
<1>1. r \in ShellRecords /\ r.kind = old.kind /\ r.doomed = old.doomed
  BY DEF ShellRecords
<1>2. /\ disk' = disk \ TooOld(s)
      /\ swept' = swept \cup {a.at : a \in {b \in TooOld(s) : b.place = "kind"}}
      /\ BecomesShell(s, r) \/ BecomesShell(s, NoShell)
      /\ UNCHANGED <<copied, database, restoring, backups>>
  BY DEF SweepByAge
<1> HIDE DEF r
<1>3. ScriptInv' /\ \A t \in Shells : shells'[t].doomed \subseteq shells[t].doomed
  BY <1>0, <1>1, <1>2, ShellBecomes, NoShellIsOne DEF BackupsInv
<1>4. ArchivesInv'
  <2>1. disk' \subseteq disk /\ IsFiniteSet(disk')
    BY <1>2, FS_Subset DEF BackupsInv, ArchivesInv
  <2>2. swept' \subseteq Nat
    <3>1. \A b \in TooOld(s) : b.at \in Nat
      BY DEF TooOld, BackupsInv, ArchivesInv, Archives
    <3> QED BY <1>2, <3>1 DEF BackupsInv, ArchivesInv
  <2> QED BY <1>2, <2>1, <2>2 DEF BackupsInv, ArchivesInv
<1>5. ASSUME NEW kind \in Kinds PROVE Shielded(kind)'
  <2>1. \A a \in OfKind(kind) : a \in OfKind(kind)' \/ a.at \in swept'
    BY <1>2 DEF OfKind
  <2>2. OfKind(kind)' \subseteq OfKind(kind) /\ swept \subseteq swept'
    BY <1>2 DEF OfKind
  <2>3. Kept(kind) \subseteq Kept(kind)'
    BY <1>2, <2>1, <2>2 DEF Kept
  <2>4. Gone(kind)' \subseteq Gone(kind)
    BY <1>2, <2>1, <2>2 DEF Gone
  <2>5. Doomed(kind)' \subseteq Doomed(kind)
    BY <1>3 DEF Doomed
  <2> QED BY <2>3, <2>4, <2>5, CoverStays DEF BackupsInv
<1>6. RestoreInv' /\ backups' \in BackupRecords
  BY <1>2, NoRestoreTouched DEF BackupsInv
<1> QED BY <1>3, <1>4, <1>5, <1>6 DEF BackupsInv

LEMMA PruneOldInv ==
  ASSUME BackupsInv, NEW s \in Shells, PruneOld(s)
  PROVE  BackupsInv'
<1> PICK old \in ShellRecords : old = shells[s]
  BY DEF BackupsInv, ScriptInv
<1>0. old.step = "prune" /\ old.kind \in Kinds \cup {"old"}
  BY DEF PruneOld, At, BackupsInv, ScriptInv
<1> DEFINE r == [old EXCEPT !.step = "sweep", !.doomed = {}]
<1>1. r \in ShellRecords /\ r.kind = old.kind /\ r.doomed = {}
  BY DEF ShellRecords
<1>2. /\ disk' = disk \ old.doomed /\ BecomesShell(s, r)
      /\ UNCHANGED <<copied, swept, database, restoring, backups>>
  BY DEF PruneOld
<1> HIDE DEF r
<1>3. ScriptInv' /\ \A t \in Shells : shells'[t].doomed \subseteq shells[t].doomed
  BY <1>0, <1>1, <1>2, ShellBecomes DEF BackupsInv
<1>4. ArchivesInv'
  <2>1. disk' \subseteq disk /\ IsFiniteSet(disk')
    BY <1>2, FS_Subset DEF BackupsInv, ArchivesInv
  <2> QED BY <1>2, <2>1 DEF BackupsInv, ArchivesInv
<1>5. ASSUME NEW kind \in Kinds PROVE Shielded(kind)'
  <2>1. \A a \in OfKind(kind) : a \in OfKind(kind)' \/ a.at \in Doomed(kind)
    <3> SUFFICES ASSUME NEW a \in OfKind(kind), a \notin OfKind(kind)' PROVE a.at \in Doomed(kind)
      OBVIOUS
    <3>1. a \in old.doomed /\ a.kind = kind /\ a.at \in Nat
      BY <1>2 DEF OfKind, BackupsInv, ArchivesInv, Archives
    <3> QED BY <3>1 DEF Doomed
  <2>2. Doomed(kind)' \subseteq Doomed(kind)
    BY <1>3 DEF Doomed
  <2>3. Gone(kind)' \subseteq Gone(kind) \cup Doomed(kind)
    BY <1>2, <2>1 DEF Gone
  <2>4. Kept(kind) \subseteq Kept(kind)' \cup Doomed(kind)
    BY <1>2, <2>1 DEF Kept
  <2>5. PICK lost, lost2, some, some2 :
         /\ lost = Gone(kind) \cup Doomed(kind) /\ lost2 = Gone(kind)' \cup Doomed(kind)'
         /\ some = Kept(kind) /\ some2 = Kept(kind)'
    OBVIOUS
  <2>6. lost2 \subseteq lost /\ some \subseteq some2 \cup lost
    BY <2>2, <2>3, <2>4, <2>5
  <2>7. CASE lost = {}
    <3>1. Gone(kind)' \cup Doomed(kind)' = {}
      BY <2>5, <2>6, <2>7
    <3> QED BY <3>1 DEF Shielded
  <2>8. CASE lost # {}
    <3>1. PICK g \in Nat, W \in SUBSET some :
            /\ Cardinality(W) >= Retention[kind]
            /\ \A x \in lost : x <= g
            /\ \A w \in W : w > g
      BY <2>5, <2>8 DEF Shielded, BackupsInv
    <3>2. \A w \in W : w \in Nat
      BY <2>5 DEF Kept, BackupsInv, ArchivesInv
    <3>3. \A w \in W : w \notin lost
      BY <3>1, <3>2
    <3>4. W \in SUBSET some2 /\ \A x \in lost2 : x <= g
      BY <2>6, <3>1, <3>3
    <3>5. /\ W \in SUBSET Kept(kind)' /\ Cardinality(W) >= Retention[kind]
          /\ \A x \in Gone(kind)' \cup Doomed(kind)' : x <= g
          /\ \A w \in W : w > g
      BY <2>5, <3>1, <3>4
    <3> QED BY <3>5 DEF Shielded
  <2> QED BY <2>7, <2>8
<1>6. RestoreInv' /\ backups' \in BackupRecords
  BY <1>2, NoRestoreTouched DEF BackupsInv
<1> QED BY <1>3, <1>4, <1>5, <1>6 DEF BackupsInv

\* Of the outdated archives of a kind one is the newest.
LEMMA NewestOutdated ==
  ASSUME ArchivesInv, NEW kind \in Kinds, Outdated(kind) # {}
  PROVE  \E x \in Outdated(kind) : \A y \in Outdated(kind) : y.at <= x.at
<1> PICK S : S = Outdated(kind)
  OBVIOUS
<1> PICK n \in Nat : n = Len(copied)
  BY LenProperties DEF ArchivesInv
<1>1. \A y \in S : y.at \in Nat /\ y.at >= 1 /\ y.at <= n
  <2>1. \A y \in S : y.at \in DOMAIN copied
    BY DEF Outdated, OfKind, ArchivesInv
  <2>2. DOMAIN copied = 1..n
    BY LenProperties DEF ArchivesInv
  <2> QED BY <2>1, <2>2
<1> DEFINE bounds == {m \in Nat : \A y \in S : y.at <= m}
<1>2. n \in bounds
  BY <1>1
<1>3. bounds \in SUBSET Nat /\ bounds # {}
  BY <1>2
<1> HIDE DEF bounds
<1>4. PICK m \in bounds : \A k \in bounds : m <= k
  BY <1>3, LeastOf
<1>5. m \in Nat /\ \A y \in S : y.at <= m
  BY DEF bounds
<1>6. m - 1 \in Nat /\ m - 1 \notin bounds
  BY <1>1, <1>3, <1>4, <1>5
<1>7. PICK x \in S : ~(x.at <= m - 1)
  BY <1>6 DEF bounds
<1>8. x.at = m
  BY <1>1, <1>5, <1>6, <1>7
<1> QED BY <1>5, <1>7, <1>8

\* As many are newer than that one as are kept, and each has a number of its own.
LEMMA NewerAreEnough ==
  ASSUME ArchivesInv, NEW kind \in Kinds, NEW x \in Outdated(kind)
  PROVE  \E W \in SUBSET Kept(kind) :
            Cardinality(W) >= Retention[kind] /\ \A w \in W : w > x.at
<1> DEFINE newer == {b \in OfKind(kind) : b.at > x.at}
           W == {w \in Kept(kind) : \E b \in newer : b.at = w}
           f == [b \in newer |-> b.at]
<1>1. Cardinality(newer) >= Retention[kind] /\ Retention[kind] \in Nat
  BY BackupsAssumption DEF Outdated
<1>2. \A b \in newer : b.at \in W
  BY DEF Kept, OfKind, ArchivesInv
<1>3. \A b, c \in newer : b.at = c.at => b = c
  BY DEF OfKind, ArchivesInv
<1>4. f \in Injection(newer, W)
  BY <1>2, <1>3 DEF Injection, IsInjective
<1>5. IsFiniteSet(W)
  <2>1. W \subseteq 1..Len(copied) /\ Len(copied) \in Nat
    BY LenProperties DEF Kept, ArchivesInv
  <2>2. IsFiniteSet(1..Len(copied))
    BY <2>1, FS_Interval
  <2> QED BY <2>1, <2>2, FS_Subset
<1>6. Cardinality(newer) <= Cardinality(W) /\ IsFiniteSet(newer)
  <2>1. newer \subseteq disk
    BY DEF OfKind
  <2>2. IsFiniteSet(newer)
    BY <2>1, FS_Subset DEF ArchivesInv
  <2> HIDE DEF newer, W, f
  <2> QED BY <1>4, <1>5, <2>2, FS_Injection
<1>7. Cardinality(newer) \in Nat /\ Cardinality(W) \in Nat
  BY <1>5, <1>6, FS_CardinalityType
<1>8. W \in SUBSET Kept(kind) /\ \A w \in W : w > x.at
  OBVIOUS
<1>9. Cardinality(W) >= Retention[kind]
  BY <1>1, <1>6, <1>7
<1> HIDE DEF W
<1> QED BY <1>8, <1>9

LEMMA ListOutdatedInv ==
  ASSUME BackupsInv, NEW s \in Shells, ListOutdated(s)
  PROVE  BackupsInv'
<1> PICK old \in ShellRecords : old = shells[s]
  BY DEF BackupsInv, ScriptInv
<1>0. old.step = "list" /\ old.kind \in Kinds \cup {"old"}
  BY DEF ListOutdated, At, BackupsInv, ScriptInv
<1> PICK taken \in SUBSET Archives : taken = UNION {Outdated(k) : k \in Kinds}
  <2>1. \A k \in Kinds : Outdated(k) \subseteq Archives
    BY DEF Outdated, OfKind, BackupsInv, ArchivesInv
  <2> QED BY <2>1
<1> DEFINE r == [old EXCEPT !.step = "prune", !.doomed = taken]
<1>1. r \in ShellRecords /\ r.kind = old.kind /\ r.doomed = taken
  BY DEF ShellRecords
<1>2. /\ BecomesShell(s, r)
      /\ UNCHANGED <<disk, copied, swept, database, restoring, backups>>
  BY DEF ListOutdated
<1> HIDE DEF r
<1>3. ScriptInv' /\ \A t \in Shells : shells'[t] = IF t = s THEN r ELSE shells[t]
  BY <1>0, <1>1, <1>2, ShellBecomes DEF BackupsInv
<1>4. ArchivesInv'
  BY <1>2 DEF BackupsInv, ArchivesInv
<1>5. ASSUME NEW kind \in Kinds PROVE Shielded(kind)'
  <2>1. Kept(kind)' = Kept(kind) /\ Gone(kind)' = Gone(kind)
    <3>1. OfKind(kind)' = OfKind(kind)
      BY <1>2 DEF OfKind
    <3> QED BY <1>2, <3>1 DEF Kept, Gone
  <2>2. \A d \in taken : d.kind = kind => d \in Outdated(kind)
    <3>1. \A k \in Kinds : \A d \in Outdated(k) : d.kind = k
      BY DEF Outdated, OfKind
    <3> QED BY <3>1
  <2>3. \A x \in Doomed(kind)' : x \in Doomed(kind) \/ \E d \in Outdated(kind) : d.at = x
    <3> SUFFICES ASSUME NEW x \in Doomed(kind)'
                 PROVE  x \in Doomed(kind) \/ \E d \in Outdated(kind) : d.at = x
      OBVIOUS
    <3>1. PICK t \in Shells : \E d \in shells'[t].doomed : d.kind = kind /\ d.at = x
      BY DEF Doomed
    <3>2. x \in Nat
      BY DEF Doomed
    <3>3. CASE t = s
      <4>1. \E d \in taken : d.kind = kind /\ d.at = x
        BY <1>1, <1>3, <3>1, <3>3
      <4> QED BY <2>2, <4>1
    <3>4. CASE t # s
      <4>1. \E d \in shells[t].doomed : d.kind = kind /\ d.at = x
        BY <1>3, <3>1, <3>4
      <4> QED BY <3>2, <4>1 DEF Doomed
    <3> QED BY <3>3, <3>4
  <2>4. PICK lost, lost2, some, out :
         /\ lost = Gone(kind) \cup Doomed(kind) /\ lost2 = Gone(kind)' \cup Doomed(kind)'
         /\ some = Kept(kind) /\ out = Outdated(kind)
    OBVIOUS
  <2>5. \A x \in lost2 : x \in lost \/ \E d \in out : d.at = x
    BY <2>1, <2>3, <2>4
  <2>6. lost \subseteq Nat
    BY <2>4 DEF Gone, Doomed, BackupsInv, ArchivesInv
  <2>7. \/ lost = {}
        \/ \E g \in Nat : \E W \in SUBSET some :
              /\ Cardinality(W) >= Retention[kind]
              /\ \A x \in lost : x <= g
              /\ \A w \in W : w > g
    BY <2>4 DEF BackupsInv, Shielded
  <2>8. \/ out = {}
        \/ \E d \in out : /\ \A y \in out : y.at <= d.at
                          /\ \E W \in SUBSET some : Cardinality(W) >= Retention[kind]
                                                    /\ \A w \in W : w > d.at
    BY <2>4, NewestOutdated, NewerAreEnough DEF BackupsInv
  <2>9. \A d \in out : d.at \in Nat
    BY <2>4 DEF Outdated, OfKind, BackupsInv, ArchivesInv, Archives
  <2>10. \/ lost2 = {}
         \/ \E g \in Nat : \E W \in SUBSET some :
              /\ Cardinality(W) >= Retention[kind]
              /\ \A x \in lost2 : x <= g
              /\ \A w \in W : w > g
    <3>1. CASE out = {}
      <4>1. lost2 \subseteq lost
        BY <2>5, <3>1
      <4> QED BY <2>7, <4>1
    <3>2. CASE out # {}
      <4> PICK d \in out : /\ \A y \in out : y.at <= d.at
                           /\ \E W \in SUBSET some : Cardinality(W) >= Retention[kind]
                                                     /\ \A w \in W : w > d.at
        BY <2>8, <3>2
      <4> PICK h \in Nat : h = d.at
        BY <2>9
      <4>1. CASE \A x \in lost : x <= h
        <5>1. \A x \in lost2 : x <= h
          BY <2>5, <4>1
        <5> QED BY <5>1
      <4>2. CASE ~(\A x \in lost : x <= h)
        <5> PICK g \in Nat, W \in SUBSET some :
              /\ Cardinality(W) >= Retention[kind]
              /\ \A x \in lost : x <= g
              /\ \A w \in W : w > g
          BY <2>7, <4>2
        <5>1. h <= g
          BY <2>6, <4>2
        <5>2. \A y \in out : y.at <= g
          BY <2>9, <5>1
        <5>3. \A x \in lost2 : x <= g
          BY <2>5, <5>2
        <5> QED BY <5>3
      <4> QED BY <4>1, <4>2
    <3> QED BY <3>1, <3>2
  <2>11. CASE lost2 = {}
    BY <2>4, <2>11 DEF Shielded
  <2>12. CASE lost2 # {}
    <3>1. PICK g \in Nat, W \in SUBSET some :
              /\ Cardinality(W) >= Retention[kind]
              /\ \A x \in lost2 : x <= g
              /\ \A w \in W : w > g
      BY <2>10, <2>12
    <3>2. /\ W \in SUBSET Kept(kind)' /\ Cardinality(W) >= Retention[kind]
          /\ \A x \in Gone(kind)' \cup Doomed(kind)' : x <= g
          /\ \A w \in W : w > g
      BY <2>1, <2>4, <3>1
    <3> QED BY <3>2 DEF Shielded
  <2> QED BY <2>11, <2>12
<1>6. RestoreInv' /\ backups' \in BackupRecords
  BY <1>2, NoRestoreTouched DEF BackupsInv
<1> QED BY <1>3, <1>4, <1>5, <1>6 DEF BackupsInv

-----------------------------------------------------------------------------
(* What the backups promise.                                                *)

LEMMA BackupsStep == BackupsInv /\ [BackupsNext]_backupVars => BackupsInv'
<1> SUFFICES ASSUME BackupsInv, [BackupsNext]_backupVars PROVE BackupsInv'
  OBVIOUS
<1>1. CASE UNCHANGED backupVars
  BY <1>1, NoArchiveTouched, NoRestoreTouched DEF BackupsInv, backupVars
<1>2. ASSUME NEW s \in Shells,
             \/ StartBackup(s) \/ Dump(s) \/ CopyArchive(s) \/ CopyToRoot(s) \/ ListOutdated(s)
             \/ PruneOld(s) \/ SweepByAge(s) \/ UploadOffsite(s) \/ ShellKilled(s)
      PROVE  BackupsInv'
  BY <1>2, StartBackupInv, DumpInv, CopyArchiveInv, CopyToRootInv, ListOutdatedInv,
     PruneOldInv, SweepByAgeInv, UploadOffsiteInv, ShellKilledInv
<1>3. CASE \/ Restore \/ RollBack \/ OpenArchive \/ StopServices \/ RestoreDirect
           \/ RestoreInContainer \/ FinishRestore \/ RestoreKilled
           \/ OfficeWorks \/ ComposeUp \/ DaysPass
  BY <1>3, RestoreStarts, RestoreWaits, RestoreTries, FinishRestoreInv, OfficeMeanwhile
<1> QED BY <1>1, <1>2, <1>3 DEF BackupsNext

LEMMA BackupsBegin == BackupsInit => BackupsInv
<1> SUFFICES ASSUME BackupsInit PROVE BackupsInv
  OBVIOUS
<1>1. backups \in BackupRecords
  BY DEF BackupsInit, BackupRecords
<1>2. RestoreInv
  <2>1. database \in DatabaseRecords
    BY DEF BackupsInit, DatabaseRecords
  <2>2. restoring \in RestoreRecords /\ restoring.step = "none" /\ restoring.said = ""
    BY DEF BackupsInit, NoRestore, RestoreRecords
  <2> QED BY <2>1, <2>2 DEF RestoreInv
<1>3. ScriptInv /\ \A s \in Shells : shells[s] = NoShell
  BY NoShellIsOne DEF BackupsInit, ScriptInv
<1>4. ArchivesInv
  <2>1. IsFiniteSet({}) /\ <<>> \in Seq(Kinds \cup {"old"})
    BY FS_EmptySet, EmptySeq
  <2> QED BY <2>1 DEF BackupsInit, ArchivesInv
<1>5. ASSUME NEW kind \in Kinds PROVE Shielded(kind)
  <2>1. Gone(kind) = {}
    <3>1. DOMAIN copied = {}
      BY DEF BackupsInit
    <3> QED BY <3>1 DEF Gone
  <2>2. Doomed(kind) = {}
    BY <1>3, NoShellIsOne DEF Doomed
  <2> QED BY <2>1, <2>2 DEF Shielded
<1> QED BY <1>1, <1>2, <1>3, <1>4, <1>5 DEF BackupsInv

LEMMA BackupsHold == BackupsInv => RetentionKeepsNewer /\ DoneIsRestored
<1> SUFFICES ASSUME BackupsInv PROVE RetentionKeepsNewer /\ DoneIsRestored
  OBVIOUS
<1>1. DoneIsRestored
  BY DEF BackupsInv, RestoreInv, DoneIsRestored
<1>2. ASSUME NEW x \in DOMAIN copied \ swept, NEW kind \in Kinds,
             copied[x] = kind, \A a \in OfKind(kind) : a.at # x
      PROVE  Retention[kind] <= Cardinality({b \in DOMAIN copied :
                       /\ b > x /\ copied[b] = kind
                       /\ b \in swept \/ \E a \in OfKind(kind) : a.at = b})
  <2> DEFINE more == {b \in DOMAIN copied :
                       /\ b > x /\ copied[b] = kind
                       /\ b \in swept \/ \E a \in OfKind(kind) : a.at = b}
  <2>1. x \in Gone(kind)
    BY <1>2 DEF Gone
  <2>2. PICK g \in Nat, W \in SUBSET Kept(kind) :
          /\ Cardinality(W) >= Retention[kind]
          /\ \A y \in Gone(kind) \cup Doomed(kind) : y <= g
          /\ \A w \in W : w > g
    BY <2>1 DEF BackupsInv, Shielded
  <2>3. DOMAIN copied = 1..Len(copied) /\ Len(copied) \in Nat
    BY LenProperties DEF BackupsInv, ArchivesInv
  <2>4. W \subseteq more
    <3>1. x \in Nat /\ x <= g
      BY <2>1, <2>2, <2>3
    <3>2. \A w \in W : w \in Nat /\ w > x
      BY <2>2, <2>3, <3>1 DEF Kept
    <3> QED BY <3>2 DEF Kept
  <2>5. IsFiniteSet(more)
    <3>1. more \subseteq 1..Len(copied) /\ IsFiniteSet(1..Len(copied))
      BY <2>3, FS_Interval
    <3> QED BY <3>1, FS_Subset
  <2> HIDE DEF more
  <2>6. /\ Cardinality(W) <= Cardinality(more)
        /\ Cardinality(W) \in Nat /\ Cardinality(more) \in Nat
    BY <2>4, <2>5, FS_Subset, FS_CardinalityType
  <2>7. Retention[kind] \in Nat
    BY BackupsAssumption
  <2>8. Retention[kind] <= Cardinality(more)
    BY <2>2, <2>6, <2>7
  <2> QED BY <2>8 DEF more
<1> QED BY <1>1, <1>2 DEF RetentionKeepsNewer

\* Whatever the retention takes away, whichever scripts overlap and wherever they
\* are killed, as many newer archives of the kind are kept as it promises
\* (backup-prod.sh: ls -t, tail -n +N, rm), or were swept by the other script.
THEOREM NewerAreKept == BackupsSpec => []RetentionKeepsNewer
<1>1. BackupsSpec => []BackupsInv
  BY BackupsBegin, BackupsStep, PTL DEF BackupsSpec
<1> QED BY <1>1, BackupsHold, PTL

\* A restore that says it is done has left the database on its archive, and half
\* restored only if the archive is of such a database (restore.sh: psql on the host,
\* then in the container), whatever the office writes and the scripts take meanwhile.
THEOREM SaidIsRestored == BackupsSpec => []DoneIsRestored
<1>1. BackupsSpec => []BackupsInv
  BY BackupsBegin, BackupsStep, PTL DEF BackupsSpec
<1> QED BY <1>1, BackupsHold, PTL

-----------------------------------------------------------------------------
(* Bundles: the rows of a page, in their order.                             *)

Before(keys, k) == {j \in keys : j < k}

\* Of finitely many keys each has a place of its own.
LEMMA PlacesDiffer ==
  ASSUME NEW keys \in SUBSET Nat, IsFiniteSet(keys)
  PROVE  /\ \A k \in keys : Cardinality(Before(keys, k)) \in 0..(Cardinality(keys) - 1)
         /\ \A j, k \in keys : j < k =>
               Cardinality(Before(keys, j)) < Cardinality(Before(keys, k))
         /\ \A j, k \in keys : Cardinality(Before(keys, j)) = Cardinality(Before(keys, k)) => j = k
<1>1. ASSUME NEW A, NEW B, IsFiniteSet(B), A \subseteq B, A # B
      PROVE  Cardinality(A) \in Nat /\ Cardinality(B) \in Nat /\ Cardinality(A) < Cardinality(B)
  <2>1. /\ IsFiniteSet(A) /\ Cardinality(A) <= Cardinality(B)
        /\ Cardinality(B) = Cardinality(A) => B = A
    BY <1>1, FS_Subset
  <2>2. Cardinality(A) \in Nat /\ Cardinality(B) \in Nat
    BY <1>1, <2>1, FS_CardinalityType
  <2> QED BY <1>1, <2>1, <2>2
<1>2. ASSUME NEW k \in keys
      PROVE  Before(keys, k) \subseteq keys /\ Before(keys, k) # keys
  BY DEF Before
<1>3. ASSUME NEW j \in keys, NEW k \in keys, j < k
      PROVE  Before(keys, j) \subseteq Before(keys, k) /\ Before(keys, j) # Before(keys, k)
  <2>1. j \in Before(keys, k) /\ j \notin Before(keys, j)
    BY <1>3 DEF Before
  <2>2. j \in Nat /\ k \in Nat /\ \A i \in keys : i \in Nat
    OBVIOUS
  <2>3. \A i \in keys : i < j => i < k
    BY <1>3, <2>2
  <2>4. Before(keys, j) \subseteq Before(keys, k)
    BY <2>3 DEF Before
  <2> QED BY <2>1, <2>4
<1>4. \A k \in keys : IsFiniteSet(Before(keys, k))
  BY <1>2, FS_Subset
<1>5. \A k \in keys : Cardinality(Before(keys, k)) \in 0..(Cardinality(keys) - 1)
  BY <1>1, <1>2
<1>6. \A j, k \in keys : j < k =>
               Cardinality(Before(keys, j)) < Cardinality(Before(keys, k))
  BY <1>1, <1>3, <1>4
<1>7. ASSUME NEW j \in keys, NEW k \in keys,
             Cardinality(Before(keys, j)) = Cardinality(Before(keys, k))
      PROVE  j = k
  <2>1. j < k \/ k < j \/ j = k
    OBVIOUS
  <2>2. Cardinality(Before(keys, j)) \in Nat /\ Cardinality(Before(keys, k)) \in Nat
    BY <1>5
  <2> QED BY <1>6, <1>7, <2>1, <2>2
<1> QED BY <1>5, <1>6, <1>7

\* Each place is taken: there are as many of them as there are keys.
LEMMA PlacesTaken ==
  ASSUME NEW keys \in SUBSET Nat, IsFiniteSet(keys), NEW i \in 1..Cardinality(keys)
  PROVE  \E k \in keys : Cardinality(Before(keys, k)) = i - 1
<1> PICK n \in Nat : n = Cardinality(keys)
  BY FS_CardinalityType
<1> DEFINE f == [k \in keys |-> Cardinality(Before(keys, k))]
<1>1. f \in Injection(keys, 0..(n - 1))
  <2>1. f \in [keys -> 0..(n - 1)]
    BY PlacesDiffer
  <2>2. \A j, k \in keys : f[j] = f[k] => j = k
    BY PlacesDiffer
  <2> HIDE DEF f
  <2> QED BY <2>1, <2>2 DEF Injection, IsInjective
<1>2. n >= 1 /\ i - 1 \in 0..(n - 1)
  OBVIOUS
<1>3. IsFiniteSet(0..(n - 1)) /\ Cardinality(0..(n - 1)) = n
  BY <1>2, FS_Interval
<1>4. f \in Surjection(keys, 0..(n - 1))
  <2> HIDE DEF f
  <2>1. Cardinality(keys) = Cardinality(0..(n - 1))
    BY <1>3
  <2> QED BY <1>1, <1>3, <2>1, FS_Injection, Zenon
<1>5. \E k \in keys : f[k] = i - 1
  <2> HIDE DEF f
  <2> QED BY <1>2, <1>4 DEF Surjection
<1> QED BY <1>5

\* The rows are the keys, in their order.
LEMMA RowsAreKeys ==
  ASSUME NEW keys \in SUBSET Nat, IsFiniteSet(keys)
  PROVE  /\ Sorted(keys) \in Seq(keys) /\ Len(Sorted(keys)) = Cardinality(keys)
         /\ \A i \in 1..Cardinality(keys) : Cardinality(Before(keys, Sorted(keys)[i])) = i - 1
<1> PICK n \in Nat : n = Cardinality(keys)
  BY FS_CardinalityType
<1> DEFINE row(i) == CHOOSE k \in keys : Cardinality(Before(keys, k)) = i - 1
<1>0. Sorted(keys) = [i \in 1..n |-> row(i)]
  BY DEF Sorted, Before
<1>1. \A i \in 1..n : /\ Sorted(keys)[i] \in keys
                      /\ Cardinality(Before(keys, Sorted(keys)[i])) = i - 1
  <2> SUFFICES ASSUME NEW i \in 1..n
               PROVE  /\ Sorted(keys)[i] \in keys
                      /\ Cardinality(Before(keys, Sorted(keys)[i])) = i - 1
    OBVIOUS
  <2>1. Sorted(keys)[i] = CHOOSE k \in keys : Cardinality(Before(keys, k)) = i - 1
    BY <1>0
  <2>2. \E k \in keys : Cardinality(Before(keys, k)) = i - 1
    BY PlacesTaken
  <2> QED BY <2>1, <2>2
<1>2. Sorted(keys) \in [1..n -> keys]
  <2>1. \A i \in 1..n : row(i) \in keys
    <3>1. \A i \in 1..n : row(i) = Sorted(keys)[i]
      BY <1>0
    <3> HIDE DEF row
    <3> QED BY <1>1, <3>1
  <2> HIDE DEF row
  <2> QED BY <1>0, <2>1
<1>3. Sorted(keys) \in Seq(keys) /\ Len(Sorted(keys)) = n
  BY <1>2, IsASeq, LenProperties
<1> QED BY <1>1, <1>3

-----------------------------------------------------------------------------
(* A page of the listing.                                                   *)

Beyond == {k \in Present : k > making.cursor}

LEMMA FirstRows ==
  ASSUME NEW S, NEW rows, NEW l \in Nat, \A i \in 1..l : rows[i] \in S
  PROVE  /\ SubSeq(rows, 1, l) \in Seq(S) /\ Len(SubSeq(rows, 1, l)) = l
         /\ \A i \in 1..l : SubSeq(rows, 1, l)[i] = rows[i]
<1>1. /\ SubSeq(rows, 1, l) \in Seq(S)
      /\ Len(SubSeq(rows, 1, l)) = IF 1 <= l THEN l - 1 + 1 ELSE 0
      /\ \A i \in 1..(l - 1 + 1) : SubSeq(rows, 1, l)[i] = rows[1 + i - 1]
  BY SubSeqProperties
<1>2. \A i \in 1..l : 1 + i - 1 = i
  OBVIOUS
<1> QED BY <1>1, <1>2

LEMMA PageGoesOn ==
  ASSUME making.cursor \in Nat
  PROVE  /\ PgPage.keys \in Seq(StoreKeys) /\ PgPage.cursor \in Nat
         /\ \A k \in Beyond :
               \/ \E i \in DOMAIN PgPage.keys : PgPage.keys[i] = k
               \/ PgPage.cursor # 0 /\ k > PgPage.cursor
<1> PICK keys, rows : keys = Beyond /\ rows = Sorted(keys)
  OBVIOUS
<1>1. keys \in SUBSET StoreKeys /\ keys \in SUBSET Nat /\ 0 \notin keys /\ IsFiniteSet(keys)
  BY BundlesAssumption, FS_Subset DEF Beyond, Present
<1> PICK n \in Nat : n = Cardinality(keys)
  BY <1>1, FS_CardinalityType
<1> PICK limit \in Nat : limit = PageLimit /\ limit >= 1
  BY BundlesAssumption
<1>2. rows \in Seq(keys) /\ Len(rows) = n
      /\ \A i \in 1..n : Cardinality(Before(keys, rows[i])) = i - 1
  BY <1>1, RowsAreKeys
<1>3. \A i \in 1..n : rows[i] \in keys
  BY <1>2, ElementOfSeq
<1> PICK l \in 0..n : l = Min({limit, n}) /\ l = IF limit <= n THEN limit ELSE n
  <2>1. \E l \in {limit, n} : \A m \in {limit, n} : l <= m
    OBVIOUS
  <2>2. Min({limit, n}) \in {limit, n} /\ \A m \in {limit, n} : Min({limit, n}) <= m
    BY <2>1 DEF Min
  <2> QED BY <2>2
<1>4. PgPage = [keys |-> SubSeq(rows, 1, l), cursor |-> IF n > limit THEN rows[limit] ELSE 0]
  BY <1>2 DEF PgPage, NextCursor, Beyond
<1> PICK page, cursor : page = PgPage.keys /\ cursor = PgPage.cursor
  OBVIOUS
<1>5. page = SubSeq(rows, 1, l) /\ cursor = IF n > limit THEN rows[limit] ELSE 0
  BY <1>4
<1>6. page \in Seq(keys) /\ DOMAIN page = 1..l /\ \A i \in 1..l : page[i] = rows[i]
  <2>1. \A i \in 1..l : rows[i] \in keys
    BY <1>3
  <2>2. page \in Seq(keys) /\ Len(page) = l /\ \A i \in 1..l : page[i] = rows[i]
    <3>1. l \in Nat
      OBVIOUS
    <3>2. /\ SubSeq(rows, 1, l) \in Seq(keys) /\ Len(SubSeq(rows, 1, l)) = l
          /\ \A i \in 1..l : SubSeq(rows, 1, l)[i] = rows[i]
      BY <2>1, <3>1, FirstRows
    <3> QED BY <1>5, <3>2, Zenon
  <2>3. DOMAIN page = 1..Len(page)
    BY <2>2, LenProperties, Zenon
  <2> QED BY <2>2, <2>3, Zenon
<1>7. cursor \in Nat /\ (n > limit => cursor \in keys /\ cursor # 0)
  <2>1. n > limit => limit \in 1..n
    OBVIOUS
  <2>2. \A k \in keys : k \in Nat /\ k # 0
    BY <1>1
  <2> QED BY <1>3, <1>5, <2>1, <2>2
<1>8. ASSUME NEW k \in keys
      PROVE  (\E i \in 1..l : page[i] = k) \/ (cursor # 0 /\ k > cursor)
  <2> PICK p \in 0..(n - 1) : p = Cardinality(Before(keys, k))
    BY <1>1, PlacesDiffer
  <2>1. p + 1 \in 1..n /\ (p + 1) - 1 = p
    OBVIOUS
  <2>2. rows[p + 1] \in keys /\ Cardinality(Before(keys, rows[p + 1])) = p
    BY <1>2, <1>3, <2>1
  <2>3. rows[p + 1] = k
    BY <1>1, <2>2, PlacesDiffer
  <2>4. CASE p + 1 <= l
    <3>1. p + 1 \in 1..l
      BY <2>4
    <3> QED BY <1>6, <2>3, <3>1
  <2>5. CASE ~(p + 1 <= l)
    <3>1. n > limit /\ l = limit /\ limit \in 1..n /\ limit - 1 < p
      BY <2>5
    <3>2. cursor = rows[limit] /\ cursor \in keys /\ cursor # 0
      BY <1>5, <1>7, <3>1
    <3>3. Cardinality(Before(keys, cursor)) = limit - 1
      BY <1>2, <3>1, <3>2
    <3>4. k \in Nat /\ cursor \in Nat
      BY <1>1, <3>2
    <3>5. /\ k < cursor => Cardinality(Before(keys, k)) < Cardinality(Before(keys, cursor))
          /\ k \in keys /\ cursor \in keys
      BY <1>1, <3>2, PlacesDiffer
    <3>6. ~(k < cursor) /\ k # cursor
      BY <3>1, <3>3, <3>5
    <3> QED BY <3>2, <3>4, <3>6
  <2> QED BY <2>4, <2>5
<1>9. page \in Seq(StoreKeys)
  BY <1>1, <1>6, SeqMonotonic
<1> QED BY <1>6, <1>7, <1>8, <1>9

\* What is in s or in t is in both.
Joined(s, t, both) ==
  /\ \A i \in DOMAIN s : \E j \in DOMAIN both : both[j] = s[i]
  /\ \A i \in DOMAIN t : \E j \in DOMAIN both : both[j] = t[i]

LEMMA OneOfBoth ==
  ASSUME NEW s \in Seq(StoreKeys), NEW t \in Seq(StoreKeys)
  PROVE  s \o t \in Seq(StoreKeys) /\ Joined(s, t, s \o t)
<1> PICK both : both = s \o t
  OBVIOUS
<1> PICK m \in Nat, n \in Nat : m = Len(s) /\ n = Len(t)
  BY LenProperties
<1>1. /\ both \in Seq(StoreKeys) /\ Len(both) = m + n
      /\ \A i \in 1..(m + n) : both[i] = IF i <= m THEN s[i] ELSE t[i - m]
  BY ConcatProperties
<1>2. DOMAIN s = 1..m /\ DOMAIN t = 1..n /\ DOMAIN both = 1..(m + n)
  BY <1>1, LenProperties
<1>3. \A i \in 1..m : i \in 1..(m + n) /\ both[i] = s[i]
  BY <1>1
<1>4. \A i \in 1..n : m + i \in 1..(m + n) /\ both[m + i] = t[i]
  <2> SUFFICES ASSUME NEW i \in 1..n PROVE m + i \in 1..(m + n) /\ both[m + i] = t[i]
    OBVIOUS
  <2>1. m + i \in 1..(m + n) /\ ~(m + i <= m) /\ (m + i) - m = i
    OBVIOUS
  <2> QED BY <1>1, <2>1
<1>5. /\ \A i \in DOMAIN s : \E j \in DOMAIN both : both[j] = s[i]
      /\ \A i \in DOMAIN t : \E j \in DOMAIN both : both[j] = t[i]
  BY <1>2, <1>3, <1>4
<1>6. Joined(s, t, both)
  BY <1>5 DEF Joined
<1> QED BY <1>1, <1>6

Contents == Nat \ {0}
Pairs == StoreKeys \X Contents

\* What t has is what s has, and e.
Grown(s, e, t) ==
    /\ \A i \in DOMAIN s : \E j \in DOMAIN t : t[j] = s[i]
    /\ \E j \in DOMAIN t : t[j] = e
    /\ \A j \in DOMAIN t : t[j] = e \/ \E i \in DOMAIN s : s[i] = t[j]

LEMMA OnePairMore ==
  ASSUME NEW s \in Seq(Pairs), NEW e \in Pairs
  PROVE  Append(s, e) \in Seq(Pairs) /\ Grown(s, e, Append(s, e))
<1> PICK n \in Nat : n = Len(s)
  BY LenProperties
<1> PICK t : t = Append(s, e)
  OBVIOUS
<1>1. /\ t \in Seq(Pairs) /\ Len(t) = n + 1
      /\ \A i \in 1..n : t[i] = s[i]
      /\ t[n + 1] = e
  BY AppendProperties
<1>2. DOMAIN s = 1..n /\ DOMAIN t = 1..(n + 1)
  BY <1>1, LenProperties
<1>3. n + 1 \in 1..(n + 1) /\ \A i \in 1..n : i \in 1..(n + 1)
  OBVIOUS
<1>4. \A j \in 1..(n + 1) : j = n + 1 \/ j \in 1..n
  OBVIOUS
<1>5. /\ \A i \in DOMAIN s : \E j \in DOMAIN t : t[j] = s[i]
      /\ \E j \in DOMAIN t : t[j] = e
      /\ \A j \in DOMAIN t : t[j] = e \/ \E i \in DOMAIN s : s[i] = t[j]
  BY <1>1, <1>2, <1>3, <1>4
<1> QED BY <1>1, <1>5 DEF Grown

LEMMA OneIsRead ==
  ASSUME NEW s \in Seq(StoreKeys), s # <<>>
  PROVE  \E k \in StoreKeys, tail \in Seq(StoreKeys) :
            /\ k = Head(s) /\ tail = Tail(s)
            /\ \A j : (\E i \in DOMAIN s : s[i] = j)
                         => j = k \/ \E i \in DOMAIN tail : tail[i] = j
<1> PICK n \in Nat : n = Len(s)
  BY LenProperties
<1> PICK tail : tail = Tail(s)
  OBVIOUS
<1>1. /\ Head(s) \in StoreKeys /\ tail \in Seq(StoreKeys)
      /\ Len(tail) = n - 1 /\ n >= 1
      /\ \A i \in 1..Len(tail) : tail[i] = s[i + 1]
  BY HeadTailProperties, EmptySeq
<1>2. DOMAIN s = 1..n /\ DOMAIN tail = 1..(n - 1) /\ Head(s) = s[1]
  BY <1>1, LenProperties
<1>3. ASSUME NEW i \in 1..n
      PROVE  s[i] = Head(s) \/ \E m \in 1..(n - 1) : tail[m] = s[i]
  <2>1. CASE i = 1
    BY <1>2, <2>1
  <2>2. CASE i # 1
    <3>1. i - 1 \in 1..(n - 1) /\ (i - 1) + 1 = i
      BY <2>2
    <3>2. PICK m \in 1..(n - 1) : m + 1 = i
      BY <3>1
    <3>3. tail[m] = s[m + 1]
      BY <1>1
    <3> QED BY <3>2, <3>3
  <2> QED BY <2>1, <2>2
<1>4. \A j : (\E i \in DOMAIN s : s[i] = j)
                => j = Head(s) \/ \E i \in DOMAIN tail : tail[i] = j
  BY <1>2, <1>3
<1> QED BY <1>1, <1>4

-----------------------------------------------------------------------------
(* What is known of a bundle in the making.                                 *)

BundleRecords ==
    [step : {"none", "list", "read", "made"}, cursor : Nat, listed : Seq(StoreKeys),
     out : Seq(Pairs)]
BroughtRecords ==
    [step : {"none", "put"}, todo : SUBSET Pairs, skipped : SUBSET StoreKeys]

Listed(k) == \E i \in DOMAIN making.listed : making.listed[i] = k
Bundled(k) == \E i \in DOMAIN making.out : making.out[i][1] = k

BundleTypes ==
    /\ objects \in [StoreKeys -> Nat]
    /\ making \in BundleRecords /\ bringing \in BroughtRecords
    /\ lasting \subseteq StoreKeys /\ seen \in [StoreKeys -> SUBSET Nat]
    /\ saves \in [count : Nat, faults : Nat]

\* What lasts is there, is listed or still to be listed, and then is taken or
\* still to be read; what is taken was there meanwhile.
BundlesInv ==
    /\ BundleTypes
    /\ Making => lasting \subseteq Present /\ \A k \in StoreKeys : objects[k] \in seen[k]
    /\ making.step = "list" =>
          making.out = <<>> /\ \A k \in lasting : Listed(k) \/ k > making.cursor
    /\ making.step \in {"read", "made"} => \A k \in lasting : Listed(k) \/ Bundled(k)
    /\ making.step = "made" => making.listed = <<>>
    /\ \A i \in DOMAIN making.out : making.out[i][2] \in seen[making.out[i][1]]

LEMMA ChangeKeeps ==
  ASSUME BundlesInv, NEW k \in StoreKeys, NEW content \in Nat, Changed(k, content),
         UNCHANGED making, bringing' \in BroughtRecords,
         saves' \in [count : Nat, faults : Nat]
  PROVE  BundlesInv'
<1>1. /\ objects' = [objects EXCEPT ![k] = content]
      /\ objects' \in [StoreKeys -> Nat]
      /\ lasting' \subseteq lasting /\ (content = 0 => k \notin lasting')
      /\ seen' \in [StoreKeys -> SUBSET Nat]
      /\ \A j \in StoreKeys : seen[j] \subseteq seen'[j]
      /\ Making => content \in seen'[k]
  BY DEF Changed, BundlesInv, BundleTypes
<1>2. Making' = Making /\ \A j : Listed(j)' = Listed(j) /\ Bundled(j)' = Bundled(j)
  BY DEF Making, Listed, Bundled
<1>3. BundleTypes'
  BY <1>1 DEF BundlesInv, BundleTypes
<1>4. Making => lasting' \subseteq Present' /\ \A j \in StoreKeys : objects'[j] \in seen'[j]
  BY <1>1 DEF BundlesInv, BundleTypes, Present
<1>5. \A i \in DOMAIN making.out : making.out[i][2] \in seen'[making.out[i][1]]
  <2>1. making.out \in Seq(Pairs)
    BY DEF BundlesInv, BundleTypes, BundleRecords
  <2>2. \A i \in DOMAIN making.out : making.out[i][1] \in StoreKeys
    BY <2>1, LenProperties, ElementOfSeq DEF Pairs
  <2> QED BY <1>1, <2>2 DEF BundlesInv
<1> QED BY <1>1, <1>2, <1>3, <1>4, <1>5 DEF BundlesInv

LEMMA OfficeSavesKeeps ==
  ASSUME BundlesInv, NEW k \in StoreKeys, OfficeSaves(k)
  PROVE  BundlesInv'
<1> PICK old \in [count : Nat, faults : Nat], n \in Nat : old = saves /\ n = old.count + 1
  BY DEF BundlesInv, BundleTypes
<1>1. /\ saves' = [old EXCEPT !.count = n] /\ UNCHANGED <<making, bringing>>
      /\ Changed(k, n) \/ Changed(k, 0)
  BY DEF OfficeSaves
<1>2. saves' \in [count : Nat, faults : Nat] /\ bringing' \in BroughtRecords /\ 0 \in Nat
  BY <1>1 DEF BundlesInv, BundleTypes
<1> QED BY <1>1, <1>2, ChangeKeeps

LEMMA StartBundleKeeps ==
  ASSUME BundlesInv, StartBundle
  PROVE  BundlesInv'
<1>1. /\ making' = [step |-> "list", cursor |-> 0, listed |-> <<>>, out |-> <<>>]
      /\ lasting' = Present /\ seen' = [k \in StoreKeys |-> {objects[k]}]
      /\ UNCHANGED <<objects, bringing, saves>>
  BY DEF StartBundle, NoBundle
<1>2. /\ making'.step = "list" /\ making'.cursor = 0 /\ making'.out = <<>>
      /\ making' \in BundleRecords
  <2>1. <<>> \in Seq(StoreKeys) /\ <<>> \in Seq(Pairs)
    BY EmptySeq
  <2> QED BY <1>1, <2>1 DEF BundleRecords
<1>3. objects \in [StoreKeys -> Nat]
  BY DEF BundlesInv, BundleTypes
<1>4. BundleTypes'
  <2>1. Present \subseteq StoreKeys /\ \A k \in StoreKeys : {objects[k]} \in SUBSET Nat
    BY <1>3 DEF Present
  <2> QED BY <1>1, <1>2, <2>1 DEF BundlesInv, BundleTypes
<1>5. lasting' \subseteq Present' /\ \A k \in StoreKeys : objects'[k] \in seen'[k]
  BY <1>1 DEF Present
<1>6. \A k \in lasting' : k > making'.cursor
  <2>1. \A k \in StoreKeys : k \in Nat /\ k # 0
    BY BundlesAssumption
  <2> QED BY <1>1, <1>2, <2>1 DEF Present
<1>7. \A i \in DOMAIN making'.out : FALSE
  BY <1>2
<1> QED BY <1>2, <1>4, <1>5, <1>6, <1>7 DEF BundlesInv

LEMMA ListPageKeeps ==
  ASSUME Driver = "pg", BundlesInv, ListPage
  PROVE  BundlesInv'
<1> PICK old \in BundleRecords : old = making
  BY DEF BundlesInv, BundleTypes
<1>0. old.step = "list" /\ old.out = <<>> /\ old.cursor \in Nat /\ old.listed \in Seq(StoreKeys)
  BY DEF ListPage, BundlesInv, BundleRecords
<1> PICK page : page = PgPage
  OBVIOUS
<1> PICK keys \in Seq(StoreKeys), cursor \in Nat :
       /\ keys = page.keys /\ cursor = page.cursor
       /\ \A k \in Beyond : \/ \E i \in DOMAIN keys : keys[i] = k
                            \/ cursor # 0 /\ k > cursor
  BY <1>0, PageGoesOn
<1> PICK step \in {"read", "list"} : step = IF cursor = 0 THEN "read" ELSE "list"
  OBVIOUS
<1> PICK had \in Seq(StoreKeys) : had = old.listed
  BY <1>0
<1> PICK listed : listed = had \o keys
  OBVIOUS
<1>7. listed \in Seq(StoreKeys) /\ Joined(had, keys, listed)
  BY OneOfBoth
<1>8. /\ \A i \in DOMAIN had : \E j \in DOMAIN listed : listed[j] = had[i]
      /\ \A i \in DOMAIN keys : \E j \in DOMAIN listed : listed[j] = keys[i]
  BY <1>7 DEF Joined
<1> DEFINE new == [old EXCEPT !.listed = listed, !.cursor = cursor, !.step = step]
<1>1. /\ making' = new /\ UNCHANGED <<objects, bringing, lasting, seen, saves>>
  BY DEF ListPage
<1>2. new \in BundleRecords /\ new.listed = listed /\ new.cursor = cursor /\ new.step = step
      /\ new.out = <<>>
  BY <1>0, <1>7 DEF BundleRecords
<1> HIDE DEF new
<1>3. Making /\ lasting \subseteq Present /\ \A k \in StoreKeys : objects[k] \in seen[k]
  BY <1>0 DEF BundlesInv, Making
<1>4. BundleTypes' /\ Present' = Present
  BY <1>1, <1>2 DEF BundlesInv, BundleTypes, Present
<1>5. \A k \in lasting : Listed(k)' \/ (step = "list" /\ k > cursor)
  <2> SUFFICES ASSUME NEW k \in lasting PROVE Listed(k)' \/ (step = "list" /\ k > cursor)
    OBVIOUS
  <2>1. Listed(k) \/ k > making.cursor
    BY <1>0 DEF BundlesInv
  <2>2. CASE Listed(k)
    <3>1. PICK i \in DOMAIN had : had[i] = k
      BY <2>2 DEF Listed
    <3>2. \E j \in DOMAIN listed : listed[j] = k
      BY <1>8, <3>1
    <3> QED BY <1>1, <1>2, <3>2 DEF Listed
  <2>3. CASE k > making.cursor
    <3>1. k \in Beyond
      BY <1>3, <2>3 DEF Beyond
    <3>2. (\E i \in DOMAIN keys : keys[i] = k) \/ (cursor # 0 /\ k > cursor)
      BY <3>1
    <3>3. (\E j \in DOMAIN listed : listed[j] = k) \/ (cursor # 0 /\ k > cursor)
      <4>1. ASSUME NEW i \in DOMAIN keys, keys[i] = k
            PROVE  \E j \in DOMAIN listed : listed[j] = k
        BY <1>8, <4>1
      <4> QED BY <3>2, <4>1
    <3> QED BY <1>1, <1>2, <3>3 DEF Listed
  <2> QED BY <2>1, <2>2, <2>3
<1>6. \A i \in DOMAIN making'.out : FALSE
  BY <1>1, <1>2
<1> QED BY <1>1, <1>2, <1>3, <1>4, <1>5, <1>6 DEF BundlesInv

\* The key that is read leaves the list; it is taken, or it did not last.
LEMMA ReadObjectKeeps ==
  ASSUME BundlesInv, ReadObject
  PROVE  BundlesInv'
<1> PICK old \in BundleRecords, count \in [count : Nat, faults : Nat] : old = making /\ count = saves
  BY DEF BundlesInv, BundleTypes
<1>0. old.step = "read" /\ old.listed \in Seq(StoreKeys) /\ old.listed # <<>>
      /\ old.out \in Seq(Pairs)
  BY DEF ReadObject, BundleRecords
<1> PICK n \in Nat : n = count.faults + 1
  OBVIOUS
<1> PICK k \in StoreKeys, tail \in Seq(StoreKeys) :
       /\ k = Head(old.listed) /\ tail = Tail(old.listed)
       /\ \A j : (\E i \in DOMAIN old.listed : old.listed[i] = j)
                    => j = k \/ \E i \in DOMAIN tail : tail[i] = j
  BY <1>0, OneIsRead
<1> PICK content \in Nat : content = objects[k]
  BY DEF BundlesInv, BundleTypes
<1> PICK had \in Seq(Pairs) : had = old.out
  BY <1>0
<1> PICK pair : pair = <<k, content>>
  OBVIOUS
<1>0b. content # 0 => pair \in Pairs
  BY DEF Pairs, Contents
<1> PICK more : more = Append(had, pair)
  OBVIOUS
<1>1. content # 0 => more \in Seq(Pairs) /\ Grown(had, pair, more)
  BY <1>0b, OnePairMore
<1>2. \E out \in Seq(Pairs) :
         /\ making' \in BundleRecords /\ making'.step = "read"
         /\ making'.listed = tail /\ making'.out = out
         /\ \/ out = more /\ content # 0 /\ UNCHANGED <<lasting, saves>>
            \/ out = had /\ content = 0 /\ UNCHANGED <<lasting, saves>>
            \/ out = had /\ saves' = [count EXCEPT !.faults = n] /\ lasting' = lasting \ {k}
  <2>1. CASE /\ making' = [[old EXCEPT !.listed = tail] EXCEPT !.out = Append(had, pair)]
             /\ content # 0
             /\ UNCHANGED <<lasting, saves>>
    <3>1. /\ making' \in BundleRecords /\ making'.step = "read"
          /\ making'.listed = tail /\ making'.out = more
      BY <1>0, <1>1, <2>1 DEF BundleRecords
    <3> QED BY <1>1, <2>1, <3>1
  <2>2. CASE /\ making' = [old EXCEPT !.listed = tail]
             /\ \/ content = 0 /\ UNCHANGED <<lasting, saves>>
                \/ saves' = [count EXCEPT !.faults = n] /\ lasting' = lasting \ {k}
    <3>1. /\ making' \in BundleRecords /\ making'.step = "read"
          /\ making'.listed = tail /\ making'.out = had
      BY <1>0, <2>2 DEF BundleRecords
    <3> QED BY <2>2, <3>1
  <2> QED BY <2>1, <2>2 DEF ReadObject
<1> PICK out \in Seq(Pairs) :
         /\ making' \in BundleRecords /\ making'.step = "read"
         /\ making'.listed = tail /\ making'.out = out
         /\ \/ out = more /\ content # 0 /\ UNCHANGED <<lasting, saves>>
            \/ out = had /\ content = 0 /\ UNCHANGED <<lasting, saves>>
            \/ out = had /\ saves' = [count EXCEPT !.faults = n] /\ lasting' = lasting \ {k}
  BY <1>2
<1>11. /\ \A i \in DOMAIN had : \E j \in DOMAIN out : out[j] = had[i]
       /\ \A j \in DOMAIN out : out[j] = pair \/ \E i \in DOMAIN had : had[i] = out[j]
  <2>1. CASE out = had
    <3>1. \A i \in DOMAIN had : had[i] = had[i]
      OBVIOUS
    <3> QED BY <2>1, <3>1, Zenon
  <2>2. CASE out = more /\ content # 0
    <3>1. Grown(had, pair, out)
      BY <1>1, <2>2
    <3> QED BY <3>1 DEF Grown
  <2> QED BY <2>1, <2>2
<1>3. UNCHANGED <<objects, bringing, seen>>
  BY DEF ReadObject
<1>4. Making /\ lasting \subseteq Present /\ \A j \in StoreKeys : objects[j] \in seen[j]
  BY <1>0 DEF BundlesInv, Making
<1>5. lasting' \subseteq lasting /\ saves' \in [count : Nat, faults : Nat]
  OBVIOUS
<1>6. BundleTypes' /\ Present' = Present
  BY <1>3, <1>5 DEF BundlesInv, BundleTypes, Present
<1>7. \A j \in lasting' : Listed(j)' \/ Bundled(j)'
  <2> SUFFICES ASSUME NEW j \in lasting' PROVE Listed(j)' \/ Bundled(j)'
    OBVIOUS
  <2>1. Listed(j) \/ Bundled(j)
    BY <1>0, <1>5 DEF BundlesInv
  <2>2. CASE Bundled(j)
    <3>1. PICK i \in DOMAIN had : had[i][1] = j
      BY <2>2 DEF Bundled
    <3>2. PICK m \in DOMAIN out : out[m] = had[i]
      BY <1>11, <3>1
    <3> QED BY <3>1, <3>2 DEF Bundled
  <2>3. CASE j # k /\ Listed(j)
    <3>1. \E i \in DOMAIN tail : tail[i] = j
      BY <2>3 DEF Listed
    <3> QED BY <3>1 DEF Listed
  <2>4. CASE j = k
    <3>1. content # 0
      BY <1>4, <1>5, <2>4 DEF Present
    <3>2. out = more
      BY <2>4, <3>1
    <3>3. Grown(had, pair, out)
      BY <1>1, <3>1, <3>2
    <3>4. PICK m \in DOMAIN out : out[m] = pair
      BY <3>3, Zenon DEF Grown
    <3>5. out[m][1] = j
      BY <2>4, <3>4
    <3> QED BY <3>5 DEF Bundled
  <2> QED BY <2>1, <2>2, <2>3, <2>4
<1>8. \A j \in DOMAIN out : out[j][2] \in seen[out[j][1]]
  <2> SUFFICES ASSUME NEW j \in DOMAIN out PROVE out[j][2] \in seen[out[j][1]]
    OBVIOUS
  <2>1. CASE out[j] = pair
    BY <1>4, <2>1
  <2>2. CASE \E i \in DOMAIN had : had[i] = out[j]
    BY <2>2 DEF BundlesInv
  <2> QED BY <1>11, <2>1, <2>2
<1> QED BY <1>3, <1>4, <1>5, <1>6, <1>7, <1>8 DEF BundlesInv

LEMMA EndBundleKeeps ==
  ASSUME BundlesInv, EndBundle
  PROVE  BundlesInv'
<1> PICK old \in BundleRecords : old = making
  BY DEF BundlesInv, BundleTypes
<1>1. /\ old.step = "read" /\ old.listed = <<>> /\ making' = [old EXCEPT !.step = "made"]
      /\ UNCHANGED <<objects, bringing, lasting, seen, saves>>
  BY DEF EndBundle
<1>2. /\ making' \in BundleRecords /\ making'.step = "made" /\ making'.listed = old.listed
      /\ making'.out = old.out
  BY <1>1 DEF BundleRecords
<1>3. BundleTypes'
  BY <1>1, <1>2 DEF BundlesInv, BundleTypes
<1>4. \A j : Listed(j)' = Listed(j) /\ Bundled(j)' = Bundled(j)
  BY <1>2 DEF Listed, Bundled
<1>5. ~Making'
  BY <1>2 DEF Making
<1> QED BY <1>1, <1>2, <1>3, <1>4, <1>5 DEF BundlesInv

\* A bundle that is brought back leaves what was made as it is.
LEMMA BringingKeeps ==
  ASSUME BundlesInv, StartBringing \/ BringObject \/ EndBringing
  PROVE  BundlesInv'
<1> PICK old \in BroughtRecords, count \in [count : Nat, faults : Nat] :
       old = bringing /\ count = saves
  BY DEF BundlesInv, BundleTypes
<1> PICK n \in Nat : n = count.faults + 1
  OBVIOUS
<1>0. NothingBrought \in BroughtRecords
  BY DEF NothingBrought, BroughtRecords
<1>1. CASE /\ UNCHANGED <<objects, making, lasting, seen>>
           /\ bringing' \in BroughtRecords /\ saves' \in [count : Nat, faults : Nat]
  <2>1. /\ BundleTypes' /\ Making' = Making /\ Present' = Present
        /\ \A j : Listed(j)' = Listed(j) /\ Bundled(j)' = Bundled(j)
    BY <1>1 DEF BundlesInv, BundleTypes, Making, Present, Listed, Bundled
  <2> QED BY <1>1, <2>1 DEF BundlesInv
<1>2. CASE StartBringing
  <2>1. Range(making.out) \subseteq Pairs
    <3>1. making.out \in Seq(Pairs)
      BY DEF BundlesInv, BundleTypes, BundleRecords
    <3>2. \A i \in DOMAIN making.out : making.out[i] \in Pairs
      BY <3>1, LenProperties, ElementOfSeq
    <3> QED BY <3>2 DEF Range
  <2>2. bringing' = [step |-> "put", todo |-> Range(making.out), skipped |-> {}]
    BY <1>2 DEF StartBringing, NothingBrought
  <2>3. bringing' \in BroughtRecords
    BY <2>1, <2>2 DEF BroughtRecords
  <2> QED BY <1>1, <1>2, <2>3 DEF StartBringing
<1>3. CASE EndBringing
  BY <1>0, <1>1, <1>3 DEF EndBringing
<1>4. CASE BringObject
  <2> PICK o \in old.todo :
          \/ /\ bringing' = [old EXCEPT !.todo = @ \ {o}, !.skipped = @ \cup {o[1]}]
             /\ UNCHANGED <<objects, lasting, seen, saves>>
          \/ /\ Changed(o[1], o[2])
             /\ bringing' = [old EXCEPT !.todo = @ \ {o}]
             /\ UNCHANGED saves
          \/ /\ saves' = [count EXCEPT !.faults = n]
             /\ bringing' = NothingBrought
             /\ UNCHANGED <<objects, lasting, seen>>
    BY <1>4 DEF BringObject
  <2>0. UNCHANGED making
    BY <1>4 DEF BringObject
  <2>1. o \in Pairs
    BY DEF BroughtRecords
  <2>2. o[1] \in StoreKeys /\ o[2] \in Nat
    BY <2>1 DEF Pairs, Contents
  <2>3. bringing' \in BroughtRecords
    <3>1. /\ [old EXCEPT !.todo = @ \ {o}] \in BroughtRecords
          /\ [old EXCEPT !.todo = @ \ {o}, !.skipped = @ \cup {o[1]}] \in BroughtRecords
      BY <2>2 DEF BroughtRecords
    <3> QED BY <1>0, <3>1
  <2>4. saves' \in [count : Nat, faults : Nat]
    OBVIOUS
  <2>5. CASE Changed(o[1], o[2])
    BY <2>0, <2>2, <2>3, <2>4, <2>5, ChangeKeeps
  <2>6. CASE UNCHANGED <<objects, lasting, seen>>
    BY <1>1, <2>0, <2>3, <2>4, <2>6
  <2> QED BY <2>5, <2>6
<1> QED BY <1>2, <1>3, <1>4

LEMMA BundlesStep ==
  ASSUME Driver = "pg", BundlesInv, [BundlesNext]_bundleVars
  PROVE  BundlesInv'
<1>1. CASE UNCHANGED bundleVars
  <2>1. /\ BundleTypes' /\ Making' = Making /\ Present' = Present
        /\ \A j : Listed(j)' = Listed(j) /\ Bundled(j)' = Bundled(j)
    BY <1>1 DEF bundleVars, BundlesInv, BundleTypes, Making, Present, Listed, Bundled
  <2> QED BY <1>1, <2>1 DEF BundlesInv, bundleVars
<1> QED BY <1>1, OfficeSavesKeeps, StartBundleKeeps, ListPageKeeps, ReadObjectKeeps,
           EndBundleKeeps, BringingKeeps DEF BundlesNext

LEMMA BundlesBegin ==
  ASSUME BundlesInit
  PROVE  BundlesInv
<1>1. /\ making = [step |-> "none", cursor |-> 0, listed |-> <<>>, out |-> <<>>]
      /\ bringing = [step |-> "none", todo |-> {}, skipped |-> {}]
      /\ lasting = {} /\ seen = [k \in StoreKeys |-> {}]
      /\ objects = [k \in StoreKeys |-> 0] /\ saves = [count |-> 0, faults |-> 0]
  BY DEF BundlesInit, NoBundle, NothingBrought
<1>2. making \in BundleRecords /\ bringing \in BroughtRecords
  <2>1. <<>> \in Seq(StoreKeys) /\ <<>> \in Seq(Pairs)
    BY EmptySeq
  <2> QED BY <1>1, <2>1 DEF BundleRecords, BroughtRecords
<1>3. BundleTypes
  BY <1>1, <1>2 DEF BundleTypes
<1>4. making.step = "none" /\ \A i \in DOMAIN making.out : FALSE
  BY <1>1
<1>5. ~Making
  BY <1>4 DEF Making
<1> QED BY <1>3, <1>4, <1>5 DEF BundlesInv

LEMMA MadeIsWhole ==
  ASSUME BundlesInv
  PROVE  BundleWhole
<1> SUFFICES ASSUME making.step = "made" PROVE BundleWhole
  BY DEF BundleWhole
<1>1. making.listed = <<>> /\ \A k \in lasting : Listed(k) \/ Bundled(k)
  BY DEF BundlesInv
<1>2. \A k : ~Listed(k)
  BY <1>1 DEF Listed
<1>3. \A k \in lasting : \E i \in DOMAIN making.out : making.out[i][1] = k
  BY <1>1, <1>2 DEF Bundled
<1>4. lasting \subseteq {making.out[i][1] : i \in DOMAIN making.out}
  BY <1>3
<1> QED BY <1>4 DEF BundlesInv, BundleWhole

\* However the office's saves and deletions fall between the pages and the
\* reads, a bundle of the Postgres storage (ops/backup.service.ts,
\* postgres-storage.adapter.ts) has every object that was there all along, and
\* each with a content it had meanwhile.
THEOREM ABundleIsWhole ==
  ASSUME Driver = "pg"
  PROVE  BundlesSpec => []BundleWhole
<1>1. BundlesInit => BundlesInv
  BY BundlesBegin
<1>2. BundlesInv /\ [BundlesNext]_bundleVars => BundlesInv'
  BY BundlesStep
<1>3. BundlesInv => BundleWhole
  BY MadeIsWhole
<1> QED BY <1>1, <1>2, <1>3, PTL DEF BundlesSpec

-----------------------------------------------------------------------------
(* The office: what its cellar keeps.                                       *)

LEMMA CellarStarts == MCInit => BackupsInit /\ BundlesInit /\ BudgetInit /\ ProvidersInit
BY DEF MCInit

LEMMA CellarSteps ==
  ASSUME [MCNext]_officeVars
  PROVE  /\ [BackupsNext]_backupVars /\ [BundlesNext]_bundleVars
         /\ [BudgetNext]_budgetVars /\ [ProvidersNext]_providerVars
<1>1. CASE UNCHANGED officeVars
  BY <1>1 DEF officeVars
<1>2. ASSUME MCNext
      PROVE  /\ BackupsNext \/ UNCHANGED backupVars
             /\ BundlesNext \/ UNCHANGED bundleVars
             /\ BudgetNext \/ UNCHANGED budgetVars
             /\ ProvidersNext \/ UNCHANGED providerVars
  BY <1>2 DEF MCNext, Only
<1> QED BY <1>1, <1>2

\* What the retention takes away is outnumbered by what it keeps, a restore that
\* says done has restored, a bundle of the Postgres storage is whole, no answer is
\* charged to a month twice, and a stand-in is of its kind (backup-prod.sh,
\* restore.sh, backup.service.ts, budget.ts, provider-factory.service.ts).
THEOREM TheCellarHolds ==
  ASSUME Driver = "pg"
  PROVE  MCSpec => []CellarHolds
<1>1. MCSpec => BackupsSpec
  BY CellarStarts, CellarSteps, PTL DEF MCSpec, BackupsSpec
<1>2. MCSpec => BundlesSpec
  BY CellarStarts, CellarSteps, PTL DEF MCSpec, BundlesSpec
<1>3. MCSpec => BudgetSpec
  BY CellarStarts, CellarSteps, PTL DEF MCSpec, BudgetSpec
<1>4. MCSpec => ProvidersSpec
  BY CellarStarts, CellarSteps, PTL DEF MCSpec, ProvidersSpec
<1>5. RetentionKeepsNewer /\ DoneIsRestored /\ BundleWhole /\
        MonthlyNeverOverstates /\ StandInsAreOfTheirKind => CellarHolds
  BY DEF CellarHolds
<1>6. BundlesSpec => []BundleWhole
  BY ABundleIsWhole
<1> QED BY <1>1, <1>2, <1>3, <1>4, <1>5, <1>6, NewerAreKept, SaidIsRestored,
           TheMonthNeverOverstates, OneProviderServes, PTL
================================================================================
