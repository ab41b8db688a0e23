------------------------------ MODULE Papers_proofs ------------------------------
(***************************************************************************)
(* Proofs about the papers of the office.  Drafting, for any number of     *)
(* drafts, of requests in flight, of refused puts and of crashes: what is  *)
(* reviewed has law beneath it, a review that was answered stands, and the *)
(* requests in flight overshoot the hard stop by one call each at most.    *)
(* Shelf, Signatures and Wizard, over the same faults: a title has one     *)
(* version in force and the newer retires the older; a signature that was  *)
(* answered stays and verifies; the wizard's steps are done in order.  At  *)
(* the end, that the office's behaviours are behaviours of these parts.    *)
(***************************************************************************)
EXTENDS MCOffice, LazyStore_proofs, FiniteSetTheorems, WellFoundedInduction

-----------------------------------------------------------------------------
(* Drafting.                                                                *)


USE DraftingAssumption

Underway == {"retrieve", "call", "record", "finish", "degrade"}
Drafts == [state : {"absent", "created", "retrieving", "generating", "awaiting"} \cup Reviewed,
           output : {"none", "prose", "cited"}, supersedes : Nat]
Trays == [DraftIds -> Drafts]
TrayFacts == ({"stored", "heir"} \cup Outcomes) \X Nat
MeterMonths == [spend : Nat, alerted : BOOLEAN]
Runs == [pc : Underway \cup {"idle"}, draft : {0} \cup DraftIds, detached : BOOLEAN]

\* What the memory of the process holds, and who is at work on it.
DraftingTyped ==
    /\ tray \in StoreType(Trays, TrayFacts) /\ Quiet(tray) /\ tray.loaded
    /\ meter \in StoreType(MeterMonths, Generators) /\ Quiet(meter) /\ meter.loaded
    /\ generation \in [Generators -> Runs]
    /\ linking \in SUBSET (DraftIds \X DraftIds)
    /\ aiWired \in BOOLEAN
    /\ drafting \in [calls : Nat, lost : Int, crashes : Nat]

-----------------------------------------------------------------------------
(* Who works on which draft.                                               *)

\* The state a draft is in while a request that still holds it is at pc.
Fits(pc, state) ==
    /\ pc = "retrieve" => state = "retrieving"
    /\ pc \in {"call", "record", "finish"} => state = "generating"
    /\ pc = "degrade" => state \in {"retrieving", "generating"}

\* A request under way holds the object of its draft, unless it was detached.
HoldsItsDraft(run) ==
    run.pc # "idle" /\ ~run.detached

\* The draft of a request is where the request left it, and no other's.
OneWriter(doc, runs) ==
    \A g \in Generators :
        /\ runs[g].pc # "idle" => runs[g].draft \in DraftIds
        /\ HoldsItsDraft(runs[g]) =>
              /\ Fits(runs[g].pc, doc[runs[g].draft].state)
              /\ \A h \in Generators \ {g} :
                    HoldsItsDraft(runs[h]) => runs[h].draft # runs[g].draft

\* The documents without a reviewed draft that has no law beneath it.
Lawful ==
    {doc \in Trays : \A d \in DraftIds :
        doc[d].state \in {"awaiting"} \cup Reviewed => doc[d].output = "cited"}

\* The documents in which d stands as it was reviewed.
After(outcome, d) ==
    {doc \in Trays :
        doc[d].state \in {outcome} \cup (IF outcome = "approved" THEN {"superseded"} ELSE {})}

PutsOf(D) == {p \in Puts(Trays, TrayFacts) : p.doc \in D}

\* A change of the tray that takes nothing from what was reviewed.
KeepsReviews(doc, doc2) ==
    /\ doc \in Lawful => doc2 \in Lawful
    /\ \A outcome \in Outcomes, d \in DraftIds :
          doc \in After(outcome, d) => doc2 \in After(outcome, d)

\* A change of one draft that no review stands on, into one that awaits its review
\* with its law at most.
LEMMA OneDraft ==
  ASSUME NEW doc \in Trays, NEW x \in DraftIds, NEW v \in Drafts,
         doc[x].state \notin Reviewed, v.state \notin Reviewed,
         v.state = "awaiting" => v.output = "cited"
  PROVE  /\ [doc EXCEPT ![x] = v] \in Trays
         /\ [doc EXCEPT ![x] = v][x] = v
         /\ \A d \in DraftIds : d # x => [doc EXCEPT ![x] = v][d] = doc[d]
         /\ KeepsReviews(doc, [doc EXCEPT ![x] = v])
<1> DEFINE doc2 == [doc EXCEPT ![x] = v]
<1>1. doc2 \in Trays /\ doc2[x] = v /\ \A d \in DraftIds : d # x => doc2[d] = doc[d]
  BY DEF Trays
<1> HIDE DEF doc2
<1>2. doc \in Lawful => doc2 \in Lawful
  BY <1>1 DEF Lawful
<1>3. ASSUME NEW outcome \in Outcomes, NEW d \in DraftIds, doc \in After(outcome, d)
      PROVE  doc2 \in After(outcome, d)
  <2>1. doc[d].state \in Reviewed
    BY <1>3 DEF After, Reviewed, Outcomes
  <2>2. doc2[d] = doc[d]
    BY <1>1, <2>1
  <2> QED BY <1>1, <1>3, <2>2 DEF After
<1> QED BY <1>1, <1>2, <1>3 DEF KeepsReviews, doc2

\* A request ends, or goes on to pc, and the draft it holds becomes v.
StepOf(doc, run, v, pc, doc2, run2) ==
    /\ run.pc # "idle" /\ run2 \in {NoGeneration, [run EXCEPT !.pc = pc]}
    /\ run.detached => doc2 = doc
    /\ ~run.detached => doc2 = [doc EXCEPT ![run.draft] = v]
    /\ ~run.detached => /\ v \in Drafts
                        /\ v.state \notin Reviewed
                        /\ v.state = "awaiting" => v.output = "cited"
    /\ run2 # NoGeneration /\ ~run.detached => Fits(pc, v.state)

\* Such a step leaves every other request its draft, and the reviews what they were.
LEMMA OneStep ==
  ASSUME NEW doc \in Trays, NEW runs \in [Generators -> Runs], OneWriter(doc, runs),
         NEW g \in Generators, NEW v, NEW pc \in Underway, NEW doc2, NEW run,
         StepOf(doc, runs[g], v, pc, doc2, run)
  PROVE  /\ doc2 \in Trays
         /\ [runs EXCEPT ![g] = run] \in [Generators -> Runs]
         /\ OneWriter(doc2, [runs EXCEPT ![g] = run])
         /\ KeepsReviews(doc, doc2)
<1> DEFINE x == runs[g].draft
           runs2 == [runs EXCEPT ![g] = run]
<1>0. /\ runs[g].pc # "idle" /\ run \in {NoGeneration, [runs[g] EXCEPT !.pc = pc]}
      /\ runs[g].detached => doc2 = doc
      /\ ~runs[g].detached => doc2 = [doc EXCEPT ![runs[g].draft] = v]
      /\ ~runs[g].detached => /\ v \in Drafts
                              /\ v.state \notin Reviewed
                              /\ v.state = "awaiting" => v.output = "cited"
      /\ run # NoGeneration /\ ~runs[g].detached => Fits(pc, v.state)
  BY DEF StepOf
<1>1. runs[g] \in Runs /\ x \in DraftIds
  BY <1>0 DEF OneWriter
<1>2. /\ run \in Runs
      /\ run.pc # "idle" => /\ run.pc = pc /\ run.draft = x
                            /\ run.detached = runs[g].detached /\ run # NoGeneration
  <2>1. CASE run = NoGeneration
    BY <2>1 DEF NoGeneration, Runs
  <2>2. CASE run # NoGeneration
    <3>1. run = [runs[g] EXCEPT !.pc = pc]
      BY <1>0, <2>2
    <3> QED BY <1>1, <2>2, <3>1 DEF Runs
  <2> QED BY <2>1, <2>2
<1>3. /\ runs2 \in [Generators -> Runs] /\ runs2[g] = run
      /\ \A h \in Generators : h # g => runs2[h] = runs[h]
  BY <1>2
<1>4. ~runs[g].detached => doc[x].state \notin Reviewed
  <2> SUFFICES ASSUME ~runs[g].detached
               PROVE  doc[x].state \notin Reviewed
    OBVIOUS
  <2>1. Fits(runs[g].pc, doc[x].state)
    BY <1>0 DEF OneWriter, HoldsItsDraft, x
  <2> QED BY <1>0, <1>1, <2>1 DEF Fits, Runs, Underway, Reviewed, Outcomes
<1> HIDE DEF x, runs2
<1>5. /\ doc2 \in Trays
      /\ ~runs[g].detached => doc2[x] = v
      /\ \A d \in DraftIds : (~runs[g].detached => d # x) => doc2[d] = doc[d]
      /\ KeepsReviews(doc, doc2)
  <2>1. CASE runs[g].detached
    BY <1>0, <2>1 DEF KeepsReviews
  <2>2. CASE ~runs[g].detached
    <3>1. doc2 = [doc EXCEPT ![x] = v]
      BY <1>0, <2>2 DEF x
    <3>2. /\ v \in Drafts /\ doc[x].state \notin Reviewed /\ v.state \notin Reviewed
          /\ v.state = "awaiting" => v.output = "cited"
      BY <1>0, <1>4, <2>2
    <3>3. /\ [doc EXCEPT ![x] = v] \in Trays
          /\ [doc EXCEPT ![x] = v][x] = v
          /\ \A d \in DraftIds : d # x => [doc EXCEPT ![x] = v][d] = doc[d]
          /\ KeepsReviews(doc, [doc EXCEPT ![x] = v])
      BY <1>1, <3>2, OneDraft
    <3> QED BY <2>2, <3>1, <3>3
  <2> QED BY <2>1, <2>2
<1>6. ASSUME NEW h \in Generators
      PROVE  /\ runs2[h].pc # "idle" => runs2[h].draft \in DraftIds
             /\ HoldsItsDraft(runs2[h]) =>
                   /\ Fits(runs2[h].pc, doc2[runs2[h].draft].state)
                   /\ \A k \in Generators \ {h} :
                         HoldsItsDraft(runs2[k]) => runs2[k].draft # runs2[h].draft
  <2>1. ASSUME NEW k \in Generators, HoldsItsDraft(runs2[k])
        PROVE  HoldsItsDraft(runs[k]) /\ runs2[k].draft = runs[k].draft
    BY <1>0, <1>2, <1>3, <2>1 DEF HoldsItsDraft, x
  <2>2. runs2[h].pc # "idle" => runs2[h].draft \in DraftIds
    BY <1>1, <1>2, <1>3 DEF OneWriter
  <2>3. ASSUME HoldsItsDraft(runs2[h])
        PROVE  /\ Fits(runs2[h].pc, doc2[runs2[h].draft].state)
               /\ \A k \in Generators \ {h} :
                     HoldsItsDraft(runs2[k]) => runs2[k].draft # runs2[h].draft
    <3>1. HoldsItsDraft(runs[h]) /\ runs2[h].draft = runs[h].draft
      BY <2>1, <2>3
    <3>2. \A k \in Generators \ {h} : HoldsItsDraft(runs2[k]) => runs2[k].draft # runs2[h].draft
      BY <2>1, <3>1 DEF OneWriter
    <3>3. Fits(runs2[h].pc, doc2[runs2[h].draft].state)
      <4>1. CASE h = g
        BY <1>0, <1>2, <1>3, <1>5, <2>3, <3>1, <4>1 DEF HoldsItsDraft, x
      <4>2. CASE h # g
        <5>1. ~runs[g].detached => runs[h].draft # x
          BY <1>0, <3>1, <4>2 DEF OneWriter, HoldsItsDraft, x
        <5>2. doc2[runs[h].draft] = doc[runs[h].draft]
          BY <1>5, <2>2, <2>3, <3>1, <5>1 DEF HoldsItsDraft
        <5> QED BY <1>3, <3>1, <4>2, <5>2 DEF OneWriter
      <4> QED BY <4>1, <4>2
    <3> QED BY <3>2, <3>3
  <2> QED BY <2>2, <2>3
<1> QED BY <1>3, <1>5, <1>6 DEF OneWriter, runs2

-----------------------------------------------------------------------------
(* The tray.                                                               *)

\* Every document has law beneath its reviews, and a review that is answered, or on
\* its way, is in every document from there on.
TrayLaw(st) ==
    /\ Agrees(st, Lawful)
    /\ \A outcome \in Outcomes, d \in DraftIds :
          Follows(st, <<outcome, d>>, After(outcome, d), PutsOf(After(outcome, d)))

TrayStore(st) ==
    st \in StoreType(Trays, TrayFacts) /\ Quiet(st) /\ st.loaded

\* A put of the tray that takes nothing from the reviews.
LEMMA TrayPut ==
  ASSUME NEW st, TrayStore(st), TrayLaw(st), NEW doc \in Trays, NEW fact \in TrayFacts,
         KeepsReviews(st.mem, doc),
         \A outcome \in Outcomes, d \in DraftIds :
             fact = <<outcome, d>> => doc \in After(outcome, d)
  PROVE  /\ TrayStore(Save(st, doc, fact)) /\ TrayLaw(Save(st, doc, fact))
         /\ Save(st, doc, fact).mem = doc
<1>1. st \in StoreType(Trays, TrayFacts) /\ st.loaded /\ st.mem \in Trays
  BY StoreFields DEF TrayStore
<1>2. /\ Save(st, doc, fact) \in StoreType(Trays, TrayFacts)
      /\ SavedAs(st, Save(st, doc, fact), doc, fact)
  BY <1>1, SavedStore
<1>3. Agrees(Save(st, doc, fact), Lawful)
  <2>1. st.mem \in Lawful => doc \in Lawful
    BY DEF KeepsReviews
  <2>2. Agrees(st, Lawful)
    BY DEF TrayLaw
  <2> QED BY <1>1, <2>1, <2>2, SavingHolds
<1>4. ASSUME NEW outcome \in Outcomes, NEW d \in DraftIds
      PROVE  Follows(Save(st, doc, fact), <<outcome, d>>, After(outcome, d), PutsOf(After(outcome, d)))
  <2> DEFINE D == After(outcome, d)
             P == PutsOf(After(outcome, d))
             told == <<outcome, d>>
  <2>1. st.mem \in D => doc \in D
    BY DEF KeepsReviews
  <2>2. Follows(st, told, D, P)
    BY DEF TrayLaw
  <2>3. doc \in D => [doc |-> doc, fact |-> fact] \in P
    BY DEF PutsOf, Puts
  <2>4. fact = told => doc \in D
    OBVIOUS
  <2> HIDE DEF D, P, told
  <2>5. Follows(Save(st, doc, fact), told, D, P)
    BY <1>1, <2>1, <2>2, <2>3, <2>4, SavingFollows
  <2> QED BY <2>5 DEF D, P, told
<1>5. Save(st, doc, fact).loaded /\ Save(st, doc, fact).mem = doc
  BY <1>1, <1>2 DEF SavedAs
<1> QED BY <1>2, <1>3, <1>4, <1>5 DEF TrayStore, TrayLaw, Quiet

\* A change of the draft's object in memory that no put carries yet.
LEMMA TrayTouched ==
  ASSUME NEW st, TrayStore(st), TrayLaw(st), NEW doc \in Trays, KeepsReviews(st.mem, doc)
  PROVE  /\ TrayStore([st EXCEPT !.mem = doc]) /\ TrayLaw([st EXCEPT !.mem = doc])
         /\ [st EXCEPT !.mem = doc].mem = doc
<1> DEFINE st2 == [st EXCEPT !.mem = doc]
<1>1. /\ st2 \in StoreType(Trays, TrayFacts) /\ st2.mem = doc /\ st2.loaded
      /\ st2.disk = st.disk /\ st2.puts = st.puts /\ st2.acked = st.acked /\ st.loaded
  BY DEF TrayStore, StoreType
<1> HIDE DEF st2
<1>2. Agrees(st2, Lawful)
  BY <1>1 DEF TrayLaw, Agrees, KeepsReviews
<1>3. ASSUME NEW outcome \in Outcomes, NEW d \in DraftIds
      PROVE  Follows(st2, <<outcome, d>>, After(outcome, d), PutsOf(After(outcome, d)))
  <2>1. st.mem \in After(outcome, d) => doc \in After(outcome, d)
    BY DEF KeepsReviews
  <2>2. Follows(st, <<outcome, d>>, After(outcome, d), PutsOf(After(outcome, d)))
    BY DEF TrayLaw
  <2> QED BY <1>1, <2>1, <2>2 DEF Follows
<1> QED BY <1>1, <1>2, <1>3 DEF TrayStore, TrayLaw, Quiet, st2

\* The tray settles, or goes through a crash and the read that follows it.
LEMMA TrayRests ==
  ASSUME NEW st, TrayLaw(st), st \in StoreType(Trays, TrayFacts), Quiet(st),
         NEW st2, Rests(st, st2, Trays)
  PROVE  /\ st2 \in StoreType(Trays, TrayFacts) /\ Quiet(st2)
         /\ TrayLaw(st2)
<1>1. st2 \in StoreType(Trays, TrayFacts) /\ Quiet(st2)
  BY RestingType
<1>2. Agrees(st2, Lawful)
  BY RestingHolds DEF TrayLaw
<1>3. ASSUME NEW outcome \in Outcomes, NEW d \in DraftIds
      PROVE  Follows(st2, <<outcome, d>>, After(outcome, d), PutsOf(After(outcome, d)))
  <2> DEFINE D == After(outcome, d)
             P == PutsOf(After(outcome, d))
             told == <<outcome, d>>
  <2>1. Follows(st, told, D, P)
    BY DEF TrayLaw
  <2>2. \A p \in P : p.doc \in D
    BY DEF PutsOf
  <2> HIDE DEF D, P, told
  <2>3. Follows(st2, told, D, P)
    BY <2>1, <2>2, RestingFollows
  <2> QED BY <2>3 DEF D, P, told
<1> QED BY <1>1, <1>2, <1>3 DEF TrayLaw

-----------------------------------------------------------------------------
(* The steps of the requests.                                              *)

TrayInv ==
    /\ TrayStore(tray) /\ TrayLaw(tray)
    /\ generation \in [Generators -> Runs]
    /\ linking \in SUBSET (DraftIds \X DraftIds)
    /\ OneWriter(tray.mem, generation)

\* What the table makes of a draft somebody works on.
LEMMA MovesAtWork ==
  ASSUME NEW draft \in Drafts, draft.state \in {"retrieving", "generating"},
         NEW to \in {"created", "generating", "awaiting"}
  PROVE  /\ Moved(draft, to) \in Drafts
         /\ Moved(draft, to).output = draft.output
         /\ Moved(draft, to).state \in {draft.state, to}
         /\ to = "created" => Moved(draft, to).state = "created"
         /\ draft.state = "retrieving" /\ to = "generating" => Moved(draft, to).state = "generating"
         /\ draft.state = "retrieving" /\ to = "awaiting" => Moved(draft, to).state = "retrieving"
<1>1. /\ Allowed["retrieving"] = {"generating", "created"}
      /\ Allowed["generating"] = {"awaiting", "created"}
  BY DEF Allowed
<1>2. CASE to \in Allowed[draft.state]
  <2>1. Moved(draft, to) = [draft EXCEPT !.state = to]
    BY <1>2 DEF Moved
  <2> QED BY <1>1, <1>2, <2>1 DEF Drafts
<1>3. CASE to \notin Allowed[draft.state]
  BY <1>1, <1>3 DEF Moved
<1> QED BY <1>2, <1>3

\* A request that takes a step with its draft: memory alone, or a put with it.
LEMMA RequestStep ==
  ASSUME TrayInv, NEW g \in Generators, generation[g].pc # "idle", NEW v, NEW pc \in Underway,
         ~generation[g].detached => /\ v \in Drafts
                                    /\ v.state \notin Reviewed
                                    /\ v.state = "awaiting" => v.output = "cited",
         NEW run \in {NoGeneration, [generation[g] EXCEPT !.pc = pc]},
         run # NoGeneration /\ ~generation[g].detached => Fits(pc, v.state),
         generation' = [generation EXCEPT ![g] = run],
         \/ tray' = [tray EXCEPT !.mem = Rewritten(g, v)]
         \/ tray' = Save(tray, Rewritten(g, v), Stored),
         UNCHANGED linking
  PROVE  TrayInv'
<1> DEFINE doc2 == Rewritten(g, v)
           runs2 == [generation EXCEPT ![g] = run]
<1>1. tray.mem \in Trays /\ TrayStore(tray) /\ TrayLaw(tray)
  BY StoreFields DEF TrayInv, TrayStore
<1>2. /\ generation[g].detached => doc2 = tray.mem
      /\ ~generation[g].detached => doc2 = [tray.mem EXCEPT ![generation[g].draft] = v]
  BY DEF Rewritten
<1>3. generation \in [Generators -> Runs] /\ OneWriter(tray.mem, generation)
  BY DEF TrayInv
<1> HIDE DEF doc2, runs2
<1>4. /\ doc2 \in Trays /\ KeepsReviews(tray.mem, doc2)
      /\ runs2 \in [Generators -> Runs] /\ OneWriter(doc2, runs2)
  <2>1. StepOf(tray.mem, generation[g], v, pc, doc2, run)
    BY <1>2 DEF StepOf
  <2> QED BY <1>1, <1>3, <2>1, OneStep DEF runs2
<1>5. Stored \in TrayFacts /\ \A outcome \in Outcomes, d \in DraftIds : Stored # <<outcome, d>>
  BY DEF Stored, TrayFacts, Outcomes
<1>6. TrayStore(tray') /\ TrayLaw(tray') /\ tray'.mem = doc2
  <2>1. CASE tray' = [tray EXCEPT !.mem = doc2]
    BY <1>1, <1>4, <2>1, TrayTouched
  <2>2. CASE tray' = Save(tray, doc2, Stored)
    BY <1>1, <1>4, <1>5, <2>2, TrayPut
  <2> QED BY <2>1, <2>2 DEF doc2
<1>7. generation' = runs2
  BY DEF runs2
<1>8. TrayStore(tray)' /\ TrayLaw(tray)' /\ OneWriter(tray.mem, generation)'
  BY <1>4, <1>6, <1>7 DEF TrayStore, TrayLaw, OneWriter
<1> QED BY <1>4, <1>7, <1>8 DEF TrayInv

\* A request that takes a step and leaves its draft alone.
LEMMA RequestGoesOn ==
  ASSUME TrayInv, NEW g \in Generators, generation[g].pc # "idle", NEW pc \in Underway,
         NEW run \in {NoGeneration, [generation[g] EXCEPT !.pc = pc]},
         \A state : run # NoGeneration /\ Fits(generation[g].pc, state) => Fits(pc, state),
         generation' = [generation EXCEPT ![g] = run],
         UNCHANGED <<tray, linking>>
  PROVE  TrayInv'
<1> DEFINE v == tray.mem[generation[g].draft]
<1>1. tray.mem \in Trays /\ tray \in StoreType(Trays, TrayFacts)
  BY StoreFields DEF TrayInv, TrayStore
<1>2. generation[g] \in Runs /\ generation[g].draft \in DraftIds
  BY DEF TrayInv, OneWriter
<1>3. Rewritten(g, v) = tray.mem
  BY <1>1, <1>2 DEF Rewritten, Trays
<1>4. tray' = [tray EXCEPT !.mem = Rewritten(g, v)]
  BY <1>1, <1>3 DEF StoreType
<1>5. ~generation[g].detached => Fits(generation[g].pc, v.state)
  BY DEF TrayInv, OneWriter, HoldsItsDraft
<1>6. v \in Drafts
  BY <1>1, <1>2 DEF Trays
<1>7. ~generation[g].detached => /\ v.state \notin Reviewed
                                 /\ v.state = "awaiting" => v.output = "cited"
  BY <1>2, <1>5 DEF Fits, Runs, Underway, Reviewed, Outcomes
<1> HIDE DEF v
<1> QED BY <1>4, <1>5, <1>6, <1>7, RequestStep

\* The draft a request under way holds.
LEMMA HeldDraft ==
  ASSUME TrayInv, NEW g \in Generators, generation[g].pc # "idle"
  PROVE  /\ generation[g] \in Runs /\ generation[g].pc \in Underway
         /\ ~generation[g].detached => /\ Mine(g) \in Drafts
                                       /\ Fits(generation[g].pc, Mine(g).state)
                                       /\ Mine(g).state \in {"retrieving", "generating"}
<1>1. generation[g] \in Runs /\ generation[g].draft \in DraftIds
  BY DEF TrayInv, OneWriter
<1>2. tray.mem \in Trays
  BY StoreFields DEF TrayInv, TrayStore
<1>3. Mine(g) \in Drafts
  BY <1>1, <1>2 DEF Mine, Trays
<1>4. ~generation[g].detached => Fits(generation[g].pc, Mine(g).state)
  BY DEF TrayInv, OneWriter, HoldsItsDraft, Mine
<1>5. generation[g].pc \in Underway
  BY <1>1 DEF Runs
<1> QED BY <1>1, <1>3, <1>4, <1>5 DEF Fits, Underway

\* generate()
LEMMA RequestsKeepTheTray ==
  ASSUME TrayInv, NEW g \in Generators,
         \/ RetrievalThrows(g) \/ NoCitations(g) \/ Retrieved(g)
         \/ ModelAnswers(g) \/ Recorded(g) \/ Finish(g)
         \/ ModelFails(g) \/ Degrades(g) \/ DegradeFails(g)
  PROVE  TrayInv'
<1> DEFINE mine == Mine(g)
           ended == [generation EXCEPT ![g] = NoGeneration]
           moved(pc) == [generation EXCEPT ![g] = [generation[g] EXCEPT !.pc = pc]]
<1>1. ASSUME generation[g].pc # "idle"
      PROVE  ~generation[g].detached => /\ mine \in Drafts
                                        /\ Fits(generation[g].pc, mine.state)
                                        /\ mine.state \in {"retrieving", "generating"}
  BY <1>1, HeldDraft
<1>2. {"retrieving", "generating", "created"} \cap Reviewed = {} /\ "awaiting" \notin Reviewed
  BY DEF Reviewed, Outcomes
<1>3. CASE RetrievalThrows(g)
  BY <1>3, RequestGoesOn DEF RetrievalThrows, Ends, Underway
<1>4. ASSUME generation[g].pc # "idle", BackToTray(g, mine)
      PROVE  TrayInv'
  <2> DEFINE v == Moved(mine, "created")
  <2>1. ~generation[g].detached => v \in Drafts /\ v.state = "created"
    BY <1>1, <1>4, MovesAtWork
  <2>2. /\ tray' = Save(tray, Rewritten(g, v), Stored) /\ generation' = ended
        /\ UNCHANGED linking
    BY <1>4 DEF BackToTray, Persist, Ends
  <2> HIDE DEF v, mine
  <2> QED BY <1>2, <1>4, <2>1, <2>2, RequestStep DEF Underway
<1>5. CASE NoCitations(g)
  BY <1>4, <1>5 DEF NoCitations
<1>6. CASE DegradeFails(g)
  BY <1>4, <1>6 DEF DegradeFails
<1>7. CASE Retrieved(g)
  <2> DEFINE v == Moved(mine, "generating")
  <2>1. generation[g].pc = "retrieve" /\ UNCHANGED linking
    BY <1>7 DEF Retrieved
  <2>2. ~generation[g].detached => v \in Drafts /\ v.state = "generating"
    <3>1. ~generation[g].detached => mine \in Drafts /\ mine.state = "retrieving"
      BY <1>1, <2>1 DEF Fits
    <3> QED BY <3>1, MovesAtWork
  <2>3. Fits("call", "generating")
    BY DEF Fits
  <2>4. CASE /\ tray' = [tray EXCEPT !.mem = Rewritten(g, v)]
             /\ generation' = ended \/ generation' = moved("call")
    <3> HIDE DEF v, mine
    <3> QED BY <1>2, <2>1, <2>2, <2>3, <2>4, RequestStep DEF Underway
  <2>5. CASE generation' = moved("degrade") /\ UNCHANGED tray
    <3>1. \A state : Fits("retrieve", state) => Fits("degrade", state)
      BY DEF Fits
    <3> QED BY <2>1, <2>5, <3>1, RequestGoesOn DEF Underway
  <2> QED BY <1>7, <2>4, <2>5 DEF Retrieved, Ends
<1>8. CASE ModelAnswers(g)
  <2> DEFINE v == [mine EXCEPT !.output = "prose"]
  <2>1. /\ generation[g].pc = "call" /\ UNCHANGED linking
        /\ tray' = [tray EXCEPT !.mem = Rewritten(g, v)]
        /\ generation' = moved("record")
    BY <1>8 DEF ModelAnswers
  <2>2. ~generation[g].detached => v \in Drafts /\ v.state = "generating"
    <3>1. ~generation[g].detached => mine \in Drafts /\ mine.state = "generating"
      BY <1>1, <2>1 DEF Fits
    <3> QED BY <3>1 DEF Drafts
  <2>3. Fits("record", "generating")
    BY DEF Fits
  <2> HIDE DEF v, mine
  <2> QED BY <1>2, <2>1, <2>2, <2>3, RequestStep DEF Underway
<1>9. CASE Recorded(g)
  <2>1. generation[g].pc = "record" /\ UNCHANGED <<tray, linking>>
    BY <1>9 DEF Recorded
  <2>2. generation' = generation \/ generation' = moved("finish")
    BY <1>9 DEF Recorded
  <2>3. CASE generation' = generation
    BY <2>1, <2>3 DEF TrayInv, TrayStore, TrayLaw, OneWriter
  <2>4. CASE generation' = moved("finish")
    <3>1. \A state : Fits("record", state) => Fits("finish", state)
      BY DEF Fits
    <3> QED BY <2>1, <2>4, <3>1, RequestGoesOn DEF Underway
  <2> QED BY <2>2, <2>3, <2>4
<1>10. CASE Finish(g)
  <2> DEFINE v == [Moved(mine, "awaiting") EXCEPT !.output = "cited"]
  <2>1. /\ generation[g].pc = "finish" /\ UNCHANGED linking
        /\ tray' = Save(tray, Rewritten(g, v), Stored)
        /\ generation' = ended
    BY <1>10 DEF Finish, Persist, Ends
  <2>2. ~generation[g].detached =>
            v \in Drafts /\ v.output = "cited" /\ v.state \in {mine.state, "awaiting"}
    <3>1. ~generation[g].detached =>
              /\ Moved(mine, "awaiting") \in Drafts
              /\ Moved(mine, "awaiting").state \in {mine.state, "awaiting"}
      BY <1>1, <2>1, MovesAtWork
    <3> HIDE DEF mine
    <3> QED BY <3>1 DEF Drafts
  <2>3. ~generation[g].detached => mine.state \in {"retrieving", "generating"}
    BY <1>1, <2>1
  <2> HIDE DEF v, mine
  <2> QED BY <1>2, <2>1, <2>2, <2>3, RequestStep DEF Underway
<1>11. CASE ModelFails(g)
  <2>1. /\ generation[g].pc \in {"call", "record"} /\ UNCHANGED <<tray, linking>>
        /\ generation' = moved("degrade")
    BY <1>11 DEF ModelFails
  <2>2. \A state : \A pc \in {"call", "record"} : Fits(pc, state) => Fits("degrade", state)
    BY DEF Fits
  <2> QED BY <2>1, <2>2, RequestGoesOn DEF Underway
<1>12. CASE Degrades(g)
  <2> DEFINE spans == [mine EXCEPT !.output = "cited"]
  <2>1. /\ generation[g].pc = "degrade" /\ UNCHANGED linking
        /\ generation' = ended
    BY <1>12 DEF Degrades, Ends
  <2>2. PICK to \in {"awaiting", "created"} :
            tray' = Save(tray, Rewritten(g, Moved(spans, to)), Stored)
    BY <1>12 DEF Degrades, Persist
  <2> DEFINE v == Moved(spans, to)
  <2>3. ~generation[g].detached =>
            /\ v \in Drafts /\ v.output = "cited"
            /\ v.state \in {"retrieving", "generating", "awaiting", "created"}
    <3>1. ~generation[g].detached =>
              /\ spans \in Drafts /\ spans.output = "cited"
              /\ spans.state \in {"retrieving", "generating"}
      BY <1>1, <2>1 DEF Drafts
    <3> HIDE DEF spans
    <3> QED BY <3>1, MovesAtWork
  <2>4. tray' = Save(tray, Rewritten(g, v), Stored)
    BY <2>2
  <2> HIDE DEF v, spans
  <2> QED BY <1>2, <2>1, <2>3, <2>4, RequestStep DEF Underway
<1> QED BY <1>3, <1>5, <1>6, <1>7, <1>8, <1>9, <1>10, <1>11, <1>12

\* Nobody is at work on a draft that is not retrieving or generating.
LEMMA NotAtWork ==
  ASSUME NEW doc, NEW runs \in [Generators -> Runs], OneWriter(doc, runs),
         NEW g \in Generators, HoldsItsDraft(runs[g])
  PROVE  /\ runs[g].draft \in DraftIds
         /\ doc[runs[g].draft].state \in {"retrieving", "generating"}
<1>1. runs[g].draft \in DraftIds /\ Fits(runs[g].pc, doc[runs[g].draft].state)
  BY DEF OneWriter, HoldsItsDraft
<1>2. runs[g].pc \in Underway
  BY DEF HoldsItsDraft, Runs
<1> QED BY <1>1, <1>2 DEF Fits, Underway

\* Nobody's draft is touched by a change of drafts that are not at work.
LEMMA NoWriterTouched ==
  ASSUME NEW doc, NEW doc2, NEW runs \in [Generators -> Runs], OneWriter(doc, runs),
         \A d \in DraftIds : \/ doc2[d].state = doc[d].state
                             \/ doc[d].state \notin {"retrieving", "generating"}
  PROVE  OneWriter(doc2, runs)
<1>1. ASSUME NEW g \in Generators, HoldsItsDraft(runs[g])
      PROVE  doc2[runs[g].draft].state = doc[runs[g].draft].state
  BY <1>1, NotAtWork
<1> QED BY <1>1 DEF OneWriter

\* A put on the tray by a request that generates nothing.
LEMMA PutOnTheTray ==
  ASSUME TrayInv, NEW doc \in Trays, NEW fact \in TrayFacts,
         KeepsReviews(tray.mem, doc),
         \A outcome \in Outcomes, d \in DraftIds :
             fact = <<outcome, d>> => doc \in After(outcome, d),
         tray' = Save(tray, doc, fact),
         generation' \in [Generators -> Runs], OneWriter(doc, generation'),
         linking' \in SUBSET (DraftIds \X DraftIds)
  PROVE  TrayInv'
<1>1. TrayStore(tray') /\ TrayLaw(tray') /\ tray'.mem = doc
  BY TrayPut DEF TrayInv
<1>2. TrayStore(tray)' /\ TrayLaw(tray)' /\ OneWriter(tray.mem, generation)'
  BY <1>1 DEF TrayStore, TrayLaw, OneWriter
<1> QED BY <1>2 DEF TrayInv

\* create()
LEMMA CreatingKeepsTheTray ==
  ASSUME TrayInv, NEW d \in DraftIds, CreateDraft(d)
  PROVE  TrayInv'
<1> DEFINE doc == tray.mem
           v == [NoDraft EXCEPT !.state = "created"]
           doc2 == [doc EXCEPT ![d] = v]
<1>1. doc \in Trays /\ doc[d] = NoDraft
  BY StoreFields DEF TrayInv, TrayStore, CreateDraft
<1>2. tray' = Save(tray, doc2, Stored) /\ UNCHANGED <<generation, linking>>
  <2>1. [doc EXCEPT ![d].state = "created"] = doc2
    BY <1>1
  <2> QED BY <2>1 DEF CreateDraft, Persist
<1>3. /\ v \in Drafts /\ v.state = "created" /\ NoDraft.state = "absent"
      /\ {"created", "absent"} \cap Reviewed = {}
  BY DEF NoDraft, Drafts, Reviewed, Outcomes
<1> HIDE DEF doc, v
<1>4. /\ doc2 \in Trays /\ KeepsReviews(doc, doc2)
      /\ \A e \in DraftIds : e # d => doc2[e] = doc[e]
  BY <1>1, <1>3, OneDraft
<1> HIDE DEF doc2
<1>5. OneWriter(doc2, generation)
  <2>1. OneWriter(doc, generation) /\ generation \in [Generators -> Runs]
    BY DEF TrayInv, doc
  <2> QED BY <1>1, <1>3, <1>4, <2>1, NoWriterTouched
<1>6. Stored \in TrayFacts /\ \A outcome \in Outcomes, e \in DraftIds : Stored # <<outcome, e>>
  BY DEF Stored, TrayFacts, Outcomes
<1>7. generation' = generation /\ linking' = linking
  BY <1>2
<1>8. generation \in [Generators -> Runs] /\ linking \in SUBSET (DraftIds \X DraftIds)
  BY DEF TrayInv
<1> QED BY <1>2, <1>4, <1>5, <1>6, <1>7, <1>8, PutOnTheTray DEF doc

\* review()
LEMMA ReviewingKeepsTheTray ==
  ASSUME TrayInv, NEW d \in DraftIds, NEW outcome \in Outcomes, Review(d, outcome)
  PROVE  TrayInv'
<1> DEFINE doc == tray.mem
           v == Moved(doc[d], outcome)
           doc2 == [doc EXCEPT ![d] = v]
<1>1. doc \in Trays /\ doc[d] \in Drafts
  <2>1. doc \in Trays
    BY StoreFields DEF TrayInv, TrayStore
  <2> QED BY <2>1 DEF Trays
<1>2. /\ tray' = Save(tray, doc2, <<outcome, d>>) /\ UNCHANGED <<generation, linking>>
      /\ doc[d].state \notin {"absent"} \cup Reviewed /\ v.state = outcome
  BY DEF Review, Persist
<1>3. doc[d].state = "awaiting" /\ v = [doc[d] EXCEPT !.state = outcome]
  <2>1. outcome \in Reviewed /\ doc[d].state # outcome
    BY <1>2 DEF Reviewed
  <2>2. outcome \in Allowed[doc[d].state] /\ v = [doc[d] EXCEPT !.state = outcome]
    BY <1>2, <2>1 DEF Moved
  <2>3. doc[d].state \in {"created", "retrieving", "generating", "awaiting"}
    BY <1>1, <1>2 DEF Drafts
  <2> QED BY <2>2, <2>3 DEF Allowed, Outcomes
<1>4. v \in Drafts /\ v.output = doc[d].output
  BY <1>1, <1>3 DEF Drafts, Outcomes, Reviewed
<1> HIDE DEF doc, v
<1>5. /\ doc2 \in Trays /\ doc2[d] = v
      /\ \A e \in DraftIds : e # d => doc2[e] = doc[e]
  BY <1>1, <1>4 DEF Trays
<1> HIDE DEF doc2
<1>6. KeepsReviews(doc, doc2)
  <2>1. doc \in Lawful => doc2 \in Lawful
    BY <1>3, <1>4, <1>5 DEF Lawful
  <2>2. ASSUME NEW o \in Outcomes, NEW e \in DraftIds, doc \in After(o, e)
        PROVE  doc2 \in After(o, e)
    <3>1. e # d
      BY <1>3, <2>2 DEF After, Outcomes
    <3> QED BY <1>5, <2>2, <3>1 DEF After
  <2> QED BY <2>1, <2>2 DEF KeepsReviews
<1>7. ASSUME NEW o \in Outcomes, NEW e \in DraftIds, <<outcome, d>> = <<o, e>>
      PROVE  doc2 \in After(o, e)
  <2>1. o = outcome /\ e = d
    BY <1>7
  <2> QED BY <1>2, <1>5, <2>1 DEF After
<1>8. OneWriter(doc2, generation)
  <2>1. OneWriter(doc, generation) /\ generation \in [Generators -> Runs]
    BY DEF TrayInv, doc
  <2> QED BY <1>3, <1>5, <2>1, NoWriterTouched
<1>9. <<outcome, d>> \in TrayFacts
  BY DEF TrayFacts, DraftIds
<1>10. generation' = generation /\ linking' = linking
  BY <1>2
<1>11. generation \in [Generators -> Runs] /\ linking \in SUBSET (DraftIds \X DraftIds)
  BY DEF TrayInv
<1> QED BY <1>2, <1>5, <1>6, <1>7, <1>8, <1>9, <1>10, <1>11, PutOnTheTray DEF doc

\* review() that supersedes: the ancestor keeps its law, the heir is new.
LEMMA SupersedingKeepsTheTray ==
  ASSUME TrayInv, NEW d \in DraftIds, NEW heir \in DraftIds, Supersede(d, heir)
  PROVE  TrayInv'
<1> DEFINE doc == tray.mem
           old == [doc[d] EXCEPT !.state = "superseded"]
           new == [NoDraft EXCEPT !.state = "created"]
           doc2 == [doc EXCEPT ![d] = old, ![heir] = new]
<1>1. doc \in Trays /\ doc[d] \in Drafts
  <2>1. doc \in Trays
    BY StoreFields DEF TrayInv, TrayStore
  <2> QED BY <2>1 DEF Trays
<1>2. /\ doc[d].state = "approved" /\ doc[heir] = NoDraft /\ d # heir
      /\ linking' = linking \cup {<<heir, d>>} /\ generation' = generation
  BY DEF Supersede, NoDraft
<1>3. tray' = Save(tray, doc2, <<"heir", heir>>)
  <2>1. Moved(doc[d], "superseded") = old
    BY <1>2 DEF Moved, Allowed
  <2>2. [doc EXCEPT ![d] = Moved(@, "superseded"), ![heir].state = "created"] = doc2
    BY <1>1, <1>2, <2>1
  <2> HIDE DEF doc2
  <2> QED BY <2>2 DEF Supersede, Persist
<1>4. /\ old \in Drafts /\ old.state = "superseded" /\ old.output = doc[d].output
      /\ new \in Drafts /\ new.state = "created" /\ NoDraft.state = "absent"
      /\ {"created", "absent", "awaiting"} \cap Reviewed = {} /\ "approved" \in Reviewed
  BY <1>1 DEF NoDraft, Drafts, Reviewed, Outcomes
<1> HIDE DEF doc, old, new
<1>5. /\ doc2 \in Trays /\ doc2[d] = old /\ doc2[heir] = new
      /\ \A e \in DraftIds : e \notin {d, heir} => doc2[e] = doc[e]
  BY <1>1, <1>2, <1>4 DEF Trays
<1> HIDE DEF doc2
<1>6. KeepsReviews(doc, doc2)
  <2>1. ASSUME doc \in Lawful
        PROVE  doc2 \in Lawful
    <3>1. ASSUME NEW e \in DraftIds, doc2[e].state \in {"awaiting"} \cup Reviewed
          PROVE  doc2[e].output = "cited"
      <4>1. e # heir
        BY <1>4, <1>5, <3>1
      <4>2. CASE e = d
        BY <1>2, <1>4, <1>5, <2>1, <4>2 DEF Lawful
      <4>3. CASE e # d
        BY <1>5, <2>1, <3>1, <4>1, <4>3 DEF Lawful
      <4> QED BY <4>2, <4>3
    <3> QED BY <1>5, <3>1 DEF Lawful
  <2>2. ASSUME NEW o \in Outcomes, NEW e \in DraftIds, doc \in After(o, e)
        PROVE  doc2 \in After(o, e)
    <3>1. doc[e].state \in {o} \cup (IF o = "approved" THEN {"superseded"} ELSE {})
      BY <2>2 DEF After
    <3>2. doc2[e].state \in {o} \cup (IF o = "approved" THEN {"superseded"} ELSE {})
      <4>1. e # heir
        BY <1>2, <1>4, <3>1 DEF Outcomes
      <4>2. CASE e = d
        BY <1>2, <1>4, <1>5, <3>1, <4>2 DEF Outcomes
      <4>3. CASE e # d
        BY <1>5, <3>1, <4>1, <4>3
      <4> QED BY <4>2, <4>3
    <3> QED BY <1>5, <3>2 DEF After
  <2> QED BY <2>1, <2>2 DEF KeepsReviews
<1>7. OneWriter(doc2, generation)
  <2>1. OneWriter(doc, generation) /\ generation \in [Generators -> Runs]
    BY DEF TrayInv, doc
  <2>2. \A e \in DraftIds : \/ doc2[e].state = doc[e].state
                            \/ doc[e].state \notin {"retrieving", "generating"}
    BY <1>2, <1>4, <1>5
  <2> QED BY <2>1, <2>2, NoWriterTouched
<1>8. <<"heir", heir>> \in TrayFacts /\ \A o \in Outcomes, e \in DraftIds : <<"heir", heir>> # <<o, e>>
  BY DEF TrayFacts, Outcomes, DraftIds
<1>9. generation \in [Generators -> Runs] /\ linking' \in SUBSET (DraftIds \X DraftIds)
  BY <1>2 DEF TrayInv
<1> QED BY <1>2, <1>3, <1>5, <1>6, <1>7, <1>8, <1>9, PutOnTheTray DEF doc

\* The heir is linked, in a copy that takes the place of the object in the map.
LEMMA LinkingKeepsTheTray ==
  ASSUME TrayInv, NEW heir \in DraftIds, NEW d \in DraftIds, LinkHeir(heir, d)
  PROVE  TrayInv'
<1>1. /\ tray.mem \in Trays /\ generation \in [Generators -> Runs]
      /\ linking' \in SUBSET (DraftIds \X DraftIds) /\ OneWriter(tray.mem, generation)
  BY StoreFields DEF TrayInv, TrayStore, LinkHeir
<1>2. CASE UNCHANGED <<tray, generation>>
  <2>1. TrayStore(tray)' /\ TrayLaw(tray)' /\ OneWriter(tray.mem, generation)'
    BY <1>2 DEF TrayInv, TrayStore, TrayLaw, OneWriter
  <2> QED BY <1>1, <1>2, <2>1 DEF TrayInv
<1>3. ASSUME tray' = Save(tray, [tray.mem EXCEPT ![heir].supersedes = d], Stored),
             generation' = [g \in Generators |->
                               IF generation[g].draft = heir
                               THEN [generation[g] EXCEPT !.detached = TRUE] ELSE generation[g]]
      PROVE  TrayInv'
  <2> DEFINE doc == tray.mem
             doc2 == [doc EXCEPT ![heir].supersedes = d]
             runs2 == generation'
  <2>1. /\ doc2 \in Trays
        /\ \A e \in DraftIds : doc2[e].state = doc[e].state /\ doc2[e].output = doc[e].output
    <3>1. doc[heir] \in Drafts /\ d \in Nat
      BY <1>1 DEF Trays, DraftIds
    <3>2. [doc[heir] EXCEPT !.supersedes = d] \in Drafts
      BY <3>1 DEF Drafts
    <3>3. /\ [doc[heir] EXCEPT !.supersedes = d].state = doc[heir].state
          /\ [doc[heir] EXCEPT !.supersedes = d].output = doc[heir].output
      BY <3>1 DEF Drafts
    <3>4. doc2 = [doc EXCEPT ![heir] = [doc[heir] EXCEPT !.supersedes = d]]
      BY <1>1
    <3> DEFINE v == [doc[heir] EXCEPT !.supersedes = d]
    <3> HIDE DEF v, doc2
    <3> QED BY <1>1, <3>2, <3>3, <3>4 DEF Trays, v
  <2>2. /\ runs2 \in [Generators -> Runs]
        /\ \A g \in Generators : /\ runs2[g].pc = generation[g].pc
                                 /\ runs2[g].draft = generation[g].draft
                                 /\ HoldsItsDraft(runs2[g]) => HoldsItsDraft(generation[g])
    <3>1. ASSUME NEW g \in Generators
          PROVE  /\ runs2[g] \in Runs
                 /\ runs2[g].pc = generation[g].pc
                 /\ runs2[g].draft = generation[g].draft
                 /\ HoldsItsDraft(runs2[g]) => HoldsItsDraft(generation[g])
      BY <1>1, <1>3 DEF Runs, HoldsItsDraft
    <3> QED BY <1>3, <3>1
  <2>3. tray' = Save(tray, doc2, Stored)
    BY <1>3
  <2> HIDE DEF doc2, runs2
  <2>4. KeepsReviews(doc, doc2)
    BY <1>1, <2>1 DEF KeepsReviews, Lawful, After
  <2>5. OneWriter(doc2, runs2)
    <3>1. \A g \in Generators : runs2[g].pc # "idle" => runs2[g].draft \in DraftIds
      BY <1>1, <2>2 DEF OneWriter
    <3>2. ASSUME NEW g \in Generators, HoldsItsDraft(runs2[g])
          PROVE  /\ Fits(runs2[g].pc, doc2[runs2[g].draft].state)
                 /\ \A h \in Generators \ {g} :
                       HoldsItsDraft(runs2[h]) => runs2[h].draft # runs2[g].draft
      <4>1. HoldsItsDraft(generation[g]) /\ generation[g].draft \in DraftIds
        BY <1>1, <2>2, <3>2, NotAtWork
      <4>2. Fits(generation[g].pc, doc[generation[g].draft].state)
        BY <1>1, <4>1 DEF OneWriter
      <4>3. Fits(runs2[g].pc, doc2[runs2[g].draft].state)
        BY <2>1, <2>2, <4>1, <4>2
      <4>4. \A h \in Generators \ {g} :
                HoldsItsDraft(generation[h]) => generation[h].draft # generation[g].draft
        BY <1>1, <4>1 DEF OneWriter
      <4> QED BY <2>2, <4>3, <4>4
    <3> QED BY <3>1, <3>2 DEF OneWriter
  <2>6. Stored \in TrayFacts /\ \A outcome \in Outcomes, e \in DraftIds : Stored # <<outcome, e>>
    BY DEF Stored, TrayFacts, Outcomes
  <2> QED BY <1>1, <2>1, <2>2, <2>3, <2>4, <2>5, <2>6, PutOnTheTray DEF runs2
<1> QED BY <1>2, <1>3 DEF LinkHeir, Persist

\* generate(): the draft is the request's own.
LEMMA StartingKeepsTheTray ==
  ASSUME TrayInv, NEW g \in Generators, NEW d \in DraftIds, StartGenerate(g, d)
  PROVE  TrayInv'
<1> DEFINE doc == tray.mem
           v == [doc[d] EXCEPT !.state = "retrieving"]
           doc2 == [doc EXCEPT ![d] = v]
           run == [NoGeneration EXCEPT !.pc = "retrieve", !.draft = d]
           runs2 == [generation EXCEPT ![g] = run]
<1>1. /\ doc \in Trays /\ doc[d] \in Drafts /\ TrayStore(tray) /\ TrayLaw(tray)
      /\ generation \in [Generators -> Runs] /\ OneWriter(doc, generation)
  <2>1. doc \in Trays
    BY StoreFields DEF TrayInv, TrayStore
  <2> QED BY <2>1 DEF Trays, TrayInv
<1>2. doc[d].state = "created" /\ generation' = runs2 /\ linking' = linking
  BY DEF StartGenerate
<1>3. tray' = [tray EXCEPT !.mem = doc2]
  <2>1. Moved(doc[d], "retrieving") = v
    BY <1>2 DEF Moved, Allowed
  <2>2. tray' = [tray EXCEPT !.mem[d] = Moved(@, "retrieving")]
    BY DEF StartGenerate
  <2>3. [tray EXCEPT !.mem[d] = Moved(@, "retrieving")] = [tray EXCEPT !.mem = [doc EXCEPT ![d] = Moved(doc[d], "retrieving")]]
    BY <1>1 DEF TrayStore, StoreType
  <2> QED BY <2>1, <2>2, <2>3
<1>4. /\ v \in Drafts /\ v.state = "retrieving"
      /\ {"created", "retrieving", "awaiting"} \cap Reviewed = {}
  BY <1>1 DEF Drafts, Reviewed, Outcomes
<1>5. run \in Runs /\ run.pc = "retrieve" /\ run.draft = d /\ ~run.detached
  BY DEF NoGeneration, Runs, Underway
<1> HIDE DEF doc, v, run
<1>6. /\ doc2 \in Trays /\ doc2[d] = v /\ KeepsReviews(doc, doc2)
      /\ \A e \in DraftIds : e # d => doc2[e] = doc[e]
  BY <1>1, <1>2, <1>4, OneDraft
<1>7. /\ runs2 \in [Generators -> Runs] /\ runs2[g] = run
      /\ \A h \in Generators : h # g => runs2[h] = generation[h]
  BY <1>1, <1>5
<1> HIDE DEF doc2, runs2
<1>8. OneWriter(doc2, runs2)
  <2>1. \A h \in Generators : HoldsItsDraft(generation[h]) => generation[h].draft # d
    <3> SUFFICES ASSUME NEW h \in Generators, HoldsItsDraft(generation[h])
                 PROVE  generation[h].draft # d
      OBVIOUS
    <3>1. doc[generation[h].draft].state \in {"retrieving", "generating"}
      BY <1>1, NotAtWork
    <3> QED BY <1>2, <3>1
  <2>2. ASSUME NEW h \in Generators, h # g
        PROVE  /\ runs2[h].pc # "idle" => runs2[h].draft \in DraftIds
               /\ HoldsItsDraft(runs2[h]) =>
                     /\ Fits(runs2[h].pc, doc2[runs2[h].draft].state)
                     /\ \A k \in Generators \ {h} :
                           HoldsItsDraft(runs2[k]) => runs2[k].draft # runs2[h].draft
    <3>1. runs2[h] = generation[h]
      BY <1>7, <2>2
    <3>2. runs2[h].pc # "idle" => runs2[h].draft \in DraftIds
      BY <1>1, <3>1 DEF OneWriter
    <3>3. ASSUME HoldsItsDraft(runs2[h])
          PROVE  /\ Fits(runs2[h].pc, doc2[runs2[h].draft].state)
                 /\ \A k \in Generators \ {h} :
                       HoldsItsDraft(runs2[k]) => runs2[k].draft # runs2[h].draft
      <4>1. runs2[h].draft \in DraftIds /\ runs2[h].draft # d
        BY <2>1, <3>1, <3>2, <3>3 DEF HoldsItsDraft
      <4>2. Fits(runs2[h].pc, doc2[runs2[h].draft].state)
        BY <1>1, <1>6, <3>1, <3>3, <4>1 DEF OneWriter
      <4>3. ASSUME NEW k \in Generators \ {h}, HoldsItsDraft(runs2[k])
            PROVE  runs2[k].draft # runs2[h].draft
        <5>1. CASE k = g
          BY <1>5, <1>7, <4>1, <5>1
        <5>2. CASE k # g
          BY <1>1, <1>7, <3>1, <3>3, <4>3, <5>2 DEF OneWriter
        <5> QED BY <5>1, <5>2
      <4> QED BY <4>2, <4>3
    <3> QED BY <3>2, <3>3
  <2>3. /\ Fits(run.pc, doc2[d].state)
        /\ \A k \in Generators \ {g} : HoldsItsDraft(runs2[k]) => runs2[k].draft # d
    <3>1. Fits(run.pc, doc2[d].state)
      BY <1>4, <1>5, <1>6 DEF Fits
    <3> QED BY <1>7, <2>1, <3>1
  <2> QED BY <1>5, <1>7, <2>2, <2>3 DEF OneWriter
<1>9. TrayStore(tray') /\ TrayLaw(tray') /\ tray'.mem = doc2
  BY <1>1, <1>3, <1>6, TrayTouched DEF doc
<1>10. TrayStore(tray)' /\ TrayLaw(tray)' /\ OneWriter(tray.mem, generation)'
  BY <1>2, <1>8, <1>9 DEF TrayStore, TrayLaw, OneWriter
<1> QED BY <1>2, <1>7, <1>10 DEF TrayInv

\* A crash: both documents are read again, and no request is left.
LEMMA RestartKeepsTheTray ==
  ASSUME TrayInv, DraftsRestart
  PROVE  TrayInv'
<1>1. EmptyTray \in Trays
  BY DEF EmptyTray, NoDraft, Trays, Drafts
<1> DEFINE st == Crash(tray, EmptyTray)
<1>2. tray \in StoreType(Trays, TrayFacts) /\ Quiet(tray) /\ TrayLaw(tray)
  BY DEF TrayInv, TrayStore
<1>3. st \in StoreType(Trays, TrayFacts) /\ ~st.loaded
  BY <1>1, <1>2, CrashedStore
<1>4. Quiet(st) /\ TrayLaw(st)
  <2>1. Rests(tray, st, Trays)
    BY <1>1 DEF Rests
  <2> HIDE DEF st
  <2> QED BY <1>2, <2>1, TrayRests
<1> HIDE DEF st
<1>5. Load(st) \in StoreType(Trays, TrayFacts) /\ Quiet(Load(st)) /\ TrayLaw(Load(st)) /\ Load(st).loaded
  <2>1. Rests(st, Load(st), Trays)
    BY <1>3 DEF Rests
  <2>2. Load(st).loaded
    BY <1>3, LoadedStore
  <2> QED BY <1>3, <1>4, <2>1, <2>2, TrayRests
<1>6. /\ tray' = Load(st) /\ linking' = {}
      /\ generation' = [g \in Generators |-> NoGeneration]
  BY DEF DraftsRestart, st
<1>7. TrayStore(tray)' /\ TrayLaw(tray)'
  BY <1>5, <1>6 DEF TrayStore, TrayLaw
<1>8. generation' \in [Generators -> Runs]
  BY <1>6 DEF NoGeneration, Runs
<1>9. OneWriter(tray.mem, generation)'
  BY <1>6 DEF OneWriter, HoldsItsDraft, NoGeneration
<1> QED BY <1>6, <1>7, <1>8, <1>9 DEF TrayInv

\* A put of either document lands or fails.
LEMMA SettlingKeepsTheTray ==
  ASSUME TrayInv, DraftsSettle
  PROVE  TrayInv'
<1>1. tray \in StoreType(Trays, TrayFacts) /\ Quiet(tray) /\ TrayLaw(tray) /\ tray.loaded
  BY DEF TrayInv, TrayStore
<1>2. UNCHANGED <<generation, linking>> /\ (UNCHANGED tray \/ tray' \in Settles(tray, TRUE))
  BY DEF DraftsSettle
<1>3. tray' \in StoreType(Trays, TrayFacts) /\ Quiet(tray') /\ TrayLaw(tray')
  <2>1. Rests(tray, tray', Trays)
    BY <1>2 DEF Rests
  <2> QED BY <1>1, <2>1, TrayRests
<1>4. tray'.mem = tray.mem /\ tray'.loaded
  <2>1. CASE tray' \in Settles(tray, TRUE)
    <3>1. SameInMemory(tray, tray')
      BY <1>1, <2>1, SettlingType
    <3> QED BY <1>1, <3>1 DEF SameInMemory
  <2> QED BY <1>1, <1>2, <2>1
<1>5. TrayStore(tray)' /\ TrayLaw(tray)' /\ OneWriter(tray.mem, generation)'
  BY <1>2, <1>3, <1>4 DEF TrayStore, TrayLaw, TrayInv, OneWriter
<1> QED BY <1>2, <1>5 DEF TrayInv

LEMMA TrayStep == TrayInv /\ [DraftingNext]_draftingVars => TrayInv'
<1> SUFFICES ASSUME TrayInv, [DraftingNext]_draftingVars
             PROVE  TrayInv'
  OBVIOUS
<1>1. CASE UNCHANGED draftingVars
  BY <1>1 DEF draftingVars, TrayInv, TrayStore, TrayLaw, OneWriter
<1>2. CASE DraftingNext
  BY <1>2, RequestsKeepTheTray, CreatingKeepsTheTray, ReviewingKeepsTheTray,
     SupersedingKeepsTheTray, LinkingKeepsTheTray, StartingKeepsTheTray,
     SettlingKeepsTheTray, RestartKeepsTheTray DEF DraftingNext
<1> QED BY <1>1, <1>2

LEMMA TrayStarts == DraftingInit => TrayInv
<1> SUFFICES ASSUME DraftingInit
             PROVE  TrayInv
  OBVIOUS
<1> DEFINE st == NewStore(EmptyTray)
<1>1. EmptyTray \in Trays /\ EmptyTray \in Lawful
  BY DEF EmptyTray, NoDraft, Trays, Drafts, Lawful, Reviewed, Outcomes
<1>2. st \in StoreType(Trays, TrayFacts) /\ Quiet(st) /\ ~st.loaded
  BY <1>1, NewStoreType
<1>3. TrayLaw(st)
  BY <1>1, NewKeeps DEF TrayLaw
<1> HIDE DEF st
<1>4. Load(st) \in StoreType(Trays, TrayFacts) /\ Quiet(Load(st)) /\ TrayLaw(Load(st)) /\ Load(st).loaded
  <2>1. Rests(st, Load(st), Trays)
    BY <1>2 DEF Rests
  <2>2. Load(st).loaded
    BY <1>2, LoadedStore
  <2> QED BY <1>2, <1>3, <2>1, <2>2, TrayRests
<1>5. tray = Load(st) /\ linking = {} /\ generation = [g \in Generators |-> NoGeneration]
  BY DEF DraftingInit, st
<1>6. generation \in [Generators -> Runs] /\ OneWriter(tray.mem, generation)
  BY <1>5 DEF NoGeneration, Runs, OneWriter, HoldsItsDraft
<1> QED BY <1>4, <1>5, <1>6 DEF TrayInv, TrayStore

\* "Citations are the entry fee" (drafting.service.ts): whatever failed on the way,
\* nothing awaits a review, or was reviewed, without law beneath it, in memory, on
\* its way or stored; and what a review answered is what the store says from then
\* on, over refused puts and crashes, until a supersession takes an approval further.
THEOREM ReviewsRestAlways == DraftingSpec => []ReviewsRest
<1>1. TrayInv => ReviewsRest
  <2> SUFFICES ASSUME TrayInv
               PROVE  ReviewsRest
    OBVIOUS
  <2>1. tray \in StoreType(Trays, TrayFacts) /\ tray.loaded /\ TrayLaw(tray)
    BY DEF TrayInv, TrayStore
  <2>2. \A doc \in TrayDocs : doc \in Lawful
    <3>1. DOMAIN tray.puts = 1..Len(tray.puts)
      BY <2>1, StoreFields
    <3> QED BY <2>1, <3>1 DEF TrayDocs, TrayLaw, Agrees
  <2>3. CitedBeforeReview
    BY <2>2 DEF CitedBeforeReview, Lawful
  <2>4. ReviewsSurvive
    BY <2>1 DEF ReviewsSurvive, TrayLaw, Follows, After
  <2> QED BY <2>3, <2>4 DEF ReviewsRest
<1> QED BY <1>1, TrayStarts, TrayStep, PTL DEF DraftingSpec

-----------------------------------------------------------------------------
(* The meter.                                                              *)

\* The requests between the question and the record of a call.
Calling(runs) == {g \in Generators : runs[g].pc = "call"}

Ceiling == HardStop + Cardinality(Generators) * CallCost

\* The months that no set of requests can overshoot further.
UnderCeiling == {m \in MeterMonths : m.spend < Ceiling \/ m.spend = 0}

\* What is spent, and what the requests past the question will spend, is below the
\* ceiling; and every call is in memory, or went with a crash.
MeterInv ==
    /\ meter \in StoreType(MeterMonths, Generators) /\ Quiet(meter) /\ meter.loaded
    /\ Agrees(meter, UnderCeiling)
    /\ \/ meter.mem.spend + Cardinality(Calling(generation)) * CallCost < Ceiling
       \/ meter.mem.spend = 0 /\ Calling(generation) = {}
    /\ drafting \in [calls : Nat, lost : Int, crashes : Nat]
    /\ drafting.calls * CallCost = meter.mem.spend + drafting.lost

\* Costs of more calls, and of one more.
LEMMA Costs ==
  ASSUME NEW a \in Nat, NEW b \in Nat, a <= b
  PROVE  /\ a * CallCost \in Nat /\ a * CallCost <= b * CallCost
         /\ (a + 1) * CallCost = a * CallCost + CallCost
<1>1. CallCost \in Nat
  OBVIOUS
<1>2. PICK n \in Nat : b = a + n
  <2>1. b - a \in Nat /\ b = a + (b - a)
    OBVIOUS
  <2> QED BY <2>1
<1>3. n * CallCost \in Nat /\ a * CallCost \in Nat
  BY <1>1
<1>4. (a + n) * CallCost = a * CallCost + n * CallCost
  BY <1>1
<1>5. (a + 1) * CallCost = a * CallCost + CallCost
  BY <1>1
<1>6. a * CallCost <= a * CallCost + n * CallCost
  BY <1>3
<1> QED BY <1>2, <1>3, <1>4, <1>5, <1>6

\* Sets of requests are finite, and no larger than all of them.
LEMMA CallersCounted ==
  ASSUME NEW C \in SUBSET Generators, NEW D \in SUBSET C
  PROVE  /\ Cardinality(C) \in Nat /\ Cardinality(Generators) \in Nat /\ Cardinality(D) \in Nat
         /\ Cardinality(D) <= Cardinality(C) /\ Cardinality(C) <= Cardinality(Generators)
         /\ \A g \in C : Cardinality(C) = Cardinality(C \ {g}) + 1
<1>1. IsFiniteSet(C) /\ Cardinality(C) <= Cardinality(Generators)
  BY FS_Subset
<1>2. IsFiniteSet(D) /\ Cardinality(D) <= Cardinality(C)
  BY <1>1, FS_Subset
<1>3. Cardinality(C) \in Nat /\ Cardinality(Generators) \in Nat /\ Cardinality(D) \in Nat
  BY <1>1, <1>2, FS_CardinalityType
<1>4. ASSUME NEW g \in C
      PROVE  Cardinality(C) = Cardinality(C \ {g}) + 1
  <2>1. Cardinality(C \ {g}) = Cardinality(C) - 1
    BY <1>1, FS_RemoveElement
  <2> QED BY <1>3, <2>1
<1> QED BY <1>1, <1>2, <1>3, <1>4

LEMMA MeterMonth ==
  ASSUME MeterInv
  PROVE  /\ meter.mem \in MeterMonths /\ meter.disk \in MeterMonths
         /\ meter.mem.spend \in Nat /\ meter.disk.spend \in Nat
         /\ drafting.calls \in Nat /\ drafting.lost \in Int
<1>1. meter \in StoreType(MeterMonths, Generators) /\ drafting \in [calls : Nat, lost : Int, crashes : Nat]
  BY DEF MeterInv
<1>2. meter.mem \in MeterMonths /\ meter.disk \in MeterMonths
  BY <1>1, StoreFields
<1> QED BY <1>1, <1>2 DEF MeterMonths

\* A step that spends nothing and asks nothing.
LEMMA NobodyCalls ==
  ASSUME MeterInv, UNCHANGED <<meter, drafting>>,
         Calling(generation') \in SUBSET Calling(generation)
  PROVE  MeterInv'
<1>1. meter.mem.spend \in Nat
  BY MeterMonth
<1> DEFINE old == Calling(generation)
           new == Calling(generation')
<1>2. old \in SUBSET Generators /\ new \in SUBSET old
  BY DEF Calling
<1> HIDE DEF old, new
<1>3. Cardinality(new) * CallCost <= Cardinality(old) * CallCost
      /\ Cardinality(new) * CallCost \in Nat /\ Cardinality(old) * CallCost \in Nat
  BY <1>2, CallersCounted, Costs
<1>4. Ceiling \in Nat
  <2>1. Cardinality(Generators) \in Nat
    BY CallersCounted
  <2>2. Cardinality(Generators) * CallCost \in Nat
    BY <2>1, Costs
  <2> QED BY <2>2 DEF Ceiling
<1>5. \/ meter.mem.spend + Cardinality(new) * CallCost < Ceiling
      \/ meter.mem.spend = 0 /\ new = {}
  BY <1>1, <1>2, <1>3, <1>4 DEF MeterInv, old
<1>6. (Ceiling = Ceiling') /\ (UnderCeiling = UnderCeiling') /\ (Calling(generation)' = new)
  BY DEF Ceiling, UnderCeiling, Calling, new
<1> QED BY <1>5, <1>6 DEF MeterInv, Agrees

\* What happens to those past the question when one request moves on.
LEMMA OneCaller ==
  ASSUME NEW runs \in [Generators -> Runs], NEW g \in Generators, NEW run \in Runs
  PROVE  /\ run.pc # "call" => Calling([runs EXCEPT ![g] = run]) = Calling(runs) \ {g}
         /\ run.pc = "call" => Calling([runs EXCEPT ![g] = run]) = Calling(runs) \cup {g}
BY DEF Calling

\* The stop is asked: who goes on to call adds at most one call to what is below it.
LEMMA AskingKeepsTheMeter ==
  ASSUME TrayInv, MeterInv, NEW g \in Generators, Retrieved(g)
  PROVE  MeterInv'
<1>1. /\ generation \in [Generators -> Runs] /\ generation[g] \in Runs
      /\ UNCHANGED <<meter, drafting>>
  BY DEF TrayInv, Retrieved
<1>2. NoGeneration \in Runs /\ NoGeneration.pc # "call"
  BY DEF NoGeneration, Runs
<1>3. /\ [generation[g] EXCEPT !.pc = "degrade"] \in Runs
      /\ [generation[g] EXCEPT !.pc = "degrade"].pc # "call"
      /\ [generation[g] EXCEPT !.pc = "call"] \in Runs
      /\ [generation[g] EXCEPT !.pc = "call"].pc = "call"
  BY <1>1 DEF Runs, Underway
<1>4. CASE \/ generation' = [generation EXCEPT ![g] = NoGeneration]
           \/ generation' = [generation EXCEPT ![g] = [generation[g] EXCEPT !.pc = "degrade"]]
  <2>1. Calling(generation') = Calling(generation) \ {g}
    <3>1. CASE generation' = [generation EXCEPT ![g] = NoGeneration]
      BY <1>1, <1>2, <3>1, OneCaller
    <3>2. CASE generation' = [generation EXCEPT ![g] = [generation[g] EXCEPT !.pc = "degrade"]]
      BY <1>1, <1>3, <3>2, OneCaller
    <3> QED BY <1>4, <3>1, <3>2
  <2> QED BY <1>1, <2>1, NobodyCalls
<1>5. CASE ~StopReached /\ generation' = [generation EXCEPT ![g] = [generation[g] EXCEPT !.pc = "call"]]
  <2>1. Calling(generation') = Calling(generation) \cup {g}
    BY <1>1, <1>3, <1>5, OneCaller
  <2> DEFINE n == Cardinality(Calling(generation'))
  <2>2. n \in Nat /\ Cardinality(Generators) \in Nat /\ n <= Cardinality(Generators)
    <3>1. Calling(generation') \in SUBSET Generators
      BY DEF Calling
    <3> QED BY <3>1, CallersCounted
  <2> HIDE DEF n
  <2>3. n * CallCost \in Nat /\ n * CallCost <= Cardinality(Generators) * CallCost
        /\ Cardinality(Generators) * CallCost \in Nat
    BY <2>2, Costs
  <2>4. meter.mem.spend \in Nat /\ meter.mem.spend < HardStop
    BY <1>5, MeterMonth DEF StopReached
  <2>5. meter.mem.spend + n * CallCost < Ceiling
    BY <2>3, <2>4 DEF Ceiling
  <2>6. (Ceiling = Ceiling') /\ (UnderCeiling = UnderCeiling') /\ (Calling(generation)' = Calling(generation'))
    BY DEF Ceiling, UnderCeiling, Calling
  <2> QED BY <1>1, <2>5, <2>6 DEF MeterInv, Agrees, n
<1> QED BY <1>1, <1>4, <1>5 DEF Retrieved, Ends

\* A call is answered: what it cost moves from those past the question to the month.
LEMMA AnsweringKeepsTheMeter ==
  ASSUME TrayInv, MeterInv, NEW g \in Generators, ModelAnswers(g)
  PROVE  MeterInv'
<1>1. /\ generation \in [Generators -> Runs] /\ generation[g] \in Runs
      /\ generation[g].pc = "call"
      /\ generation' = [generation EXCEPT ![g] = [generation[g] EXCEPT !.pc = "record"]]
      /\ drafting' = [drafting EXCEPT !.calls = @ + 1]
  BY DEF TrayInv, ModelAnswers
<1>2. [generation[g] EXCEPT !.pc = "record"] \in Runs /\ [generation[g] EXCEPT !.pc = "record"].pc # "call"
  BY <1>1 DEF Runs, Underway
<1> DEFINE old == Calling(generation)
           new == Calling(generation')
           month == [meter.mem EXCEPT !.spend = @ + CallCost]
<1>3. new = old \ {g} /\ g \in old /\ old \in SUBSET Generators
  BY <1>1, <1>2, OneCaller DEF Calling
<1>4. /\ month \in MeterMonths /\ month.spend = meter.mem.spend + CallCost
      /\ meter.mem.spend \in Nat /\ drafting.calls \in Nat /\ drafting.lost \in Int
  BY MeterMonth DEF MeterMonths
<1>5. meter' = Save(meter, month, g)
  BY DEF ModelAnswers, RecordCall
<1> HIDE DEF old, new, month
<1>6. /\ Cardinality(old) * CallCost = Cardinality(new) * CallCost + CallCost
      /\ Cardinality(new) * CallCost \in Nat
  <2>1. Cardinality(old) = Cardinality(new) + 1 /\ Cardinality(new) \in Nat
    BY <1>3, CallersCounted
  <2> QED BY <2>1, Costs
<1>7. month.spend + Cardinality(new) * CallCost < Ceiling
  <2>1. meter.mem.spend + Cardinality(old) * CallCost < Ceiling
    BY <1>3 DEF MeterInv, old
  <2> QED BY <1>4, <1>6, <2>1
<1>8. month \in UnderCeiling
  <2>1. Ceiling \in Nat
    <3>1. Cardinality(Generators) \in Nat
      BY <1>3, CallersCounted
    <3>2. Cardinality(Generators) * CallCost \in Nat
      BY <3>1, Costs
    <3> QED BY <3>2 DEF Ceiling
  <2>2. month.spend \in Nat
    BY <1>4
  <2>3. month.spend < Ceiling
    BY <1>6, <1>7, <2>1, <2>2
  <2> QED BY <1>4, <2>3 DEF UnderCeiling
<1>9. /\ meter' \in StoreType(MeterMonths, Generators) /\ SavedAs(meter, meter', month, g)
      /\ Agrees(meter', UnderCeiling) /\ meter.loaded
  BY <1>4, <1>5, <1>8, SavedStore, SavingHolds DEF MeterInv
<1>10. meter'.mem = month /\ meter'.loaded /\ Quiet(meter')
  BY <1>9 DEF SavedAs, Quiet
<1>11. /\ drafting' \in [calls : Nat, lost : Int, crashes : Nat]
       /\ drafting'.calls = drafting.calls + 1 /\ drafting'.lost = drafting.lost
  BY <1>1, <1>4 DEF MeterInv
<1>12. drafting'.calls * CallCost = month.spend + drafting'.lost
  <2>1. (drafting.calls + 1) * CallCost = drafting.calls * CallCost + CallCost
        /\ drafting.calls * CallCost \in Nat
    <3>1. drafting.calls \in Nat /\ drafting.calls <= drafting.calls
      BY <1>4
    <3> QED BY <3>1, Costs
  <2>2. drafting.calls * CallCost = meter.mem.spend + drafting.lost
    BY DEF MeterInv
  <2> QED BY <1>4, <1>11, <2>1, <2>2
<1>13. (Ceiling = Ceiling') /\ (UnderCeiling = UnderCeiling') /\ (Calling(generation)' = new)
  BY DEF Ceiling, UnderCeiling, Calling, new
<1> QED BY <1>7, <1>9, <1>10, <1>11, <1>12, <1>13 DEF MeterInv, Quiet, Agrees

\* The record is stored, and the alert perhaps on its way.
LEMMA RecordingKeepsTheMeter ==
  ASSUME TrayInv, MeterInv, NEW g \in Generators, Recorded(g)
  PROVE  MeterInv'
<1> DEFINE told == [meter EXCEPT !.acked = @ \ {g}]
           month == [meter.mem EXCEPT !.alerted = TRUE]
<1>1. /\ told \in StoreType(MeterMonths, Generators) /\ told.loaded
      /\ told.mem = meter.mem /\ told.disk = meter.disk /\ told.puts = meter.puts
  BY DEF MeterInv, StoreType
<1>2. meter \in StoreType(MeterMonths, Generators) /\ meter.loaded /\ Agrees(meter, UnderCeiling) /\ meter.mem \in MeterMonths
  BY StoreFields DEF MeterInv
<1>3. month \in MeterMonths /\ month.spend = meter.mem.spend
  BY <1>2 DEF MeterMonths
<1>4. /\ generation \in [Generators -> Runs] /\ generation[g] \in Runs /\ generation[g].pc = "record"
      /\ drafting' = drafting
      /\ \/ /\ meter' = Save(told, month, g)
            /\ generation' = generation
         \/ /\ meter' = told
            /\ generation' = [generation EXCEPT ![g] = [generation[g] EXCEPT !.pc = "finish"]]
  BY DEF TrayInv, Recorded
<1> HIDE DEF told, month
<1>5. Agrees(told, UnderCeiling)
  BY <1>1, <1>2 DEF Agrees
<1>6. /\ meter' \in StoreType(MeterMonths, Generators) /\ meter'.loaded
      /\ Agrees(meter', UnderCeiling) /\ meter'.mem.spend = meter.mem.spend
  <2>1. CASE meter' = told
    BY <1>1, <1>5, <2>1
  <2>2. CASE meter' = Save(told, month, g)
    <3>1. told.mem \in UnderCeiling => month \in UnderCeiling
      BY <1>1, <1>3 DEF UnderCeiling
    <3>2. Agrees(Save(told, month, g), UnderCeiling)
      BY <1>1, <1>3, <1>5, <3>1, SavingHolds
    <3>3. /\ Save(told, month, g) \in StoreType(MeterMonths, Generators)
          /\ SavedAs(told, Save(told, month, g), month, g)
      BY <1>1, <1>3, SavedStore
    <3> QED BY <1>1, <1>3, <2>2, <3>2, <3>3 DEF SavedAs
  <2> QED BY <1>4, <2>1, <2>2
<1>7. Calling(generation') = Calling(generation)
  <2>1. CASE generation' = generation
    BY <2>1
  <2>2. CASE generation' = [generation EXCEPT ![g] = [generation[g] EXCEPT !.pc = "finish"]]
    <3>1. [generation[g] EXCEPT !.pc = "finish"] \in Runs /\ [generation[g] EXCEPT !.pc = "finish"].pc # "call"
      BY <1>4 DEF Runs, Underway
    <3>2. Calling(generation') = Calling(generation) \ {g}
      BY <1>4, <2>2, <3>1, OneCaller
    <3> QED BY <1>4, <3>2 DEF Calling
  <2> QED BY <1>4, <2>1, <2>2
<1>8. (Ceiling = Ceiling') /\ (UnderCeiling = UnderCeiling') /\ (Calling(generation)' = Calling(generation'))
  BY DEF Ceiling, UnderCeiling, Calling
<1> QED BY <1>4, <1>6, <1>7, <1>8 DEF MeterInv, Quiet, Agrees

\* The other steps of a request only take it away from its call.
LEMMA OthersKeepTheMeter ==
  ASSUME TrayInv, MeterInv, NEW g \in Generators,
         \/ RetrievalThrows(g) \/ NoCitations(g) \/ Finish(g)
         \/ ModelFails(g) \/ Degrades(g) \/ DegradeFails(g)
  PROVE  MeterInv'
<1>1. generation \in [Generators -> Runs] /\ generation[g] \in Runs
  BY DEF TrayInv
<1>2. /\ UNCHANGED <<meter, drafting>>
      /\ \/ generation' = [generation EXCEPT ![g] = NoGeneration]
         \/ generation' = [generation EXCEPT ![g] = [generation[g] EXCEPT !.pc = "degrade"]]
  BY DEF RetrievalThrows, NoCitations, Finish, ModelFails, Degrades, DegradeFails, BackToTray, Ends
<1>3. NoGeneration \in Runs /\ NoGeneration.pc # "call"
  BY DEF NoGeneration, Runs
<1>4. /\ [generation[g] EXCEPT !.pc = "degrade"] \in Runs
      /\ [generation[g] EXCEPT !.pc = "degrade"].pc # "call"
  BY <1>1 DEF Runs, Underway
<1>5. Calling(generation') = Calling(generation) \ {g}
  <2>1. CASE generation' = [generation EXCEPT ![g] = NoGeneration]
    BY <1>1, <1>3, <2>1, OneCaller
  <2>2. CASE generation' = [generation EXCEPT ![g] = [generation[g] EXCEPT !.pc = "degrade"]]
    BY <1>1, <1>4, <2>2, OneCaller
  <2> QED BY <1>2, <2>1, <2>2
<1> QED BY <1>2, <1>5, NobodyCalls

\* The steps of no request, or of one that begins or is detached.
LEMMA TrayStepsKeepTheMeter ==
  ASSUME TrayInv, MeterInv, NEW d \in DraftIds, NEW heir \in DraftIds,
         \/ CreateDraft(d) \/ \E outcome \in Outcomes : Review(d, outcome)
         \/ Supersede(d, heir) \/ LinkHeir(heir, d)
         \/ \E g \in Generators : StartGenerate(g, d)
  PROVE  MeterInv'
<1>1. generation \in [Generators -> Runs]
  BY DEF TrayInv
<1>2. UNCHANGED <<meter, drafting>>
  BY DEF CreateDraft, Review, Supersede, LinkHeir, StartGenerate
<1>3. CASE UNCHANGED generation
  BY <1>2, <1>3, NobodyCalls
<1>4. CASE LinkHeir(heir, d)
  <2>1. Calling(generation') \in SUBSET Calling(generation)
    <3>1. ASSUME NEW g \in Generators
          PROVE  generation'[g].pc = generation[g].pc
      BY <1>1, <1>4 DEF LinkHeir, Runs
    <3> QED BY <3>1 DEF Calling
  <2> QED BY <1>2, <2>1, NobodyCalls
<1>5. ASSUME NEW g \in Generators, StartGenerate(g, d)
      PROVE  MeterInv'
  <2> DEFINE run == [NoGeneration EXCEPT !.pc = "retrieve", !.draft = d]
  <2>1. run \in Runs /\ run.pc # "call" /\ generation' = [generation EXCEPT ![g] = run]
    BY <1>5 DEF StartGenerate, NoGeneration, Runs, Underway
  <2>2. Calling(generation') = Calling(generation) \ {g}
    BY <1>1, <2>1, OneCaller
  <2> QED BY <1>2, <2>2, NobodyCalls
<1> QED BY <1>3, <1>4, <1>5 DEF CreateDraft, Review, Supersede

\* A put of either document lands or fails.
LEMMA SettlingKeepsTheMeter ==
  ASSUME MeterInv, DraftsSettle
  PROVE  MeterInv'
<1>1. meter \in StoreType(MeterMonths, Generators) /\ Quiet(meter) /\ meter.loaded /\ Agrees(meter, UnderCeiling)
  BY DEF MeterInv
<1>2. UNCHANGED <<generation, drafting>> /\ (UNCHANGED meter \/ meter' \in Settles(meter, TRUE))
  BY DEF DraftsSettle
<1>3. meter' \in StoreType(MeterMonths, Generators) /\ Quiet(meter') /\ Agrees(meter', UnderCeiling)
  <2>1. Rests(meter, meter', MeterMonths)
    BY <1>2 DEF Rests
  <2> QED BY <1>1, <2>1, RestingType, RestingHolds
<1>4. meter'.mem = meter.mem /\ meter'.loaded
  <2>1. CASE meter' \in Settles(meter, TRUE)
    <3>1. SameInMemory(meter, meter')
      BY <1>1, <2>1, SettlingType
    <3> QED BY <1>1, <3>1 DEF SameInMemory
  <2> QED BY <1>1, <1>2, <2>1
<1>5. (Ceiling = Ceiling') /\ (UnderCeiling = UnderCeiling') /\ (Calling(generation)' = Calling(generation))
  BY <1>2 DEF Ceiling, UnderCeiling, Calling
<1> QED BY <1>2, <1>3, <1>4, <1>5 DEF MeterInv, Quiet, Agrees

\* A store without what it told anybody.
LEMMA Untold ==
  ASSUME NEW docs, NEW facts, NEW st \in StoreType(docs, facts)
  PROVE  /\ [st EXCEPT !.acked = {}] \in StoreType(docs, facts)
         /\ [st EXCEPT !.acked = {}].mem = st.mem /\ [st EXCEPT !.acked = {}].disk = st.disk
         /\ [st EXCEPT !.acked = {}].puts = st.puts
         /\ st.loaded => [st EXCEPT !.acked = {}].loaded
         /\ [st EXCEPT !.acked = {}].loaded => st.loaded
BY DEF StoreType

\* A crash takes from memory what is not on disk, and every request with it.
LEMMA RestartKeepsTheMeter ==
  ASSUME MeterInv, DraftsRestart
  PROVE  MeterInv'
<1> DEFINE down == Crash(meter, EmptyMeter)
           st == [down EXCEPT !.acked = {}]
<1>1. /\ meter \in StoreType(MeterMonths, Generators) /\ Quiet(meter) /\ Agrees(meter, UnderCeiling)
      /\ meter.disk \in MeterMonths /\ meter.disk \in UnderCeiling
      /\ meter.mem.spend \in Nat /\ meter.disk.spend \in Nat
      /\ drafting.calls \in Nat /\ drafting.lost \in Int
  BY MeterMonth DEF MeterInv, Agrees
<1>2. EmptyMeter \in MeterMonths
  BY DEF EmptyMeter, MeterMonths
<1>3. /\ down \in StoreType(MeterMonths, Generators) /\ down.disk = meter.disk
      /\ ~down.loaded /\ Len(down.puts) = 0
  BY <1>1, <1>2, CrashedStore
<1> HIDE DEF down
<1>4. /\ st \in StoreType(MeterMonths, Generators) /\ st.disk = meter.disk
      /\ ~st.loaded /\ Len(st.puts) = 0
  BY <1>3, Untold
<1> HIDE DEF st
<1>5. meter' = Load(st)
  BY DEF DraftsRestart, st, down
<1>6. /\ meter' \in StoreType(MeterMonths, Generators)
      /\ meter'.mem = meter.disk /\ meter'.disk = meter.disk /\ meter'.loaded
      /\ meter'.puts = st.puts
  BY <1>4, <1>5, LoadedStore
<1>7. Agrees(meter', UnderCeiling) /\ Quiet(meter')
  <2>1. Len(meter'.puts) = 0
    BY <1>4, <1>6
  <2> QED BY <1>1, <1>6, <2>1 DEF Agrees, Quiet
<1>8. Calling(generation') = {}
  BY DEF DraftsRestart, Calling, NoGeneration
<1>9. \/ meter'.mem.spend + Cardinality(Calling(generation')) * CallCost < Ceiling
      \/ meter'.mem.spend = 0 /\ Calling(generation') = {}
  <2>1. Cardinality(Calling(generation')) * CallCost = 0
    <3>1. Cardinality(Calling(generation')) = 0
      BY <1>8, FS_EmptySet
    <3> QED BY <3>1
  <2> QED BY <1>1, <1>6, <1>8, <2>1 DEF UnderCeiling
<1>10. /\ drafting' \in [calls : Nat, lost : Int, crashes : Nat]
       /\ drafting'.calls = drafting.calls
       /\ drafting'.lost = drafting.lost + (meter.mem.spend - meter.disk.spend)
  <2> DEFINE gone == meter.mem.spend - meter.disk.spend
  <2>1. drafting' = [drafting EXCEPT !.crashes = @ + 1, !.lost = @ + gone]
    BY DEF DraftsRestart
  <2>2. drafting \in [calls : Nat, lost : Int, crashes : Nat]
    BY DEF MeterInv
  <2>3. gone \in Int
    BY <1>1
  <2> HIDE DEF gone
  <2>4. /\ drafting.lost + gone \in Int
        /\ drafting.crashes + 1 \in Nat
    BY <2>2, <2>3
  <2>5. /\ drafting' \in [calls : Nat, lost : Int, crashes : Nat]
        /\ drafting'.calls = drafting.calls /\ drafting'.lost = drafting.lost + gone
    BY <2>1, <2>2, <2>4
  <2> QED BY <2>5 DEF gone
<1>11. drafting'.calls * CallCost = meter'.mem.spend + drafting'.lost
  <2>1. drafting.calls * CallCost = meter.mem.spend + drafting.lost
    BY DEF MeterInv
  <2> QED BY <1>1, <1>6, <1>10, <2>1
<1>12. (Ceiling = Ceiling') /\ (UnderCeiling = UnderCeiling') /\ (Calling(generation)' = Calling(generation'))
  BY DEF Ceiling, UnderCeiling, Calling
<1> QED BY <1>6, <1>7, <1>9, <1>10, <1>11, <1>12 DEF MeterInv, Quiet, Agrees

LEMMA MeterStep == TrayInv /\ MeterInv /\ [DraftingNext]_draftingVars => MeterInv'
<1> SUFFICES ASSUME TrayInv, MeterInv, [DraftingNext]_draftingVars
             PROVE  MeterInv'
  OBVIOUS
<1>1. CASE UNCHANGED draftingVars
  <2>1. UNCHANGED <<meter, drafting>> /\ Calling(generation') \in SUBSET Calling(generation)
    BY <1>1 DEF draftingVars
  <2> QED BY <2>1, NobodyCalls
<1>2. CASE DraftingNext
  <2>1. CASE DraftsSettle \/ DraftsRestart
    BY <2>1, SettlingKeepsTheMeter, RestartKeepsTheMeter
  <2>2. ASSUME NEW g \in Generators,
               \/ RetrievalThrows(g) \/ NoCitations(g) \/ Retrieved(g)
               \/ ModelAnswers(g) \/ Recorded(g) \/ Finish(g)
               \/ ModelFails(g) \/ Degrades(g) \/ DegradeFails(g)
        PROVE  MeterInv'
    BY <2>2, AskingKeepsTheMeter, AnsweringKeepsTheMeter, RecordingKeepsTheMeter, OthersKeepTheMeter
  <2>3. ASSUME NEW d \in DraftIds, NEW heir \in DraftIds,
               \/ CreateDraft(d) \/ \E outcome \in Outcomes : Review(d, outcome)
               \/ Supersede(d, heir) \/ LinkHeir(heir, d)
               \/ \E g \in Generators : StartGenerate(g, d)
        PROVE  MeterInv'
    BY <2>3, TrayStepsKeepTheMeter
  <2> QED BY <1>2, <2>1, <2>2, <2>3 DEF DraftingNext
<1> QED BY <1>1, <1>2

LEMMA MeterStarts == DraftingInit => MeterInv
<1> SUFFICES ASSUME DraftingInit
             PROVE  MeterInv
  OBVIOUS
<1> DEFINE st == NewStore(EmptyMeter)
<1>1. EmptyMeter \in MeterMonths /\ EmptyMeter.spend = 0 /\ EmptyMeter \in UnderCeiling
  BY DEF EmptyMeter, MeterMonths, UnderCeiling
<1>2. st \in StoreType(MeterMonths, Generators) /\ Quiet(st) /\ ~st.loaded /\ Agrees(st, UnderCeiling)
      /\ st.disk = EmptyMeter
  BY <1>1, NewStoreType, NewKeeps
<1> HIDE DEF st
<1>3. meter = Load(st) /\ Rests(st, Load(st), MeterMonths)
  BY <1>2 DEF DraftingInit, Rests, st
<1>4. meter \in StoreType(MeterMonths, Generators) /\ Quiet(meter) /\ Agrees(meter, UnderCeiling)
  BY <1>2, <1>3, RestingType, RestingHolds
<1>5. meter.loaded /\ meter.mem = EmptyMeter
  BY <1>2, <1>3, LoadedStore
<1>6. Calling(generation) = {}
  BY DEF DraftingInit, Calling, NoGeneration
<1>7. /\ drafting \in [calls : Nat, lost : Int, crashes : Nat]
      /\ drafting.calls * CallCost = 0 /\ drafting.lost = 0
  BY DEF DraftingInit
<1> QED BY <1>1, <1>4, <1>5, <1>6, <1>7 DEF MeterInv

\* "hard stop, not just alerts" (usage-meter.service.ts), for any number of requests:
\* between the question and the record others pass, so the month overshoots the stop
\* by one call for each request at most; and what was called and is not in the meter
\* is what crashes took.
THEOREM OvershootIsBounded == DraftingSpec => []OvershootBounded
<1>1. TrayInv /\ MeterInv => OvershootBounded
  <2> SUFFICES ASSUME MeterInv
               PROVE  OvershootBounded
    OBVIOUS
  <2>1. meter.mem \in UnderCeiling
    BY DEF MeterInv, Agrees
  <2> QED BY <2>1 DEF MeterInv, UnderCeiling, Ceiling, OvershootBounded
<1>2. DraftingInit => TrayInv /\ MeterInv
  BY TrayStarts, MeterStarts
<1>3. TrayInv /\ MeterInv /\ [DraftingNext]_draftingVars => (TrayInv /\ MeterInv)'
  BY TrayStep, MeterStep
<1> QED BY <1>1, <1>2, <1>3, PTL DEF DraftingSpec
HIDE DraftingAssumption

-----------------------------------------------------------------------------
(* Shelf.                                                                   *)

LawType == [filed : BOOLEAN, tier : 0..3, verified : BOOLEAN, inForce : BOOLEAN,
            supersedes : Texts \cup {None}]

OneInForce(laws, t) ==
    \E v \in AnyVersion(laws, t) :
        laws[v].inForce /\ \A u \in AnyVersion(laws, t) : laws[u].inForce => u = v

OneFirst(laws, t) ==
    \E v \in AnyVersion(laws, t) :
        /\ laws[v].supersedes = None
        /\ \A u \in AnyVersion(laws, t) : laws[u].supersedes = None => u = v

LinkedBack(laws, t) ==
    laws[t].supersedes # None =>
        /\ laws[t].supersedes \in AnyVersion(laws, t) \ {t}
        /\ ~laws[laws[t].supersedes].inForce
        /\ \A u \in AnyVersion(laws, t) : laws[u].supersedes = laws[t].supersedes => u = t

LawKept(laws, t) ==
    /\ laws[t].inForce => laws[t].filed
    /\ laws[t].verified => laws[t].filed /\ Validates(t, laws[t].tier)
    /\ laws[t].filed => OneInForce(laws, t) /\ OneFirst(laws, t) /\ LinkedBack(laws, t)

\* The documents a shelf may be.
GoodLaws == {laws \in [Texts -> LawType] : \A t \in Texts : LawKept(laws, t)}

ShelfFacts == {"stored"} \cup Syncs

SyncType == [pc : {"idle", "register", "items", "filing", "filed", "verifying"},
             window : Windows \cup {None}, left : Seq(Texts)]

\* What a sync is about to count is on the shelf.
SyncHolds(sync, laws) ==
    /\ sync.pc = "register" => sync.window \in Windows
    /\ sync.pc \in {"filing", "filed"} =>
           sync.left # <<>> /\ laws[Head(sync.left)].filed

ShelfInv ==
    /\ shelf \in StoreType(GoodLaws, ShelfFacts)
    /\ syncs \in [Syncs -> SyncType]
    /\ \A s \in Syncs : SyncHolds(syncs[s], shelf.mem)

USE ShelfAssumption, NoneAssumption

LEMMA VersionsOfATitle ==
  ASSUME NEW laws, NEW t \in Texts, NEW u
  PROVE  u \in AnyVersion(laws, t) <=> u \in Texts /\ laws[u].filed /\ Titled[u] = Titled[t]
BY DEF AnyVersion

LEMMA GoodLawsAre ==
  ASSUME NEW laws \in GoodLaws, NEW t \in Texts
  PROVE  /\ laws \in [Texts -> LawType] /\ laws[t] \in LawType /\ LawKept(laws, t)
         /\ laws[t].filed \in BOOLEAN /\ laws[t].inForce \in BOOLEAN
         /\ laws[t].verified \in BOOLEAN /\ laws[t].tier \in 0..3
         /\ laws[t].supersedes \in Texts \cup {None}
BY DEF GoodLaws, LawType

\* Laws that differ in what is verified only, and soundly so.
LEMMA VerifyingKeeps ==
  ASSUME NEW laws \in GoodLaws, NEW new \in [Texts -> LawType],
         \A t \in Texts : /\ new[t].filed = laws[t].filed
                          /\ new[t].inForce = laws[t].inForce
                          /\ new[t].supersedes = laws[t].supersedes
                          /\ new[t].tier = laws[t].tier,
         \A t \in Texts : new[t].verified => laws[t].filed /\ Validates(t, laws[t].tier)
  PROVE  new \in GoodLaws
<1>1. \A t \in Texts : AnyVersion(new, t) = AnyVersion(laws, t)
  BY DEF AnyVersion
<1>2. ASSUME NEW t \in Texts
      PROVE  LawKept(new, t)
  <2>1. LawKept(laws, t)
    BY GoodLawsAre
  <2>2. AnyVersion(laws, t) \subseteq Texts
    BY DEF AnyVersion
  <2>3. OneInForce(laws, t) => OneInForce(new, t)
    BY <1>1, <2>2 DEF OneInForce
  <2>4. OneFirst(laws, t) => OneFirst(new, t)
    BY <1>1, <2>2 DEF OneFirst
  <2>5. LinkedBack(laws, t) => LinkedBack(new, t)
    BY <1>1, <2>2 DEF LinkedBack
  <2> QED BY <2>1, <2>3, <2>4, <2>5 DEF LawKept
<1> QED BY <1>2 DEF GoodLaws

\* verify() of a text on the shelf.
LEMMA MarkedIsGood ==
  ASSUME NEW laws \in GoodLaws, NEW text \in Texts, laws[text].filed,
         Validates(text, laws[text].tier),
         NEW new, new = [laws EXCEPT ![text].verified = TRUE]
  PROVE  new \in GoodLaws /\ \A t \in Texts : laws[t].filed => new[t].filed
<1>1. laws \in [Texts -> LawType] /\ laws[text] \in LawType
  BY GoodLawsAre
<1>2. PICK law : law = [laws[text] EXCEPT !.verified = TRUE]
  OBVIOUS
<1>3. /\ law \in LawType /\ law.filed = laws[text].filed /\ law.inForce = laws[text].inForce
      /\ law.supersedes = laws[text].supersedes /\ law.tier = laws[text].tier
  BY <1>1, <1>2 DEF LawType
<1>4. new = [laws EXCEPT ![text] = law]
  BY <1>2
<1>5. new \in [Texts -> LawType] /\ new[text] = law
      /\ \A t \in Texts : t # text => new[t] = laws[t]
  BY <1>1, <1>3, <1>4
<1>6. \A t \in Texts : /\ new[t].filed = laws[t].filed
                       /\ new[t].inForce = laws[t].inForce
                       /\ new[t].supersedes = laws[t].supersedes
                       /\ new[t].tier = laws[t].tier
  BY <1>3, <1>5
<1>7. \A t \in Texts : new[t].verified => laws[t].filed /\ Validates(t, laws[t].tier)
  BY <1>5, GoodLawsAre DEF LawKept
<1>8. new \in GoodLaws
  BY <1>5, <1>6, <1>7, VerifyingKeeps
<1> QED BY <1>6, <1>8

\* ingestDocument(), field by field: `before' is the version it retires.
LEMMA IngestedFields ==
  ASSUME NEW laws \in GoodLaws, NEW text \in Texts, NEW tier \in 1..3, NEW before,
         before = IF Previous(laws, text) = {} THEN None
                  ELSE CHOOSE t \in Previous(laws, text) : TRUE,
         NEW new, new = Ingested(laws, text, tier)
  PROVE  /\ new \in [Texts -> LawType]
         /\ new[text].filed /\ ~new[text].verified /\ new[text].inForce
         /\ new[text].supersedes = before
         /\ \A t \in Texts \ {text} :
                /\ new[t].filed = laws[t].filed
                /\ new[t].verified = laws[t].verified
                /\ new[t].tier = laws[t].tier
                /\ new[t].supersedes = laws[t].supersedes
                /\ new[t].inForce <=> laws[t].inForce /\ t # before
<1>1. laws \in [Texts -> LawType]
  BY GoodLawsAre
<1>2. before \in Texts \cup {None}
  BY DEF Previous, AnyVersion
<1>3. PICK filed : filed = [filed |-> TRUE, tier |-> tier, verified |-> FALSE,
                            inForce |-> TRUE, supersedes |-> before]
  OBVIOUS
<1>4. filed \in LawType /\ filed.filed /\ ~filed.verified /\ filed.inForce
      /\ filed.supersedes = before
  BY <1>2, <1>3 DEF LawType
<1>5. new = [t \in Texts |-> IF t = text THEN filed
                             ELSE [laws[t] EXCEPT !.inForce = @ /\ t # before]]
  BY <1>3 DEF Ingested
<1>6. ASSUME NEW t \in Texts \ {text}
      PROVE  /\ new[t] \in LawType
             /\ new[t].filed = laws[t].filed
             /\ new[t].verified = laws[t].verified
             /\ new[t].tier = laws[t].tier
             /\ new[t].supersedes = laws[t].supersedes
             /\ new[t].inForce <=> laws[t].inForce /\ t # before
  <2>1. laws[t] \in LawType
    BY <1>1
  <2>2. PICK force \in BOOLEAN : force = (laws[t].inForce /\ t # before)
    OBVIOUS
  <2>3. new[t] = [laws[t] EXCEPT !.inForce = force]
    BY <1>5, <2>2
  <2> QED BY <2>1, <2>2, <2>3 DEF LawType
<1>7. new[text] = filed
  BY <1>5
<1>8. DOMAIN new = Texts /\ new = [t \in Texts |-> new[t]]
  BY <1>5
<1>9. \A t \in Texts : new[t] \in LawType
  BY <1>4, <1>6, <1>7
<1>10. new \in [Texts -> LawType]
  BY <1>8, <1>9
<1> QED BY <1>4, <1>6, <1>7, <1>10

\* A text that was not on the shelf is filed: it is in force, the version that
\* was is not any more, and everything else stays.
LEMMA IngestedIsGood ==
  ASSUME NEW laws \in GoodLaws, NEW text \in Texts, NEW tier \in 1..3, ~laws[text].filed,
         NEW new, new = Ingested(laws, text, tier)
  PROVE  /\ new \in GoodLaws
         /\ new[text].filed
         /\ \A t \in Texts : laws[t].filed => new[t].filed
<1>1. PICK before : before = IF Previous(laws, text) = {} THEN None
                             ELSE CHOOSE t \in Previous(laws, text) : TRUE
  OBVIOUS
<1>2. /\ new \in [Texts -> LawType]
      /\ new[text].filed /\ ~new[text].verified /\ new[text].inForce
      /\ new[text].supersedes = before
      /\ \A t \in Texts \ {text} :
             /\ new[t].filed = laws[t].filed
             /\ new[t].verified = laws[t].verified
             /\ new[t].tier = laws[t].tier
             /\ new[t].supersedes = laws[t].supersedes
             /\ new[t].inForce <=> laws[t].inForce /\ t # before
  BY <1>1, IngestedFields
<1>3. /\ \/ before = None /\ \A t \in AnyVersion(laws, text) : ~laws[t].inForce
         \/ before \in AnyVersion(laws, text) /\ laws[before].inForce
      /\ before # None => before \in Texts /\ before # text
  <2>1. \A t : t \in Previous(laws, text) <=> t \in AnyVersion(laws, text) /\ laws[t].inForce
    BY DEF Previous
  <2>2. \A t \in AnyVersion(laws, text) : t \in Texts /\ t # text /\ t # None
    BY VersionsOfATitle
  <2> QED BY <1>1, <2>1, <2>2
<1>4. before = None <=> AnyVersion(laws, text) = {}
  <2>1. ASSUME NEW t \in AnyVersion(laws, text)
        PROVE  \E v \in AnyVersion(laws, text) : laws[v].inForce
    <3>1. t \in Texts /\ laws[t].filed /\ Titled[t] = Titled[text]
      BY VersionsOfATitle
    <3>2. OneInForce(laws, t)
      BY <3>1, GoodLawsAre DEF LawKept
    <3>3. PICK v \in AnyVersion(laws, t) : laws[v].inForce
      BY <3>2 DEF OneInForce
    <3>4. v \in AnyVersion(laws, text)
      BY <3>1, <3>3, VersionsOfATitle
    <3> QED BY <3>3, <3>4
  <2>2. before \in AnyVersion(laws, text) => before # None
    BY VersionsOfATitle
  <2> QED BY <1>3, <2>1, <2>2
<1>5. \A t \in Texts : \A u : u \in AnyVersion(new, t)
          <=> u \in AnyVersion(laws, t) \/ (u = text /\ Titled[text] = Titled[t])
  BY <1>2 DEF AnyVersion
<1>6. ASSUME NEW t \in Texts
      PROVE  LawKept(new, t)
  <2>1. LawKept(laws, t)
    BY GoodLawsAre
  <2>2. (new[t].inForce => new[t].filed)
        /\ (new[t].verified => new[t].filed /\ Validates(t, new[t].tier))
    BY <1>2, <2>1 DEF LawKept
  <2>3. CASE Titled[t] # Titled[text]
    <3>1. \A u : u \in AnyVersion(new, t) <=> u \in AnyVersion(laws, t)
      BY <1>5, <2>3
    <3>2. \A u \in AnyVersion(laws, t) : u \in Texts /\ u # text /\ u # before
      BY <1>3, <2>3, VersionsOfATitle
    <3>3. \A u \in AnyVersion(laws, t) : /\ new[u].supersedes = laws[u].supersedes
                                         /\ new[u].inForce <=> laws[u].inForce
      BY <1>2, <3>2
    <3>4. new[t].filed = laws[t].filed /\ new[t].supersedes = laws[t].supersedes
      BY <1>2, <2>3
    <3>5. OneInForce(laws, t) => OneInForce(new, t)
      BY <3>1, <3>3 DEF OneInForce
    <3>6. OneFirst(laws, t) => OneFirst(new, t)
      BY <3>1, <3>3 DEF OneFirst
    <3>7. LinkedBack(laws, t) => LinkedBack(new, t)
      BY <3>1, <3>3, <3>4 DEF LinkedBack
    <3> QED BY <2>1, <2>2, <3>4, <3>5, <3>6, <3>7 DEF LawKept
  <2>4. CASE Titled[t] = Titled[text]
    <3>1. \A u : u \in AnyVersion(laws, t) <=> u \in AnyVersion(laws, text)
      BY <2>4, VersionsOfATitle
    <3>2. \A u : u \in AnyVersion(new, t) <=> u \in AnyVersion(laws, text) \/ u = text
      BY <1>5, <2>4, <3>1
    <3>3. \A u \in AnyVersion(laws, text) :
              /\ u \in Texts /\ u # text /\ laws[u].filed
              /\ Titled[u] = Titled[text]
              /\ new[u].supersedes = laws[u].supersedes
              /\ new[u].inForce <=> laws[u].inForce /\ u # before
      BY <1>2, VersionsOfATitle
    <3>4. \A u \in AnyVersion(laws, text) :
              OneInForce(laws, u) /\ OneFirst(laws, u) /\ LinkedBack(laws, u)
      BY <3>3, GoodLawsAre DEF LawKept
    <3>5. \A u \in AnyVersion(laws, text) : \A v :
              v \in AnyVersion(laws, u) <=> v \in AnyVersion(laws, text)
      BY <3>3, VersionsOfATitle
    <3>6. OneInForce(new, t)
      <4>1. ASSUME NEW u \in AnyVersion(laws, text)
            PROVE  ~new[u].inForce
        <5>1. laws[u].inForce => u = before
          BY <1>3, <3>4, <3>5, <4>1 DEF OneInForce
        <5> QED BY <3>3, <5>1
      <4> QED BY <1>2, <3>2, <4>1 DEF OneInForce
    <3>7. OneFirst(new, t)
      <4>1. CASE AnyVersion(laws, text) = {}
        BY <1>2, <1>4, <3>2, <4>1 DEF OneFirst
      <4>2. CASE AnyVersion(laws, text) # {}
        <5>1. PICK u \in AnyVersion(laws, text) : TRUE
          BY <4>2
        <5>2. PICK v \in AnyVersion(laws, text) :
                  /\ laws[v].supersedes = None
                  /\ \A w \in AnyVersion(laws, text) : laws[w].supersedes = None => w = v
          BY <3>4, <3>5, <5>1 DEF OneFirst
        <5>3. new[text].supersedes # None
          BY <1>2, <1>4, <4>2
        <5> QED BY <3>2, <3>3, <5>2, <5>3 DEF OneFirst
      <4> QED BY <4>1, <4>2
    <3>8. new[t].filed => LinkedBack(new, t)
      <4>1. \A u \in AnyVersion(laws, text) : laws[u].supersedes # before \/ before = None
        <5>1. ASSUME NEW u \in AnyVersion(laws, text), before # None, laws[u].supersedes = before
              PROVE  FALSE
          <6>1. ~laws[before].inForce
            BY <3>4, <5>1 DEF LinkedBack
          <6> QED BY <1>3, <5>1, <6>1
        <5> QED BY <5>1
      <4>2. CASE t = text
        <5>1. ASSUME before # None
              PROVE  /\ before \in AnyVersion(new, t) \ {t}
                     /\ ~new[before].inForce
                     /\ \A u \in AnyVersion(new, t) : new[u].supersedes = before => u = t
          <6>1. before \in AnyVersion(laws, text)
            BY <1>3, <5>1
          <6>2. ~new[before].inForce
            BY <3>3, <6>1
          <6> QED BY <1>3, <3>2, <3>3, <4>1, <4>2, <5>1, <6>1, <6>2
        <5> QED BY <1>2, <4>2, <5>1 DEF LinkedBack
      <4>3. CASE t # text /\ new[t].filed /\ new[t].supersedes # None
        <5>1. t \in AnyVersion(laws, text) /\ new[t].supersedes = laws[t].supersedes
          BY <1>2, <2>4, <4>3, VersionsOfATitle
        <5>2. PICK old : old = laws[t].supersedes
          OBVIOUS
        <5>3. /\ old \in AnyVersion(laws, text) \ {t}
              /\ ~laws[old].inForce
              /\ \A u \in AnyVersion(laws, text) : laws[u].supersedes = old => u = t
          BY <3>4, <3>5, <4>3, <5>1, <5>2 DEF LinkedBack
        <5>4. ~new[old].inForce /\ old # before
          BY <3>3, <4>1, <5>1, <5>2, <5>3, <4>3
        <5>5. \A u \in AnyVersion(new, t) : new[u].supersedes = old => u = t
          BY <1>2, <3>2, <3>3, <5>3, <5>4
        <5> QED BY <3>2, <5>1, <5>2, <5>3, <5>4, <5>5 DEF LinkedBack
      <4> QED BY <4>2, <4>3 DEF LinkedBack
    <3> QED BY <2>2, <3>6, <3>7, <3>8 DEF LawKept
  <2> QED BY <2>3, <2>4
<1>7. new \in GoodLaws
  BY <1>2, <1>6 DEF GoodLaws
<1> QED BY <1>2, <1>7

\* A shelf that is put again with more of the same.
LEMMA PutKeeps ==
  ASSUME NEW st \in StoreType(GoodLaws, ShelfFacts), NEW laws \in GoodLaws,
         NEW fact \in ShelfFacts, NEW new, new = Save(st, laws, fact)
  PROVE  new \in StoreType(GoodLaws, ShelfFacts) /\ new.mem = laws
<1>1. new \in StoreType(GoodLaws, ShelfFacts) /\ SavedAs(st, new, laws, fact)
  BY SavedStore
<1> QED BY <1>1 DEF SavedAs

\* What a sync reported is forgotten.
LEMMA ForgottenKeeps ==
  ASSUME NEW st \in StoreType(GoodLaws, ShelfFacts), NEW s,
         NEW new, new = [st EXCEPT !.acked = @ \ {s}]
  PROVE  new \in StoreType(GoodLaws, ShelfFacts) /\ new.mem = st.mem
<1>1. PICK acked : acked = st.acked \ {s}
  OBVIOUS
<1>2. acked \in SUBSET ShelfFacts
  BY <1>1, StoreFields
<1>3. new = [st EXCEPT !.acked = acked]
  BY <1>1
<1> QED BY <1>2, <1>3 DEF StoreType

LEMMA ShelfKnown ==
  ASSUME ShelfInv
  PROVE  /\ shelf \in StoreType(GoodLaws, ShelfFacts) /\ shelf.mem \in GoodLaws
         /\ \A t \in Texts : shelf.mem[t] \in LawType /\ LawKept(shelf.mem, t)
         /\ syncs \in [Syncs -> SyncType]
         /\ \A s \in Syncs : syncs[s] \in SyncType /\ SyncHolds(syncs[s], shelf.mem)
<1>1. shelf.mem \in GoodLaws
  BY StoreFields DEF ShelfInv
<1> QED BY <1>1, GoodLawsAre DEF ShelfInv

\* Nothing leaves the shelf: what the syncs are about stays on it.
LEMMA LawsGrow ==
  ASSUME ShelfInv, shelf' \in StoreType(GoodLaws, ShelfFacts),
         \A t \in Texts : shelf.mem[t].filed => shelf'.mem[t].filed,
         NEW s \in Syncs
  PROVE  SyncHolds(syncs[s], shelf'.mem)
<1>1. SyncHolds(syncs[s], shelf.mem) /\ syncs[s] \in SyncType
  BY ShelfKnown
<1>2. syncs[s].left \in Seq(Texts)
  BY <1>1 DEF SyncType
<1>3. syncs[s].left # <<>> => Head(syncs[s].left) \in Texts
  BY <1>2
<1> QED BY <1>1, <1>3 DEF SyncHolds

LEMMA LawsGrowQuietly ==
  ASSUME ShelfInv, shelf' \in StoreType(GoodLaws, ShelfFacts),
         \A t \in Texts : shelf.mem[t].filed => shelf'.mem[t].filed,
         UNCHANGED syncs
  PROVE  ShelfInv'
BY LawsGrow DEF ShelfInv

\* One sync goes on, whatever is added to the shelf.
LEMMA SyncGoes ==
  ASSUME ShelfInv, NEW s \in Syncs, NEW sync \in SyncType, syncs' = [syncs EXCEPT ![s] = sync],
         shelf' \in StoreType(GoodLaws, ShelfFacts),
         \A t \in Texts : shelf.mem[t].filed => shelf'.mem[t].filed,
         SyncHolds(sync, shelf'.mem)
  PROVE  ShelfInv'
<1>1. syncs \in [Syncs -> SyncType]
  BY ShelfKnown
<1>2. syncs' \in [Syncs -> SyncType] /\ syncs'[s] = sync
      /\ \A u \in Syncs : u # s => syncs'[u] = syncs[u]
  BY <1>1
<1> QED BY <1>2, LawsGrow DEF ShelfInv

LEMMA IngestKeeps ==
  ASSUME ShelfInv, NEW text \in Texts, NEW tier \in HandTiers, IngestByHand(text, tier)
  PROVE  ShelfInv'
<1>1. shelf.mem \in GoodLaws /\ ~shelf.mem[text].filed /\ tier \in 1..3 /\ UNCHANGED syncs
  BY ShelfKnown DEF IngestByHand
<1>2. PICK laws : laws = Ingested(shelf.mem, text, tier)
  OBVIOUS
<1>3. laws \in GoodLaws /\ \A t \in Texts : shelf.mem[t].filed => laws[t].filed
  BY <1>1, <1>2, IngestedIsGood
<1>4. shelf' = Save(shelf, laws, "stored") /\ "stored" \in ShelfFacts
  BY <1>2 DEF IngestByHand, PutShelf, ShelfFacts
<1>5. shelf' \in StoreType(GoodLaws, ShelfFacts) /\ shelf'.mem = laws
  BY <1>3, <1>4, ShelfKnown, PutKeeps
<1> QED BY <1>1, <1>3, <1>5, LawsGrowQuietly

LEMMA VerifyKeeps ==
  ASSUME ShelfInv, NEW text \in Texts, VerifyByHand(text)
  PROVE  ShelfInv'
<1>1. shelf.mem \in GoodLaws /\ shelf.mem[text].inForce /\ UNCHANGED syncs
      /\ Validates(text, shelf.mem[text].tier)
  BY ShelfKnown DEF VerifyByHand
<1>2. shelf.mem[text].filed
  BY <1>1, ShelfKnown DEF LawKept
<1>3. PICK laws : laws = [shelf.mem EXCEPT ![text].verified = TRUE]
  OBVIOUS
<1>4. laws \in GoodLaws /\ \A t \in Texts : shelf.mem[t].filed => laws[t].filed
  BY <1>1, <1>2, <1>3, MarkedIsGood
<1>5. shelf' = Save(shelf, laws, "stored") /\ "stored" \in ShelfFacts
  BY <1>3 DEF VerifyByHand, PutShelf, ShelfFacts, MarkVerified
<1>6. shelf' \in StoreType(GoodLaws, ShelfFacts) /\ shelf'.mem = laws
  BY <1>4, <1>5, ShelfKnown, PutKeeps
<1> QED BY <1>1, <1>4, <1>6, LawsGrowQuietly

LEMMA SyncKeeps ==
  ASSUME ShelfInv, NEW s \in Syncs, NEW w \in Windows, NEW retried \in BOOLEAN, Sync(s, w, retried)
  PROVE  ShelfInv'
<1>1. PICK sync : sync = [pc |-> "register", window |-> w, left |-> <<>>]
  OBVIOUS
<1>2. syncs' = [syncs EXCEPT ![s] = sync] /\ shelf' = Save(shelf, shelf.mem, s) /\ s \in ShelfFacts
  BY <1>1 DEF Sync, RegisterSource, PutShelf, ShelfFacts
<1>3. sync \in SyncType /\ sync.pc = "register" /\ sync.window = w
  BY <1>1 DEF SyncType
<1>4. shelf' \in StoreType(GoodLaws, ShelfFacts) /\ shelf'.mem = shelf.mem
  BY <1>2, ShelfKnown, PutKeeps
<1>5. SyncHolds(sync, shelf'.mem)
  BY <1>3 DEF SyncHolds
<1> QED BY <1>2, <1>3, <1>4, <1>5, SyncGoes

LEMMA CollectKeeps ==
  ASSUME ShelfInv, NEW s \in Syncs, Collect(s)
  PROVE  ShelfInv'
<1>1. syncs[s] \in SyncType /\ syncs[s].window \in Windows
  BY ShelfKnown DEF Collect, SyncHolds
<1>2. PICK items : items = Wire[syncs[s].window].items
  OBVIOUS
<1>3. items \in Seq(Texts)
  BY <1>1, <1>2
<1>4. PICK sync : sync = [syncs[s] EXCEPT !.pc = "items", !.left = items]
  OBVIOUS
<1>5. syncs \in [Syncs -> SyncType]
  BY ShelfKnown
<1>6. syncs' = [syncs EXCEPT ![s] = sync] /\ shelf' = [shelf EXCEPT !.acked = @ \ {s}]
  BY <1>2, <1>4, <1>5 DEF Collect, Told
<1>7. sync \in SyncType /\ sync.pc = "items"
  BY <1>1, <1>3, <1>4 DEF SyncType
<1>8. shelf' \in StoreType(GoodLaws, ShelfFacts) /\ shelf'.mem = shelf.mem
  BY <1>6, ShelfKnown, ForgottenKeeps
<1>9. SyncHolds(sync, shelf'.mem)
  BY <1>7 DEF SyncHolds
<1> QED BY <1>6, <1>7, <1>8, <1>9, SyncGoes

LEMMA ShelveKeeps ==
  ASSUME ShelfInv, NEW s \in Syncs, ShelveItem(s)
  PROVE  ShelfInv'
<1>1. syncs[s] \in SyncType /\ syncs[s].left # <<>> /\ shelf.mem \in GoodLaws
  BY ShelfKnown DEF ShelveItem
<1>2. PICK text \in Texts : text = Head(syncs[s].left)
  BY <1>1 DEF SyncType
<1>3. PICK to \in {"filed", "filing"} : to = IF shelf.mem[text].filed THEN "filed" ELSE "filing"
  OBVIOUS
<1>4. PICK sync : sync = [syncs[s] EXCEPT !.pc = to]
  OBVIOUS
<1>5. syncs \in [Syncs -> SyncType]
  BY ShelfKnown
<1>6. syncs' = [syncs EXCEPT ![s] = sync]
  BY <1>2, <1>3, <1>4, <1>5 DEF ShelveItem
<1>7. sync \in SyncType /\ sync.pc = to /\ sync.left = syncs[s].left
  BY <1>1, <1>4 DEF SyncType
<1>8. /\ shelf' \in StoreType(GoodLaws, ShelfFacts)
      /\ \A t \in Texts : shelf.mem[t].filed => shelf'.mem[t].filed
      /\ shelf'.mem[text].filed
  <2>1. CASE shelf.mem[text].filed
    BY <1>2, <2>1, ShelfKnown DEF ShelveItem
  <2>2. CASE ~shelf.mem[text].filed
    <3>1. PICK laws : laws = Ingested(shelf.mem, text, 1)
      OBVIOUS
    <3>2. /\ laws \in GoodLaws /\ laws[text].filed
          /\ \A t \in Texts : shelf.mem[t].filed => laws[t].filed
      BY <1>1, <2>2, <3>1, IngestedIsGood
    <3>3. shelf' = Save(shelf, laws, s) /\ s \in ShelfFacts
      BY <1>2, <2>2, <3>1 DEF ShelveItem, PutShelf, ShelfFacts
    <3>4. shelf' \in StoreType(GoodLaws, ShelfFacts) /\ shelf'.mem = laws
      BY <3>2, <3>3, ShelfKnown, PutKeeps
    <3> QED BY <3>2, <3>4
  <2> QED BY <2>1, <2>2
<1>9. SyncHolds(sync, shelf'.mem)
  BY <1>1, <1>2, <1>7, <1>8 DEF SyncHolds
<1> QED BY <1>6, <1>7, <1>8, <1>9, SyncGoes

\* An item filed by hand under another tier passes as that, too.
LEMMA CountKeeps ==
  ASSUME ShelfInv, NEW s \in Syncs, CountItem(s)
  PROVE  ShelfInv'
<1>1. /\ syncs[s] \in SyncType /\ shelf.mem \in GoodLaws
      /\ syncs[s].left # <<>> /\ shelf.mem[Head(syncs[s].left)].filed
  BY ShelfKnown DEF CountItem, SyncHolds
<1>0. syncs[s].left \in Seq(Texts)
  BY <1>1 DEF SyncType
<1>2. PICK text \in Texts : text = Head(syncs[s].left)
  BY <1>0, <1>1
<1>3. PICK rest \in Seq(Texts) : rest = Tail(syncs[s].left)
  BY <1>0, <1>1, HeadTailProperties
<1>4. PICK st : st = [shelf EXCEPT !.acked = @ \ {s}]
  OBVIOUS
<1>5. st \in StoreType(GoodLaws, ShelfFacts) /\ st.mem = shelf.mem
  BY <1>4, ShelfKnown, ForgottenKeeps
<1>6. PICK to \in {"items", "verifying"} :
          to = IF Validates(text, 1) /\ ~shelf.mem[text].verified THEN "verifying" ELSE "items"
  OBVIOUS
<1>7. PICK sync : sync = [syncs[s] EXCEPT !.pc = to, !.left = rest]
  OBVIOUS
<1>8. sync \in SyncType /\ sync.pc = to
  BY <1>1, <1>3, <1>7 DEF SyncType
<1>9. syncs' = [syncs EXCEPT ![s] = sync]
  <2>1. PICK next : next = [syncs[s] EXCEPT !.pc = "items", !.left = rest]
    OBVIOUS
  <2>2. CASE Validates(text, 1) /\ ~shelf.mem[text].verified
    <3>1. syncs' = [syncs EXCEPT ![s] = [next EXCEPT !.pc = "verifying"]]
      BY <1>2, <1>3, <2>1, <2>2 DEF CountItem
    <3>2. [next EXCEPT !.pc = "verifying"] = sync
      BY <1>1, <1>6, <1>7, <2>1, <2>2 DEF SyncType
    <3> QED BY <3>1, <3>2
  <2>3. CASE ~(Validates(text, 1) /\ ~shelf.mem[text].verified)
    <3>1. syncs' = [syncs EXCEPT ![s] = next]
      BY <1>2, <1>3, <2>1, <2>3 DEF CountItem
    <3>2. next = sync
      BY <1>6, <1>7, <2>1, <2>3
    <3> QED BY <3>1, <3>2
  <2> QED BY <2>2, <2>3
<1>10. SyncHolds(sync, shelf'.mem)
  BY <1>8 DEF SyncHolds
<1>11. /\ shelf' \in StoreType(GoodLaws, ShelfFacts)
       /\ \A t \in Texts : shelf.mem[t].filed => shelf'.mem[t].filed
  <2>1. CASE Validates(text, 1) /\ ~shelf.mem[text].verified
    <3>1. PICK laws : laws = [shelf.mem EXCEPT ![text].verified = TRUE]
      OBVIOUS
    <3>2. Validates(text, shelf.mem[text].tier) /\ shelf.mem[text].filed
      BY <1>1, <1>2, <2>1 DEF Validates
    <3>3. laws \in GoodLaws /\ \A t \in Texts : shelf.mem[t].filed => laws[t].filed
      BY <1>1, <3>1, <3>2, MarkedIsGood
    <3>4. shelf' = Save(st, laws, s) /\ s \in ShelfFacts
      BY <1>2, <1>4, <2>1, <3>1 DEF CountItem, ShelfFacts, MarkVerified
    <3>5. shelf' \in StoreType(GoodLaws, ShelfFacts) /\ shelf'.mem = laws
      BY <1>5, <3>3, <3>4, PutKeeps
    <3> QED BY <3>3, <3>5
  <2>2. CASE ~(Validates(text, 1) /\ ~shelf.mem[text].verified)
    <3>1. shelf' = st
      BY <1>2, <1>4, <2>2 DEF CountItem
    <3> QED BY <1>5, <3>1
  <2> QED BY <2>1, <2>2
<1> QED BY <1>8, <1>9, <1>10, <1>11, SyncGoes

LEMMA ItemVerifiedKeeps ==
  ASSUME ShelfInv, NEW s \in Syncs, ItemVerified(s)
  PROVE  ShelfInv'
<1>1. syncs[s] \in SyncType /\ syncs \in [Syncs -> SyncType]
  BY ShelfKnown
<1>2. PICK sync : sync = [syncs[s] EXCEPT !.pc = "items"]
  OBVIOUS
<1>3. syncs' = [syncs EXCEPT ![s] = sync] /\ shelf' = [shelf EXCEPT !.acked = @ \ {s}]
  BY <1>1, <1>2 DEF ItemVerified, Told
<1>4. sync \in SyncType /\ sync.pc = "items"
  BY <1>1, <1>2 DEF SyncType
<1>5. shelf' \in StoreType(GoodLaws, ShelfFacts) /\ shelf'.mem = shelf.mem
  BY <1>3, ShelfKnown, ForgottenKeeps
<1>6. SyncHolds(sync, shelf'.mem)
  BY <1>4 DEF SyncHolds
<1> QED BY <1>3, <1>4, <1>5, <1>6, SyncGoes

LEMMA IdleSync ==
  NoSync \in SyncType /\ \A laws : SyncHolds(NoSync, laws)
<1>1. NoSync \in SyncType
  BY DEF NoSync, SyncType
<1> QED BY <1>1 DEF NoSync, SyncHolds

LEMMA EndSyncKeeps ==
  ASSUME ShelfInv, NEW s \in Syncs, EndSync(s) \/ SyncFails(s)
  PROVE  ShelfInv'
<1>1. syncs' = [syncs EXCEPT ![s] = NoSync] /\ UNCHANGED shelf
  BY DEF EndSync, SyncFails, CloseJob
<1> QED BY <1>1, IdleSync, ShelfKnown, SyncGoes

\* A put lands or fails: memory stays.
LEMMA ShelfSettles ==
  ASSUME ShelfInv, ShelfPutLands \/ ShelfPutFails
  PROVE  ShelfInv'
<1>1. UNCHANGED syncs /\ (UNCHANGED shelf \/ shelf' \in Settles(shelf, TRUE))
  BY DEF ShelfPutLands, ShelfPutFails, SettleBy, Settles
<1>2. shelf \in StoreType(GoodLaws, ShelfFacts)
  BY ShelfKnown
<1>3. shelf' \in StoreType(GoodLaws, ShelfFacts) /\ shelf'.mem = shelf.mem
  <2>1. CASE shelf' \in Settles(shelf, TRUE)
    <3>1. shelf' \in StoreType(GoodLaws, ShelfFacts) /\ SameInMemory(shelf, shelf')
      BY <1>2, <2>1, SettlingType
    <3> QED BY <3>1 DEF SameInMemory
  <2> QED BY <1>1, <1>2, <2>1
<1> QED BY <1>1, <1>3, LawsGrowQuietly

LEMMA EmptyShelfIsGood == EmptyShelf \in GoodLaws
<1>1. NotFiled \in LawType /\ ~NotFiled.filed /\ ~NotFiled.inForce /\ ~NotFiled.verified
  BY DEF NotFiled, LawType
<1>2. EmptyShelf \in [Texts -> LawType] /\ \A t \in Texts : EmptyShelf[t] = NotFiled
  BY <1>1 DEF EmptyShelf
<1>3. \A t \in Texts : LawKept(EmptyShelf, t)
  BY <1>1, <1>2 DEF LawKept
<1> QED BY <1>2, <1>3 DEF GoodLaws

\* The process ends; what is read then is what was put.
LEMMA ShelfRestarts ==
  ASSUME ShelfInv, ShelfRestart
  PROVE  ShelfInv'
<1>1. shelf \in StoreType(GoodLaws, ShelfFacts)
  BY ShelfKnown
<1>2. PICK dead : dead = Crash(shelf, EmptyShelf)
  OBVIOUS
<1>3. dead \in StoreType(GoodLaws, ShelfFacts)
  BY <1>1, <1>2, CrashedStore, EmptyShelfIsGood
<1>4. PICK quiet : quiet = [dead EXCEPT !.acked = @ \ Syncs]
  OBVIOUS
<1>5. quiet \in StoreType(GoodLaws, ShelfFacts)
  <2>1. PICK acked : acked = dead.acked \ Syncs
    OBVIOUS
  <2>2. acked \in SUBSET ShelfFacts
    BY <1>3, <2>1, StoreFields
  <2>3. quiet = [dead EXCEPT !.acked = acked]
    BY <1>4, <2>1
  <2> QED BY <1>3, <2>2, <2>3 DEF StoreType
<1>6. shelf' = Load(quiet) /\ syncs' = [s \in Syncs |-> NoSync]
  BY <1>2, <1>4 DEF ShelfRestart
<1>7. shelf' \in StoreType(GoodLaws, ShelfFacts)
  BY <1>5, <1>6, LoadedStore
<1>8. syncs' \in [Syncs -> SyncType] /\ \A s \in Syncs : syncs'[s] = NoSync
  BY <1>6, IdleSync
<1>9. \A s \in Syncs : SyncHolds(syncs'[s], shelf'.mem)
  BY <1>8, IdleSync
<1> QED BY <1>7, <1>8, <1>9 DEF ShelfInv

LEMMA ShelfBegins ==
  ASSUME ShelfInit
  PROVE  ShelfInv
<1>1. shelf \in StoreType(GoodLaws, ShelfFacts)
  BY EmptyShelfIsGood, NewStoreType, LoadedStore DEF ShelfInit
<1>2. syncs \in [Syncs -> SyncType] /\ \A s \in Syncs : syncs[s] = NoSync
  BY IdleSync DEF ShelfInit
<1> QED BY <1>1, <1>2, IdleSync DEF ShelfInv

LEMMA ShelfStep ==
  ASSUME ShelfInv, [ShelfNext]_shelfVars
  PROVE  ShelfInv'
<1>1. CASE \E text \in Texts, tier \in HandTiers : IngestByHand(text, tier)
  BY <1>1, IngestKeeps
<1>2. CASE \E text \in Texts : VerifyByHand(text)
  BY <1>2, VerifyKeeps
<1>3. CASE \E s \in Syncs, w \in Windows, retried \in BOOLEAN : Sync(s, w, retried)
  BY <1>3, SyncKeeps
<1>4. ASSUME NEW s \in Syncs,
             \/ Collect(s) \/ ShelveItem(s) \/ CountItem(s) \/ ItemVerified(s)
             \/ EndSync(s) \/ SyncFails(s)
      PROVE  ShelfInv'
  BY <1>4, CollectKeeps, ShelveKeeps, CountKeeps, ItemVerifiedKeeps, EndSyncKeeps
<1>5. CASE StartRebuild \/ EndRebuild \/ RebuildFails \/ UNCHANGED shelfVars
  BY <1>5 DEF StartRebuild, EndRebuild, RebuildFails, shelfVars, ShelfInv
<1>6. CASE ShelfPutLands \/ ShelfPutFails
  BY <1>6, ShelfSettles
<1>7. CASE ShelfRestart
  BY <1>7, ShelfRestarts
<1> QED BY <1>1, <1>2, <1>3, <1>4, <1>5, <1>6, <1>7 DEF ShelfNext

LEMMA ShelfIsTrue ==
  ASSUME ShelfInv
  PROVE  ShelfKept
<1>1. ASSUME NEW laws \in ShelfDocs
      PROVE  laws \in GoodLaws
  BY <1>1, StoreFields DEF ShelfInv, ShelfDocs
<1>2. VerifiedIsSound
  BY <1>1, GoodLawsAre DEF VerifiedIsSound, LawKept
<1>3. ASSUME NEW laws \in ShelfDocs, NEW t \in Texts, laws[t].filed
      PROVE  LET versions == AnyVersion(laws, t) IN
             /\ Cardinality({v \in versions : laws[v].inForce}) = 1
             /\ Cardinality({v \in versions : laws[v].supersedes = None}) = 1
             /\ \A v \in versions : laws[v].supersedes # None =>
                    /\ laws[v].supersedes \in versions \ {v}
                    /\ ~laws[laws[v].supersedes].inForce
                    /\ \A u \in versions : laws[u].supersedes = laws[v].supersedes => u = v
  <2>1. laws \in GoodLaws /\ LawKept(laws, t)
    BY <1>1, GoodLawsAre
  <2>2. OneInForce(laws, t) /\ OneFirst(laws, t)
    BY <1>3, <2>1 DEF LawKept
  <2>3. Cardinality({v \in AnyVersion(laws, t) : laws[v].inForce}) = 1
    <3>1. PICK v : {u \in AnyVersion(laws, t) : laws[u].inForce} = {v}
      BY <2>2 DEF OneInForce
    <3> QED BY <3>1, FS_Singleton
  <2>4. Cardinality({v \in AnyVersion(laws, t) : laws[v].supersedes = None}) = 1
    <3>1. PICK v : {u \in AnyVersion(laws, t) : laws[u].supersedes = None} = {v}
      BY <2>2 DEF OneFirst
    <3> QED BY <3>1, FS_Singleton
  <2>5. ASSUME NEW v \in AnyVersion(laws, t), laws[v].supersedes # None
        PROVE  /\ laws[v].supersedes \in AnyVersion(laws, t) \ {v}
               /\ ~laws[laws[v].supersedes].inForce
               /\ \A u \in AnyVersion(laws, t) : laws[u].supersedes = laws[v].supersedes => u = v
    <3>1. v \in Texts /\ laws[v].filed /\ Titled[v] = Titled[t]
      BY VersionsOfATitle
    <3>2. LinkedBack(laws, v)
      BY <2>1, <3>1, GoodLawsAre DEF LawKept
    <3>3. \A u : u \in AnyVersion(laws, v) <=> u \in AnyVersion(laws, t)
      BY <3>1, VersionsOfATitle
    <3> QED BY <2>5, <3>2, <3>3 DEF LinkedBack
  <2> QED BY <2>3, <2>4, <2>5
<1>4. OneVersionInForce
  BY <1>3 DEF OneVersionInForce
<1> QED BY <1>2, <1>4 DEF ShelfKept

\* Whoever files, verifies and syncs at once, and however the puts and the
\* processes end (corpus.service.ts, ingestion-worker.service.ts): every title
\* on the shelf has one version in force, the links from it lead back through
\* the others, and nothing is verified that its tier's rules would refuse.
THEOREM TheShelfIsKept == ShelfSpec => []ShelfKept
<1>1. ShelfInit => ShelfInv
  BY ShelfBegins
<1>2. ShelfInv /\ [ShelfNext]_shelfVars => ShelfInv'
  BY ShelfStep
<1>3. ShelfInv => ShelfKept
  BY ShelfIsTrue
<1> QED BY <1>1, <1>2, <1>3, PTL DEF ShelfSpec

HIDE ShelfAssumption
HIDE NoneAssumption

-----------------------------------------------------------------------------
(* Signatures.                                                              *)

RecordType == [id : Nat, signer : Signers, by : Nat, publicKey : Nat, revoked : BOOLEAN]
PairDocs == [Signers -> Nat]
SignatureFacts == {"pair", "signed", "revoked"} \X Nat

\* The lists of signatures there may be once so many have been made, these of
\* them with the key on file: each has a number of its own, and is good on the
\* face of it if it was made so.
SigDocs(good, made) ==
    {doc \in Seq(RecordType) :
        /\ \A i \in 1..Len(doc) : /\ doc[i].id \in 1..made
                                  /\ doc[i].by = doc[i].publicKey <=> doc[i].id \in good
        /\ \A i, j \in 1..Len(doc) : doc[i].id = doc[j].id => i = j}

OnRecord(id) ==
    {doc \in Seq(RecordType) : \E i \in 1..Len(doc) : doc[i].id = id}

RevokedIn(id) ==
    {doc \in OnRecord(id) : \A i \in 1..Len(doc) : doc[i].id = id => doc[i].revoked}

AllOf(docs) == {put \in Puts(Seq(RecordType), SignatureFacts) : put.doc \in docs}

SignaturesInv ==
    /\ signing \in [keys : Nat, made : Nat, faults : Nat, good : SUBSET Nat]
    /\ \A id \in signing.good : id <= signing.made
    /\ sigs \in StoreType(SigDocs(signing.good, signing.made), SignatureFacts)
    /\ Quiet(sigs)
    /\ pairs \in StoreType(PairDocs, SignatureFacts)
    /\ \A id \in Nat :
           /\ Follows(sigs, <<"signed", id>>, OnRecord(id), AllOf(OnRecord(id)))
           /\ Follows(sigs, <<"revoked", id>>, RevokedIn(id), AllOf(RevokedIn(id)))

USE SignatureAssumption

LEMMA DocsAre ==
  ASSUME NEW good, NEW made, NEW doc \in SigDocs(good, made)
  PROVE  /\ doc \in Seq(RecordType) /\ Len(doc) \in Nat /\ DOMAIN doc = 1..Len(doc)
         /\ \A i \in 1..Len(doc) :
                /\ doc[i] \in RecordType
                /\ doc[i].id \in 1..made
                /\ doc[i].by = doc[i].publicKey <=> doc[i].id \in good
         /\ \A i, j \in 1..Len(doc) : doc[i].id = doc[j].id => i = j
BY DEF SigDocs

\* A store of some documents is a store of more.
LEMMA MoreDocs ==
  ASSUME NEW docs, NEW more, docs \subseteq more, NEW facts, NEW st \in StoreType(docs, facts)
  PROVE  st \in StoreType(more, facts)
<1>1. [doc : docs, fact : facts] \subseteq [doc : more, fact : facts]
  OBVIOUS
<1>2. Seq([doc : docs, fact : facts]) \subseteq Seq([doc : more, fact : facts])
  BY <1>1, SeqMonotonic
<1>3. PICK P, Q : P = Seq([doc : docs, fact : facts]) /\ Q = Seq([doc : more, fact : facts])
  OBVIOUS
<1>4. st \in [mem : docs, loaded : BOOLEAN, disk : docs, puts : P, acked : SUBSET facts]
  BY <1>3 DEF StoreType
<1>5. st \in [mem : more, loaded : BOOLEAN, disk : more, puts : Q, acked : SUBSET facts]
  BY <1>2, <1>3, <1>4
<1> QED BY <1>3, <1>5 DEF StoreType

\* One more signature, under the next number.
LEMMA OneMore ==
  ASSUME NEW good \in SUBSET Nat, NEW made \in Nat, NEW doc \in SigDocs(good, made),
         NEW record \in RecordType, record.id = made + 1,
         NEW more \in SUBSET Nat, more \ {made + 1} = good \ {made + 1},
         record.by = record.publicKey <=> made + 1 \in more,
         NEW new, new = Append(doc, record)
  PROVE  /\ new \in SigDocs(more, made + 1)
         /\ SigDocs(good, made) \subseteq SigDocs(more, made + 1)
         /\ new \in OnRecord(made + 1)
         /\ \A id \in Nat : /\ doc \in OnRecord(id) => new \in OnRecord(id)
                            /\ doc \in RevokedIn(id) => new \in RevokedIn(id)
<1>1. /\ doc \in Seq(RecordType) /\ Len(doc) \in Nat
      /\ \A i \in 1..Len(doc) :
             /\ doc[i] \in RecordType
             /\ doc[i].id \in 1..made
             /\ doc[i].by = doc[i].publicKey <=> doc[i].id \in good
      /\ \A i, j \in 1..Len(doc) : doc[i].id = doc[j].id => i = j
  BY DocsAre
<1>2. /\ new \in Seq(RecordType) /\ Len(new) = Len(doc) + 1 /\ new[Len(doc) + 1] = record
      /\ \A i \in 1..Len(doc) : new[i] = doc[i]
      /\ \A i \in 1..Len(new) : i \in 1..Len(doc) \/ i = Len(doc) + 1
      /\ Len(doc) + 1 \in 1..Len(new) /\ \A i \in 1..Len(doc) : i \in 1..Len(new)
  BY <1>1
<1>3. \A id \in 1..made : id \in 1..(made + 1) /\ id # made + 1 /\ (id \in good <=> id \in more)
  OBVIOUS
<1>4. made + 1 \in 1..(made + 1)
  OBVIOUS
<1>5. \A i \in 1..Len(new) :
          /\ new[i].id \in 1..(made + 1)
          /\ new[i].by = new[i].publicKey <=> new[i].id \in more
  BY <1>1, <1>2, <1>3, <1>4
<1>6. \A i, j \in 1..Len(new) : new[i].id = new[j].id => i = j
  BY <1>1, <1>2, <1>3
<1>7. new \in SigDocs(more, made + 1)
  BY <1>2, <1>5, <1>6 DEF SigDocs
<1>8. ASSUME NEW old \in SigDocs(good, made)
      PROVE  old \in SigDocs(more, made + 1)
  BY <1>3, DocsAre DEF SigDocs
<1>9. new \in OnRecord(made + 1)
  BY <1>2 DEF OnRecord
<1>10. ASSUME NEW id \in Nat
       PROVE  /\ doc \in OnRecord(id) => new \in OnRecord(id)
              /\ doc \in RevokedIn(id) => new \in RevokedIn(id)
  <2>1. doc \in OnRecord(id) => new \in OnRecord(id)
    BY <1>2 DEF OnRecord
  <2>2. ASSUME doc \in RevokedIn(id)
        PROVE  new \in RevokedIn(id)
    <3>1. PICK i \in 1..Len(doc) : doc[i].id = id
      BY <2>2 DEF RevokedIn, OnRecord
    <3>2. record.id # id
      BY <1>1, <3>1
    <3>3. \A k \in 1..Len(doc) : doc[k].id = id => doc[k].revoked
      BY <2>2 DEF RevokedIn
    <3>4. new \in OnRecord(id)
      BY <2>1, <2>2 DEF RevokedIn
    <3> QED BY <1>2, <3>2, <3>3, <3>4 DEF RevokedIn
  <2> QED BY <2>1, <2>2
<1> QED BY <1>7, <1>8, <1>9, <1>10

\* One signature is revoked: it stays on record, and so do the others.
LEMMA OneRevoked ==
  ASSUME NEW good, NEW made \in Nat, NEW doc \in SigDocs(good, made), NEW i \in 1..Len(doc),
         NEW record \in RecordType, record.id = doc[i].id, record.by = doc[i].by,
         record.publicKey = doc[i].publicKey, record.revoked,
         NEW new, new = [doc EXCEPT ![i] = record]
  PROVE  /\ new \in SigDocs(good, made)
         /\ new \in RevokedIn(doc[i].id)
         /\ \A id \in Nat : /\ doc \in OnRecord(id) => new \in OnRecord(id)
                            /\ doc \in RevokedIn(id) => new \in RevokedIn(id)
<1>1. /\ doc \in Seq(RecordType) /\ Len(doc) \in Nat /\ DOMAIN doc = 1..Len(doc)
      /\ \A k \in 1..Len(doc) :
             /\ doc[k] \in RecordType
             /\ doc[k].id \in 1..made
             /\ doc[k].by = doc[k].publicKey <=> doc[k].id \in good
      /\ \A k, j \in 1..Len(doc) : doc[k].id = doc[j].id => k = j
  BY DocsAre
<1>3. /\ record \in RecordType /\ record.id = doc[i].id /\ record.by = doc[i].by
      /\ record.publicKey = doc[i].publicKey /\ record.revoked
  OBVIOUS
<1>5. /\ new \in Seq(RecordType) /\ Len(new) = Len(doc) /\ new[i] = record
      /\ \A k \in 1..Len(doc) : k # i => new[k] = doc[k]
  <2>1. new = [k \in 1..Len(doc) |-> IF k = i THEN record ELSE doc[k]]
    BY <1>1
  <2>2. /\ [doc EXCEPT ![i] = record] \in Seq(RecordType)
        /\ Len([doc EXCEPT ![i] = record]) = Len(doc)
    BY <1>1, <1>3, ExceptSeq
  <2> QED BY <2>1, <2>2
<1>6. \A k \in 1..Len(doc) : /\ new[k].id = doc[k].id /\ new[k].by = doc[k].by
                             /\ new[k].publicKey = doc[k].publicKey
                             /\ doc[k].revoked => new[k].revoked
  BY <1>3, <1>5
<1>7. new \in SigDocs(good, made)
  <2>1. \A k \in 1..Len(new) : /\ new[k].id \in 1..made
                               /\ new[k].by = new[k].publicKey <=> new[k].id \in good
    BY <1>1, <1>5, <1>6
  <2>2. \A k, j \in 1..Len(new) : new[k].id = new[j].id => k = j
    BY <1>1, <1>5, <1>6
  <2> QED BY <1>5, <2>1, <2>2 DEF SigDocs
<1>8. new \in RevokedIn(doc[i].id)
  <2>1. \A k \in 1..Len(new) : new[k].id = doc[i].id => new[k].revoked
    BY <1>1, <1>3, <1>5, <1>6
  <2> QED BY <1>3, <1>5, <2>1 DEF RevokedIn, OnRecord
<1>9. ASSUME NEW id \in Nat
      PROVE  /\ doc \in OnRecord(id) => new \in OnRecord(id)
             /\ doc \in RevokedIn(id) => new \in RevokedIn(id)
  <2>1. doc \in OnRecord(id) => new \in OnRecord(id)
    BY <1>5, <1>6 DEF OnRecord
  <2>2. ASSUME doc \in RevokedIn(id)
        PROVE  new \in RevokedIn(id)
    <3>1. doc \in OnRecord(id) /\ \A k \in 1..Len(doc) : doc[k].id = id => doc[k].revoked
      BY <2>2 DEF RevokedIn
    <3>2. \A k \in 1..Len(new) : new[k].id = id => new[k].revoked
      BY <1>5, <1>6, <3>1
    <3> QED BY <2>1, <3>1, <3>2 DEF RevokedIn
  <2> QED BY <2>1, <2>2
<1> QED BY <1>7, <1>8, <1>9


LEMMA TypedSignatures ==
  ASSUME SignaturesInv
  PROVE  /\ signing.keys \in Nat /\ signing.made \in Nat /\ signing.good \in SUBSET Nat
         /\ sigs.mem \in SigDocs(signing.good, signing.made)
         /\ pairs.mem \in PairDocs
BY StoreFields DEF SignaturesInv

\* A step that leaves the signatures to rest, whatever the pairs do.
LEMMA SignaturesRest ==
  ASSUME SignaturesInv,
         Rests(sigs, sigs', SigDocs(signing.good, signing.made)),
         pairs' \in StoreType(PairDocs, SignatureFacts),
         \/ signing' = signing
         \/ signing' = [signing EXCEPT !.faults = @ + 1]
         \/ signing' = [signing EXCEPT !.keys = @ + 1]
  PROVE  SignaturesInv'
<1>1. PICK g : g = signing'
  OBVIOUS
<1>2. /\ g \in [keys : Nat, made : Nat, faults : Nat, good : SUBSET Nat]
      /\ g.good = signing.good /\ g.made = signing.made
  BY <1>1 DEF SignaturesInv
<1>3. PICK docs : docs = SigDocs(signing.good, signing.made)
  OBVIOUS
<1>4. PICK st, st2 : st = sigs /\ st2 = sigs'
  OBVIOUS
<1>5. st \in StoreType(docs, SignatureFacts) /\ Quiet(st) /\ Rests(st, st2, docs)
  BY <1>3, <1>4 DEF SignaturesInv
<1>6. st2 \in StoreType(docs, SignatureFacts) /\ Quiet(st2)
  BY <1>5, RestingType
<1>7. ASSUME NEW id \in Nat
      PROVE  /\ Follows(st2, <<"signed", id>>, OnRecord(id), AllOf(OnRecord(id)))
             /\ Follows(st2, <<"revoked", id>>, RevokedIn(id), AllOf(RevokedIn(id)))
  <2>1. /\ Follows(st, <<"signed", id>>, OnRecord(id), AllOf(OnRecord(id)))
        /\ Follows(st, <<"revoked", id>>, RevokedIn(id), AllOf(RevokedIn(id)))
    BY <1>4 DEF SignaturesInv
  <2>2. \A D : \A p \in AllOf(D) : p.doc \in D
    BY DEF AllOf
  <2>3. Follows(st2, <<"signed", id>>, OnRecord(id), AllOf(OnRecord(id)))
    BY <1>5, <2>1, <2>2, RestingFollows
  <2>4. Follows(st2, <<"revoked", id>>, RevokedIn(id), AllOf(RevokedIn(id)))
    BY <1>5, <2>1, <2>2, RestingFollows
  <2> QED BY <2>3, <2>4
<1>8. SigDocs(g.good, g.made) = docs
  BY <1>2, <1>3
<1>9. sigs' \in StoreType(SigDocs(g.good, g.made), SignatureFacts) /\ Quiet(sigs')
  BY <1>4, <1>6, <1>8
<1>10. \A id \in g.good : id <= g.made
  BY <1>2 DEF SignaturesInv
<1>11. pairs' \in StoreType(PairDocs, SignatureFacts)
  OBVIOUS
<1> QED BY <1>1, <1>2, <1>4, <1>7, <1>9, <1>10, <1>11 DEF SignaturesInv

\* What a put of new signatures must be for what was said to stay said.
LEMMA SignaturesSaved ==
  ASSUME SignaturesInv, Ready,
         NEW good \in SUBSET Nat, NEW made \in Nat, \A id \in good : id <= made,
         SigDocs(signing.good, signing.made) \subseteq SigDocs(good, made),
         NEW doc \in SigDocs(good, made),
         NEW what \in {"pair", "signed", "revoked"}, NEW n \in Nat,
         \A id \in Nat : /\ sigs.mem \in OnRecord(id) => doc \in OnRecord(id)
                         /\ sigs.mem \in RevokedIn(id) => doc \in RevokedIn(id),
         what = "signed" => doc \in OnRecord(n),
         what = "revoked" => doc \in RevokedIn(n),
         sigs' = Save(sigs, doc, <<what, n>>),
         pairs' \in StoreType(PairDocs, SignatureFacts),
         signing' \in [keys : Nat, made : Nat, faults : Nat, good : SUBSET Nat],
         signing'.good = good, signing'.made = made
  PROVE  SignaturesInv'
<1>1. PICK docs : docs = SigDocs(good, made)
  OBVIOUS
<1>2. PICK st, st2, new : st = sigs /\ st2 = sigs' /\ new = <<what, n>>
  OBVIOUS
<1>3. st \in StoreType(docs, SignatureFacts) /\ st.loaded
  BY <1>1, <1>2, MoreDocs DEF SignaturesInv, Ready
<1>4. doc \in docs /\ new \in SignatureFacts /\ st2 = Save(st, doc, new)
  BY <1>1, <1>2 DEF SignatureFacts
<1>5. st2 \in StoreType(docs, SignatureFacts)
  BY <1>3, <1>4, SavedStore
<1>6. SavedAs(st, st2, doc, new)
  BY <1>3, <1>4, SavedStore
<1>7. Quiet(st2)
  BY <1>3, <1>6 DEF SavedAs, Quiet
<1>8. doc \in Seq(RecordType)
  BY DEF SigDocs
<1>9. [doc |-> doc, fact |-> new] \in Puts(Seq(RecordType), SignatureFacts)
  BY <1>4, <1>8 DEF Puts
<1>10. ASSUME NEW id \in Nat
       PROVE  /\ Follows(st2, <<"signed", id>>, OnRecord(id), AllOf(OnRecord(id)))
              /\ Follows(st2, <<"revoked", id>>, RevokedIn(id), AllOf(RevokedIn(id)))
  <2>1. /\ Follows(st, <<"signed", id>>, OnRecord(id), AllOf(OnRecord(id)))
        /\ Follows(st, <<"revoked", id>>, RevokedIn(id), AllOf(RevokedIn(id)))
    BY <1>2 DEF SignaturesInv
  <2>2. /\ st.mem \in OnRecord(id) => doc \in OnRecord(id)
        /\ st.mem \in RevokedIn(id) => doc \in RevokedIn(id)
    BY <1>2
  <2>3. /\ doc \in OnRecord(id) => [doc |-> doc, fact |-> new] \in AllOf(OnRecord(id))
        /\ doc \in RevokedIn(id) => [doc |-> doc, fact |-> new] \in AllOf(RevokedIn(id))
    BY <1>9 DEF AllOf
  <2>4. /\ new = <<"signed", id>> => doc \in OnRecord(id)
        /\ new = <<"revoked", id>> => doc \in RevokedIn(id)
    BY <1>2
  <2>5. Follows(st2, <<"signed", id>>, OnRecord(id), AllOf(OnRecord(id)))
    <3>1. st.mem \in OnRecord(id) =>
            doc \in OnRecord(id) /\ [doc |-> doc, fact |-> new] \in AllOf(OnRecord(id))
      BY <2>2, <2>3
    <3> QED BY <1>3, <1>4, <2>1, <2>4, <3>1, SavingFollows
  <2>6. Follows(st2, <<"revoked", id>>, RevokedIn(id), AllOf(RevokedIn(id)))
    <3>1. st.mem \in RevokedIn(id) =>
            doc \in RevokedIn(id) /\ [doc |-> doc, fact |-> new] \in AllOf(RevokedIn(id))
      BY <2>2, <2>3
    <3> QED BY <1>3, <1>4, <2>1, <2>4, <3>1, SavingFollows
  <2> QED BY <2>5, <2>6
<1> QED BY <1>1, <1>2, <1>5, <1>7, <1>10 DEF SignaturesInv

LEMMA PairsSaved ==
  ASSUME SignaturesInv, NEW doc \in PairDocs, NEW fact \in SignatureFacts
  PROVE  Save(pairs, doc, fact) \in StoreType(PairDocs, SignatureFacts)
BY SavedStore DEF SignaturesInv

LEMMA KeyPairKeepsSignatures ==
  ASSUME SignaturesInv, NEW s \in Signers, GenerateKeyPair(s)
  PROVE  SignaturesInv'
<1>1. PICK key : key = signing.keys + 1
  OBVIOUS
<1>2. key \in Nat /\ signing.made \in Nat /\ signing.good \in SUBSET Nat
  BY <1>1, TypedSignatures
<1>3. PICK file : file = [pairs.mem EXCEPT ![s] = key]
  OBVIOUS
<1>4. file \in PairDocs
  BY <1>2, <1>3, TypedSignatures DEF PairDocs
<1>5. /\ Ready
      /\ signing' = [signing EXCEPT !.keys = key]
      /\ sigs' = Save(sigs, sigs.mem, <<"pair", key>>)
      /\ pairs' = Save(pairs, file, <<"pair", key>>)
  BY <1>1, <1>3 DEF GenerateKeyPair, Both
<1>6. <<"pair", key>> \in SignatureFacts
  BY <1>2 DEF SignatureFacts
<1>7. pairs' \in StoreType(PairDocs, SignatureFacts)
  BY <1>4, <1>5, <1>6, PairsSaved
<1>8. /\ signing' \in [keys : Nat, made : Nat, faults : Nat, good : SUBSET Nat]
      /\ signing'.good = signing.good /\ signing'.made = signing.made
  BY <1>2, <1>5 DEF SignaturesInv
<1>9. sigs.mem \in SigDocs(signing.good, signing.made)
  BY TypedSignatures
<1>10. \A id \in signing.good : id <= signing.made
  BY DEF SignaturesInv
<1>11. "pair" \in {"pair", "signed", "revoked"} /\ "pair" # "signed" /\ "pair" # "revoked"
  OBVIOUS
<1> QED BY <1>2, <1>5, <1>7, <1>8, <1>9, <1>10, <1>11, SignaturesSaved

LEMMA SigningKeepsSignatures ==
  ASSUME SignaturesInv, NEW s \in Signers, NEW privateKey \in 1..MaxKeys, Sign(s, privateKey)
  PROVE  SignaturesInv'
<1>1. PICK id, good, made, doc :
        /\ id = signing.made + 1 /\ made = signing.made /\ good = signing.good
        /\ doc = sigs.mem
  OBVIOUS
<1>2. /\ made \in Nat /\ id = made + 1 /\ id \in Nat /\ good \in SUBSET Nat
      /\ doc \in SigDocs(good, made) /\ pairs.mem \in PairDocs
      /\ \A x \in good : x <= made
  <2>1. made \in Nat /\ good \in SUBSET Nat /\ doc \in SigDocs(good, made) /\ pairs.mem \in PairDocs
    BY <1>1, TypedSignatures
  <2>2. \A x \in good : x <= made
    BY <1>1 DEF SignaturesInv
  <2> QED BY <1>1, <2>1, <2>2
<1>3. PICK record : record = [id |-> id, signer |-> s, by |-> privateKey,
                              publicKey |-> pairs.mem[s], revoked |-> FALSE]
  OBVIOUS
<1>4. pairs.mem[s] \in Nat /\ privateKey \in Nat
  BY <1>2, SignatureAssumption DEF PairDocs
<1>5. /\ record \in RecordType /\ record.id = made + 1
      /\ record.by = record.publicKey <=> privateKey = pairs.mem[s]
  BY <1>2, <1>3, <1>4 DEF RecordType
<1>6. PICK more : more = IF privateKey = pairs.mem[s] THEN good \cup {id} ELSE good
  OBVIOUS
<1>7. id \notin good
  BY <1>2
<1>8. /\ more \in SUBSET Nat /\ more \ {made + 1} = good \ {made + 1}
      /\ \A x \in more : x <= made + 1
  BY <1>2, <1>6
<1>9. record.by = record.publicKey <=> made + 1 \in more
  BY <1>2, <1>5, <1>6, <1>7
<1>10. PICK new : new = Append(doc, record)
  OBVIOUS
<1>11. /\ new \in SigDocs(more, made + 1)
       /\ SigDocs(good, made) \subseteq SigDocs(more, made + 1)
       /\ new \in OnRecord(made + 1)
       /\ \A x \in Nat : /\ doc \in OnRecord(x) => new \in OnRecord(x)
                         /\ doc \in RevokedIn(x) => new \in RevokedIn(x)
  BY <1>2, <1>5, <1>8, <1>9, <1>10, OneMore
<1>12. /\ Ready
       /\ signing' = [signing EXCEPT !.made = id, !.good = more]
       /\ sigs' = Save(sigs, new, <<"signed", id>>)
       /\ pairs' = Save(pairs, pairs.mem, <<"signed", id>>)
  BY <1>1, <1>3, <1>6, <1>10 DEF Sign, Both
<1>13. <<"signed", id>> \in SignatureFacts
  BY <1>2 DEF SignatureFacts
<1>14. pairs' \in StoreType(PairDocs, SignatureFacts)
  BY <1>2, <1>12, <1>13, PairsSaved
<1>15. /\ signing' \in [keys : Nat, made : Nat, faults : Nat, good : SUBSET Nat]
       /\ signing'.good = more /\ signing'.made = id
  BY <1>2, <1>8, <1>12 DEF SignaturesInv
<1>16. "signed" \in {"pair", "signed", "revoked"} /\ "signed" # "revoked"
  OBVIOUS
<1>17. /\ SigDocs(signing.good, signing.made) \subseteq SigDocs(more, id)
       /\ new \in SigDocs(more, id) /\ new \in OnRecord(id) /\ \A x \in more : x <= id
       /\ \A x \in Nat : /\ sigs.mem \in OnRecord(x) => new \in OnRecord(x)
                         /\ sigs.mem \in RevokedIn(x) => new \in RevokedIn(x)
  BY <1>1, <1>2, <1>8, <1>11
<1> QED BY <1>2, <1>8, <1>12, <1>14, <1>15, <1>16, <1>17, SignaturesSaved

LEMMA RevokingKeepsSignatures ==
  ASSUME SignaturesInv, NEW i \in 1..MaxSignatures, Revoke(i)
  PROVE  SignaturesInv'
<1>1. PICK good, made, doc :
        made = signing.made /\ good = signing.good /\ doc = sigs.mem
  OBVIOUS
<1>2. /\ made \in Nat /\ good \in SUBSET Nat
      /\ doc \in SigDocs(good, made) /\ pairs.mem \in PairDocs
      /\ \A x \in good : x <= made
  <2>1. made \in Nat /\ good \in SUBSET Nat /\ doc \in SigDocs(good, made) /\ pairs.mem \in PairDocs
    BY <1>1, TypedSignatures
  <2>2. \A x \in good : x <= made
    BY <1>1 DEF SignaturesInv
  <2> QED BY <2>1, <2>2
<1>3. DOMAIN doc = 1..Len(doc) /\ \A k \in 1..Len(doc) : doc[k].id \in 1..made
  BY <1>2, DocsAre
<1>4. i \in 1..Len(doc)
  BY <1>1, <1>3 DEF Revoke
<1>5. doc[i].id \in Nat
  BY <1>3, <1>4
<1>6. PICK id, new : id = doc[i].id /\ new = [doc EXCEPT ![i].revoked = TRUE]
  OBVIOUS
<1>14. PICK record : record = [doc[i] EXCEPT !.revoked = TRUE]
  OBVIOUS
<1>16. /\ record \in RecordType /\ record.id = doc[i].id /\ record.by = doc[i].by
       /\ record.publicKey = doc[i].publicKey /\ record.revoked
  <2>1. doc[i] \in RecordType
    BY <1>2, <1>4, DocsAre
  <2> QED BY <1>14, <2>1 DEF RecordType
<1>15. new = [doc EXCEPT ![i] = record]
  BY <1>6, <1>14
<1>7. /\ new \in SigDocs(good, made) /\ new \in RevokedIn(id)
      /\ \A x \in Nat : /\ doc \in OnRecord(x) => new \in OnRecord(x)
                        /\ doc \in RevokedIn(x) => new \in RevokedIn(x)
  <2>1. /\ new \in SigDocs(good, made) /\ new \in RevokedIn(doc[i].id)
        /\ \A x \in Nat : /\ doc \in OnRecord(x) => new \in OnRecord(x)
                          /\ doc \in RevokedIn(x) => new \in RevokedIn(x)
    BY <1>2, <1>4, <1>15, <1>16, OneRevoked
  <2> QED BY <1>6, <2>1
<1>8. /\ Ready /\ signing' = signing
      /\ sigs' = Save(sigs, new, <<"revoked", id>>)
      /\ pairs' = Save(pairs, pairs.mem, <<"revoked", id>>)
  BY <1>1, <1>6 DEF Revoke, Both
<1>9. <<"revoked", id>> \in SignatureFacts
  BY <1>5, <1>6 DEF SignatureFacts
<1>10. pairs' \in StoreType(PairDocs, SignatureFacts)
  BY <1>2, <1>8, <1>9, PairsSaved
<1>11. /\ signing' \in [keys : Nat, made : Nat, faults : Nat, good : SUBSET Nat]
       /\ signing'.good = good /\ signing'.made = made
  BY <1>1, <1>8 DEF SignaturesInv
<1>12. "revoked" \in {"pair", "signed", "revoked"} /\ "revoked" # "signed"
  OBVIOUS
<1>13. /\ SigDocs(signing.good, signing.made) \subseteq SigDocs(good, made)
       /\ \A x \in Nat : /\ sigs.mem \in OnRecord(x) => new \in OnRecord(x)
                         /\ sigs.mem \in RevokedIn(x) => new \in RevokedIn(x)
  BY <1>1, <1>7
<1> QED BY <1>2, <1>5, <1>6, <1>7, <1>8, <1>10, <1>11, <1>12, <1>13, SignaturesSaved

\* Puts that land or fail, crashes and first reads; the driver keeps the order.
LEMMA ResidueKeepsSignatures ==
  ASSUME SignaturesInv, InOrderDriver = TRUE,
         FirstUse \/ SignaturePutLands \/ SignaturePutFails \/ SignatureCrash
  PROVE  SignaturesInv'
<1>1. /\ sigs \in StoreType(SigDocs(signing.good, signing.made), SignatureFacts)
      /\ pairs \in StoreType(PairDocs, SignatureFacts)
  BY DEF SignaturesInv
<1>2. signing.made \in Nat
  BY TypedSignatures
<1>3. CASE FirstUse
  <2>1. Rests(sigs, sigs', SigDocs(signing.good, signing.made)) /\ signing' = signing
    BY <1>3 DEF FirstUse, Ready, Rests
  <2>2. pairs' \in StoreType(PairDocs, SignatureFacts)
    BY <1>1, <1>3, LoadedStore DEF FirstUse
  <2> QED BY <2>1, <2>2, SignaturesRest
<1>4. CASE SignaturePutLands \/ SignaturePutFails
  <2>1. \/ sigs' \in Settles(sigs, TRUE) /\ pairs' = pairs
        \/ pairs' \in Settles(pairs, TRUE) /\ sigs' = sigs
    BY <1>4 DEF SignaturePutLands, SignaturePutFails, Settles
  <2>2. signing' = signing \/ signing' = [signing EXCEPT !.faults = @ + 1]
    BY <1>4 DEF SignaturePutLands, SignaturePutFails
  <2>3. CASE sigs' \in Settles(sigs, TRUE) /\ pairs' = pairs
    <3>1. Rests(sigs, sigs', SigDocs(signing.good, signing.made))
      BY <2>3 DEF Rests
    <3> QED BY <1>1, <2>2, <2>3, <3>1, SignaturesRest
  <2>4. CASE pairs' \in Settles(pairs, TRUE) /\ sigs' = sigs
    <3>1. Rests(sigs, sigs', SigDocs(signing.good, signing.made))
      BY <2>4 DEF Rests
    <3>2. pairs' \in StoreType(PairDocs, SignatureFacts)
      BY <1>1, <2>4, SettlingType
    <3> QED BY <2>2, <3>1, <3>2, SignaturesRest
  <2> QED BY <2>1, <2>3, <2>4
<1>5. CASE SignatureCrash
  <2>1. <<>> \in SigDocs(signing.good, signing.made)
    BY <1>2 DEF SigDocs
  <2>2. Rests(sigs, sigs', SigDocs(signing.good, signing.made))
    BY <1>5, <2>1 DEF SignatureCrash, Rests
  <2>3. NoPairs \in PairDocs
    BY DEF NoPairs, PairDocs
  <2>4. pairs' \in StoreType(PairDocs, SignatureFacts)
    BY <1>1, <1>5, <2>3, CrashedStore DEF SignatureCrash
  <2>5. signing' = [signing EXCEPT !.faults = @ + 1]
    BY <1>5 DEF SignatureCrash
  <2> QED BY <2>2, <2>4, <2>5, SignaturesRest
<1> QED BY <1>3, <1>4, <1>5

LEMMA SignaturesStart == SignaturesInit => SignaturesInv
<1> SUFFICES ASSUME SignaturesInit PROVE SignaturesInv
  OBVIOUS
<1>1. signing.good = {} /\ signing.made = 0
      /\ signing \in [keys : Nat, made : Nat, faults : Nat, good : SUBSET Nat]
  BY DEF SignaturesInit
<1>2. <<>> \in SigDocs(signing.good, signing.made)
  BY <1>1 DEF SigDocs
<1>3. NoPairs \in PairDocs
  BY DEF NoPairs, PairDocs
<1>4. sigs \in StoreType(SigDocs(signing.good, signing.made), SignatureFacts) /\ Quiet(sigs)
  BY <1>2, NewStoreType DEF SignaturesInit
<1>5. pairs \in StoreType(PairDocs, SignatureFacts)
  BY <1>3, NewStoreType DEF SignaturesInit
<1>6. \A fact, D, P : Follows(sigs, fact, D, P)
  BY NewKeeps DEF SignaturesInit
<1> QED BY <1>1, <1>4, <1>5, <1>6 DEF SignaturesInv

LEMMA SignaturesStep ==
  ASSUME SignaturesInv, InOrderDriver = TRUE, [SignaturesNext]_signatureVars
  PROVE  SignaturesInv'
<1>1. CASE UNCHANGED signatureVars
  BY <1>1 DEF signatureVars, SignaturesInv
<1>2. ASSUME NEW s \in Signers, GenerateKeyPair(s) PROVE SignaturesInv'
  BY <1>2, KeyPairKeepsSignatures
<1>3. ASSUME NEW s \in Signers, NEW key \in 1..MaxKeys, Sign(s, key) PROVE SignaturesInv'
  BY <1>3, SigningKeepsSignatures
<1>4. ASSUME NEW i \in 1..MaxSignatures, Revoke(i) PROVE SignaturesInv'
  BY <1>4, RevokingKeepsSignatures
<1>5. ASSUME FirstUse \/ SignaturePutLands \/ SignaturePutFails \/ SignatureCrash
      PROVE SignaturesInv'
  BY <1>5, ResidueKeepsSignatures
<1> QED BY <1>1, <1>2, <1>3, <1>4, <1>5 DEF SignaturesNext

LEMMA SignaturesInvHolds == SignaturesInv => SignaturesStick
<1> SUFFICES ASSUME SignaturesInv PROVE SignaturesStick
  OBVIOUS
<1>1. PICK doc : doc = sigs.mem
  OBVIOUS
<1>2. /\ DOMAIN doc = 1..Len(doc)
      /\ \A i \in 1..Len(doc) : doc[i].by = doc[i].publicKey <=> doc[i].id \in signing.good
  BY <1>1, TypedSignatures, DocsAre
<1>3. \A i \in DOMAIN sigs.mem :
        Verifies(sigs.mem[i]) <=> ~sigs.mem[i].revoked /\ sigs.mem[i].id \in signing.good
  BY <1>1, <1>2 DEF Verifies
<1>4. ASSUME Ready, NEW id \in 1..MaxSignatures
      PROVE  /\ Reported("signed", id) => \E i \in DOMAIN sigs.mem : sigs.mem[i].id = id
             /\ Reported("revoked", id) => \A i \in DOMAIN sigs.mem :
                    sigs.mem[i].id = id => ~Verifies(sigs.mem[i])
  <2>1. id \in Nat
    BY SignatureAssumption
  <2>2. /\ Follows(sigs, <<"signed", id>>, OnRecord(id), AllOf(OnRecord(id)))
        /\ Follows(sigs, <<"revoked", id>>, RevokedIn(id), AllOf(RevokedIn(id)))
    BY <2>1 DEF SignaturesInv
  <2>3. Reported("signed", id) => doc \in OnRecord(id)
    BY <1>1, <1>4, <2>2 DEF Follows, Reported, Ready
  <2>4. Reported("revoked", id) => doc \in RevokedIn(id)
    BY <1>1, <1>4, <2>2 DEF Follows, Reported, Ready
  <2>5. doc \in OnRecord(id) => \E i \in 1..Len(doc) : doc[i].id = id
    BY DEF OnRecord
  <2>6. doc \in RevokedIn(id) => \A i \in 1..Len(doc) : doc[i].id = id => doc[i].revoked
    BY DEF RevokedIn
  <2> QED BY <1>1, <1>2, <2>3, <2>4, <2>5, <2>6 DEF Verifies
<1> QED BY <1>3, <1>4 DEF SignaturesStick

\* With a driver that keeps the order of the puts, a signature its signer was
\* told of stays on record and verifies if it was made with the key on file,
\* and one answered as revoked never verifies again, through failed puts and
\* crashes (signature.service.ts, sign(), revoke() and verify()).
THEOREM SignaturesStay ==
  ASSUME InOrderDriver = TRUE
  PROVE  SignaturesSpec => []SignaturesStick
<1>1. SignaturesInit => SignaturesInv
  BY SignaturesStart
<1>2. SignaturesInv /\ [SignaturesNext]_signatureVars => SignaturesInv'
  BY SignaturesStep
<1>3. SignaturesInv => SignaturesStick
  BY SignaturesInvHolds
<1> QED BY <1>1, <1>2, <1>3, PTL DEF SignaturesSpec

HIDE SignatureAssumption

-----------------------------------------------------------------------------
(* Wizard.                                                                  *)

WizardStates == [start : Nat, completed : Seq(STRING), finished : BOOLEAN]

\* The steps done are the first ones.
FirstSteps(done) ==
    /\ Len(done) <= Len(Steps)
    /\ \A i \in 1..Len(done) : done[i] = Steps[i]

\* The states a wizard may be in.
GoodStates ==
    {state \in WizardStates :
        /\ FirstSteps(state.completed)
        /\ state.finished => Len(state.completed) = Len(Steps)}

AskType ==
    {ask \in [op : Ops \cup {"none"}, step : STRING \cup {""}, read : GoodStates] :
        ask.op # "none" => ask.step \in Range(Steps)}

WizardInv ==
    /\ wizard \in GoodStates
    /\ stored \in GoodStates
    /\ writes \in Seq(GoodStates)
    /\ asks \in [Asks -> AskType]
    /\ setup.starts \in Nat
    /\ setup \in [starts : Nat, reads : Nat, faults : Nat]

USE WizardAssumption

LEMMA GoodState ==
  ASSUME NEW state \in GoodStates
  PROVE  /\ state \in WizardStates /\ state.completed \in Seq(STRING) /\ Len(state.completed) \in Nat
         /\ state.finished \in BOOLEAN
         /\ FirstSteps(state.completed)
         /\ state.finished => Len(state.completed) = Len(Steps)
BY DEF GoodStates, WizardStates

LEMMA NoStateIsGood ==
  NoState \in GoodStates /\ \A n \in Nat : [NoState EXCEPT !.start = n] \in GoodStates
<1>1. Len(<<>>) = 0 /\ <<>> \in Seq(STRING) /\ FirstSteps(<<>>)
  BY DEF FirstSteps
<1>2. NoState \in GoodStates
  BY <1>1 DEF NoState, GoodStates, WizardStates
<1>3. ASSUME NEW n \in Nat
      PROVE  [NoState EXCEPT !.start = n] \in GoodStates
  BY <1>1 DEF NoState, GoodStates, WizardStates
<1> QED BY <1>2, <1>3

\* A step that is the current one makes one more of the first steps.
LEMMA StepDone ==
  ASSUME NEW state \in GoodStates, NEW step \in STRING, Current(state) = step,
         step = "done" \/ step \in Range(Steps)
  PROVE  /\ Step(state, step) \in GoodStates
         /\ Step(state, step).finished = state.finished
         /\ step = "done" => Len(Step(state, step).completed) = Len(Steps)
<1>1. PICK done : done = state.completed
  OBVIOUS
<1>2. /\ done \in Seq(STRING) /\ Len(done) \in Nat /\ FirstSteps(done)
      /\ state \in WizardStates
      /\ state.finished => Len(done) = Len(Steps)
  BY <1>1, GoodState
<1>3. Steps \in Seq(STRING) /\ Len(Steps) \in Nat
  OBVIOUS
<1>4. PICK new : new = IF Contains(done, step) THEN done ELSE Append(done, step)
  OBVIOUS
<1>5. Step(state, step) = [state EXCEPT !.completed = new]
  BY <1>1, <1>4 DEF Step
<1>6. CASE Contains(done, step)
  <2>1. new = done
    BY <1>4, <1>6
  <2>2. Step(state, step) \in GoodStates /\ Step(state, step).completed = done
        /\ Step(state, step).finished = state.finished
    BY <1>1, <1>2, <1>5, <2>1 DEF GoodStates, WizardStates
  <2>3. step = "done" => Len(done) = Len(Steps)
    <3>1. PICK i \in 1..Len(done) : done[i] = step
      BY <1>6 DEF Contains
    <3>2. i \in DOMAIN Steps /\ Steps[i] = step
      BY <1>2, <1>3, <3>1 DEF FirstSteps
    <3>3. step = "done" => i = Len(Steps)
      BY <3>2
    <3> QED BY <1>2, <1>3, <3>1, <3>3 DEF FirstSteps
  <2> QED BY <2>2, <2>3
<1>7. CASE ~Contains(done, step)
  <2>1. new = Append(done, step)
    BY <1>4, <1>7
  <2>2. Len(done) < Len(Steps)
    <3>1. SUFFICES ASSUME Len(done) = Len(Steps)
                   PROVE  FALSE
      BY <1>2, <1>3 DEF FirstSteps
    <3>2. step = "done"
      BY <1>1, <3>1 DEF Current
    <3>3. Len(Steps) \in 1..Len(done) /\ Len(Steps) \in DOMAIN Steps
      BY <1>3, <3>1
    <3>4. done[Len(Steps)] = "done"
      BY <1>2, <3>3 DEF FirstSteps
    <3> QED BY <1>7, <3>2, <3>3, <3>4 DEF Contains
  <2>3. step = Steps[Len(done) + 1]
    BY <1>1, <2>2 DEF Current
  <2>4. /\ new \in Seq(STRING) /\ Len(new) = Len(done) + 1 /\ new[Len(done) + 1] = step
        /\ \A i \in 1..Len(done) : new[i] = done[i]
    BY <1>2, <2>1
  <2>5. FirstSteps(new)
    <3>1. Len(new) <= Len(Steps) /\ \A i \in 1..Len(new) : i \in 1..Len(done) \/ i = Len(done) + 1
      BY <1>2, <1>3, <2>2, <2>4
    <3>2. \A i \in 1..Len(done) : new[i] = Steps[i]
      BY <1>2, <2>4 DEF FirstSteps
    <3>3. new[Len(done) + 1] = Steps[Len(done) + 1]
      BY <2>3, <2>4
    <3> QED BY <3>1, <3>2, <3>3 DEF FirstSteps
  <2>6. Step(state, step).completed = new /\ Step(state, step).finished = state.finished
        /\ Step(state, step) \in WizardStates
    BY <1>2, <1>5, <2>4 DEF WizardStates
  <2>7. ~state.finished
    BY <1>2, <2>2
  <2>8. Step(state, step) \in GoodStates
    BY <2>5, <2>6, <2>7 DEF GoodStates
  <2>9. step = "done" => Len(done) + 1 = Len(Steps)
    <3>1. Len(done) + 1 \in DOMAIN Steps
      BY <1>2, <1>3, <2>2
    <3> QED BY <2>3, <3>1
  <2> QED BY <2>4, <2>6, <2>8, <2>9
<1> QED BY <1>6, <1>7

\* A wizard whose last step is done may be called finished.
LEMMA Finishing ==
  ASSUME NEW state \in GoodStates, Len(state.completed) = Len(Steps),
         NEW new, new = [state EXCEPT !.finished = TRUE]
  PROVE  new \in GoodStates
BY DEF GoodStates, WizardStates

\* persist() of a state that is good.
LEMMA PersistKeeps ==
  ASSUME WizardInv, NEW state \in GoodStates, Persisted(state)
  PROVE  wizard' \in GoodStates /\ writes' \in Seq(GoodStates)
BY DEF Persisted, WizardInv

\* What a request makes of memory and of the puts.
LEMMA ServeKeeps ==
  ASSUME WizardInv, NEW op \in Ops, NEW step \in STRING, NEW state \in GoodStates,
         step = "done" \/ step \in Range(Steps), Serve(op, step, state)
  PROVE  /\ wizard' \in GoodStates /\ writes' \in Seq(GoodStates)
         /\ setup' \in [starts : Nat, reads : Nat, faults : Nat]
<1>1. setup \in [starts : Nat, reads : Nat, faults : Nat] /\ writes \in Seq(GoodStates)
  BY DEF WizardInv
<1>2. ASSUME Start(state)
      PROVE  /\ wizard' \in GoodStates /\ writes' \in Seq(GoodStates)
             /\ setup' \in [starts : Nat, reads : Nat, faults : Nat]
  <2>1. CASE state # NoState
    BY <1>1, <1>2, <2>1 DEF Start
  <2>2. CASE state = NoState
    <3>1. setup.starts + 1 \in Nat
      BY <1>1
    <3>2. setup' \in [starts : Nat, reads : Nat, faults : Nat]
      BY <1>1, <1>2, <2>2 DEF Start
    <3>3. Persisted([NoState EXCEPT !.start = setup.starts + 1])
      BY <1>2, <2>2 DEF Start
    <3> QED BY <3>1, <3>2, <3>3, NoStateIsGood, PersistKeeps
  <2> QED BY <2>1, <2>2
<1>3. ASSUME Advance(state, step)
      PROVE  /\ wizard' \in GoodStates /\ writes' \in Seq(GoodStates)
             /\ setup' \in [starts : Nat, reads : Nat, faults : Nat]
  <2>1. CASE state = NoState
    BY <1>2, <1>3, <2>1 DEF Advance
  <2>2. CASE state # NoState /\ ~AtStep(state, step)
    BY <1>1, <1>3, <2>2 DEF Advance
  <2>3. CASE state # NoState /\ AtStep(state, step)
    <3>1. PICK next : next = Step(state, step)
      OBVIOUS
    <3>2. /\ next \in GoodStates
          /\ step = "done" => Len(next.completed) = Len(Steps)
      BY <2>3, <3>1, StepDone DEF AtStep
    <3>3. UNCHANGED setup /\ Persisted([next EXCEPT !.finished = @ \/ step = "done"])
      BY <1>3, <2>3, <3>1 DEF Advance
    <3>4. CASE step = "done" \/ next.finished
      <4>1. PICK new : new = [next EXCEPT !.finished = TRUE]
        OBVIOUS
      <4>2. [next EXCEPT !.finished = @ \/ step = "done"] = new
        BY <3>4, <4>1
      <4>3. Len(next.completed) = Len(Steps)
        BY <3>2, <3>4, GoodState
      <4>4. new \in GoodStates
        BY <3>2, <4>1, <4>3, Finishing
      <4> QED BY <1>1, <3>3, <4>2, <4>4, PersistKeeps
    <3>5. CASE step # "done" /\ ~next.finished
      <4>1. [next EXCEPT !.finished = @ \/ step = "done"] = next
        <5>1. (next.finished \/ step = "done") = next.finished
          BY <3>2, <3>5, GoodState
        <5> QED BY <3>2, <5>1, GoodState DEF WizardStates
      <4> QED BY <1>1, <3>2, <3>3, <4>1, PersistKeeps
    <3> QED BY <3>4, <3>5
  <2> QED BY <2>1, <2>2, <2>3
<1>4. ASSUME FinishSetup(state)
      PROVE  /\ wizard' \in GoodStates /\ writes' \in Seq(GoodStates)
             /\ setup' \in [starts : Nat, reads : Nat, faults : Nat]
  <2>1. CASE ~(state # NoState /\ Current(state) = "done")
    BY <1>1, <1>4, <2>1 DEF FinishSetup
  <2>2. CASE state # NoState /\ Current(state) = "done"
    <3>1. PICK next : next = Step(state, "done")
      OBVIOUS
    <3>2. next \in GoodStates /\ Len(next.completed) = Len(Steps)
      BY <2>2, <3>1, StepDone
    <3>3. PICK new : new = [next EXCEPT !.finished = TRUE]
      OBVIOUS
    <3>4. new \in GoodStates
      BY <3>2, <3>3, Finishing
    <3>5. UNCHANGED setup /\ Persisted(new)
      BY <1>4, <2>2, <3>1, <3>3 DEF FinishSetup
    <3> QED BY <1>1, <3>4, <3>5, PersistKeeps
  <2> QED BY <2>1, <2>2
<1> QED BY <1>2, <1>3, <1>4 DEF Serve

\* A request that finds a state,
LEMMA RequestKeeps ==
  ASSUME WizardInv, NEW op \in Ops, NEW step \in Range(Steps), Request(op, step)
  PROVE  WizardInv'
<1>1. step \in STRING /\ wizard \in GoodStates
  BY DEF WizardInv, Range
<1>2. Serve(op, step, wizard) /\ UNCHANGED <<stored, asks>>
  BY DEF Request
<1>3. /\ wizard' \in GoodStates /\ writes' \in Seq(GoodStates)
      /\ setup' \in [starts : Nat, reads : Nat, faults : Nat]
  BY <1>1, <1>2, ServeKeeps
<1> QED BY <1>2, <1>3 DEF WizardInv

\* one that reads the store,
LEMMA ReadsKeep ==
  ASSUME WizardInv, NEW a \in Asks, NEW op \in Ops, NEW step \in Range(Steps),
         ReadsStore(a, op, step)
  PROVE  WizardInv'
<1>1. step \in STRING /\ stored \in GoodStates /\ asks \in [Asks -> AskType]
      /\ setup \in [starts : Nat, reads : Nat, faults : Nat]
  BY DEF WizardInv, Range
<1>2. PICK ask : ask = [op |-> op, step |-> step, read |-> stored]
  OBVIOUS
<1>3. ask \in AskType
  BY <1>1, <1>2 DEF AskType
<1>4. asks' = [asks EXCEPT ![a] = ask] /\ UNCHANGED <<wizard, stored, writes>>
  BY <1>2 DEF ReadsStore
<1>5. asks' \in [Asks -> AskType]
  BY <1>1, <1>3, <1>4
<1>6. setup' \in [starts : Nat, reads : Nat, faults : Nat]
  BY <1>1 DEF ReadsStore
<1> QED BY <1>4, <1>5, <1>6 DEF WizardInv

LEMMA NoAskIs ==
  NoAsk \in AskType
<1>1. NoAsk.op = "none" /\ NoAsk \in [op : Ops \cup {"none"}, step : STRING \cup {""}, read : GoodStates]
  BY NoStateIsGood DEF NoAsk
<1> QED BY <1>1 DEF AskType

\* and one that goes on with what it read, however old that is.
LEMMA GoesOnKeeps ==
  ASSUME WizardInv, NEW a \in Asks, GoesOn(a)
  PROVE  WizardInv'
<1>1. asks \in [Asks -> AskType] /\ asks[a] \in AskType
  BY DEF WizardInv
<1>2. asks[a].op \in Ops /\ asks[a].step \in STRING /\ asks[a].read \in GoodStates
      /\ asks[a].step \in Range(Steps)
  <2>1. asks[a].op \in Ops /\ asks[a].op # "none"
    BY DEF GoesOn, Serve, Ops
  <2>2. asks[a].step \in Range(Steps) /\ asks[a].read \in GoodStates
    BY <1>1, <2>1 DEF AskType
  <2>3. Range(Steps) \subseteq STRING
    BY DEF Range
  <2> QED BY <2>1, <2>2, <2>3
<1>3. Serve(asks[a].op, asks[a].step, asks[a].read) /\ asks' = [asks EXCEPT ![a] = NoAsk]
      /\ UNCHANGED stored
  BY DEF GoesOn
<1>4. /\ wizard' \in GoodStates /\ writes' \in Seq(GoodStates)
      /\ setup' \in [starts : Nat, reads : Nat, faults : Nat]
  BY <1>2, <1>3, ServeKeeps
<1>5. asks' \in [Asks -> AskType]
  BY <1>1, <1>3, NoAskIs
<1> QED BY <1>3, <1>4, <1>5 DEF WizardInv

LEMMA WizardBegins ==
  ASSUME WizardInit
  PROVE  WizardInv
<1>1. NoState \in GoodStates /\ NoAsk \in AskType
  BY NoStateIsGood, NoAskIs
<1> QED BY <1>1 DEF WizardInit, WizardInv

LEMMA WizardStep ==
  ASSUME WizardInv, [WizardNext]_wizardVars
  PROVE  WizardInv'
<1>1. ASSUME NEW op \in Ops, NEW step \in Range(Steps),
             Request(op, step) \/ \E a \in Asks : ReadsStore(a, op, step)
      PROVE  WizardInv'
  BY <1>1, RequestKeeps, ReadsKeep
<1>2. CASE \E a \in Asks : GoesOn(a)
  BY <1>2, GoesOnKeeps
<1>3. CASE Reset
  BY <1>3, NoStateIsGood DEF Reset, WizardInv
<1>4. CASE WriteLands
  <2>1. writes \in Seq(GoodStates) /\ writes # <<>>
    BY <1>4 DEF WizardInv, WriteLands
  <2>2. Head(writes) \in GoodStates /\ Tail(writes) \in Seq(GoodStates)
    BY <2>1, HeadTailProperties
  <2> QED BY <1>4, <2>2 DEF WriteLands, WizardInv
<1>5. CASE WriteFails
  <2>1. writes \in Seq(GoodStates) /\ writes # <<>> /\ setup \in [starts : Nat, reads : Nat, faults : Nat]
    BY <1>5 DEF WizardInv, WriteFails
  <2>2. Tail(writes) \in Seq(GoodStates)
    BY <2>1, HeadTailProperties
  <2>3. setup' \in [starts : Nat, reads : Nat, faults : Nat]
    BY <1>5, <2>1 DEF WriteFails
  <2> QED BY <1>5, <2>2, <2>3 DEF WriteFails, WizardInv
<1>6. CASE WizardCrash
  <2>0. setup \in [starts : Nat, reads : Nat, faults : Nat]
    BY DEF WizardInv
  <2>1. setup' \in [starts : Nat, reads : Nat, faults : Nat]
    BY <1>6, <2>0 DEF WizardCrash
  <2>2. <<>> \in Seq(GoodStates) /\ NoState \in GoodStates /\ NoAsk \in AskType
    BY NoStateIsGood, NoAskIs
  <2> QED BY <1>6, <2>1, <2>2 DEF WizardCrash, WizardInv
<1>7. CASE UNCHANGED wizardVars
  BY <1>7 DEF wizardVars, WizardInv
<1> QED BY <1>1, <1>2, <1>3, <1>4, <1>5, <1>6, <1>7 DEF WizardNext

LEMMA WizardIsTrue ==
  ASSUME WizardInv
  PROVE  StepsInOrder
<1>1. ASSUME NEW state \in {wizard, stored} \cup Range(writes)
      PROVE  state \in GoodStates
  BY <1>1 DEF WizardInv, Range
<1>2. ASSUME NEW state \in GoodStates
      PROVE  IsPrefix(state.completed, Steps) /\ (state.finished => state.completed = Steps)
  <2>1. PICK done : done = state.completed
    OBVIOUS
  <2>2. /\ done \in Seq(STRING) /\ Len(done) \in Nat /\ Len(done) <= Len(Steps)
        /\ \A i \in 1..Len(done) : done[i] = Steps[i]
        /\ state.finished => Len(done) = Len(Steps)
    BY <2>1, GoodState DEF FirstSteps
  <2>3. Steps \in Seq(STRING) /\ Len(Steps) \in Nat
    OBVIOUS
  <2>4. SubSeq(done, 1, Len(done)) = done
    BY <2>2
  <2>5. SubSeq(Steps, 1, Len(done)) = done
    <3>1. /\ SubSeq(Steps, 1, Len(done)) \in Seq(STRING)
          /\ Len(SubSeq(Steps, 1, Len(done))) = Len(done)
          /\ \A i \in 1..Len(done) : SubSeq(Steps, 1, Len(done))[i] = Steps[i]
      BY <2>2, <2>3
    <3> QED BY <2>2, <3>1, SeqEqual
  <2>6. state.finished => done = Steps
    BY <2>2, <2>3, SeqEqual
  <2> QED BY <2>1, <2>2, <2>4, <2>5, <2>6 DEF IsPrefix
<1> QED BY <1>1, <1>2 DEF StepsInOrder

\* Through resets, restarts, puts that fail and reads that come back late
\* (setup.service.ts): in memory, in the store and on the way there the steps
\* done are the first ones in their order, and a finished wizard did them all.
THEOREM TheWizardKeepsItsOrder == WizardSpec => []StepsInOrder
<1>1. WizardInit => WizardInv
  BY WizardBegins
<1>2. WizardInv /\ [WizardNext]_wizardVars => WizardInv'
  BY WizardStep
<1>3. WizardInv => StepsInOrder
  BY WizardIsTrue
<1> QED BY <1>1, <1>2, <1>3, PTL DEF WizardSpec

HIDE WizardAssumption

-----------------------------------------------------------------------------
(* The office: each part's own behaviour, and so what the papers keep.      *)

\* The behaviour of the office is, for each of these parts, one of its own.
LEMMA OfficeStarts == MCInit => ShelfInit /\ SignaturesInit /\ WizardInit
BY DEF MCInit

LEMMA OfficeSteps ==
  ASSUME [MCNext]_officeVars
  PROVE  [ShelfNext]_shelfVars /\ [SignaturesNext]_signatureVars /\ [WizardNext]_wizardVars
<1>1. CASE UNCHANGED officeVars
  BY <1>1 DEF officeVars
<1>2. ASSUME MCNext
      PROVE  /\ ShelfNext \/ UNCHANGED shelfVars
             /\ SignaturesNext \/ UNCHANGED signatureVars
             /\ WizardNext \/ UNCHANGED wizardVars
  BY <1>2 DEF MCNext, Only
<1> QED BY <1>1, <1>2

\* With a driver that keeps the order of the puts: the shelf has one version of a
\* title in force, a signature that was answered is on record and verifies, and
\* the wizard's steps are done in their order (corpus.service.ts,
\* signature.service.ts, setup.service.ts).
THEOREM ThePapersHold ==
  ASSUME InOrderDriver = TRUE
  PROVE  MCSpec => []PapersHold
<1>1. MCSpec => ShelfSpec
  BY OfficeStarts, OfficeSteps, PTL DEF MCSpec, ShelfSpec
<1>2. MCSpec => SignaturesSpec
  BY OfficeStarts, OfficeSteps, PTL DEF MCSpec, SignaturesSpec
<1>3. MCSpec => WizardSpec
  BY OfficeStarts, OfficeSteps, PTL DEF MCSpec, WizardSpec
<1>4. ShelfKept /\ SignaturesStick /\ StepsInOrder => PapersHold
  BY DEF PapersHold
<1> QED BY <1>1, <1>2, <1>3, <1>4, TheShelfIsKept, SignaturesStay, TheWizardKeepsItsOrder, PTL
=================================================================================
