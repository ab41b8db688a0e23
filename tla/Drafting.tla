-------------------------------- MODULE Drafting --------------------------------
(***************************************************************************)
(* Drafts and what they cost: rag/drafting.service.ts, with the meter it   *)
(* asks before, and tells after, every paid call (rag/usage-meter.         *)
(* service.ts).  A draft is created, law is retrieved for it, a model      *)
(* writes it (or, failing the model, a worker copies spans of the law),    *)
(* and a lawyer approves or rejects what was written.                      *)
(*                                                                         *)
(* The tray of drafts and the month's usage are documents kept the lazy    *)
(* way (LazyStore).  Requests change the draft's object in memory between  *)
(* awaits, so any put, of any request, carries whatever state the other    *)
(* drafts are in at that moment.  Prompts and prices are left out, an      *)
(* output is prose nobody grounded yet or prose with its provenance, and   *)
(* every call costs the same.                                              *)
(***************************************************************************)
EXTENDS LazyStore, FiniteSets

CONSTANTS MaxDrafts,        \* bound: drafts created
          Generators,       \* requests to generate that may be in flight
          HardStop,         \* AI_MONTHLY_HARD_STOP_USD
          AlertAt,          \* AI_MONTHLY_ALERT_THRESH_USD
          CallCost,         \* what a call costs
          MaxCalls,         \* bound: calls answered
          MaxDraftPuts,     \* bound: puts of one document on their way at a time
          MaxDraftCrashes   \* bound: crashes

ASSUME DraftingAssumption ==
    /\ {MaxDrafts, HardStop, AlertAt, CallCost, MaxCalls, MaxDraftPuts, MaxDraftCrashes} \subseteq Nat
    /\ IsFiniteSet(Generators)

VARIABLES tray,             \* the store of drafts
          meter,            \* the store of the month's usage
          generation,       \* the requests to generate
          linking,          \* supersessions between the two puts: <<heir, ancestor>>
          aiWired,          \* whether this deployment has an AI provider
          drafting          \* ghosts and bounds: calls, lost spend, crashes

draftingVars == <<tray, meter, generation, linking, aiWired, drafting>>

DraftIds == 1..MaxDrafts
Outcomes == {"approved", "rejected"}
Reviewed == Outcomes \cup {"superseded"}

NoDraft == [state |-> "absent", output |-> "none", supersedes |-> 0]
EmptyTray == [d \in DraftIds |-> NoDraft]
\* What a put reports when nobody asks which one it was.
Stored == <<"stored", 0>>
EmptyMeter == [spend |-> 0, alerted |-> FALSE]
NoGeneration == [pc |-> "idle", draft |-> 0, detached |-> FALSE]

DraftingInit ==
    /\ tray = Load(NewStore(EmptyTray))
    /\ meter = Load(NewStore(EmptyMeter))
    /\ generation = [g \in Generators |-> NoGeneration]
    /\ linking = {}
    /\ aiWired \in BOOLEAN
    /\ drafting = [calls |-> 0, lost |-> 0, crashes |-> 0]

\* The moves of the drafting life: the table ALLOWED.
Allowed ==
    [created |-> {"retrieving"}, retrieving |-> {"generating", "created"},
     generating |-> {"awaiting", "created"}, awaiting |-> Outcomes,
     approved |-> {"superseded"}, rejected |-> {}, superseded |-> {}]

\* The mistake of letting a review land on whatever state the draft is in.
MovedAnyhow(draft, to) ==
    [draft EXCEPT !.state = to]

\* move(): a move outside the table throws, and the request ends there.
Moved(draft, to) ==
    IF to \in Allowed[draft.state] THEN [draft EXCEPT !.state = to] ELSE draft

Persist(doc, fact) ==
    /\ Len(tray.puts) < MaxDraftPuts
    /\ tray' = Save(tray, doc, fact)

\* What a generation does to its draft.  After a supersession replaced the
\* object in the map by a copy, the generation still holds the old one.
Rewritten(g, draft) ==
    IF generation[g].detached THEN tray.mem
    ELSE [tray.mem EXCEPT ![generation[g].draft] = draft]

Mine(g) ==
    tray.mem[generation[g].draft]

Ends(g) ==
    generation' = [generation EXCEPT ![g] = NoGeneration]

\* create(): a new draft, told to the caller when it is stored.
CreateDraft(d) ==
    /\ tray.loaded
    /\ tray.mem[d] = NoDraft
    /\ \A e \in 1..(d - 1) : tray.mem[e] # NoDraft
    /\ Persist([tray.mem EXCEPT ![d].state = "created"], Stored)
    /\ UNCHANGED <<meter, generation, linking, aiWired, drafting>>

\* generate(): the state is asked and changed with no await between.
StartGenerate(g, d) ==
    /\ tray.loaded
    /\ generation[g] = NoGeneration
    /\ tray.mem[d].state = "created"
    /\ tray' = [tray EXCEPT !.mem[d] = Moved(@, "retrieving")]
    /\ generation' = [generation EXCEPT ![g] = [NoGeneration EXCEPT !.pc = "retrieve", !.draft = d]]
    /\ UNCHANGED <<meter, linking, aiWired, drafting>>

\* Back to the tray, with the error on the draft: it may be generated again.
BackToTray(g, draft) ==
    /\ Persist(Rewritten(g, Moved(draft, "created")), Stored)
    /\ Ends(g)
    /\ UNCHANGED <<meter, linking, aiWired, drafting>>

\* The shelf, or the index, cannot be read: the request throws and nothing
\* moves the draft on any more.
RetrievalThrows(g) ==
    /\ generation[g].pc = "retrieve"
    /\ Ends(g)
    /\ UNCHANGED <<tray, meter, linking, aiWired, drafting>>

\* Too few hits, or a best hit that covers too few terms: no prose without law.
NoCitations(g) ==
    /\ generation[g].pc = "retrieve"
    /\ BackToTray(g, Mine(g))

\* The mistake of counting the month's spend only when it is over the cap.
StopPassed ==
    meter.mem.spend > HardStop

\* hardStopExceeded()
StopReached ==
    meter.mem.spend >= HardStop

\* Enough law.  The hard stop is asked before the call, and throws with the
\* draft in generating; the spend is recorded after it.
Retrieved(g) ==
    /\ generation[g].pc = "retrieve"
    /\ \/ /\ aiWired
          /\ tray' = [tray EXCEPT !.mem = Rewritten(g, Moved(Mine(g), "generating"))]
          /\ \/ StopReached /\ Ends(g)
             \/ ~StopReached /\ generation' = [generation EXCEPT ![g].pc = "call"]
       \/ /\ ~aiWired
          /\ generation' = [generation EXCEPT ![g].pc = "degrade"]
          /\ UNCHANGED tray
    /\ UNCHANGED <<meter, linking, aiWired, drafting>>

\* recordCall(): the month's record, increased, goes to the store.
RecordCall(g) ==
    Save(meter, [meter.mem EXCEPT !.spend = @ + CallCost], g)

\* The model answered: the output is the draft's, and the call is recorded.
ModelAnswers(g) ==
    /\ generation[g].pc = "call"
    /\ drafting.calls < MaxCalls /\ Len(meter.puts) < MaxDraftPuts
    /\ drafting' = [drafting EXCEPT !.calls = @ + 1]
    /\ meter' = RecordCall(g)
    /\ generation' = [generation EXCEPT ![g].pc = "record"]
    /\ tray' = [tray EXCEPT !.mem = Rewritten(g, [Mine(g) EXCEPT !.output = "prose"])]
    /\ UNCHANGED <<linking, aiWired>>

\* The spend is stored; past the threshold, the first to notice alerts, once, and
\* waits for that to be stored too.
Recorded(g) ==
    LET told == [meter EXCEPT !.acked = @ \ {g}] IN
    /\ generation[g].pc = "record"
    /\ g \in meter.acked
    /\ IF meter.mem.spend >= AlertAt /\ ~meter.mem.alerted
       THEN /\ Len(meter.puts) < MaxDraftPuts
            /\ meter' = Save(told, [meter.mem EXCEPT !.alerted = TRUE], g)
            /\ UNCHANGED generation
       ELSE /\ meter' = told
            /\ generation' = [generation EXCEPT ![g].pc = "finish"]
    /\ UNCHANGED <<tray, linking, aiWired, drafting>>

\* Provenance is what the model cited of the hits, or all of them.
Finish(g) ==
    /\ generation[g].pc = "finish"
    /\ Persist(Rewritten(g, [Moved(Mine(g), "awaiting") EXCEPT !.output = "cited"]), Stored)
    /\ Ends(g)
    /\ UNCHANGED <<meter, linking, aiWired, drafting>>

\* The provider fails, or the spend could not be stored: the catch.
ModelFails(g) ==
    /\ \/ generation[g].pc = "call"
       \/ /\ generation[g].pc = "record"
          /\ g \notin meter.acked /\ ~Waiting(meter, g)
    /\ generation' = [generation EXCEPT ![g].pc = "degrade"]
    /\ UNCHANGED <<tray, meter, linking, aiWired, drafting>>

\* tryLocalDegradedDraft: the workers are there and answered with spans of the law.  Without
\* an AI provider the draft is still retrieving, which may not await a review:
\* the move throws, the catch swallows it, and the draft goes back to the tray
\* with the spans in it.
Degrades(g) ==
    LET spans == [Mine(g) EXCEPT !.output = "cited"] IN
    /\ generation[g].pc = "degrade"
    /\ \/ aiWired /\ Persist(Rewritten(g, Moved(spans, "awaiting")), Stored)
       \/ ~aiWired /\ Persist(Rewritten(g, Moved(spans, "created")), Stored)
    /\ Ends(g)
    /\ UNCHANGED <<meter, linking, aiWired, drafting>>

\* No workers, no answer, or no spans: the honest error.
DegradeFails(g) ==
    /\ generation[g].pc = "degrade"
    /\ BackToTray(g, Mine(g))

\* review(): approve or reject.
Review(d, outcome) ==
    LET draft == Moved(tray.mem[d], outcome) IN
    /\ tray.loaded
    /\ tray.mem[d].state \notin {"absent"} \cup Reviewed
    /\ draft.state = outcome
    /\ Persist([tray.mem EXCEPT ![d] = draft], <<outcome, d>>)
    /\ UNCHANGED <<meter, generation, linking, aiWired, drafting>>

\* review(), supersede: the old draft is superseded and create() puts the heir.
Supersede(d, heir) ==
    /\ tray.loaded
    /\ tray.mem[d].state = "approved"
    /\ tray.mem[heir] = NoDraft
    /\ \A e \in 1..(heir - 1) : tray.mem[e] # NoDraft
    /\ Persist([tray.mem EXCEPT ![d] = Moved(@, "superseded"), ![heir].state = "created"],
               <<"heir", heir>>)
    /\ linking' = linking \cup {<<heir, d>>}
    /\ UNCHANGED <<meter, generation, aiWired, drafting>>

\* create() returned a copy: it is linked to its ancestor and takes the place of
\* the object in the map, which a generation may meanwhile have started on.
LinkHeir(heir, d) ==
    /\ <<heir, d>> \in linking
    /\ ~Waiting(tray, <<"heir", heir>>)
    /\ linking' = linking \ {<<heir, d>>}
    /\ \/ /\ <<"heir", heir>> \in tray.acked
          /\ Persist([tray.mem EXCEPT ![heir].supersedes = d], Stored)
          /\ generation' = [g \in Generators |->
                               IF generation[g].draft = heir
                               THEN [generation[g] EXCEPT !.detached = TRUE] ELSE generation[g]]
       \/ /\ <<"heir", heir>> \notin tray.acked
          /\ UNCHANGED <<tray, generation>>
    /\ UNCHANGED <<meter, aiWired, drafting>>

\* A put lands or fails.
DraftsSettle ==
    /\ \/ tray' \in Settles(tray, TRUE) /\ UNCHANGED meter
       \/ meter' \in Settles(meter, TRUE) /\ UNCHANGED tray
    /\ UNCHANGED <<generation, linking, aiWired, drafting>>

\* The process ends, and the next one reads both documents.
DraftsRestart ==
    /\ drafting.crashes < MaxDraftCrashes
    /\ tray' = Load(Crash(tray, EmptyTray))
    /\ meter' = Load([Crash(meter, EmptyMeter) EXCEPT !.acked = {}])
    /\ generation' = [g \in Generators |-> NoGeneration]
    /\ linking' = {}
    /\ drafting' = [drafting EXCEPT !.crashes = @ + 1,
                                    !.lost = @ + (meter.mem.spend - meter.disk.spend)]
    /\ UNCHANGED aiWired

DraftingNext ==
    \/ \E d \in DraftIds : CreateDraft(d)
    \/ \E d \in DraftIds, outcome \in Outcomes : Review(d, outcome)
    \/ \E d, heir \in DraftIds : Supersede(d, heir) \/ LinkHeir(heir, d)
    \/ \E g \in Generators, d \in DraftIds : StartGenerate(g, d)
    \/ \E g \in Generators :
           \/ RetrievalThrows(g) \/ NoCitations(g) \/ Retrieved(g)
           \/ ModelAnswers(g) \/ Recorded(g) \/ Finish(g)
           \/ ModelFails(g) \/ Degrades(g) \/ DegradeFails(g)
    \/ DraftsSettle
    \/ DraftsRestart

DraftingSpec ==
    DraftingInit /\ [][DraftingNext]_draftingVars

-----------------------------------------------------------------------------

TrayDocs ==
    {tray.mem, tray.disk} \cup {tray.puts[i].doc : i \in DOMAIN tray.puts}

\* "Citations are the entry fee": nothing a lawyer is asked to review, or has
\* reviewed, is without law beneath it, in memory, on its way or stored, whether
\* a model or a worker wrote it and whatever failed on the way.
CitedBeforeReview ==
    \A doc \in TrayDocs : \A d \in DraftIds :
        doc[d].state \in {"awaiting"} \cup Reviewed => doc[d].output = "cited"

\* What a review answered is what the store says from then on; only a
\* supersession takes an approval further.
ReviewsSurvive ==
    \A d \in DraftIds, outcome \in Outcomes :
        <<outcome, d>> \in tray.acked =>
            tray.disk[d].state \in {outcome} \cup (IF outcome = "approved" THEN {"superseded"} ELSE {})

\* A review rests on law, and stands.
ReviewsRest ==
    CitedBeforeReview /\ ReviewsSurvive

\* The stop is asked before a call and the spend recorded after it, so requests
\* in flight together overshoot it, by one call each and no more; what is spent
\* and not seen by the meter is what crashes took from memory.
OvershootBounded ==
    /\ meter.mem.spend < HardStop + Cardinality(Generators) * CallCost \/ meter.mem.spend = 0
    /\ drafting.calls * CallCost = meter.mem.spend + drafting.lost
=================================================================================
