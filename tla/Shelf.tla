---------------------------------- MODULE Shelf ----------------------------------
(***************************************************************************)
(* The law the office cites: corpus/corpus.service.ts (a document per      *)
(* version of a law, verified or not, in force or retired), the runs that  *)
(* fill it (ingestion-worker, collector, validator, updater) and the index *)
(* of meaning built over it (rag/embedding-index.service.ts).              *)
(*                                                                         *)
(* The shelf, the log of runs and the index are documents of the lazy kind *)
(* (LazyStore).  A document is named by its text, because the sha256 of    *)
(* the text is what makes it one; a text comes under one title.  Ranking,  *)
(* chunks and vectors are left out (Retrieval has them), and so is         *)
(* rebuild() of pg-embedding-index.service.ts, which nothing calls.        *)
(***************************************************************************)
EXTENDS LazyStore, FiniteSets

CONSTANTS Texts,            \* bodies of law
          Titled,           \* [Texts -> titles]
          Sound, Official,  \* texts that pass the validator's rules; that bear an official mark
          HandTiers,        \* tiers a text filed by hand may claim: 1, 2 or 3
          Windows,          \* what a source can be synced for
          Wire,             \* [Windows -> [items : Seq(Texts), failed : Nat]]: what the adapter brings
          Syncs,            \* requests to sync that may be in flight
          MaxShelfPuts,     \* bound: puts of one document on their way at a time
          MaxRebuilds,      \* bound: rebuilds of the index
          MaxShelfFaults    \* bound: crashes and puts that fail

ASSUME ShelfAssumption ==
    /\ {MaxShelfPuts, MaxRebuilds, MaxShelfFaults} \subseteq Nat
    /\ HandTiers \subseteq 1..3
    /\ Sound \subseteq Texts /\ Official \subseteq Texts
    /\ \A w \in Windows : Wire[w].items \in Seq(Texts) /\ Wire[w].failed \in Nat

VARIABLES shelf,            \* the store of laws
          jobs,             \* the store of the runs, one per window
          syncs,            \* the requests to sync
          semantic,         \* the store of the index: the documents it holds
          rebuild,          \* the rebuild in progress: whether there is one, what it listed; how many before
          shelfFaults

shelfVars == <<shelf, jobs, syncs, semantic, rebuild, shelfFaults>>

None == "none"
ASSUME NoneAssumption == None \notin Texts

NotFiled == [filed |-> FALSE, tier |-> 0, verified |-> FALSE, inForce |-> FALSE, supersedes |-> None]
EmptyShelf == [t \in Texts |-> NotFiled]

NoJob == [status |-> "none", attempted |-> 0, succeeded |-> 0, failed |-> 0,
          documents |-> <<>>, rejected |-> <<>>]
NoJobs == [w \in Windows |-> NoJob]
NoRebuild == [active |-> FALSE, listed |-> {}, before |-> 0]
NoSync == [pc |-> "idle", window |-> None, left |-> <<>>]

ShelfInit ==
    /\ shelf = Load(NewStore(EmptyShelf))
    /\ jobs = Load(NewStore(NoJobs))
    /\ syncs = [s \in Syncs |-> NoSync]
    /\ semantic = Load(NewStore({}))
    /\ rebuild = NoRebuild
    /\ shelfFaults = 0

\* list({verifiedOnly}), and what search() may return.
Verified(laws) ==
    {t \in Texts : laws[t].inForce /\ laws[t].verified}

\* validate(): the rules, and for tier 1 the mark of an official publication.
Validates(text, tier) ==
    text \in Sound /\ (tier = 1 => text \in Official)

\* The versions of the title on the shelf.
AnyVersion(laws, text) ==
    {t \in Texts : laws[t].filed /\ Titled[t] = Titled[text]}

\* The mistake of retiring a version only if it had been verified.
LastVerified(laws, text) ==
    {t \in AnyVersion(laws, text) : laws[t].inForce /\ laws[t].verified}

\* The version in force of the title.
Previous(laws, text) ==
    {t \in AnyVersion(laws, text) : laws[t].inForce}

\* ingestDocument(): a text already filed is answered as it is; a new one
\* retires the version in force, verified or not, and starts unverified.
Ingested(laws, text, tier) ==
    LET previous == Previous(laws, text)
        before == IF previous = {} THEN None ELSE CHOOSE t \in previous : TRUE
    IN  [t \in Texts |->
            IF t = text
            THEN [filed |-> TRUE, tier |-> tier, verified |-> FALSE,
                  inForce |-> TRUE, supersedes |-> before]
            ELSE [laws[t] EXCEPT !.inForce = @ /\ t # before]]

PutShelf(laws, fact) ==
    /\ Len(shelf.puts) < MaxShelfPuts
    /\ shelf' = Save(shelf, laws, fact)

\* POST documents/ingest, ingest-from-file, update: a text by hand.  A text on
\* the shelf, retired or not, changes nothing.
IngestByHand(text, tier) ==
    /\ ~shelf.mem[text].filed
    /\ PutShelf(Ingested(shelf.mem, text, tier), "stored")
    /\ UNCHANGED <<jobs, syncs, semantic, rebuild, shelfFaults>>

MarkVerified(text) ==
    [shelf.mem EXCEPT ![text].verified = TRUE]

\* POST documents/:id/verify: only a version in force, by the rules of its tier.
VerifyByHand(text) ==
    /\ shelf.mem[text].inForce
    /\ Validates(text, shelf.mem[text].tier)
    /\ PutShelf(MarkVerified(text), "stored")
    /\ UNCHANGED <<jobs, syncs, semantic, rebuild, shelfFaults>>

\* registerSource(): the laws stay as they are, and are put.
RegisterSource(s) ==
    PutShelf(shelf.mem, s)

\* sync(): a window whose run did not fail is not run again unless it is a
\* retry.  retry() retries any run there is, one in progress included.  The
\* counts start afresh in the run's one record.
Sync(s, w, retried) ==
    /\ syncs[s] = NoSync
    /\ IF retried THEN jobs.mem[w] # NoJob ELSE jobs.mem[w].status \in {"none", "failed"}
    /\ jobs' = [jobs EXCEPT !.mem[w] = [NoJob EXCEPT !.status = "running"]]
    /\ RegisterSource(s)
    /\ syncs' = [syncs EXCEPT ![s] = [pc |-> "register", window |-> w, left |-> <<>>]]
    /\ UNCHANGED <<semantic, rebuild, shelfFaults>>

\* The put this sync awaits has landed; what it reported is forgotten.
Told(s) ==
    /\ s \in shelf.acked
    /\ shelf' = [shelf EXCEPT !.acked = @ \ {s}]

\* The source is registered: the adapter's items are collected.
Collect(s) ==
    LET w == syncs[s].window IN
    /\ syncs[s].pc = "register"
    /\ Told(s)
    /\ jobs' = [jobs EXCEPT !.mem[w].attempted = Len(Wire[w].items) + Wire[w].failed,
                            !.mem[w].failed = Wire[w].failed]
    /\ syncs' = [syncs EXCEPT ![s].pc = "items", ![s].left = Wire[w].items]
    /\ UNCHANGED <<semantic, rebuild, shelfFaults>>

\* The next item is filed, or found filed.
ShelveItem(s) ==
    LET text == Head(syncs[s].left) IN
    /\ syncs[s].pc = "items"
    /\ syncs[s].left # <<>>
    /\ syncs' = [syncs EXCEPT ![s].pc = IF shelf.mem[text].filed THEN "filed" ELSE "filing"]
    /\ IF shelf.mem[text].filed THEN UNCHANGED shelf
       ELSE PutShelf(Ingested(shelf.mem, text, 1), s)
    /\ UNCHANGED <<jobs, semantic, rebuild, shelfFaults>>

\* It is counted, and verified if it passes as an item of tier 1.
CountItem(s) ==
    LET text == Head(syncs[s].left)
        w == syncs[s].window
        next == [syncs[s] EXCEPT !.pc = "items", !.left = Tail(@)]
    IN  /\ syncs[s].pc \in {"filing", "filed"}
        /\ syncs[s].pc = "filing" => s \in shelf.acked
        /\ jobs' = [jobs EXCEPT !.mem[w].documents = Append(@, text),
                                !.mem[w].rejected = IF Validates(text, 1) THEN @ ELSE Append(@, text)]
        /\ IF Validates(text, 1) /\ ~shelf.mem[text].verified
           THEN /\ Len(shelf.puts) < MaxShelfPuts
                /\ shelf' = Save([shelf EXCEPT !.acked = @ \ {s}],
                                 MarkVerified(text), s)
                /\ syncs' = [syncs EXCEPT ![s] = [next EXCEPT !.pc = "verifying"]]
           ELSE /\ shelf' = [shelf EXCEPT !.acked = @ \ {s}]
                /\ syncs' = [syncs EXCEPT ![s] = next]
        /\ UNCHANGED <<semantic, rebuild, shelfFaults>>

ItemVerified(s) ==
    /\ syncs[s].pc = "verifying"
    /\ Told(s)
    /\ syncs' = [syncs EXCEPT ![s].pc = "items"]
    /\ UNCHANGED <<jobs, semantic, rebuild, shelfFaults>>

\* The run is over: its status, and the put of the log.
CloseJob(s, job) ==
    /\ Len(jobs.puts) < MaxShelfPuts
    /\ jobs' = Save(jobs, [jobs.mem EXCEPT ![syncs[s].window] = job], "stored")
    /\ syncs' = [syncs EXCEPT ![s] = NoSync]

EndSync(s) ==
    LET job == jobs.mem[syncs[s].window]
        shelved == Len(job.documents)
    IN  /\ syncs[s].pc = "items"
        /\ syncs[s].left = <<>>
        /\ CloseJob(s, [job EXCEPT !.succeeded = shelved,
                                   !.status = IF job.failed = 0 THEN "succeeded"
                                              ELSE IF shelved > 0 THEN "partial" ELSE "failed"])
        /\ UNCHANGED <<shelf, semantic, rebuild, shelfFaults>>

\* A put of the shelf failed under the sync: the run has failed.
SyncFails(s) ==
    /\ syncs[s].pc \in {"register", "filing", "verifying"}
    /\ s \notin shelf.acked /\ ~Waiting(shelf, s)
    /\ CloseJob(s, [jobs.mem[syncs[s].window] EXCEPT !.status = "failed"])
    /\ UNCHANGED <<shelf, semantic, rebuild, shelfFaults>>

\* rebuild(): the laws in force and verified are listed, then embedded one
\* call after the other; then the index is replaced and put.
StartRebuild ==
    /\ ~rebuild.active /\ rebuild.before < MaxRebuilds
    /\ rebuild' = [active |-> TRUE, listed |-> Verified(shelf.mem), before |-> rebuild.before + 1]
    /\ UNCHANGED <<shelf, jobs, syncs, semantic, shelfFaults>>

EndRebuild ==
    /\ rebuild.active
    /\ rebuild' = [rebuild EXCEPT !.active = FALSE, !.listed = {}]
    /\ Len(semantic.puts) < MaxShelfPuts
    /\ semantic' = Save(semantic, rebuild.listed, "stored")
    /\ UNCHANGED <<shelf, jobs, syncs, shelfFaults>>

\* The provider fails: the old index stays.
RebuildFails ==
    /\ rebuild.active
    /\ rebuild' = [rebuild EXCEPT !.active = FALSE, !.listed = {}]
    /\ UNCHANGED <<shelf, jobs, syncs, semantic, shelfFaults>>

SettleBy(Outcomes(_, _)) ==
    /\ \/ shelf' \in Outcomes(shelf, TRUE) /\ UNCHANGED <<jobs, semantic>>
       \/ jobs' \in Outcomes(jobs, TRUE) /\ UNCHANGED <<shelf, semantic>>
       \/ semantic' \in Outcomes(semantic, TRUE) /\ UNCHANGED <<shelf, jobs>>
    /\ UNCHANGED <<syncs, rebuild>>

ShelfPutLands ==
    SettleBy(Landings) /\ UNCHANGED shelfFaults

\* A put fails; whoever awaited it gets an error.
ShelfPutFails ==
    /\ shelfFaults < MaxShelfFaults
    /\ shelfFaults' = shelfFaults + 1
    /\ SettleBy(Refusals)

\* The process ends, and the next one reads the documents.
ShelfRestart ==
    /\ shelfFaults < MaxShelfFaults
    /\ shelfFaults' = shelfFaults + 1
    /\ shelf' = Load([Crash(shelf, EmptyShelf) EXCEPT !.acked = @ \ Syncs])
    /\ jobs' = Load(Crash(jobs, NoJobs))
    /\ semantic' = Load(Crash(semantic, {}))
    /\ syncs' = [s \in Syncs |-> NoSync]
    /\ rebuild' = [rebuild EXCEPT !.active = FALSE, !.listed = {}]

ShelfNext ==
    \/ \E text \in Texts, tier \in HandTiers : IngestByHand(text, tier)
    \/ \E text \in Texts : VerifyByHand(text)
    \/ \E s \in Syncs, w \in Windows, retried \in BOOLEAN : Sync(s, w, retried)
    \/ \E s \in Syncs :
           \/ Collect(s) \/ ShelveItem(s) \/ CountItem(s) \/ ItemVerified(s)
           \/ EndSync(s) \/ SyncFails(s)
    \/ StartRebuild \/ EndRebuild \/ RebuildFails
    \/ ShelfPutLands \/ ShelfPutFails
    \/ ShelfRestart

ShelfSpec == ShelfInit /\ [][ShelfNext]_shelfVars

-----------------------------------------------------------------------------

ShelfDocs ==
    {shelf.mem, shelf.disk} \cup {shelf.puts[i].doc : i \in DOMAIN shelf.puts}

\* Every title ever filed has one version in force, and the links from it lead
\* back through every other version to the first: whichever requests file, sync
\* and retry at once, in memory, on its way and stored.
OneVersionInForce ==
    \A laws \in ShelfDocs :
        LET Filed == {t \in Texts : laws[t].filed} IN
        \A t \in Filed :
            LET versions == AnyVersion(laws, t) IN
            /\ Cardinality({v \in versions : laws[v].inForce}) = 1
            /\ Cardinality({v \in versions : laws[v].supersedes = None}) = 1
            /\ \A v \in versions : laws[v].supersedes # None =>
                   /\ laws[v].supersedes \in versions \ {v}
                   /\ ~laws[laws[v].supersedes].inForce
                   /\ \A u \in versions : laws[u].supersedes = laws[v].supersedes => u = v

\* Nothing is verified that its tier's rules would refuse, by hand or by a run.
VerifiedIsSound ==
    \A laws \in ShelfDocs : \A t \in Texts :
        laws[t].verified => laws[t].filed /\ Validates(t, laws[t].tier)

\* What the shelf promises whoever cites from it.
ShelfKept ==
    OneVersionInForce /\ VerifiedIsSound
=================================================================================
