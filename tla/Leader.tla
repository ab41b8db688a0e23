---------------------------------- MODULE Leader ----------------------------------
(***************************************************************************)
(* Talking to the Leader: orchestrator/leader-conversation.service.ts, and *)
(* what a talk changes: the brain's configuration and the deployment's     *)
(* profile (config-hub.service.ts), the office's short memory (session-    *)
(* memory.service.ts) and the files on record (file-intelligence.service   *)
(* .ts, register).  A chat is one of three things: a yes, which applies    *)
(* the oldest proposal its speaker has pending; a proposal (config-intent  *)
(* .ts); or a question, which Society's dispatch answers.                  *)
(*                                                                         *)
(* The brain's document is read before the application serves; the profile *)
(* by the first request that needs it, and two may read it at once.  A     *)
(* setting's value is the number of the change that made it.  Wording,     *)
(* conversations' transcripts and speech are left out.                     *)
(***************************************************************************)
EXTENDS LazyStore, FiniteSets

CONSTANTS Users,            \* who may talk to the Leader
          Talks,            \* requests that may be in flight
          Settings,         \* the Intents the owner may have
          Files,            \* uploads, by content
          MaxProposals,     \* bound: proposals made
          MaxSettingChanges,\* bound: changes of settings
          MaxTurns,         \* bound: questions asked
          MaxUploads,       \* bound: uploads
          MemoryTurns,      \* MAX_TURNS of the short memory
          MaxHubFaults      \* bound: crashes and puts that fail

\* What parseConfigIntent() can propose: a brain, a preset, a change of profile.
Intents == {"local", "cloud", "preset", "locale", "country"}

ASSUME LeaderAssumption ==
    /\ {MaxProposals, MaxSettingChanges, MaxTurns, MaxUploads, MemoryTurns, MaxHubFaults} \subseteq Nat
    /\ Settings \subseteq Intents

VARIABLES hub,              \* the stores: brain and profile
          pending,          \* proposals not applied yet; each has a later id than those before
          talks,            \* the requests in flight
          records,          \* what is on record of each file: none, normal, privileged
          memory,           \* the short memory of each user
          leader            \* ghosts and bounds

leaderVars == <<hub, pending, talks, records, memory, leader>>

Document(setting) ==
    IF setting \in {"locale", "country"} THEN "profile" ELSE "brain"

Defaults == [s \in Settings |-> 0]
Idle == [pc |-> "idle", user |-> "", setting |-> "", change |-> 0, proposal |-> 0, said |-> FALSE,
         attached |-> {}, form |-> "normal", secret |-> FALSE, turn |-> 0, recalled |-> <<>>]

LeaderInit ==
    /\ hub = [brain |-> Load(NewStore(Defaults)), profile |-> NewStore(Defaults)]
    /\ pending = {}
    /\ talks = [t \in Talks |-> Idle]
    /\ records = [f \in Files |-> "none"]
    /\ memory = [u \in Users |-> <<>>]
    /\ leader = [proposals |-> 0, changes |-> 0, turns |-> 0, uploads |-> 0, faults |-> 0,
                 done |-> {}]

Becomes(t, talk) ==
    talks' = [talks EXCEPT ![t] = talk]

\* setBrain, setPreset, setProfile: the document in memory, then its put.
\* The change is in force as soon as it is in memory.
Changes(t, talk, store) ==
    LET change == leader.changes + 1 IN
    /\ leader.changes < MaxSettingChanges
    /\ leader' = [leader EXCEPT !.changes = change]
    /\ hub' = [hub EXCEPT ![Document(talk.setting)] =
                  Save(store, [store.mem EXCEPT ![talk.setting] = change], t)]
    /\ Becomes(t, [talk EXCEPT !.pc = "put", !.change = change])

\* A request to set something: the profile may have to be read first.
Starts(t, talk) ==
    LET store == hub[Document(talk.setting)] IN
    /\ talks[t] = Idle
    /\ \/ store.loaded /\ Changes(t, talk, store)
       \/ /\ ~store.loaded
          /\ Becomes(t, [talk EXCEPT !.pc = "load"])
          /\ UNCHANGED <<hub, leader>>
    /\ UNCHANGED <<pending, records, memory>>

\* The profile is read, even if another request did so and changed it.
ProfileRead(t) ==
    /\ talks[t].pc = "load"
    /\ Changes(t, talks[t], Load(hub.profile))
    /\ UNCHANGED <<pending, records, memory>>

\* POST brain, preset, profile.
SetByHand(t, user, setting) ==
    Starts(t, [Idle EXCEPT !.user = user, !.setting = setting])

\* chat(): the words ask for a change; it is proposed, not made.
Propose(user, setting) ==
    /\ leader.proposals < MaxProposals
    /\ leader' = [leader EXCEPT !.proposals = @ + 1]
    /\ pending' = pending \cup {[id |-> leader.proposals + 1, user |-> user, setting |-> setting]}
    /\ UNCHANGED <<hub, talks, records, memory>>

PendingOf(user) ==
    {p \in pending : p.user = user}

\* chat(): a yes applies the oldest proposal of the speaker, whatever was proposed last.
SaysYes(t, user) ==
    \E oldest \in PendingOf(user) :
        /\ \A p \in PendingOf(user) : oldest.id <= p.id
        /\ Starts(t, [Idle EXCEPT !.user = user, !.setting = oldest.setting,
                                  !.proposal = oldest.id, !.said = TRUE])

\* acceptProposal(): the button on a proposal's card.
Accepts(t, user, id) ==
    \E p \in PendingOf(user) :
        /\ p.id = id
        /\ Starts(t, [Idle EXCEPT !.user = user, !.setting = p.setting, !.proposal = id])

\* The proposal, if it is there still, is pending no more.
Without(id) ==
    {p \in pending : p.id # id}

\* The put has landed, and the answer says the change is done; except that of a
\* yes whose proposal another request took away meanwhile: it throws.
Applied(t) ==
    LET talk == talks[t]
        store == hub[Document(talk.setting)]
        throws == talk.said /\ Without(talk.proposal) = pending
    IN  /\ talk.pc = "put"
        /\ t \in store.acked
        /\ hub' = [hub EXCEPT ![Document(talk.setting)].acked = @ \ {t}]
        /\ pending' = Without(talk.proposal)
        /\ leader' = IF throws THEN leader
                     ELSE [leader EXCEPT !.done = @ \cup {<<talk.setting, talk.change, talk.proposal>>}]
        /\ Becomes(t, Idle)
        /\ UNCHANGED <<records, memory>>

\* The put failed: the change is in force and the proposal is pending.
NotApplied(t) ==
    LET store == hub[Document(talks[t].setting)] IN
    /\ talks[t].pc = "put"
    /\ t \notin store.acked /\ ~Waiting(store, t)
    /\ Becomes(t, Idle)
    /\ UNCHANGED <<hub, pending, records, memory, leader>>

\* register(): the record of a content already there is replaced by the new
\* one, with the sensitivity this upload names.
Upload(f, sensitivity) ==
    /\ leader.uploads < MaxUploads
    /\ leader' = [leader EXCEPT !.uploads = @ + 1]
    /\ records' = [records EXCEPT ![f] = sensitivity]
    /\ UNCHANGED <<hub, pending, talks, memory>>

\* chat(): a question over files on record.  The records are held from here on;
\* the files not analysed yet are read, which takes a while.
Ask(t, user, files, form) ==
    /\ talks[t] = Idle
    /\ leader.turns < MaxTurns
    /\ leader' = [leader EXCEPT !.turns = @ + 1]
    /\ Becomes(t, [Idle EXCEPT !.pc = "read", !.user = user, !.form = form, !.turn = leader.turns + 1,
                               !.attached = {<<f, records[f]>> : f \in {g \in files : records[g] # "none"}}])
    /\ UNCHANGED <<hub, pending, records, memory>>

\* The mistake of asking for the records again by their ids.
OnRecordNow(talk) ==
    {records[a[1]] : a \in talk.attached}

\* The sensitivities of the records the turn holds.
OnRecordThen(talk) ==
    {a[2] : a \in talk.attached}

\* load(): the turns of the short memory that have not expired.
Recalled(user, since) ==
    SubSeq(memory[user], since, Len(memory[user]))

\* The question is dispatched, with what is remembered before it: one
\* privileged attachment, or the form, makes the turn privileged.
Dispatch(t) ==
    /\ talks[t].pc = "read"
    /\ Becomes(t, [talks[t] EXCEPT !.pc = "answered",
                                   !.secret = "privileged" \in OnRecordThen(talks[t]) \cup {talks[t].form}])
    /\ UNCHANGED <<hub, pending, records, memory, leader>>

\* remember(), twice: the memory is read, and written with the line more.
ReadMemory(t, since) ==
    /\ talks[t].pc = "answered"
    /\ since \in 1..(Len(memory[talks[t].user]) + 1)
    /\ Becomes(t, [talks[t] EXCEPT !.pc = "remember", !.recalled = Recalled(talks[t].user, since)])
    /\ UNCHANGED <<hub, pending, records, memory, leader>>

LastLines(lines) ==
    SubSeq(lines, IF Len(lines) > MemoryTurns THEN Len(lines) - MemoryTurns + 1 ELSE 1, Len(lines))

Remember(t) ==
    LET talk == talks[t]
        line == <<talk.turn, IF talk.said THEN "leader" ELSE "lawyer">>
    IN  /\ talk.pc = "remember"
        /\ memory' = [memory EXCEPT ![talk.user] = LastLines(Append(talk.recalled, line))]
        /\ Becomes(t, IF talk.said THEN Idle
                      ELSE [talk EXCEPT !.pc = "answered", !.said = TRUE, !.recalled = <<>>])
        /\ UNCHANGED <<hub, pending, records, leader>>

HubPutLands ==
    /\ \E doc \in DOMAIN hub : \E store \in Landings(hub[doc], TRUE) :
           hub' = [hub EXCEPT ![doc] = store]
    /\ UNCHANGED <<pending, talks, records, memory, leader>>

HubPutFails ==
    /\ leader.faults < MaxHubFaults
    /\ leader' = [leader EXCEPT !.faults = @ + 1]
    /\ \E doc \in DOMAIN hub : \E store \in Refusals(hub[doc], TRUE) :
           hub' = [hub EXCEPT ![doc] = store]
    /\ UNCHANGED <<pending, talks, records, memory>>

\* The process ends: talks, proposals and records are in memory; the short
\* memory and the settings are stored.
LeaderRestart ==
    /\ leader.faults < MaxHubFaults
    /\ leader' = [leader EXCEPT !.faults = @ + 1]
    /\ hub' = [brain |-> Load([Crash(hub.brain, Defaults) EXCEPT !.acked = {}]),
               profile |-> [Crash(hub.profile, Defaults) EXCEPT !.acked = {}]]
    /\ pending' = {}
    /\ talks' = [t \in Talks |-> Idle]
    /\ records' = [f \in Files |-> "none"]
    /\ UNCHANGED memory

LeaderNext ==
    \/ \E user \in Users, setting \in Settings : Propose(user, setting)
    \/ \E f \in Files, s \in {"normal", "privileged"} : Upload(f, s)
    \/ \E t \in Talks :
           \/ \E user \in Users :
                  \/ SaysYes(t, user)
                  \/ \E setting \in Settings : SetByHand(t, user, setting)
                  \/ \E id \in 1..MaxProposals : Accepts(t, user, id)
                  \/ \E files \in SUBSET Files, form \in {"normal", "privileged"} :
                         Ask(t, user, files, form)
           \/ ProfileRead(t) \/ Applied(t) \/ NotApplied(t)
           \/ Dispatch(t) \/ Remember(t)
           \/ \E since \in 1..(MemoryTurns + 1) : ReadMemory(t, since)
    \/ HubPutLands \/ HubPutFails
    \/ LeaderRestart

-----------------------------------------------------------------------------

\* What the owner was told is set in the brain is set, or replaced by a later
\* change, in force and stored: whoever else was setting something, whatever
\* puts failed, and after a restart.  (The profile's two first readers are why
\* this says nothing of the profile.)
SettingsSurvive ==
    \A d \in leader.done :
        Document(d[1]) = "brain" =>
            /\ hub.brain.mem[d[1]] >= d[2]
            /\ hub.brain.disk[d[1]] >= d[2]

\* A proposal that was answered with "done" is pending no more: no later yes
\* applies it a second time.
DoneIsDone ==
    \A d \in leader.done : \A p \in pending : p.id # d[3]

\* A turn over a file that was privileged when it was attached is privileged to
\* the end, whatever the form says and whatever is uploaded meanwhile.
SecretsStick ==
    \A t \in Talks :
        /\ talks[t].pc \in {"answered", "remember"}
        /\ \E a \in talks[t].attached : a[2] = "privileged"
        => talks[t].secret

\* The short memory keeps its bound, repeats no line, and of two lines kept of
\* one turn the lawyer's is the earlier one, however turns overlap.
MemoryHonest ==
    \A u \in Users :
        LET lines == memory[u] IN
        /\ Len(lines) <= MemoryTurns
        /\ \A i, j \in DOMAIN lines : i < j =>
               /\ lines[i] # lines[j]
               /\ lines[i][1] = lines[j][1] => lines[i][2] = "lawyer"

\* What a talk with the Leader leaves behind.
LeaderKeeps ==
    SettingsSurvive /\ DoneIsDone /\ SecretsStick /\ MemoryHonest
=================================================================================
