-------------------------------- MODULE MCOffice --------------------------------
(***************************************************************************)
(* The law office behind the wallet: drafts, the shelf of law, the society *)
(* of agents, the Leader, the Python workers, the bridge between replicas, *)
(* mail, the owner's inbox, signatures, the setup wizard, the security     *)
(* sweep, backups and bundles, the budget, the providers' settings, the    *)
(* replies of Redis, the search of laws, the kitchen and the monitor, side *)
(* by side.                                                                *)
(* Each keeps documents of its own and none waits for another, so one      *)
(* behaviour exercises one of them: the initial state chooses the part,    *)
(* and the others stay as they began.  The Leader's settings and its turns *)
(* are two parts: they share only who speaks.                              *)
(***************************************************************************)
EXTENDS Drafting, Shelf, Society, Leader, PyWorkers, EventBridge, Mailer, Inbox, Signatures,
        Wizard, Posture, Backups, Bundles, Budget, Providers, Resp, Retrieval, Kitchen,
        Monitor, TLC

CONSTANTS
    Parts,              \* bound: the parts a run exercises
    FirstShell          \* the shell that works beside a restore

VARIABLE part

\* Two texts under one title, one after the other in force.
MCTitled == [t \in Texts |-> "law"]

\* One window, whose third item cannot be fetched.
MCWire == [w \in Windows |-> [items |-> <<"b1", "b2">>, failed |-> 1]]

MCFieldOf == [a \in Agents |-> IF a \in Spawnable THEN "general" ELSE a]
MCQuestions == {{"theft"}}

\* An analysis of two jobs, and a probe.
MCRequests == {<<"file_digest", "extract_any">>, <<"ping">>}

\* With TLS or without, with a login or without.
MCDialogues ==
    {<<"greeting", "EHLO">> \o tls \o auth \o <<"MAIL FROM", "RCPT TO", "DATA", "body", "QUIT">> :
        tls \in {<<>>, <<"STARTTLS", "EHLO">>}, auth \in {<<>>, <<"AUTH LOGIN", "user", "password">>}}

MCSteps == <<"welcome", "brain", "done">>
MCChecks == <<"workers.liveness", "standards.freshness">>

MCRetention == [k \in Kinds |-> 1]

\* The nightly backup with everything on, the plain one, and the older script.
MCCron ==
    {[kind |-> "daily", encrypt |-> on, upload |-> on] : on \in BOOLEAN}
        \cup {[kind |-> "old", encrypt |-> FALSE, upload |-> FALSE]}

MCMonths == <<1, 2>>
\* A driver that needs the database the environment does not name.
MCEnvironment == [sms |-> "kavenegar", storage |-> "pg", email |-> "", database |-> FALSE]

\* Nothing, a letter, and a letter with a line end after it.
MCPayloads == {<<>>, <<Letter>>, <<Letter>> \o Eol}

\* Texts of up to six letters and blanks, or four sentences; a window wider than
\* its overlap, and one that is not; three laws about land and rent.
MCBodies == UNION {[1..n -> BOOLEAN] : n \in 0..6}
MCWindowed == {[size |-> 3, overlap |-> 1], [size |-> 2, overlap |-> 2]}
MCSentences == UNION {[1..n -> {1, 2, 5}] : n \in 0..4}
MCPacked == {[size |-> 4, overlap |-> 2]}

MCLibrary ==
    <<[words |-> <<"rent", "of", "land">>, title |-> <<"land">>, tier |-> 2],
      [words |-> <<"landlord", "rent", "rent">>, title |-> <<"rent", "of", "land">>, tier |-> 1],
      [words |-> <<"land">>, title |-> <<"water">>, tier |-> 3]>>

MCWithin ==
    [rent |-> {"rent"}, of |-> {"of"}, land |-> {"land"}, landlord |-> {"land", "landlord"}]

MCLawQueries ==
    {<<"rent">>, <<"land">>, <<"of">>, <<"water">>, <<"rent", "of", "land">>}

\* Far, near and nearer.
MCNear == {-10, 40, 80}

\* Candidates that words found, that meaning found, or both, old and new.
MCHits ==
    {[lexical |-> 4, vector |-> 0, tier |-> 1, halfLives |-> 0],
     [lexical |-> 4, vector |-> 50, tier |-> 2, halfLives |-> 1],
     [lexical |-> 0, vector |-> 80, tier |-> 1, halfLives |-> 1],
     [lexical |-> 2, vector |-> 50, tier |-> 3, halfLives |-> 0]}

MCNoStudy == [kind |-> "none"]

MCInit ==
    /\ part \in Parts
    /\ DraftingInit /\ ShelfInit /\ ClockInit /\ SocietyInit /\ LeaderInit /\ PyInit
    /\ BridgeInit /\ MailerInit /\ InboxInit /\ SignaturesInit /\ WizardInit /\ PostureInit
    /\ BackupsInit /\ BundlesInit /\ BudgetInit /\ ProvidersInit /\ RespInit /\ KitchenInit
    /\ MonitorInit
    /\ IF part = "retrieval" THEN RetrievalInit ELSE study = MCNoStudy
    /\ part # "drafting" => ~aiWired
    /\ part # "replies" => reader = [kind |-> "client", secured |-> FALSE]
    /\ part \notin {"archives", "restores"} => backups.url = "uri"

\* Bounds on what is combined with a fault: beside a crash one generation, one
\* charge and one draft with the provider wired; one push, and nothing marked as
\* read, beside a failing store; a third sweep only when nothing has failed;
\* one shell once a day has passed and a script has failed, and no change of the
\* database beside a restore that fails.  And one turn beside two uploads, and two
\* grants only to one agent for one field, beside one change by the owner.
Narrowed ==
    /\ drafting'.crashes > 0 =>
           /\ aiWired
           /\ drafting'.calls <= 1 /\ tray'.mem[2].state = "absent"
           /\ Cardinality({g \in Generators : generation'[g] # NoGeneration}) <= 1
    /\ posture'.scans > 2 => posture'.faults = 0
    /\ desk'.faults > 0 => desk'.marks = 0 /\ Cardinality({p \in Pushes : pushes'[p] # NoPush}) <= 1
    /\ backups'.faults > 0 =>
           \/ part = "archives" /\ (backups'.today > 0 => Cardinality({s \in Shells : shells'[s] # NoShell}) <= 1)
           \/ part = "restores" /\ database'.work = 0
    /\ leader'.uploads > 1 => leader'.turns <= 1
    /\ Len(society'.grants) > 1 =>
           /\ counts'.acts <= 1
           /\ Cardinality({<<society'.grants[i].agent, society'.grants[i].field>> :
                              i \in DOMAIN society'.grants}) = 1

Only(p) ==
    /\ UNCHANGED part
    /\ p # "drafting" => UNCHANGED draftingVars
    /\ p # "shelf" => UNCHANGED shelfVars
    /\ p # "society" => UNCHANGED <<now, societyVars>>
    /\ p \notin {"settings", "turns"} => UNCHANGED leaderVars
    /\ p = "settings" => leader'.turns = 0 /\ leader'.uploads = 0
    /\ p = "turns" => leader'.changes = 0 /\ leader'.proposals = 0
    /\ p # "workers" => UNCHANGED pyVars
    /\ p # "bridge" => UNCHANGED bridgeVars
    /\ p # "mail" => UNCHANGED mailVars
    /\ p # "inbox" => UNCHANGED inboxVars
    /\ p # "signatures" => UNCHANGED signatureVars
    /\ p # "wizard" => UNCHANGED wizardVars
    /\ p # "posture" => UNCHANGED postureVars
    /\ p \notin {"archives", "restores"} => UNCHANGED backupVars
    /\ p = "archives" => restoring' = restoring /\ database'.work = 0
    /\ p = "restores" => backups'.today = 0 /\ \A s \in Shells : shells'[s] # NoShell => s = FirstShell
    /\ p # "bundles" => UNCHANGED bundleVars
    /\ p # "budget" => UNCHANGED budgetVars
    /\ p # "providers" => UNCHANGED providerVars
    /\ p # "replies" => UNCHANGED respVars
    /\ p # "retrieval" => UNCHANGED retrievalVars
    /\ p # "kitchen" => UNCHANGED kitchenVars
    /\ p # "monitor" => UNCHANGED monitorVars
    /\ Narrowed

MCNext ==
    \/ part = "drafting" /\ DraftingNext /\ Only("drafting")
    \/ part = "shelf" /\ ShelfNext /\ Only("shelf")
    \/ part = "society" /\ SocietyNext /\ Only("society")
    \/ part \in {"settings", "turns"} /\ LeaderNext /\ Only(part)
    \/ part = "workers" /\ PyNext /\ Only("workers")
    \/ part = "bridge" /\ BridgeNext /\ Only("bridge")
    \/ part = "mail" /\ MailerNext /\ Only("mail")
    \/ part = "inbox" /\ InboxNext /\ Only("inbox")
    \/ part = "signatures" /\ SignaturesNext /\ Only("signatures")
    \/ part = "wizard" /\ WizardNext /\ Only("wizard")
    \/ part = "posture" /\ PostureNext /\ Only("posture")
    \/ part \in {"archives", "restores"} /\ BackupsNext /\ Only(part)
    \/ part = "bundles" /\ BundlesNext /\ Only("bundles")
    \/ part = "budget" /\ BudgetNext /\ Only("budget")
    \/ part = "providers" /\ ProvidersNext /\ Only("providers")
    \/ part = "replies" /\ RespNext /\ Only("replies")
    \/ part = "retrieval" /\ RetrievalNext /\ Only("retrieval")
    \/ part = "kitchen" /\ KitchenNext /\ Only("kitchen")
    \/ part = "monitor" /\ MonitorNext /\ Only("monitor")

officeVars ==
    <<part, now, draftingVars, shelfVars, societyVars, leaderVars, pyVars, bridgeVars,
      mailVars, inboxVars, signatureVars, wizardVars, postureVars, backupVars,
      bundleVars, budgetVars, providerVars, respVars, retrievalVars, kitchenVars,
      monitorVars>>

\* A caller goes on: a push ends (its socket has a timeout), the deadline passes,
\* and the loop that has reached its end ends.  Of Redis and of the workers
\* nothing is assumed.
CallersRun ==
    \A c \in Callers :
        WF_pyVars(part = "workers" /\ (Push(c) \/ DeadlinePasses(c) \/ Answered(c)) /\ Only("workers"))

MCSpec == MCInit /\ [][MCNext]_officeVars /\ CallersRun

-----------------------------------------------------------------------------

\* On the wires: no event reaches a replica's listeners twice, a mail called sent
\* was taken by the server, an answer of the workers is theirs, and the kitchen
\* shows one stream.
WiresHold ==
    EachEventOnce /\ SuccessMeansAccepted /\ AnswersHonest /\ KitchenHolds

\* On paper: the shelf of law and its index stay sound, a signature that was
\* answered verifies, and the wizard's steps are done in their order.
PapersHold ==
    ShelfKept /\ SignaturesStick /\ StepsInOrder

\* On watch: a regression of the sweep is a fire, the bell of a message says what
\* became of the call, and the counters and the probes say what there was.
WatchHolds ==
    FiresAreTold /\ NeverPretends /\ MonitorHolds

\* In the text: a law is cut so that it is found again, and the replies of Redis
\* are read as they were sent however TCP cuts them.
TextHolds ==
    RetrievalHolds /\ FramesHold

\* In the cellar: a retention keeps the newer archives, a restore that says done
\* has restored, a bundle holds what did not change while it was made, no answer
\* is charged to a month twice, and what stands in for a provider is of its kind.
CellarHolds ==
    RetentionKeepsNewer /\ DoneIsRestored /\ BundleWhole /\ MonthlyNeverOverstates
        /\ StandInsAreOfTheirKind
=================================================================================
