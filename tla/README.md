# Verification of the legal platform

TLA+ models of a law office's platform: the API (`apps/api`, NestJS), its Python
workers, the shared packages they need, one tab of the dashboard and the backup
scripts; the TLC instances that check them, and TLAPS proofs. Paths below are relative
to `src/apps/api/src/` unless they say otherwise. `PROJECT.json` maps every definition
to its lines, lists the hazards the properties are for, and the findings.

## 1. The system and its parts

The API is one Node process, or several replicas of it in front of one Postgres
database. Between two `await`s a request runs alone in its process; at every
`await` other requests of the same process, and at any time other replicas, may
come in. Most services keep one document in memory, read by the first request after a
boot and written back whole by every change, through a storage port that is a directory
(`local`) or a table (`pg`).

| Part | State | Operations | Hard behaviour | What makes it correct |
|---|---|---|---|---|
| Postgres wallet (`modules/billing/pg-wallet.service.ts`, migration 009) | `wallet_accounts`, append-only `wallet_entries` | top-up start and confirm, debit, refund | transactions of several replicas, row locks, a gateway call inside a transaction, pool limit, lost connections | balance = sum of the ledger; a paid session is credited once, for its amount |
| JSON wallet (`modules/billing/wallet.service.ts`) | one document per user | the same | per-user promise chain, a confirm that leaves the chain for the gateway, truncation to 500 rows, torn and failed writes, crash | the document is its history; credit is idempotent |
| Payment adapters (`providers/payment/*`) | gateway sessions | create a session, verify; mock: mark paid | wrong amounts, unpaid or lapsed sessions, timeouts | an answer is only "valid" for a paid session |
| Consultation queue and billing (`modules/consultation`, `modules/billing/billing.service.ts`) | tickets and telecoms state, written back whole; purchases, in memory only | online/open, join, next, skip, start call, end, cancel; buy, consume, refund | lazy load, snapshots in flight, refused writes and refunds, restart | nobody is served twice, nothing that is over comes back, refunds return what was paid |
| Codes, sessions, limits (`modules/auth`, `security`, `common/*rate-limit*`) | rows of challenges, accounts, sessions; buckets; redeemed tickets | request and verify a code, refresh, logout, redeem, consume | unlocked read-modify-write, a commit between revoke and re-issue, memory per process | guesses are bounded, a session has one heir, a stream ticket opens one stream |
| Area locks, passkeys, machine tokens, rotation (`modules/authvault`, `modules/machine-tokens`) | documents of the lazy kind; challenges in memory | set password, unlock, disable; ceremonies; issue, verify, revoke, rotate all | a hash awaited between read and use, a loop of awaited revocations and issues | an old password, a dead token, a rewound counter opens nothing |
| Drafting and meter (`modules/rag`) | drafts, the month's usage | create, generate, review, supersede; record a call | an object changed over five awaits, hard stop half way, swallowed illegal moves | nothing unfounded is reviewed, reviews stand, the overshoot is bounded |
| Law (`modules/corpus`, `modules/rag`) | laws and their versions, runs, the index of meaning | ingest, verify, sync, retry, rebuild; cut, search, rerank | runs and retries at once, puts that fail under a run | one version of a title in force; what is verified is sound; what is found is ranked |
| Society (`modules/orchestrator`, `src/apps/agents`) | grants, pins, members, metrics, in memory | dispatch; grant, revoke, pin, switch off, spawn, retire | the owner changes what a dispatch has read | privileged stays local, what runs was granted, grounded is said of law |
| Leader (`modules/orchestrator/leader-conversation` and its desks) | proposals, settings, short memory, files | chat, confirm, configure, upload | a proposal applied over awaits, first reads racing | a setting told is stored, secrets stay secret |
| Workers and Redis (`python-worker.service`, `providers/queue`, `src/apps/workers/py`) | a Redis list, answers, bytes on a socket | push, pop, post, wait; frame | jobs lost with their worker, silent or closed connections, TCP cutting anywhere | callers end, answers are their own, replies are read as sent |
| Events (`agent-event-bus`, `redis-event-bridge`; dashboard's kitchen tab) | rings, subscriptions, streams | emit, publish, re-emit; open, break, reopen | echoes, replaced subscribers, two openings | an event is heard once; one stream is shown |
| Mail, inbox, signatures, wizard, sweep (`providers/email`, `modules/notifications`, `signature`, `setup`, `security`) | a socket; small documents | send; push, call, read; sign, revoke; advance; scan | silence after the greeting; push without a load; two puts that fail apart; late first reads; overlapping scans | success means accepted; the bell tells the truth; signatures verify; steps in order; regressions are told |
| Budget, provider settings, bundles (`modules/orchestrator/budget-gate`, `modules/providers`, `modules/ops`) | records per day and month; rows; objects | check, consume; create, update, test; make, bring | lost updates, midnight, verdicts on rows that changed, pages under change | the month never overstates; stand-ins are of their kind; a bundle is whole |
| Backup scripts (`src/scripts`) | archives here and offsite, the database | back up, prune, restore, roll back | killed between commands, overlapping, placeholders | retention keeps the newer ones; "restored" is restored |
| Probes and counters (`modules/health`, `common/metrics.middleware.ts`) | counters in memory | probe, count, scrape, show | checks side by side while services come and go | what is scraped adds up; a good answer is not about a dead database |
| Audit log, alerting rules, other tabs, client page, install and diagnostics scripts, infrastructure | little or none | | | not modelled (section 5) |

Interactions. The queue asks billing for a purchase when a client joins, marks it
consumed, and has it refunded on cancel; billing debits and refunds the wallet; the
wallet opens and verifies gateway sessions. A chat of the Leader becomes a dispatch of
the society, which searches the law, asks the budget and the grants, and may give jobs
to the Python workers; its events go over the bus to other replicas and to the kitchen.
Drafting searches the law and asks the meter. Rotation revokes and issues machine
tokens. Notifications are fired and not waited for.

## 2. Modules

| Module | Models |
|---|---|
| `PaymentGateway` | ZarinPal and the mock adapter, as the wallets see them |
| `WalletLedger` | abstract specification: what a wallet promises, as four atomic operations |
| `PgWallet` (extends `PaymentGateway`) | the Postgres wallet, one action per statement where another transaction can come between; it implements `WalletLedger` |
| `JsonWallet` (extends `PaymentGateway`) | the file wallet in one process, with its storage |
| `Billing`, `ConsultationQueue` (extends `Billing`) | purchases; the line and its storage |
| `Clock` | the one variable `Date.now()` is |
| `LazyStore` | the pattern of load, change, persist and its puts, as operators on a record; used by `AreaLock`, `MachineTokens`, `Passkeys`, `Drafting`, `Shelf`, `Leader`, `Inbox` |
| `RateLimits`, `RateLimiter` | the arithmetic of both limiters; one key of either over time |
| `OtpLogin`, `Sessions` | codes and accounts; sessions, tickets, replicas |
| `AreaLock`, `Passkeys`, `MachineTokens` | the vault |
| `Drafting`, `Shelf`, `Retrieval` | drafts and their meter; laws, runs and index; cutting, searching by words and by meaning, reranking and quoting them |
| `Society` | what an expert answers, and the gates of a dispatch |
| `Leader` | conversations, settings, memory, files |
| `PyWorkers`, `Resp`, `EventBridge`, `Kitchen` | jobs; the framing of replies; events across replicas; the tab that shows them |
| `Mailer`, `Inbox`, `Signatures`, `Wizard`, `Posture` | SMTP; messages and calls; signed drafts; the setup wizard; the security sweep |
| `Budget`, `Providers`, `Bundles`, `Backups`, `Monitor` | the budget gate; provider settings and factory; portable bundles; the scripts; probes and counters |
| `MCJsonWallet`, `MCConsultation` | what TLC needs of the file wallet and the line; the others are run as they are |
| `MCIdentity`, `MCOffice` | compositions, see below |
| `PgWallet_proofs` | the theorems about `PgWallet` |
| `JsonWallet_proofs` | the theorems about `JsonWallet` |
| `ConsultationQueue_proofs` | the theorems about `ConsultationQueue` and `Billing` |
| `LazyStore_proofs` | the lemmas about stores and about sums, for the modules below |
| `Identity_proofs` | the theorems about `RateLimiter`, `OtpLogin`, `Sessions`, `AreaLock`, `MachineTokens`, `Passkeys`, and their composition `MCIdentity` |
| `Papers_proofs` | the theorems about `Drafting`, `Shelf`, `Signatures`, `Wizard` |
| `Wires_proofs` | the theorems about `Mailer`, `Kitchen`, `EventBridge`, `PyWorkers`, `Posture`, `Inbox`, `Monitor` |
| `Office_proofs` | the theorems about `Leader`, `Society`, `Budget`, `Providers`, `Backups`, `Bundles` |

Definitions whose comment begins with "variant" or "The mistake of" are plausible errors (a
forgotten lock, a check left out); nothing refers to them. They are substituted, one
at a time, for the definition that follows them, to see that a property notices.

### Compositions by part
`MCIdentity` and `MCOffice` extend components that share the clock, or nothing, and
never wait for each other. A full product of their states would multiply what is
independent, so the initial state picks one `part`, that component moves, and the
others stay as they began (`Only`). One run thereby checks all of them under one
specification. What components do share is modelled inside one of them: the meter with
the drafts, rotation with the tokens, the index with the shelf, the search and the
budget's answer as choices of a dispatch, what a talk uploads with the talk.

### PgWallet
`accounts` and `entries` are the two tables as committed. `rowLock[u]` is the lock of
`SELECT ... FOR UPDATE` on u's account, `seen[r]` the balance that statement
returned, `staged[r]` the row request r has inserted and not committed, which no
other transaction sees. `pc[r]` runs through `connect` (waiting for the pool),
`begin`, `locked`, `verify` (the gateway call, made while the lock is held),
`insert`, `commit`. A confirm writes the balance it computed from `seen`, debit and
refund update the row in place; so does the code. `Abort` is any failure in any
place, the crash of a replica included: the server rolls back.
Left out: `ensureAccount`'s own wait for a concurrent insert of the same account,
and the mock gateway's loss of its sessions with the process (they outlive it in the
model, which only adds behaviours).

### JsonWallet
`chain[u]` is `exclusive(u)`: the head runs. `file[u]` is the document, missing, torn
or a wallet; `draft[r]` what a request computed from the document it read.
`Preflight`, `Verify`, `ReadForCredit` are the three parts of a confirm: in the
chain, out of it, in it again. `PutFails` and `Crash` follow `writeFileSync`, which
truncates the file before it writes. `lineage` and `started` are history variables.

### Billing and ConsultationQueue
`tickets`, `telecoms`, `loaded` are the service's fields; `stored` what storage holds;
`reply[r]` what it answered to r's two reads; `puts` the snapshots sent by `persist()` and
not yet written, each with the request that waits for it. The tickets and the telecoms
state are two keys in the code and one snapshot here: no property relates them. `pc[r]` is
where a request waits: `load`, `fill`, `load2`, `fill2` for the two reads of
`ensureLoaded`, each answered and then taken; `act` when it is about to run up to its next
await; `joined`, `ended`, `put` for a snapshot on its way; `consume`, `promote` when that
has landed; `refund`, `debit` for the wallet; `record` after the debit.

`Driver` is the storage driver, and decides what comes between two steps (`Turn`,
`Running`). Over Postgres (`pg`) every get and put is a round trip on one of four
connections: everything overlaps, and snapshots land in any order. The local driver reads
and writes synchronously: an await on it is over before the event loop takes up anything
else, so a request runs from its first step to its end, or to the wallet's await, by
itself. It starts in a turn of its own, because every request of the queue is let in by the
guard's session check, a Postgres query whose answer is an event of its own
(`jwt-access.guard.ts:85, 126`). The one exception, the `join` and the `position` that one
controller calls together (`client.controller.ts:152`), load in step with each other: both
have taken what they read before either acts, so the second load replaces nothing. What
the local driver adds are torn files (`Torn`): a write truncates the file first.

A read may fail, and is then taken for a first boot; a write may be refused, and leaves
the old value, the new one, or a torn one; the wallet may refuse a refund; the process may
die. The wallet is its promise: a debit or a refund is one step. `unsent` and `settled` are
history variables. Purchases are forgotten by `Restart`, tickets are not.

### LazyStore
A store is a record `mem`, `loaded`, `disk`, `puts`, `acked`; `Load`, `Save`, `Land`,
`Refuse`, `Crash` are operators on it, so a service's state is one variable. Two
simplifications: the first load after a boot is over before anything else happens
(the race of two first loads is in `ConsultationQueue`, `Wizard` and `Leader`), and
reads do not fail. With the local driver puts land in order, because `put` writes
synchronously after one microtask; with `pg` any of those in flight may land next
(`InOrder`).

### Identity
- `RateLimiter`: the window starts with the first hit and is replaced as a whole, so it
  is fixed although the comment says sliding; what holds is twice the limit. Idle buckets
  are swept after half an hour, also where a preset's window is an hour; no rule that
  locks is that long.
- `OtpLogin`: a request reads the newest challenge, counts, compares and burns in
  separate steps. Budgets in memory are taken without an await; `renewals` counts what
  gives a destination a fresh budget.
- `Sessions`: `LockForRefresh` to `CommitRefresh` is one transaction, `CreateHeir` is
  after it. Processes remember redeemed tickets on their own.
- `AreaLock`: `setPassword` and `unlock` hash between two steps. Tickets are in the
  hands of clients and survive everything.
- `MachineTokens`: `rotateAll` as a loop, revoke, issue and date put one by one. An
  expired token still gets an heir of one day (`max(1, ...)`), two rotations at once mint
  twice, and a rotation that fails loses what it has minted: all of it is in the model.
- `Passkeys`: one account, assertions well signed with some counter.

### Office
- `Drafting`: one month; the shelf's search is a choice. Without an AI provider the local
  fallback never reaches review, because `RETRIEVING` may not become `AWAITING_REVIEW` and
  the catch swallows the error (`Degrades`); a generation may work on an object that
  `LinkHeir` has replaced (`detached`).
- `Shelf`: a text is its identity (its sha256) and comes under one title; a run files,
  verifies, counts and closes over awaited puts, and a retry may overlap it.
  `Retrieval` is a study of one input at a time: windows, sentences, a question, chunks
  and how near they are to it, hits to rerank, an answer to be quoted. Terms are counted as substrings by a table, scores are
  in whole parts, and the order of BM25 is left open.
- `Society`: routing's scores are a choice among the scoped members; a privileged task is
  asked nowhere. Grants, pins and switches survive the retirement of their agent; wildcard
  grants never match anything and are left out. `EnvPolicy` and `Tier` are what the process
  was started with, `Presets` what its owner may choose.
- `Leader`: a turn is `pc` steps between awaits. Two first readers of the profile may
  lose a setting; so `SettingsSurvive` speaks of the brain only.
- `PyWorkers`: LIFO list, a popped job is in hands only, deadlines pass at any moment of
  a wait, a push that fails may have arrived. A connection Redis closes in an orderly way
  leaves its command waiting (`stuck`), as in `EventBridge` the subscriber (`deaf`) and in
  `Mailer` the message: nobody in that code listens for `end`.
- `Resp`: bytes are classes (type and number, cr, lf, payload); the digits of a line are
  not split. `Kitchen`: one agent, two openings; after a late paint (`late`) the list may step
  back at one place, and `ShownInOrder` says that it does so nowhere else.
- `Inbox`, `Signatures`, `Wizard`, `Posture`: the documents of each with its puts, each
  operation cut at its awaits. `push` and `upNext` do not load. `sign` records the key on
  file, whichever key signed. `ensure` of the wizard may come back late.
- `Budget`: every read and write of a record is a step; records of the day live on in the
  questions that hold them. `Providers`: every statement stamps its row. `Bundles`: pages
  by key; `Backups`: one action per command that may fail or be the last one.
- `Monitor`: the checks of a probe end in any order; the migrations' check never says
  down and the disk's has no say (findings). The scrape of `/metrics` is answered and not
  counted, and what the floor refuses is not counted either. Latencies are left out.

## 3. Runs

| Run | What it checks |
|---|---|
| `pg_wallet` | types, the inductive invariant `Inv`, `IndexNeverHit`, `CreditsAreVerified`, `BalanceFollowsLedger`, the refinement `ImplementsLedger`, and `EveryRequestEnds` |
| `json_wallet` | types, `DocumentIsTheHistory`, `NoOrphanIntent`, `CreditedOnceWithinCap`, `CreditsAreVerified`, `EveryRequestEnds` |
| `consultation` | over either driver types and `NoMoneyFromNothing`; over local files `OneInServiceOverFiles`, `PlacesKeptOverFiles`, `StaysOverOverFiles` |
| `identity` | `IdentityTypeOK`, and per part: limiter `AtMostTwiceTheLimit`, `LockHolds`; codes `GuessesBounded`, `BurntCodeOpensNoMore`, `NoDuplicateInsert`; sessions `OneHeirPerSession`, `TicketOncePerBoot`; area lock `AckedChangeKillsTickets`; tokens `RotatedStaysDead`, `AdviceNeverFlatters`; passkeys `CountersNeverRewind` |
| `office` | drafts `ReviewsRest`, `OvershootBounded`; `TextHolds` (cutting and searching of laws, framing of replies); `SocietyHolds`; `LeaderKeeps`; `WiresHold` (events, mail, workers, kitchen); `PapersHold` (shelf, signatures, wizard); `WatchHolds` (sweep, inbox, probes and counters); `CellarHolds` (archives, restores, bundles, budget, providers); the liveness `CallersEnd` |
| `json_torn` | refutes `TornStaysTorn` |
| `consultation_restart`, `consultation_double_join`, `consultation_gateway` | refute `CancelRefunds`, `OneTicketPerPurchase`, and `NoMoneyFromNothing` once gateway purchases are allowed |
| `arealock_stale_unlock` | refutes `TicketsProvePassword` |
| `token_revival` | refutes `RevokedSurvivesRestarts` over the Postgres driver |
| `posture_silent` | refutes `NoSilentDegradation` |

The conjunctions of `office` are named in `MCOffice`; every conjunct is a definition,
with its own comment, of the component it speaks of, and each part exercises its own.

What they show.

- **The Postgres wallet does what it says.** No interleaving of two requests of two
  users, with a failure at any step, credits a session twice or for another amount,
  or lets balance and ledger differ. The account lock alone is enough: the unique
  index is never reached with a duplicate.
- **The file wallet is idempotent up to its cap.** A session can be credited twice
  if, while its second confirm is at the gateway, `TXN_CAP` further rows push the
  first credit out of the document. `CreditedOnceWithinCap` says that this is the
  only way; the instance (with a cap of two) reaches it. A torn wallet reads as an
  empty one and is overwritten (`json_torn`).
- **The line is sound over local files and not over Postgres.** With the local driver one
  client is in service, what is stored is what memory held, a consumed purchase has its
  ticket and nothing that was written as over comes back, whatever fails. With Postgres it
  breaks without any failure: two overlapping calls for the next client call up two, an
  older snapshot lands last, a late first load replaces a line that has grown, one purchase
  takes two places. The last has a run of its own (`consultation_double_join`); the others are
  findings, seen by leaving out `driver = "local"` in the properties of `MCConsultation`. A failed
  read loses the line over either driver, and a crash that tears the file over local ones. What
  holds over both is that refunds mint no money. Two more disagreements with what the code says of itself
  (`consultation_restart`, `consultation_gateway`) do not depend on the driver.
- **Logging in is bounded, not single.** A code may open as many sessions as there are
  requests in flight with it, and never one more later; guesses are bounded by the
  budget of the destination alone. A session has at most one heir; a failure between
  the two halves of a rotation leaves none, which the user notices as a logout.
- **The vault holds over local files.** Every change that was answered kills what it
  should, over refused puts and crashes, except that an unlock which hashes while the
  password changes gets a ticket for the new lock (`arealock_stale_unlock`). Over
  Postgres an older snapshot may land last and revive a revoked token (`token_revival`).
- **The office keeps its promises part by part**, with the exceptions named in the
  properties' comments (a late paint, a key that is not the one on file, the older
  backup script's sweep) and in the findings. A scan by the guardian can hide a
  regression for ever (`posture_silent`).

### Bounds, and why they are enough
- `pg_wallet`: two users, one gateway session, two requests, a pool of two, amounts 1
  and 2, `MaxEntries` 2 rows below which debits and refunds start. Two requests are
  what a race takes, on one account or on two; one session is what idempotence is
  about; both adapters are tried.
- `json_wallet`: the same, with `TxnCap` 2 in the place of 500, so that truncation is
  reached, and `MaxRows` by user (`RowBound`): one user has room to run past the cap,
  the other shows that wallets do not disturb each other.
- `consultation`: one client, two purchases of price 1 and money for two, two
  requests at a time, `MaxTickets` 2, the switches of `SwitchBound` (go online, close the
  line), and `MaxFaults` 2 of any kind, so that a put can be refused or torn and the process
  die after it. The driver is chosen at the start (`driver`). Over Postgres (`OverPg`) there is
  one purchase, one switch and one failure, because everything overlaps: one purchase is what
  a double refund takes. The two request slots are symmetric. Two tickets are enough for one to
  overtake or undo the other; a second client would only be refused what belongs to the first.
- `identity`: two requests of a kind at a time, two of what they race for (challenges,
  passwords, tokens, registrations), one crash. `Horizon` bounds each part's clock by the
  longest window or lifetime plus the ticks that see it end. The two channels of
  `OtpLogin` and its requests are symmetric.
- `office`: two actors where actors race (generations, talks, callers, replicas, mails,
  pushes, asks, scans, shells, questions; one prober, whose checks are the actors), two or three of what they race for, and one
  fault (put, command, restart, closed connection), two in the bridge. `Narrowed` leaves
  out combinations of a fault with everything else at once; its comment lists them, and
  every action of every part still fires. The restores and the archives are two parts of
  one module, as are the Leader's settings and its turns.
- The violation runs use only the failure each is about.

### Fairness
`PgWallet` assumes strong fairness of each request's progress: pg-pool and Postgres
serve waiting clients in order, so whoever is able to go on again and again does;
statements and the gateway call end (`AbortSignal.timeout`). `JsonWallet` assumes
weak fairness only: the event loop runs what is runnable. Neither assumes that
clients call or payers pay. `office` assumes weak fairness of a caller's own steps
(`CallersRun`): its push ends because its socket has a timeout, its deadline passes, and
its loop ends. Nothing is assumed of Redis or the workers, who may never answer; the
one exception `CallersEnd` names is a connection closed in an orderly way, whose
command never ends. All else is checked for safety only.

## 4. Proofs

Eight modules hold theorems and the lemmas they rest on, for every value of the constants
that meets the modules' own assumptions (the largest: requests, purchases, logins, generations,
questions and routes are finitely many; `MailerAssumption`, the shape of every dialogue;
`BudgetAssumption`, that a usage is a natural number and that each day has its month). Bounds such as
`MaxClock`
or `MaxEntries` are parameters there, not numbers.

| Module | Theorem | Statement |
|---|---|---|
| `PgWallet_proofs` | `TypeCorrect` | `Spec => []TypeOK`; in particular no balance is ever negative |
| | `LocksSuffice` | `Spec => []Inv` |
| | `ConfirmIsIdempotent` | `Spec => []IndexNeverHit` |
| | `LedgerIsTheBalance` | `Spec => BalanceFollowsLedger` |
| | `CreditsVerified` | `Spec => []CreditsAreVerified` |
| | `ImplementsWalletLedger` | `Spec => ImplementsLedger` |
| `JsonWallet_proofs` | `WalletTypes` | `Spec => []TypeOK` |
| | `NothingIsLost` | `Spec => []DocumentIsTheHistory` |
| | `CreditsOutliveIntents` | `Spec => []NoOrphanIntent` |
| | `CreditedAgainOnlyPastTheCap` | `Spec => []CreditedOnceWithinCap` |
| | `CreditsVerifiedAndStarted` | `Spec => []CreditsAreVerified` |
| `ConsultationQueue_proofs` | `ConsultationTypes` | `Spec => []TypeOK` |
| | `OneClientInService` | `Spec => []OneInService`, over the local driver |
| | `StorageCatchesUp` | `Spec => []StoredCatchesUp`, likewise |
| | `OverStaysOver` | `Spec => WhatIsOverStaysOver`, likewise |
| | `NoSecondRefund` | `Spec => []RefundedOnce`, over either driver |
| | `NoMoneyIsMade` | `Spec => []NoMoneyFromNothing`, if purchases are paid from the wallet |
| `Identity_proofs` | `LockIsKept` | `LimiterSpec => LockHolds`, for a rule whose window and lock together are at most `Idle + 1` |
| | `TwiceTheLimitAtMost` | `LimiterSpec => []AtMostTwiceTheLimit`, for a rule whose window is at most `Idle + 1` |
| | `GuessesAreBounded` | `OtpSpec => []GuessesBounded` |
| | `OneInsert`, `BurntCodes` | `OtpSpec => []NoDuplicateInsert`, `OtpSpec => []BurntCodeOpensNoMore` |
| | `SessionsTypes`, `OneHeir`, `OneStreamPerBoot` | `SessionsSpec => []SessionsTypeOK`, `[]OneHeirPerSession`, `[]TicketOncePerBoot` |
| | `AckedChangeIsFinal` | `AreaSpec => []AckedChangeKillsTickets` |
| | `TheRotatedStayDead` | `TokensSpec => []RotatedStaysDead`, if puts land in order |
| | `TokensTypes`, `AdviceIsHonest` | `TokensSpec => []TokensTypeOK`, `[]AdviceNeverFlatters`, in any order of the puts |
| | `PasskeysTypes`, `CountersRise` | `PasskeysSpec => []PasskeysTypeOK`, `[]CountersNeverRewind` |
| | `LimiterTypes`, `OtpTypes`, `AreaTypes` | the types of the other parts |
| | `IdentityKeepsTypes` | `MCSpec => []IdentityTypeOK`, whichever part runs |
| `Papers_proofs` | `ReviewsRestAlways` | `DraftingSpec => []ReviewsRest` |
| | `OvershootIsBounded` | `DraftingSpec => []OvershootBounded` |
| | `TheShelfIsKept`, `TheWizardKeepsItsOrder` | `ShelfSpec => []ShelfKept`, `WizardSpec => []StepsInOrder` |
| | `SignaturesStay` | `SignaturesSpec => []SignaturesStick`, if puts land in order |
| | `ThePapersHold` | `MCSpec => []PapersHold`, likewise |
| `Wires_proofs` | `ListensToOne`, `ShowsInOrder` | `KitchenSpec => []OneStream`, `KitchenSpec => []ShownInOrder` |
| | `NoFalseSuccess` | `MailerSpec => []SuccessMeansAccepted` |
| | `EventsAreHeardOnce` | `BridgeSpec => []EachEventOnce` |
| | `AnswersAreHonest` | `PySpec => []AnswersHonest` |
| | `TheWiresHold` | `MCSpec => []WiresHold` |
| | `NoFireForgotten` | `PostureSpec => []FiresAreTold` |
| | `TheInboxPretendsNothing` | `InboxSpec => []NeverPretends` |
| | `TheMonitorIsHonest` | `MonitorSpec => []MonitorHolds` |
| | `TheWatchHolds` | `MCSpec => []WatchHolds` |
| `Office_proofs` | `TheLeaderKeepsItsWord` | `LeaderSpec => []LeaderKeeps` |
| | `TheGatesHold` | `SocietySpec => []SocietyHolds` |
| | `TheMonthNeverOverstates` | `BudgetSpec => []MonthlyNeverOverstates` |
| | `OneProviderServes` | `ProvidersSpec => []StandInsAreOfTheirKind` |
| | `NewerAreKept`, `SaidIsRestored` | `BackupsSpec => []RetentionKeepsNewer`, `BackupsSpec => []DoneIsRestored` |
| | `ABundleIsWhole` | `BundlesSpec => []BundleWhole`, over Postgres |
| | `TheCellarHolds` | `MCSpec => []CellarHolds`, likewise |

Eleven theorems state what they assume beyond the modules' own assumptions, and the runs are
set the same way. `Driver = "local"` (`OneClientInService`, `StorageCatchesUp`,
`OverStaysOver`) is the driver the platform starts with; over Postgres the three are
false (findings). Without `PayMethods` limited
to the wallet `NoMoneyFromNothing` is false, as `consultation_gateway` shows. `InOrder`
(`TheRotatedStayDead`) and `InOrderDriver` (`SignaturesStay`, `ThePapersHold`) are the local driver, and
`token_revival` shows what Postgres makes of it. `Driver = "pg"`
(`ABundleIsWhole`, `TheCellarHolds`) is needed because the local driver lists one page and
never gives a cursor, so a store of more than a page is not whole. The conditions
of `LockIsKept` and `TwiceTheLimitAtMost` are met by every rule a route uses. `NoSecondRefund`
and the types need none of these.

The theorems about `MCSpec` (`IdentityKeepsTypes`, `ThePapersHold`, `TheWiresHold`,
`TheWatchHolds`, `TheCellarHolds`) are the components' own: a step of the composition is a step
of the part that moves or leaves the part's variables alone (`OfficeSteps`, `WatchSteps`,
`CellarSteps`), so every behaviour of the composition is one of each part.

None of the safety properties is inductive; each module names the strengthening that is.

**PgWallet.** That a credit row is not a
duplicate depends on what its transaction read three steps earlier. `Inv` says why
that reading is still true. `ReadsStayFresh`: from its read to its commit a
transaction holds the row lock, and the balance it read is the account's.
`StepsFollowChecks`: a transaction that got past its checks carries a row they
justify. `NothingCreditedYet`: while a confirm is past its read, its session has an
intent and no credit. `SessionsHaveOneOwner`: all rows of a session are one user's,
because the gateway issued it to one start; so the per-account lock is enough to
serialize the confirms of a session. `TypeOK /\ Inv` is inductive (`StepTypes`,
`StepInv`); the lemmas go action by action, and the interesting one is `CommitInv`:
the lock excludes every other transaction that relies on what the commit changes.
`BalanceFollowsLedger` follows because a confirm's computed balance is the current
one plus its row. The refinement maps a commit to the abstract operation it
performs and every other step to a payment or a stutter.

**JsonWallet.** `Inv` is seven conjuncts. `Chained`: a user's chain holds exactly the
requests of that user that wait in it, and who puts is at its head; so what a put was
computed from is still the document (`Drafts`, `Drafted`). `History` then relates the
document to everything ever put (`Matches`: the newest rows, and the sum of all),
including the torn and missing documents that read as empty. `Begun` and `Confirmed` say
what a request may rely on while it is out of the chain at the gateway. `Law` (`Lawful`)
is about the history alone: a credit follows its intents, and two credits of one session
are further apart than `TxnCap`. The second holds because a confirm that credits has seen
its document without the credit, and a document is the newest `TxnCap` rows.

**ConsultationQueue.** `Shaped` is the control: which requests are where with which
argument, and, over local files, one of them at most in its turn. `LineInv` is the storage
of the local driver: the only snapshot on its way is that of the request whose turn it is and
is memory as it stands (`OneOnItsWay`, `CaughtUp`); of a ticket storage has as over, memory has
nothing else (`KeptInMemory`), so a write keeps it, and a torn file shows nothing. From it follow one client in service, and that what
is over stays over across a restart. The money needs no particular driver.
`RefundsClaimed`: the flag of a purchase goes up before the wallet is asked, so one
request at most is on its way to refund it. `MoneyInv` weighs a wallet with everything
bought from it and not given back (`Worth`) and a debit not yet recorded: no step adds to it,
and a restart, which forgets purchases, takes from it.

**Sessions.** `RotationInv`: between its SELECT and its COMMIT a refresh holds the lock of
a live row (`Holds`); after the commit that row is revoked and has no heir yet (`Rotates`),
and no two refreshes are there with one session (`Alone`). So the heir may be created
after the commit, outside the transaction. `TicketInv`: a ticket that opened a stream is
remembered by that process until it has expired; the purge forgets only what the date
refuses by itself.

**OtpLogin.** `InsertInv`: a request about to insert an account holds the advisory lock of
its destination, and the account it did not find is still not there. `CodeInv` counts: the
sessions a code has opened and the requests that found it unburnt (`Spending`) are together
no more than the requests there are; nobody joins `Spending` once the code is burnt. This is
why the bound is the number of requests in flight and not one. `GuessInv` counts the
wrong codes compared with a challenge and the requests that may yet compare one
(`Guessing`) against the budgets they can have come from (`Budgeted`): the bucket there was
when the code was sent, the one that took its place, and those a right code or a restart
renewed. A third bucket cannot start before the code is over, because a code lives for less
than a window (`OtpAssumption`); and a request that took its try before the code was sent is
one of those in flight. The attempts column plays no part in the argument.

**RateLimiter.** `LockInv`: while a lock that was announced runs, the bucket is there, holds
that instant, and was last hit less than window and lock before it. The sweeper drops a
bucket only after half an hour of rest (`Idle`); hence the condition, which every rule a
route uses meets. `CountInv` splits the hits of the last window at the start of the current
bucket: those since are what it counts (`BucketCounts`), those before are at most one
limit more, since they fit in the bucket before it. The same split at the start of a slot
(`SlotCounts`) gives the bound of the fixed windows in Redis.

**Stores.** `LazyStore_proofs` says once what the services that keep one document rely
on. `Holds(st, D)`: every document of the store, in memory, on its way or stored, is in D.
`Follows(st, fact, D, P)`: once the fact is acknowledged all documents are in D and all puts
in P, and while the put that reports it is on its way, so is what was sent after it. Both
survive settling, crashes and reloads (`RestingHolds`, `RestingFollows`) when puts land in
order, and a change that keeps D keeps both (`SavingHolds`, `SavingFollows`). A service has
to say which D and P, and that its operations keep them.

**AreaLock.** `StoreInv` orders the versions of the record: disk, then the puts in the
order they were sent, then memory, each of a later epoch than the one before. `TicketInv`:
a ticket signed under an acknowledged version is of one the disk has or had. So after any
reload a later acknowledged change means another epoch. This is the local driver.

**MachineTokens.** `TokensKept`: an acknowledged revocation is `Follows` with the documents
in which the token is dead, an acknowledged issue with those in which it is known.
`RotationsKept`: a rotation asks whether its heir's put landed and not whether the
revocation's did; `Underway` shows that the first implies the second, since the heir is
made when the token is dead in memory. `RetiredKept`: what it retired then `Holds` dead
everywhere. `AdviceNeverFlatters` follows from types alone, so it holds over Postgres too.

**Passkeys.** `KeysKept`: registrations are numbered, each number is one key's in all
documents (`Proper`), and after a login its registration's counter is at least the login's
(`AtLeast`) and later puts that report a login have a higher one (`Later`). `LoginsKept`:
the logins opened were all acknowledged, in the order of their counters.

**Drafting.** `OneWriter`: a generation that still holds the object of its draft finds it
where it left it, and no other generation holds it; one whose object a supersession replaced
(`detached`) writes to nobody. So over five awaits no generation disturbs a draft that was
reviewed, and `KeepsReviews` holds of every change of the tray; `TrayLaw` carries it to
disk with `Holds` and `Follows`. `MeterInv`: the month's spend, together with a call for
each request that has passed the question and not recorded its answer (`Calling`), is below
the ceiling; who passes the question found the spend below the stop, and all that are past
it are no more than there are.

**Leader.** `BrainInv` is about the brain's document: its snapshots rise from the disk over
the puts to memory (`Rising`), and a put on its way is the one put of the talk that waits
for it, whose change it holds (`Reported`). So an answer that says done speaks of the disk,
and a restart, which reads the disk, cannot take it back. The profile's first read is the
reason nothing is said of the profile: two readers may each begin from the document they
read. `PendingInv` numbers the proposals: no later one has the number of one that is done.
`TurnsInv` is about the lists of lines, those of the short memory and those a talk read and
is about to write (`Lists`): each is `Honest`, and lacks the line its talk will write next
and those after it (`Unsaid`); no two turns in flight are one. So it does not matter which
of two overlapping turns writes last: lines get lost, none is repeated.

**Shelf.** Every document of the store, in memory, on its way or on disk, is in `GoodLaws`
(`Holds` in the sense of the stores): of each title one version is in force, one supersedes
nobody, and the links lead from each other version back to one that is no longer in force and
that nobody else supersedes; what is verified is in agreement with the tier's rules. `SyncHolds`
is what a run relies on over its awaits: the text it is about to count is filed. A crash goes
back to another document of the same set, which is all the property needs.

**Signatures.** Two stores, keys and signatures, whose puts fail apart. `SigDocs` numbers the
signatures and says which were made with the key on file; an answered signature `Follows` with
the documents that have it (`OnRecord`), an answered revocation with those that have it revoked
(`RevokedIn`). A replaced key touches neither, since a signature carries its own public key.

**Wizard.** All states of the wizard, in memory, read late, being written and on disk, are
`GoodStates`: what is completed is a beginning of `Steps`. Late reads and refused writes only
replace one good state with another.

**Society.** `TaskHolds`: a privileged task has no cloud target and asks no model, also while a
pin or a switch changes under it, because its target is decided in one step from what it
carries. `LetThrough`: the grant a task was checked against was in force at that moment; a
later revocation is later. `CardOf` counts the tasks an agent has in hand, those that wait
for a tie included, against what was routed to it.

**Kitchen.** `StreamInv`: a stream is heard only while its opening is at it, an opening
that was stopped listens no more, and the second opening begins with the stop of the
first. `FeedInv`: up to a cut, and beyond it, what is shown is in order, and what is beyond
it is before the next event of the stream that is open (`Fits`); only a late paint (`late`)
leaves a cut that is not the beginning of the list.

**EventBridge.** `Once` relates what each replica has heard, what is arriving and what is being
published: an event on its way to a replica has not been heard there and is on its way once;
one being published has been heard at its origin only. A replaced subscriber drops what
was arriving, so events are lost and none doubles.

**PyWorkers.** `JobsOnce`: a job is yet to be pushed by one caller, or once in the list, or was
run; a push that failed may have arrived, and is not repeated. `Sincere`:
the answers a caller has so far are those of its own jobs, in their order.

**Mailer.** `MailInv`: a call that waits is at some command of its dialogue, and the
server has its message exactly when only QUIT is left.

**Sums** (also in `LazyStore_proofs`). The months' records and the counters by route are added up by folds, whose order
is the order CHOOSE has. The lemmas say once that any function that adds up the parts of a
finite set (`AddsUp`) gives the same sum (`AddsUpOnce`), that one element more or another value
changes the sum by the difference, and that a smaller function has a smaller sum. They go by the
least counterexample among the parts of a set (`FinitePartsIn`), so no theorem of the library
with an operator for a parameter is needed.

**Budget.** A record of a month may lose what another question added, so the sum of the records
is no invariant by itself. `BudgetInv` says there is a charge `h` by month that the records
stay below, whose sum with the answers paid and not yet charged (`Uncharged`) is at most what
providers reported, and that covers the question about to write. A lost update, a refused
write or midnight moves an answer's amount from `Uncharged` to one month of `h` or drops it.

**Posture.** `AllTold` is said of the stored history and of the history each scan has read. A
scan compares its report with the last one it read and appends to the same list, so whichever
scan writes last, the report before its own is the one it compared with. What it has yet
to tell counts as told until it has (`FireTold`).

**Inbox.** `Truthful(called, texted)`: every document of the store consists of messages that
speak only of calls dialled and SMS sent so far. The sets grow only, and a store of the documents of
one set is a store of those of a larger one (`StoreGrows`).

**Monitor.** `Fair`: the counters by route sum up to the totals, in one step because the
middleware counts an answer without an await; what the middleware passes by, the scrape, and
what the floor refuses before it have sums of their own (`CountsInv`). `ProbesInv`: a check that saw the database up
did so after the probe arrived, and a probe that ran while the database was up knows it.
`LinesShowAll` carries the sums to the lines of an exposition, which leaves out the routes
without requests.

**Providers.** No two rows have one stamp, so at most one active row of a category is newest;
the stand-in is of the row's category and not the row, and a category outside the table's
CHECK has no row. A patch keeps type and stand-in (`PatchLaw`).

**Backups.** For each kind the archives `Gone` and those some script is about to remove
(`Doomed`) are all older than enough `Kept` ones (`Shielded`). When
a script makes its list, the newest archive it dooms has as many kept above it as the retention
says; so its number, or the one that divided the others before, whichever is greater, divides
all of them again. Archives that are added only add to what is kept, and a removal takes what is
below. `RestoreInv` says what a restore may rely on
between its commands, and that the database stands on the archive once the files are next.

**Bundles.** `BundlesInv`: what lasts is listed or beyond the cursor, and, while the list is
read, listed or taken. That a page's cursor is its greatest key (`PageGoesOn`) is a matter of
ranks: the i-th key of a page has i - 1 before it, no two keys the same number (`PlacesDiffer`).
An object deleted after it was listed no longer lasts.

Only model-checked:
- all liveness (`EveryRequestEnds`, `CallersEnd`), which needs fairness and `ENABLED`;
- `ConsumedHasATicket`, the part of `PlacesKeptOverFiles` that says a consumed purchase has
  its place in the line;
- `TextHolds`: what the recursive functions and folds of `Retrieval` and `Resp` compute from a
  text, a question or a stream of bytes, an induction over data;
- the behaviours the violation runs show, by their nature.

## 5. Not modelled, and the plan

Not modelled, with the reason:
- `modules/audit` and the alerting rules: an append-only log; rules that nobody evaluates
  (a finding).
- the dashboard's other tabs (among them the setup wizard's 887 lines of steps and the
  dictionaries of `i18n`), and the client page: they fetch and render. The client page
  is subject to a finding.
- `install`, `diagnostics`, `start`, `stop`, `docker-compose`, `nginx`: one command after
  the other, no protocol; `update` is in `Backups` as far as its rollback goes.
- adapters of AI, SMS, voice, push: one HTTP call each; their callers' modules let them
  answer, fail or be silent.
- named entities, stemming, text extraction, cosine similarity, the numbers of BM25:
  arithmetic on text that no property relates to a state.
- `dynamic-provider.service.ts`: provided, used by nobody. `pg-embedding-index.service.ts`
  searches as `Retrieval` says; nothing fills its tables (a finding), so its writes are not
  modelled.
- inside modelled parts: subscriptions and plan changes of billing, several replicas
  sharing one document, speech and transcripts of the Leader, the stream of a draft,
  connection tests of the configuration hub, tenant scoping of storage keys.

What is left: two first reads after a boot that overlap are modelled in `ConsultationQueue`,
`Wizard` and `Leader` only, and failing first reads in `ConsultationQueue` only; a proof of
`ConsumedHasATicket` over local files; subscriptions in `Billing`.
