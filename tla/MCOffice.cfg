\* The law office behind the wallet, one part at a time.
SPECIFICATION MCSpec
CONSTANTS
    Parts = {"drafting", "shelf", "society", "settings", "turns", "workers", "bridge",
             "mail", "inbox", "signatures", "wizard", "posture", "archives",
             "restores", "bundles", "budget", "providers", "replies", "retrieval", "kitchen", "monitor"}
    MaxDrafts = 2
    Generators = {g1, g2}
    HardStop = 1
    AlertAt = 1
    CallCost = 1
    MaxCalls = 3
    MaxDraftPuts = 1
    MaxDraftCrashes = 1
    Texts = {"b1", "b2"}
    HandTiers = {3}
    Titled <- MCTitled
    Sound = {"b1", "b2"}
    Official = {"b1"}
    Windows = {"w1"}
    Wire <- MCWire
    Syncs = {"s1"}
    MaxShelfPuts = 1
    MaxRebuilds = 1
    MaxShelfFaults = 1
    MaxClock = 2
    Core = {"criminal"}
    Spawnable = {"spawn"}
    FieldOf <- MCFieldOf
    Questions <- MCQuestions
    Dispatches = {"d1"}
    Tier = "spartan"
    EnvPolicy = "none"
    Presets = {"none"}
    Ttls = {1, 2}
    MaxGrants = 2
    MaxTasks = 1
    MaxOwnerActs = 2
    Users = {"owner"}
    Talks = {t1, t2}
    Settings = {"preset", "locale"}
    Files = {"f1"}
    MaxProposals = 1
    MaxSettingChanges = 2
    MaxTurns = 2
    MaxUploads = 2
    MemoryTurns = 3
    MaxHubFaults = 1
    Callers = {c1, c2}
    Hands = {h1}
    Requests <- MCRequests
    MaxJobs = 3
    MaxWireFaults = 1
    Replicas = {r1, r2}
    RingLimit = 1
    MaxEvents = 2
    MaxBridgeFaults = 2
    Mails = {m1, m2}
    Dialogues <- MCDialogues
    Pushes = {p1, p2}
    Cap = 1
    MaxMessages = 2
    MaxMarks = 1
    MaxInboxFaults = 1
    Signers = {s1}
    InOrderDriver = TRUE
    MaxKeys = 2
    MaxSignatures = 2
    MaxSignatureFaults = 1
    Steps <- MCSteps
    Asks = {a1, a2}
    MaxStarts = 2
    MaxReads = 3
    MaxWrites = 2
    MaxWizardFaults = 1
    Checks <- MCChecks
    Critical = {}
    Scans = {z1, z2}
    MaxReports = 2
    MaxScans = 3
    MaxSlips = 1
    MaxPostureFaults = 1
    Kinds = {"daily"}
    Retention <- MCRetention
    Cron <- MCCron
    Shells = {sh1, sh2}
    FirstShell = sh1
    Urls = {"uri", "uri without port"}
    HasKey = TRUE
    RetainDays = 1
    MaxArchives = 2
    MaxDays = 1
    MaxWork = 1
    MaxRestores = 1
    MaxBackupFaults = 1
    StoreKeys = {1, 2}
    Driver = "pg"
    PageLimit = 1
    Corrupt = {2}
    MaxSaves = 3
    MaxBundleFaults = 1
    Queries = {q1, q2}
    Quota = 1
    NoQuota = NoQuota
    Usage = {0, 1}
    MonthOf <- MCMonths
    MaxAsked = 3
    MaxBudgetFaults = 1
    Categories = {"sms", "storage", "email"}
    InTable = {"sms", "storage"}
    AdapterKeys = {"mock", "kavenegar"}
    Environment <- MCEnvironment
    InProduction = TRUE
    Testers = {d1}
    MaxConfigs = 2
    MaxConfigWrites = 4
    Payloads <- MCPayloads
    MaxPushes = 2
    Bodies <- MCBodies
    Windowed <- MCWindowed
    Sentences <- MCSentences
    Packed <- MCPacked
    Library <- MCLibrary
    Within <- MCWithin
    StopWords = {"of"}
    LawQueries <- MCLawQueries
    Near <- MCNear
    Hits <- MCHits
    MaxHits = 3
    Painted = 1
    Ticker = 2
    MaxEmits = 2
    MaxStreams = 2
    MaxKitchenFaults = 1
    Routes = {"login"}
    Probers = {b1}
    RedisWanted = TRUE
    MaxServed = 2
    MaxTurnsOfLuck = 1
INVARIANTS
    ReviewsRest
    OvershootBounded
    TextHolds
    SocietyHolds
    LeaderKeeps
    WiresHold
    PapersHold
    WatchHolds
    CellarHolds
PROPERTY
    CallersEnd
CHECK_DEADLOCK FALSE
