\* The parts that decide who somebody is: codes, sessions, area locks, machine
\* tokens and their rotation, passkeys, rate limits.
SPECIFICATION MCSpec
CONSTANTS
    MaxClock = 16
    LimitRule <- MCLimitRule
    Idle = 6
    Drivers = {"memory", "redis"}
    Phones = {p1}
    Emails = {e1}
    Logins = {r1, r2}
    VerifyRule <- MCVerifyRule
    CodeTtl = 1
    MaxChallenges = 2
    MaxRestarts = 1
    MaxWrong = 5
    Processes = {a1}
    Refreshes = {f1, f2}
    MaxSessions = 3
    TicketIds = {k1}
    SessionTtl = 3
    TicketTtl = 2
    PurgeEvery = 1
    Passwords = {w1, w2}
    Unlocks = {u1}
    AreaTtl = 1
    MaxChanges = 2
    MaxCrashes = 1
    MaxTokens = 2
    Rotations = {o1}
    InOrder = TRUE
    Lifetime = 2
    MaxAge = 1
    MaxTokenPuts = 2
    MaxTokenCrashes = 1
    Keys = {y1}
    MaxCeremonies = 3
    ChallengeTtl = 0
    MaxCounter = 2
    MaxRegistrations = 2
    MaxPasskeyCrashes = 1
SYMMETRY Symmetry
INVARIANTS
    IdentityTypeOK
    AtMostTwiceTheLimit
    GuessesBounded
    BurntCodeOpensNoMore
    NoDuplicateInsert
    OneHeirPerSession
    TicketOncePerBoot
    AckedChangeKillsTickets
    RotatedStaysDead
    AdviceNeverFlatters
    CountersNeverRewind
PROPERTY
    LockHolds
CHECK_DEADLOCK FALSE
