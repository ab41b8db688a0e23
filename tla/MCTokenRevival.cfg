\* Tokens over the Postgres driver, whose puts land in any order.
SPECIFICATION TokensSpec
CONSTANTS
    MaxClock = 1
    MaxTokens = 1
    Rotations = {o1}
    InOrder = FALSE
    Lifetime = 1
    MaxAge = 1
    MaxTokenPuts = 2
    MaxTokenCrashes = 1
INVARIANT RevokedSurvivesRestarts
CHECK_DEADLOCK FALSE
