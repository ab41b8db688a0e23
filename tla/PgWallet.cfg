SPECIFICATION FairSpec
CONSTANTS
  Users = {u1, u2}
  Sessions = {s1}
  Amounts = {1, 2}
  Prices = {1}
  Adapters = {"zarinpal", "mock"}
  Requests = {r1, r2}
  None = None
  MinTopup = 2
  PoolSize = 2
  MaxEntries = 2
INVARIANTS TypeOK Inv IndexNeverHit CreditsAreVerified
PROPERTIES BalanceFollowsLedger ImplementsLedger EveryRequestEnds
