SPECIFICATION FairSpec
CONSTANTS
  Users = {u1, u2}
  Sessions = {s1}
  Amounts = {1, 2}
  Prices = {1}
  Adapters = {"zarinpal", "mock"}
  Requests = {r1, r2}
  None = None
  MinTopup = 2
  TxnCap = 2
  u1 = u1  u2 = u2
  MaxRows <- RowBound
INVARIANTS TypeOK DocumentIsTheHistory NoOrphanIntent CreditedOnceWithinCap CreditsAreVerified
PROPERTIES EveryRequestEnds
