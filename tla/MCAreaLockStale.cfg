\* A password change while an unlock is hashing.
SPECIFICATION AreaSpec
CONSTANTS
    MaxClock = 1
    Passwords = {w1, w2}
    Unlocks = {u1}
    AreaTtl = 1
    MaxChanges = 2
    MaxCrashes = 0
INVARIANT TicketsProvePassword
CHECK_DEADLOCK FALSE
