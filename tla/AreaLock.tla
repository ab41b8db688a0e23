-------------------------------- MODULE AreaLock --------------------------------
(***************************************************************************)
(* The second lock in front of a sensitive area: authvault/                *)
(* area-lock.service.ts and area-lock.guard.ts, for one area.  Its record  *)
(* (password, epoch, enabled) is a LazyStore document; a ticket is a       *)
(* signed [epoch, expiry] in the hands of a client, so it outlives any     *)
(* restart.  setPassword and unlock hash on another thread: what they read *)
(* before that may have changed after it.                                  *)
(***************************************************************************)
EXTENDS Clock, LazyStore, FiniteSets

CONSTANTS Passwords,
          Unlocks,          \* unlock requests that may be in flight
          AreaTtl,          \* twelve hours
          MaxChanges,       \* bound: setPassword and disable together
          MaxCrashes        \* bound

ASSUME AreaAssumption ==
    /\ AreaTtl \in Nat \ {0}
    /\ {MaxChanges, MaxCrashes} \subseteq Nat

VARIABLES lock,             \* the store of the area's record
          setting,          \* passwords being hashed by setPassword
          unlocking,        \* per unlock request: the password and the one it is compared with
          areaTickets,      \* the tickets handed out
          changes,          \* ghost: changes applied in memory so far
          crashes

areaVars == <<lock, setting, unlocking, areaTickets, changes, crashes>>

NoPassword == "none"
NoLock == [enabled |-> FALSE, password |-> NoPassword, epoch |-> 0, change |-> 0]
NoUnlock == [given |-> NoPassword, stored |-> NoPassword]

\* change is a ghost: which change of the record this is.
LockRecord ==
    [enabled : BOOLEAN, password : Passwords \cup {NoPassword},
     epoch : 0..MaxChanges, change : 0..MaxChanges]

AreaInit ==
    /\ lock = NewStore(NoLock)
    /\ setting = {}
    /\ unlocking = [u \in Unlocks |-> NoUnlock]
    /\ areaTickets = {}
    /\ changes = 0
    /\ crashes = 0

AreaLoad ==
    /\ ~lock.loaded
    /\ lock' = Load(lock)
    /\ UNCHANGED <<setting, unlocking, areaTickets, changes, crashes, now>>

\* setPassword, up to the hash: a short password is refused before it.
SetPassword(w) ==
    /\ lock.loaded
    /\ changes + Cardinality(setting) < MaxChanges
    /\ setting' = setting \cup {w}
    /\ UNCHANGED <<lock, unlocking, areaTickets, changes, crashes, now>>

\* The mistake of keeping the epoch when the password changes.
KeptEpoch(prev) ==
    IF prev.epoch = 0 THEN 1 ELSE prev.epoch

NextEpoch(prev) ==
    prev.epoch + 1

\* Its second half: the record is replaced, with the epoch after that of the
\* record found now, and persisted.
PasswordHashed(w) ==
    /\ w \in setting
    /\ lock.loaded
    /\ changes' = changes + 1
    /\ setting' = setting \ {w}
    /\ lock' = Save(lock, [enabled |-> TRUE, password |-> w,
                           epoch |-> NextEpoch(lock.mem), change |-> changes + 1],
                    changes + 1)
    /\ UNCHANGED <<unlocking, areaTickets, crashes, now>>

\* disable: the record stays, with a new epoch.
DisableArea ==
    /\ lock.loaded
    /\ lock.mem # NoLock
    /\ changes + Cardinality(setting) < MaxChanges
    /\ changes' = changes + 1
    /\ lock' = Save(lock, [lock.mem EXCEPT !.enabled = FALSE, !.epoch = @ + 1,
                                           !.change = changes + 1],
                    changes + 1)
    /\ UNCHANGED <<setting, unlocking, areaTickets, crashes, now>>

\* A ticket signed now.  solid and proved are ghosts: whether the record it is
\* signed under was acknowledged, and the password it was traded for.
Ticket(proved) ==
    [epoch |-> lock.mem.epoch, exp |-> now + AreaTtl, change |-> lock.mem.change,
     solid |-> lock.mem.change = 0 \/ lock.mem.change \in lock.acked,
     proved |-> proved]

\* unlock: an open area gives a ticket away.  A locked one takes from the
\* address's budget (its verdict is free here) and hashes, against the record
\* it has read.
Unlock(u, w) ==
    /\ lock.loaded
    /\ unlocking[u] = NoUnlock
    /\ \/ /\ ~lock.mem.enabled
          /\ areaTickets' = areaTickets \cup {Ticket(NoPassword)}
          /\ UNCHANGED unlocking
       \/ /\ lock.mem.enabled
          /\ unlocking' = [unlocking EXCEPT ![u] = [given |-> w, stored |-> lock.mem.password]]
          /\ UNCHANGED areaTickets
    /\ UNCHANGED <<lock, setting, changes, crashes, now>>

\* The comparison with the password read then, and a signature with the epoch
\* of now.
UnlockHashed(u) ==
    /\ unlocking[u] # NoUnlock
    /\ unlocking' = [unlocking EXCEPT ![u] = NoUnlock]
    /\ areaTickets' = IF unlocking[u].given = unlocking[u].stored
                      THEN areaTickets \cup {Ticket(unlocking[u].given)}
                      ELSE areaTickets
    /\ UNCHANGED <<lock, setting, changes, crashes, now>>

\* verifyTicket, for a locked area: expiry and epoch (the signature is good).
Admits(t) ==
    /\ lock.loaded
    /\ lock.mem.enabled
    /\ now <= t.exp
    /\ t.epoch = lock.mem.epoch

LockSettles ==
    /\ lock' \in Settles(lock, TRUE)
    /\ UNCHANGED <<setting, unlocking, areaTickets, changes, crashes, now>>

AreaCrash ==
    /\ crashes < MaxCrashes
    /\ crashes' = crashes + 1
    /\ lock' = Crash(lock, NoLock)
    /\ setting' = {}
    /\ unlocking' = [u \in Unlocks |-> NoUnlock]
    /\ UNCHANGED <<areaTickets, changes, now>>

\* An expired ticket says nothing any more.
AreaTick ==
    /\ Tick
    /\ areaTickets' = {t \in areaTickets : now' <= t.exp}
    /\ UNCHANGED <<lock, setting, unlocking, changes, crashes>>

AreaNext ==
    \/ AreaLoad \/ DisableArea \/ LockSettles \/ AreaCrash \/ AreaTick
    \/ \E w \in Passwords : SetPassword(w) \/ PasswordHashed(w)
    \/ \E u \in Unlocks : UnlockHashed(u) \/ \E w \in Passwords : Unlock(u, w)

AreaSpec ==
    AreaInit /\ ClockInit /\ [][AreaNext]_<<areaVars, now>>

-----------------------------------------------------------------------------

\* Type correctness of the lock's store and the requests.
AreaTypeOK ==
    /\ lock \in StoreType(LockRecord, 1..MaxChanges)
    /\ setting \subseteq Passwords
    /\ unlocking \in [Unlocks -> [given : Passwords \cup {NoPassword},
                                  stored : Passwords \cup {NoPassword}]]
    /\ changes \in 0..MaxChanges

\* "password change kills old tickets by epoch mismatch", across crashes: a
\* ticket signed under an acknowledged record is never admitted again once a
\* later change has been acknowledged (area-lock.service.ts setPassword,
\* disable, verifyTicket).
AckedChangeKillsTickets ==
    \A t \in areaTickets :
        (t.solid /\ \E c \in lock.acked : c > t.change) => ~Admits(t)

\* "Correct password -> admission ticket. Wrong -> 401"
\* (area-lock.service.ts:128): a ticket the locked area admits was traded for
\* the password the area has.
TicketsProvePassword ==
    \A t \in areaTickets :
        (t.change = lock.mem.change /\ Admits(t)) => t.proved = lock.mem.password
=================================================================================
