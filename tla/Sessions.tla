-------------------------------- MODULE Sessions --------------------------------
(***************************************************************************)
(* What a login leaves behind: sessions that rotate (auth.service.ts       *)
(* refreshToken, logout, createSession), the guard that asks the database  *)
(* on every request (security/jwt-access.guard.ts), and the single-use     *)
(* tickets event streams are opened with (security/stream-tickets.ts).     *)
(* Rows are shared by every process; what a process remembers of redeemed  *)
(* tickets is its own and dies with it.                                    *)
(***************************************************************************)
EXTENDS Clock, FiniteSets

CONSTANTS Processes,        \* replicas of the API
          Refreshes,        \* refresh requests that may be in flight
          MaxSessions,      \* bound: rows user_sessions may come to hold
          TicketIds,        \* bound: tickets issued
          SessionTtl,       \* SESSION_TTL_MS, and the life of a refresh token
          TicketTtl,        \* forty-five seconds
          PurgeEvery        \* a minute: consumed tickets are purged at most that often

ASSUME SessionsAssumption ==
    /\ SessionTtl \in Nat \ {0}
    /\ TicketTtl \in Nat \ {0}
    /\ {MaxSessions, PurgeEvery} \subseteq Nat

VARIABLES sessions,         \* user_sessions
          rowLock,          \* FOR UPDATE: the refresh that holds a session's row
          refresh,          \* the refresh requests in flight
          tickets,          \* the tickets issued, each with its session and expiry
          consumed,         \* per process: the tickets it remembers as redeemed
          purgeAt,          \* per process: no purge before that instant
          heirs,            \* ghost: sessions created by rotating a session
          redeemed          \* ghost: the streams this boot of a process opened for a ticket

sessionVars == <<sessions, rowLock, refresh, tickets, consumed, purgeAt, heirs, redeemed>>

SessionIds == 1..MaxSessions

Absent == [state |-> "absent", expires |-> 0]
Free == "free"
None == 0

ASSUME FreeIsNoRefresh ==
    Free \notin Refreshes

SessionsInit ==
    /\ sessions = [s \in SessionIds |-> Absent]
    /\ rowLock = [s \in SessionIds |-> Free]
    /\ refresh = [r \in Refreshes |-> [pc |-> "idle", session |-> None]]
    /\ tickets = [t \in TicketIds |-> [session |-> None, exp |-> 0]]
    /\ consumed = [p \in Processes |-> {}]
    /\ purgeAt = [p \in Processes |-> 0]
    /\ heirs = [s \in SessionIds |-> 0]
    /\ redeemed = [p \in Processes |-> [t \in TicketIds |-> 0]]

Live(s) ==
    sessions[s].state = "live" /\ now < sessions[s].expires

\* The row a session is inserted as: ids are fresh, and numbered as they come.
Fresh(s) ==
    /\ sessions[s] = Absent
    /\ \A e \in 1..(s - 1) : sessions[e] # Absent

NewSession ==
    [state |-> "live", expires |-> now + SessionTtl]

\* createSession for somebody who proved who he is (a code, a passkey).
Login(s) ==
    /\ Fresh(s)
    /\ sessions' = [sessions EXCEPT ![s] = NewSession]
    /\ UNCHANGED <<rowLock, refresh, tickets, consumed, purgeAt, heirs, redeemed, now>>

-----------------------------------------------------------------------------
(* Rotation *)

\* The mistake of reading the row without FOR UPDATE.
ReadForRefresh(r, s) ==
    /\ refresh[r].pc = "idle"
    /\ Live(s)
    /\ refresh' = [refresh EXCEPT ![r] = [pc |-> "revoke", session |-> s]]
    /\ UNCHANGED <<sessions, rowLock, tickets, consumed, purgeAt, heirs, redeemed, now>>

\* BEGIN, SELECT ... FOR UPDATE, and the checks under the lock.  A row that is
\* missing, revoked or expired rolls the transaction back: nothing changes.
LockForRefresh(r, s) ==
    /\ refresh[r].pc = "idle"
    /\ rowLock[s] = Free
    /\ Live(s)
    /\ rowLock' = [rowLock EXCEPT ![s] = r]
    /\ refresh' = [refresh EXCEPT ![r] = [pc |-> "revoke", session |-> s]]
    /\ UNCHANGED <<sessions, tickets, consumed, purgeAt, heirs, redeemed, now>>

\* The old session is revoked and that is committed.
CommitRefresh(r) ==
    LET s == refresh[r].session IN
    /\ refresh[r].pc = "revoke"
    /\ sessions' = [sessions EXCEPT ![s].state = "revoked"]
    /\ rowLock' = [rowLock EXCEPT ![s] = IF @ = r THEN Free ELSE @]
    /\ refresh' = [refresh EXCEPT ![r].pc = "create"]
    /\ UNCHANGED <<tickets, consumed, purgeAt, heirs, redeemed, now>>

\* loadUser, then createSession, outside the transaction.
CreateHeir(r, s) ==
    /\ refresh[r].pc = "create"
    /\ Fresh(s)
    /\ sessions' = [sessions EXCEPT ![s] = NewSession]
    /\ heirs' = [heirs EXCEPT ![refresh[r].session] = @ + 1]
    /\ refresh' = [refresh EXCEPT ![r] = [pc |-> "idle", session |-> None]]
    /\ UNCHANGED <<rowLock, tickets, consumed, purgeAt, redeemed, now>>

\* The database or the process fails under a refresh.  Before the commit the
\* transaction is rolled back; after it the session is gone and has no heir.
RefreshFails(r) ==
    /\ refresh[r].pc # "idle"
    /\ rowLock' = [s \in SessionIds |-> IF rowLock[s] = r THEN Free ELSE rowLock[s]]
    /\ refresh' = [refresh EXCEPT ![r] = [pc |-> "idle", session |-> None]]
    /\ UNCHANGED <<sessions, tickets, consumed, purgeAt, heirs, redeemed, now>>

\* logout: the UPDATE waits for a refresh that holds the row.
Logout(s) ==
    /\ rowLock[s] = Free
    /\ sessions[s].state = "live"
    /\ sessions' = [sessions EXCEPT ![s].state = "revoked"]
    /\ UNCHANGED <<rowLock, refresh, tickets, consumed, purgeAt, heirs, redeemed, now>>

-----------------------------------------------------------------------------
(* Stream tickets *)

\* The guard asks for the session's row on every request with a bearer token
\* (the development token is not modelled), and again of a stream's ticket.
BearerAdmits(s) ==
    Live(s)

StreamAdmits(t) ==
    Live(tickets[t].session)

\* A request the guard let in takes a ticket.
IssueStreamTicket(t, s) ==
    /\ tickets[t].session = None
    /\ BearerAdmits(s)
    /\ tickets' = [tickets EXCEPT ![t] = [session |-> s, exp |-> now + TicketTtl]]
    /\ UNCHANGED <<sessions, rowLock, refresh, consumed, purgeAt, heirs, redeemed, now>>

\* The mistake of forgetting what will have expired by the next purge.
PurgedAhead(p) ==
    IF now < purgeAt[p] THEN consumed[p]
    ELSE {t \in consumed[p] : tickets[t].exp > now + PurgeEvery}

\* purge(): at most once a minute, the tickets that are over are forgotten.
Purged(p) ==
    IF now < purgeAt[p] THEN consumed[p]
    ELSE {t \in consumed[p] : tickets[t].exp > now}

\* redeemStreamTicket and, after it, assertLiveSession.  The ticket is consumed
\* before the database is asked, so a dead session, or a failing database,
\* uses it up too.
RedeemStreamTicket(p, t) ==
    /\ tickets[t].session # None
    /\ purgeAt' = [purgeAt EXCEPT ![p] = IF now < @ THEN @ ELSE now + PurgeEvery]
    /\ \/ /\ now < tickets[t].exp
          /\ t \notin Purged(p)
          /\ consumed' = [consumed EXCEPT ![p] = Purged(p) \cup {t}]
          /\ redeemed' = IF StreamAdmits(t) THEN [redeemed EXCEPT ![p][t] = @ + 1]
                         ELSE redeemed
       \/ /\ now >= tickets[t].exp \/ t \in Purged(p)
          /\ consumed' = [consumed EXCEPT ![p] = Purged(p)]
          /\ UNCHANGED redeemed
    /\ UNCHANGED <<sessions, rowLock, refresh, tickets, heirs, now>>

\* A replica starts again and remembers nothing.
ReplicaRestart(p) ==
    /\ consumed[p] # {}
    /\ consumed' = [consumed EXCEPT ![p] = {}]
    /\ purgeAt' = [purgeAt EXCEPT ![p] = 0]
    /\ redeemed' = [redeemed EXCEPT ![p] = [t \in TicketIds |-> 0]]
    /\ UNCHANGED <<sessions, rowLock, refresh, tickets, heirs, now>>

SessionsTick ==
    Tick /\ UNCHANGED sessionVars

SessionsNext ==
    \/ \E s \in SessionIds : Login(s) \/ Logout(s)
    \/ \E r \in Refreshes, s \in SessionIds : LockForRefresh(r, s) \/ CreateHeir(r, s)
    \/ \E r \in Refreshes : CommitRefresh(r) \/ RefreshFails(r)
    \/ \E t \in TicketIds, s \in SessionIds : IssueStreamTicket(t, s)
    \/ \E p \in Processes, t \in TicketIds : RedeemStreamTicket(p, t)
    \/ \E p \in Processes : ReplicaRestart(p)
    \/ SessionsTick

SessionsSpec ==
    SessionsInit /\ ClockInit /\ [][SessionsNext]_<<sessionVars, now>>

-----------------------------------------------------------------------------

\* Type correctness of rows, requests and tickets.
SessionsTypeOK ==
    /\ sessions \in [SessionIds -> [state : {"absent", "live", "revoked"}, expires : Nat]]
    /\ rowLock \in [SessionIds -> Refreshes \cup {Free}]
    /\ refresh \in [Refreshes -> [pc : {"idle", "revoke", "create"},
                                  session : SessionIds \cup {None}]]
    /\ tickets \in [TicketIds -> [session : SessionIds \cup {None}, exp : Nat]]
    /\ consumed \in [Processes -> SUBSET TicketIds]
    /\ purgeAt \in [Processes -> Nat]
    /\ heirs \in [SessionIds -> Nat]
    /\ redeemed \in [Processes -> [TicketIds -> Nat]]

\* "Lock the row so two concurrent refreshes cannot both rotate"
\* (auth.service.ts:481): whatever interleaving of refreshes, logouts and
\* failures, a session is rotated into at most one other, and only once it is
\* revoked itself, so a family of sessions never has two live members.
OneHeirPerSession ==
    \A s \in SessionIds :
        /\ heirs[s] <= 1
        /\ heirs[s] = 1 => sessions[s].state = "revoked"

\* One boot of one process opens one stream for a ticket, whenever its memory of the
\* redeemed tickets is purged: what the purge forgets is refused as expired.
TicketOncePerBoot ==
    \A p \in Processes, t \in TicketIds :
        redeemed[p][t] <= 1
=================================================================================
