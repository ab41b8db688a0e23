------------------------------- MODULE OtpLogin -------------------------------
(***************************************************************************)
(* Logging in with a code: auth.service.ts requestOtp, verifyOtp, their    *)
(* email twins and the account they create.  Requests interleave at every  *)
(* await; the challenge row a request has read may be old when it is used. *)
(* Budgets (RateLimits) are in the memory of the process and are taken and *)
(* reset without an await; challenges, accounts and sessions are rows.     *)
(***************************************************************************)
EXTENDS Clock, RateLimits, FiniteSets

CONSTANTS Phones, Emails,   \* the destinations of the two channels
          Logins,           \* the requests that may be in flight
          VerifyRule,       \* five tries in fifteen minutes
          CodeTtl,          \* OTP_TTL_SECONDS
          MaxChallenges,    \* bound: codes sent
          MaxRestarts,      \* bound
          MaxWrong          \* bound: wrong codes tried on one challenge

Destinations == Phones \cup Emails

ASSUME OtpAssumption ==
    /\ Phones \cap Emails = {}
    /\ VerifyRule \in [limit : Nat \ {0}, window : Nat \ {0}, cooldown : Nat, lock : Nat]
    /\ CodeTtl \in Nat \ {0}
    /\ CodeTtl < VerifyRule.window
    /\ {MaxChallenges, MaxRestarts, MaxWrong} \subseteq Nat

VARIABLES challenges,       \* otp_challenges, in the order of created_at
          accounts,         \* users: how many rows hold the destination
          sessionsOf,       \* user_sessions: how many a challenge has opened
          verifyBudget,     \* otp:verify:<destination>
          login,            \* the verifications in flight
          advisory,         \* pg_advisory_xact_lock: who holds a destination's
          duplicates,       \* ghost: inserts refused by the unique index
          wrong,            \* ghost: wrong codes compared with a challenge
          renewals,         \* ghost: verify budgets cleared since a challenge was sent
          otpRestarts

otpVars == <<challenges, accounts, sessionsOf, verifyBudget,
             login, advisory, duplicates, wrong, renewals, otpRestarts>>

Nobody == "nobody"
Idling == [pc |-> "idle", row |-> 0, dest |-> Nobody]

ASSUME LoginsAssumption ==
    /\ IsFiniteSet(Logins)
    /\ Nobody \notin Logins \cup Destinations

OtpInit ==
    /\ challenges = <<>>
    /\ accounts = [d \in Destinations |-> 0]
    /\ sessionsOf = [c \in 1..MaxChallenges |-> 0]
    /\ verifyBudget = [d \in Destinations |-> NoBucket]
    /\ login = [r \in Logins |-> Idling]
    /\ advisory = [d \in Destinations |-> Nobody]
    /\ duplicates = 0
    /\ wrong = [c \in 1..MaxChallenges |-> 0]
    /\ renewals = [c \in 1..MaxChallenges |-> 0]
    /\ otpRestarts = 0

Dest(r) ==
    login[r].dest

Challenge(d) ==
    [dest |-> d, expires |-> now + CodeTtl, verified |-> FALSE]

-----------------------------------------------------------------------------
(* Asking for a code *)

\* The budgets of the destination (otp:request:<destination>) and of the address
\* are other keys of the limiter: their verdicts are free here, and MaxChallenges
\* stands for what they let through.  The insert may fail (503); the code is sent
\* whether or not the delivery works.
SendCode(d) ==
    /\ Len(challenges) < MaxChallenges
    /\ challenges' = Append(challenges, Challenge(d))
    /\ UNCHANGED <<accounts, sessionsOf, verifyBudget, login, advisory, duplicates,
                   wrong, renewals, otpRestarts, now>>

RequestOtp ==
    \E d \in Phones : SendCode(d)

RequestEmailOtp ==
    \E d \in Emails : SendCode(d)

-----------------------------------------------------------------------------
(* Verifying one *)

\* The mistake of looking at every challenge of the destination.
AnyChallenge(d) ==
    {c \in 1..Len(challenges) : challenges[c].dest = d}

\* The challenges of the destination nobody has verified, and the newest of them
\* (if there is one).
Pending(d) ==
    {c \in 1..Len(challenges) : challenges[c].dest = d /\ ~challenges[c].verified}

Newest(d) ==
    {c \in Pending(d) : \A e \in Pending(d) : e <= c}

\* The mistake of looking at the budget without taking from it.
PeekBudget(d) ==
    [Consume(verifyBudget[d], VerifyRule, now) EXCEPT !.bucket = verifyBudget[d]]

TakeBudget(d) ==
    Consume(verifyBudget[d], VerifyRule, now)

\* The budget is taken before anything is asked of the database.
Verify(r, d) ==
    LET taken == TakeBudget(d) IN
    /\ login[r].pc = "idle"
    /\ verifyBudget' = [verifyBudget EXCEPT ![d] = taken.bucket]
    /\ login' = IF taken.verdict = "allowed"
                THEN [login EXCEPT ![r] = [pc |-> "read", row |-> 0, dest |-> d]]
                ELSE login
    /\ UNCHANGED <<challenges, accounts, sessionsOf, advisory,
                   duplicates, wrong, renewals, otpRestarts, now>>

Usable(c) ==
    now < challenges[c].expires

\* The row.  Without one, or with one that has expired, the request ends here;
\* the code is compared with the row read, whatever happens to it meanwhile.
ReadChallenge(r) ==
    LET found == {c \in Newest(Dest(r)) : Usable(c)} IN
    /\ login[r].pc = "read"
    /\ \/ /\ found = {}
          /\ login' = [login EXCEPT ![r] = Idling]
       \/ \E c \in found, code \in {"right", "wrong"} :
          /\ wrong[c] < MaxWrong
          /\ login' = [login EXCEPT ![r] = [pc |-> code, row |-> c, dest |-> Dest(r)]]
    /\ UNCHANGED <<challenges, accounts, sessionsOf, verifyBudget, advisory,
                   duplicates, wrong, renewals, otpRestarts, now>>

\* A wrong code.  The attempts column (the number read plus one is written
\* back) only chooses between two error codes: nothing refuses a challenge for
\* it, and the model leaves it out.
CountAttempt(r) ==
    /\ login[r].pc = "wrong"
    /\ wrong' = [wrong EXCEPT ![login[r].row] = @ + 1]
    /\ login' = [login EXCEPT ![r] = Idling]
    /\ UNCHANGED <<challenges, accounts, sessionsOf, verifyBudget,
                   advisory, duplicates, renewals, otpRestarts, now>>

\* The right code: verified_at is set, asked for or not, and the budget of
\* the destination is cleared.
Burn(r) ==
    LET d == Dest(r) IN
    /\ login[r].pc = "right"
    /\ challenges' = [challenges EXCEPT ![login[r].row].verified = TRUE]
    /\ verifyBudget' = [verifyBudget EXCEPT ![d] = NoBucket]
    /\ renewals' = [c \in 1..MaxChallenges |->
                        IF c \in Pending(d) THEN renewals[c] + 1 ELSE renewals[c]]
    /\ login' = [login EXCEPT ![r].pc = "lock"]
    /\ UNCHANGED <<accounts, sessionsOf, advisory, duplicates, wrong,
                   otpRestarts, now>>

\* One step of a verification over destinations ds.
VerificationStep(ds) ==
    \E r \in Logins :
        \/ \E d \in ds : Verify(r, d)
        \/ Dest(r) \in ds /\ (ReadChallenge(r) \/ CountAttempt(r) \/ Burn(r))

VerifyOtp ==
    VerificationStep(Phones)

VerifyEmailOtp ==
    VerificationStep(Emails)

-----------------------------------------------------------------------------
(* Finding or creating the account *)

\* The mistake of relying on the transaction alone.
LockNothing(r) ==
    /\ login[r].pc = "lock"
    /\ login' = [login EXCEPT ![r].pc = IF accounts[Dest(r)] = 0 THEN "insert" ELSE "open"]
    /\ UNCHANGED <<challenges, accounts, sessionsOf, verifyBudget,
                   advisory, duplicates, wrong, renewals, otpRestarts, now>>

\* BEGIN, the advisory lock on the destination, and the SELECT under it.  An
\* account that exists ends the transaction, and with it the lock.
FindAccount(r) ==
    LET d == Dest(r) IN
    /\ login[r].pc = "lock"
    /\ advisory[d] = Nobody
    /\ \/ /\ accounts[d] # 0
          /\ login' = [login EXCEPT ![r].pc = "open"]
          /\ UNCHANGED advisory
       \/ /\ accounts[d] = 0
          /\ login' = [login EXCEPT ![r].pc = "insert"]
          /\ advisory' = [advisory EXCEPT ![d] = r]
    /\ UNCHANGED <<challenges, accounts, sessionsOf, verifyBudget,
                   duplicates, wrong, renewals, otpRestarts, now>>

\* The user and its role, then COMMIT; the unique index refuses a second row.
CreateAccount(r) ==
    LET d == Dest(r) IN
    /\ login[r].pc = "insert"
    /\ \/ /\ accounts[d] = 0
          /\ accounts' = [accounts EXCEPT ![d] = 1]
          /\ login' = [login EXCEPT ![r].pc = "open"]
          /\ UNCHANGED duplicates
       \/ /\ accounts[d] # 0
          /\ duplicates' = duplicates + 1
          /\ login' = [login EXCEPT ![r] = Idling]
          /\ UNCHANGED accounts
    /\ advisory' = [e \in Destinations |-> IF advisory[e] = r THEN Nobody ELSE advisory[e]]
    /\ UNCHANGED <<challenges, sessionsOf, verifyBudget, wrong,
                   renewals, otpRestarts, now>>

FindOrCreateUser ==
    \E r \in Logins : Dest(r) \in Phones /\ (FindAccount(r) \/ CreateAccount(r))

FindOrCreateEmailUser ==
    \E r \in Logins : Dest(r) \in Emails /\ (FindAccount(r) \/ CreateAccount(r))

\* createSession
OpenSession(r) ==
    /\ login[r].pc = "open"
    /\ sessionsOf' = [sessionsOf EXCEPT ![login[r].row] = @ + 1]
    /\ login' = [login EXCEPT ![r] = Idling]
    /\ UNCHANGED <<challenges, accounts, verifyBudget, advisory,
                   duplicates, wrong, renewals, otpRestarts, now>>

\* A query fails: the request ends with what it has done so far (requireDb
\* turns an outage into a 503), and an open transaction is rolled back.
LoginFails(r) ==
    /\ login[r].pc # "idle"
    /\ login' = [login EXCEPT ![r] = Idling]
    /\ advisory' = [d \in Destinations |-> IF advisory[d] = r THEN Nobody ELSE advisory[d]]
    /\ UNCHANGED <<challenges, accounts, sessionsOf, verifyBudget,
                   duplicates, wrong, renewals, otpRestarts, now>>

\* The process starts again: rows stay, budgets and requests are gone.
OtpRestart ==
    /\ otpRestarts < MaxRestarts
    /\ otpRestarts' = otpRestarts + 1
    /\ verifyBudget' = [d \in Destinations |-> NoBucket]
    /\ login' = [r \in Logins |-> Idling]
    /\ advisory' = [d \in Destinations |-> Nobody]
    /\ renewals' = [c \in 1..MaxChallenges |-> renewals[c] + 1]
    /\ UNCHANGED <<challenges, accounts, sessionsOf, duplicates, wrong, now>>

OtpTick ==
    Tick /\ UNCHANGED otpVars

OtpNext ==
    \/ RequestOtp \/ RequestEmailOtp
    \/ VerifyOtp \/ VerifyEmailOtp
    \/ FindOrCreateUser \/ FindOrCreateEmailUser
    \/ \E r \in Logins : OpenSession(r) \/ LoginFails(r)
    \/ OtpRestart
    \/ OtpTick

OtpSpec ==
    OtpInit /\ ClockInit /\ [][OtpNext]_<<otpVars, now>>

-----------------------------------------------------------------------------

\* Type correctness of the rows, the budgets and the requests.
OtpTypeOK ==
    /\ challenges \in Seq([dest : Destinations, expires : Nat, verified : BOOLEAN])
    /\ accounts \in [Destinations -> {0, 1}]
    /\ sessionsOf \in [1..MaxChallenges -> Nat]
    /\ \A d \in Destinations :
          /\ verifyBudget[d] \in Bucket(0..VerifyRule.limit, 0..MaxClock)
          /\ advisory[d] \in Logins \cup {Nobody}
    /\ \A r \in Logins : login[r].pc \in {"idle", "read", "wrong", "right", "lock", "insert", "open"}

\* "The real brute-force defence is the short TTL plus the per-destination
\* attempt limit enforced in verifyOtp()": a challenge lives for less than a
\* window, so the wrong codes compared with it fit in two windows' budgets, one
\* more for each login with another code of the destination (or restart), and
\* the requests that had taken theirs before the code was sent.  The attempts
\* column, which concurrent tries overwrite, is no part of the bound.
GuessesBounded ==
    \A c \in 1..MaxChallenges :
        wrong[c] <= VerifyRule.limit * (2 + renewals[c]) + Cardinality(Logins)

\* Two verifications that both read the challenge before either burnt it both
\* open a session (verified_at is set without asking).  But nobody who comes
\* later does: a code opens at most one session for each request in flight.
BurntCodeOpensNoMore ==
    \A c \in 1..MaxChallenges :
        sessionsOf[c] <= Cardinality(Logins)

\* Two first logins of one destination never both insert the account: the
\* advisory lock keeps the second one waiting until it finds the row, and the
\* unique index, which would turn the login into a 500, is never hit.
NoDuplicateInsert ==
    duplicates = 0
===============================================================================
