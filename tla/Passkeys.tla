-------------------------------- MODULE Passkeys --------------------------------
(***************************************************************************)
(* Logging in with a passkey: authvault/passkeys.service.ts, and           *)
(* beginPasskeyLogin and finishPasskeyLogin of auth.service.ts, for one    *)
(* account.  Challenges are in the memory of the process, credentials in a *)
(* LazyStore document.  An authenticator counts its own uses; what a       *)
(* request presents is a well signed assertion with some counter.          *)
(***************************************************************************)
EXTENDS Clock, LazyStore, FiniteSets

CONSTANTS Keys,             \* credential ids
          MaxCeremonies,    \* bound: challenges ever made
          ChallengeTtl,     \* five minutes
          MaxCounter,       \* bound: uses of an authenticator
          MaxRegistrations, \* bound
          MaxPasskeyCrashes \* bound

ASSUME PasskeysAssumption ==
    /\ ChallengeTtl \in Nat
    /\ {MaxCeremonies, MaxCounter, MaxRegistrations, MaxPasskeyCrashes} \subseteq Nat

VARIABLES passkeys,         \* the store: what is registered under each id
          ceremonies,       \* challenges: purpose and expiry by id
          logins,           \* ghost: the logins that opened a session, in order
          registrations,    \* ghost: registrations made so far
          passkeyCrashes

passkeyVars == <<passkeys, ceremonies, logins, registrations, passkeyCrashes>>

Ceremonies == 1..MaxCeremonies

NoPasskey == [reg |-> 0, counter |-> 0]
NoPasskeys == [k \in Keys |-> NoPasskey]
NoCeremony == [purpose |-> "unused", expires |-> 0]

PasskeysInit ==
    /\ passkeys = NewStore(NoPasskeys)
    /\ ceremonies = [c \in Ceremonies |-> NoCeremony]
    /\ logins = <<>>
    /\ registrations = 0
    /\ passkeyCrashes = 0

PasskeysLoad ==
    /\ ~passkeys.loaded
    /\ passkeys' = Load(passkeys)
    /\ UNCHANGED <<ceremonies, logins, registrations, passkeyCrashes, now>>

\* begin(), for somebody who is logged in (register) or names the account
\* (login), and decoyChallenge for an account that does not exist: it looks the
\* same and finishes nowhere.  Nothing is read from the store for it.
BeginCeremony(c, purpose) ==
    /\ ceremonies[c].purpose = "unused"
    /\ \A d \in 1..(c - 1) : ceremonies[d].purpose # "unused"      \* ids are fresh
    /\ ceremonies' = [ceremonies EXCEPT ![c] = [purpose |-> purpose, expires |-> now + ChallengeTtl]]
    /\ UNCHANGED <<passkeys, logins, registrations, passkeyCrashes, now>>

\* takeChallenge: gone, whatever becomes of the ceremony.
Taken(c) ==
    [ceremonies EXCEPT ![c] = [purpose |-> "taken", expires |-> 0]]

Good(c, purpose) ==
    ceremonies[c].purpose = purpose /\ now <= ceremonies[c].expires

FinishRegistration(c, k) ==
    /\ passkeys.loaded
    /\ ceremonies[c].purpose \in {"register", "login", "decoy"}
    /\ ceremonies' = Taken(c)
    /\ \/ /\ Good(c, "register")
          /\ passkeys.mem[k] = NoPasskey
          /\ registrations < MaxRegistrations
          /\ registrations' = registrations + 1
          /\ passkeys' = Save(passkeys,
                 [passkeys.mem EXCEPT ![k] = [reg |-> registrations + 1, counter |-> 0]],
                 [reg |-> registrations + 1, counter |-> 0])
       \/ /\ ~Good(c, "register") \/ passkeys.mem[k] # NoPasskey
          /\ UNCHANGED <<passkeys, registrations>>
    /\ UNCHANGED <<logins, passkeyCrashes, now>>

\* The mistake of comparing the counter and not storing it.
CounterKept(k, n) ==
    passkeys.mem

CounterMoved(k, n) ==
    [passkeys.mem EXCEPT ![k].counter = n]

\* finishLogin: the counter must go up; it is stored, and the caller gets his
\* session when that is persisted (PasskeysSettle).
FinishPasskeyLogin(c, k) ==
    \E n \in 1..MaxCounter :
        /\ passkeys.loaded
        /\ ceremonies[c].purpose \in {"register", "login", "decoy"}
        /\ ceremonies' = Taken(c)
        /\ \/ /\ Good(c, "login")
              /\ passkeys.mem[k] # NoPasskey
              /\ n > passkeys.mem[k].counter
              /\ passkeys' = Save(passkeys, CounterMoved(k, n),
                                  [reg |-> passkeys.mem[k].reg, counter |-> n])
           \/ /\ \/ ~Good(c, "login")
                 \/ passkeys.mem[k] = NoPasskey
                 \/ n <= passkeys.mem[k].counter
              /\ UNCHANGED passkeys
        /\ UNCHANGED <<logins, registrations, passkeyCrashes, now>>

RemoveCredential(k) ==
    /\ passkeys.loaded
    /\ passkeys.mem[k] # NoPasskey
    /\ passkeys' = Save(passkeys, [passkeys.mem EXCEPT ![k] = NoPasskey], NoPasskey)
    /\ UNCHANGED <<ceremonies, logins, registrations, passkeyCrashes, now>>

\* A put lands or fails.  When it is a login's, loadUser and createSession
\* follow: both may fail (503), after which the challenge and the counter are
\* used up and there is no session.
PasskeysSettle ==
    LET done == Head(passkeys.puts).fact IN
    /\ passkeys.puts # <<>>
    /\ \/ /\ passkeys' = Land(passkeys, 1)
          /\ \/ UNCHANGED logins
             \/ done.counter # 0 /\ logins' = Append(logins, done)
       \/ /\ passkeys' = Refuse(passkeys, 1)
          /\ UNCHANGED logins
    /\ UNCHANGED <<ceremonies, registrations, passkeyCrashes, now>>

PasskeysCrash ==
    /\ passkeyCrashes < MaxPasskeyCrashes
    /\ passkeyCrashes' = passkeyCrashes + 1
    /\ passkeys' = Crash(passkeys, NoPasskeys)
    /\ ceremonies' = [c \in Ceremonies |->
                         IF ceremonies[c] = NoCeremony THEN NoCeremony
                         ELSE [purpose |-> "taken", expires |-> 0]]
    /\ UNCHANGED <<logins, registrations, now>>

PasskeysTick ==
    Tick /\ UNCHANGED passkeyVars

\* beginPasskeyLogin, for a named account: a real challenge or a decoy.
BeginPasskeyLogin(c) ==
    \E purpose \in {"login", "decoy"} : BeginCeremony(c, purpose)

PasskeysNext ==
    \/ PasskeysLoad \/ PasskeysSettle \/ PasskeysCrash \/ PasskeysTick
    \/ \E c \in Ceremonies :
          \/ BeginCeremony(c, "register") \/ BeginPasskeyLogin(c)
          \/ \E k \in Keys : FinishRegistration(c, k) \/ FinishPasskeyLogin(c, k)
    \/ \E k \in Keys : RemoveCredential(k)

PasskeysSpec ==
    PasskeysInit /\ ClockInit /\ [][PasskeysNext]_<<passkeyVars, now>>

-----------------------------------------------------------------------------

\* Type correctness of credentials and ceremonies.
PasskeysTypeOK ==
    /\ passkeys.mem \in [Keys -> [reg : 0..MaxRegistrations, counter : 0..MaxCounter]]
    /\ passkeys.disk \in [Keys -> [reg : 0..MaxRegistrations, counter : 0..MaxCounter]]
    /\ \A c \in Ceremonies :
          ceremonies[c].purpose \in {"unused", "register", "login", "decoy", "taken"}
    /\ registrations \in 0..MaxRegistrations

\* "signature counters are monotonic - a rewind signals a cloned
\* authenticator", across failing puts and crashes: no two logins with one
\* registration of a key were let in with the same counter, and a later one
\* had the higher.
CountersNeverRewind ==
    \A i, j \in DOMAIN logins :
        (i < j /\ logins[i].reg = logins[j].reg) => logins[i].counter < logins[j].counter
=================================================================================
