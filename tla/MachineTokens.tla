----------------------------- MODULE MachineTokens -----------------------------
(***************************************************************************)
(* Long-lived tokens for programs (machine-tokens.service.ts, its guard    *)
(* and controller) and the button that replaces them all (authvault/       *)
(* rotation.service.ts).  Tokens and rotation dates are LazyStore          *)
(* documents.  A rotation is a loop of awaited revocations and issues;     *)
(* requests, crashes and refused puts happen between any two of its steps. *)
(* The clock counts days.                                                  *)
(***************************************************************************)
EXTENDS Clock, LazyStore, FiniteSets

CONSTANTS MaxTokens,        \* bound: tokens ever issued
          Rotations,        \* rotateAll requests that may be in flight
          InOrder,          \* whether puts land in order (local) or not (pg)
          Lifetime,         \* the life a token without an end is rotated into
          MaxAge,           \* ROTATION_POLICY's days for machine tokens
          MaxTokenPuts,     \* bound: puts in flight
          MaxTokenCrashes   \* bound

ASSUME MachineTokensAssumption ==
    /\ InOrder \in BOOLEAN
    /\ {Lifetime, MaxAge} \subseteq Nat \ {0}
    /\ {MaxTokens, MaxTokenPuts, MaxTokenCrashes} \subseteq Nat

VARIABLES tokens,           \* the store of the tokens
          epochs,           \* the store of the rotation dates (0: never)
          rotation,         \* the rotations in flight
          retired,          \* ghost: tokens listed by a rotation that has answered
          tokenCrashes

tokenVars == <<tokens, epochs, rotation, retired, tokenCrashes>>

TokenIds == 1..MaxTokens

NoToken == [state |-> "absent", born |-> 0, exp |-> 0]
NoTokens == [t \in TokenIds |-> NoToken]
NoOne == 0
Answered == <<"answered", NoOne>>       \* of an answer nothing here depends on
Resting == [pc |-> "idle", listed |-> {}, todo |-> {}, cur |-> NoOne, heir |-> NoOne]

TokensInit ==
    /\ tokens = NewStore(NoTokens)
    /\ epochs = NewStore(0)
    /\ rotation = [o \in Rotations |-> Resting]
    /\ retired = {}
    /\ tokenCrashes = 0

\* ensure() of both services.
TokensLoad ==
    /\ ~tokens.loaded
    /\ tokens' = Load(tokens)
    /\ epochs' = Load(epochs)
    /\ UNCHANGED <<rotation, retired, tokenCrashes, now>>

Room ==
    tokens.loaded /\ Len(tokens.puts) < MaxTokenPuts

\* A random id, numbered as it comes; one whose put was lost may come again.
NewTokenId(t) ==
    /\ tokens.mem[t] = NoToken
    /\ \A u \in 1..(t - 1) : tokens.mem[u] # NoToken

Unrevoked ==
    {t \in TokenIds : tokens.mem[t].state = "live"}

\* A token is stored, then persisted; exp 0 is a token without an end, and one
\* that is over from the start is allowed.
Issued(t, exp, fact) ==
    Save(tokens, [tokens.mem EXCEPT ![t] = [state |-> "live", born |-> now, exp |-> exp]], fact)

IssueToken(t) ==
    /\ Room
    /\ NewTokenId(t)
    /\ \E exp \in {0, now} : tokens' = Issued(t, exp, Answered)
    /\ UNCHANGED <<epochs, rotation, retired, tokenCrashes, now>>

\* verify(), for a well signed token that has the scope.
Verifies(t) ==
    /\ tokens.loaded
    /\ tokens.mem[t].state = "live"
    /\ tokens.mem[t].exp # 0 => now <= tokens.mem[t].exp

\* canActivate: a good token is touched, and the touch persisted, before the
\* request is let in; a bad one changes nothing.
VerifyToken(t) ==
    /\ Room
    /\ Verifies(t)
    /\ tokens' = Save(tokens, tokens.mem, Answered)
    /\ UNCHANGED <<epochs, rotation, retired, tokenCrashes, now>>

Revoked(t) ==
    Save(tokens, [tokens.mem EXCEPT ![t].state = "revoked"], <<"revoked", t>>)

RevokeToken(t) ==
    /\ Room
    /\ t \in Unrevoked
    /\ tokens' = Revoked(t)
    /\ UNCHANGED <<epochs, rotation, retired, tokenCrashes, now>>

-----------------------------------------------------------------------------
(* rotateAll *)

\* The list is taken once; tokens issued later are not in it.
RotateList(o) ==
    /\ tokens.loaded
    /\ rotation[o].pc = "idle"
    /\ rotation' = [rotation EXCEPT ![o] =
                       [Resting EXCEPT !.pc = "next", !.listed = Unrevoked, !.todo = Unrevoked]]
    /\ UNCHANGED <<tokens, epochs, retired, tokenCrashes, now>>

\* The mistake of going on without waiting for the revocation to be persisted,
\* and of not asking whether it was.
RevokeMeanwhile(o) ==
    \E t \in rotation[o].todo :
        /\ rotation[o].pc = "next"
        /\ tokens.loaded
        /\ rotation' = [rotation EXCEPT ![o].pc = "next", ![o].todo = @ \ {t}]
        /\ UNCHANGED <<tokens, epochs, retired, tokenCrashes, now>>

\* revoke() of the next one; of a token somebody revoked meanwhile it returns
\* false at once, and the loop does not ask.
RotateRevoke(o) ==
    \E t \in rotation[o].todo :
        /\ rotation[o].pc = "next"
        /\ Room
        /\ \/ /\ t \in Unrevoked
              /\ tokens' = Revoked(t)
              /\ rotation' = [rotation EXCEPT ![o].pc = "revoke", ![o].cur = t]
           \/ /\ t \notin Unrevoked
              /\ rotation' = [rotation EXCEPT ![o].pc = "issue", ![o].cur = t]
              /\ UNCHANGED tokens
        /\ UNCHANGED <<epochs, retired, tokenCrashes, now>>

\* The days left, at least one even of a token that is over; a year without end.
HeirEnds(t) ==
    LET exp == tokens.mem[t].exp IN
    IF exp = 0 THEN now + Lifetime ELSE IF exp > now THEN exp ELSE now + 1

\* The revocation has landed: a successor with the same label and scopes.
RotateIssue(o, n) ==
    /\ \/ rotation[o].pc = "issue"
       \/ rotation[o].pc = "revoke" /\ ~Waiting(tokens, <<"revoked", rotation[o].cur>>)
                                    /\ <<"revoked", rotation[o].cur>> \in tokens.acked
    /\ Room
    /\ NewTokenId(n)
    /\ tokens' = Issued(n, HeirEnds(rotation[o].cur), <<"issued", n>>)
    /\ rotation' = [rotation EXCEPT ![o].pc = "mint", ![o].heir = n]
    /\ UNCHANGED <<epochs, retired, tokenCrashes, now>>

RotateMinted(o) ==
    /\ rotation[o].pc = "mint"
    /\ <<"issued", rotation[o].heir>> \in tokens.acked
    /\ rotation' = [rotation EXCEPT ![o].pc = "next", ![o].todo = @ \ {rotation[o].cur}]
    /\ UNCHANGED <<tokens, epochs, retired, tokenCrashes, now>>

\* The put of a step was refused: rotateAll ends in an error there, and the
\* values minted so far are lost with it.
RotateFails(o) ==
    /\ \/ /\ rotation[o].pc = "revoke"
          /\ <<"revoked", rotation[o].cur>> \notin tokens.acked
          /\ ~Waiting(tokens, <<"revoked", rotation[o].cur>>)
       \/ /\ rotation[o].pc = "mint"
          /\ <<"issued", rotation[o].heir>> \notin tokens.acked
          /\ ~Waiting(tokens, <<"issued", rotation[o].heir>>)
       \/ /\ rotation[o].pc = "date"
          /\ ~Waiting(epochs, o)
    /\ rotation' = [rotation EXCEPT ![o] = Resting]
    /\ UNCHANGED <<tokens, epochs, retired, tokenCrashes, now>>

\* The loop is over: today's date for every class of secret.
RotateDate(o) ==
    /\ rotation[o].pc = "next"
    /\ rotation[o].todo = {}
    /\ epochs' = Save([epochs EXCEPT !.acked = @ \ {o}], now, o)
    /\ rotation' = [rotation EXCEPT ![o].pc = "date"]
    /\ UNCHANGED <<tokens, retired, tokenCrashes, now>>

\* The answer, with the credentials file.
RotateAnswer(o) ==
    /\ rotation[o].pc = "date"
    /\ o \in epochs.acked
    /\ retired' = retired \cup rotation[o].listed
    /\ rotation' = [rotation EXCEPT ![o] = Resting]
    /\ UNCHANGED <<tokens, epochs, tokenCrashes, now>>

-----------------------------------------------------------------------------
(* advice *)

\* The mistake of believing the log of rotations alone.
LoggedRotation ==
    epochs.mem

\* The date the report goes by: the rotation logged last, or the birth of the
\* oldest token in use when that is earlier (or nothing was logged).
LastRotation ==
    LET births == {tokens.mem[t].born : t \in Unrevoked} IN
    IF births = {} THEN epochs.mem
    ELSE LET oldest == CHOOSE b \in births : \A c \in births : b <= c IN
         IF epochs.mem = 0 \/ oldest < epochs.mem THEN oldest ELSE epochs.mem

Advice ==
    LET age == now - LastRotation IN
    CASE LastRotation = 0 -> "never"
      [] LastRotation # 0 /\ 3 * age <= 2 * MaxAge -> "fresh"
      [] LastRotation # 0 /\ 3 * age > 2 * MaxAge /\ age <= MaxAge -> "aging"
      [] OTHER -> "overdue"

-----------------------------------------------------------------------------

TokensSettle ==
    /\ \/ tokens' \in Settles(tokens, InOrder) /\ UNCHANGED epochs
       \/ epochs' \in Settles(epochs, InOrder) /\ UNCHANGED tokens
    /\ UNCHANGED <<rotation, retired, tokenCrashes, now>>

TokensCrash ==
    /\ tokenCrashes < MaxTokenCrashes
    /\ tokenCrashes' = tokenCrashes + 1
    /\ tokens' = Crash(tokens, NoTokens)
    /\ epochs' = Crash(epochs, 0)
    /\ rotation' = [o \in Rotations |-> Resting]
    /\ UNCHANGED <<retired, now>>

TokensTick ==
    Tick /\ UNCHANGED tokenVars

TokensNext ==
    \/ TokensLoad \/ TokensSettle \/ TokensCrash \/ TokensTick
    \/ \E t \in TokenIds : IssueToken(t) \/ VerifyToken(t) \/ RevokeToken(t)
    \/ \E o \in Rotations :
          \/ RotateList(o) \/ RotateRevoke(o) \/ RotateMinted(o)
          \/ RotateFails(o) \/ RotateDate(o) \/ RotateAnswer(o)
          \/ \E n \in TokenIds : RotateIssue(o, n)

TokensSpec ==
    TokensInit /\ ClockInit /\ [][TokensNext]_<<tokenVars, now>>

-----------------------------------------------------------------------------

\* Type correctness of the two stores and the rotations.
TokensTypeOK ==
    /\ tokens.mem \in [TokenIds -> [state : {"absent", "live", "revoked"}, born : Nat, exp : Nat]]
    /\ tokens.disk \in [TokenIds -> [state : {"absent", "live", "revoked"}, born : Nat, exp : Nat]]
    /\ epochs.mem \in 0..MaxClock
    /\ \A o \in Rotations :
          /\ rotation[o].pc \in {"idle", "next", "revoke", "issue", "mint", "date"}
          /\ rotation[o].todo \subseteq rotation[o].listed
    /\ retired \subseteq TokenIds

\* "revoke a machine token - effective this second, survives restarts"
\* (machine-tokens.controller.ts:47): a token whose revocation was answered is
\* never let in again, in this boot or a later one.
RevokedSurvivesRestarts ==
    \A t \in TokenIds :
        <<"revoked", t>> \in tokens.acked => ~Verifies(t)

\* Every token a finished rotation found in use is dead for good, whatever
\* revocations, failing puts and other rotations met it halfway; so is every
\* token whose revocation was answered (rotation.service.ts rotateAll).
RotatedStaysDead ==
    \A t \in TokenIds :
        (t \in retired \/ <<"revoked", t>> \in tokens.acked) => ~Verifies(t)

\* "HONEST staleness report": the report does not call machine tokens fresh
\* while one in use is older than two thirds of their age, although rotations
\* are logged for tokens issued, or lost again in a crash, meanwhile.
AdviceNeverFlatters ==
    (tokens.loaded /\ Advice = "fresh") =>
        \A t \in Unrevoked : 3 * (now - tokens.mem[t].born) <= 2 * MaxAge
=================================================================================
