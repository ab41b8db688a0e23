---------------------------------- MODULE Budget ----------------------------------
(***************************************************************************)
(* The budget gate of paid second opinions (orchestrator/budget-gate        *)
(* .service.ts) and the one caller that spends (orchestrator.service.ts).   *)
(* A record per day and one per month are documents of the storage port;    *)
(* the day's record is also kept in memory, under the feature's name alone. *)
(* One feature is metered, "tiebreak": the code asks for no other.          *)
(* Every read and write of a document is a step of its own: the process     *)
(* answers other questions in between.                                      *)
(***************************************************************************)
EXTENDS Naturals, Sequences, FiniteSets, Functions, Folds

CONSTANTS
    Queries,           \* questions whose classification came back doubtful
    Quota,          \* AI_FEATURE_QUOTA_TOKENS of the feature; NoQuota: not capped
    Usage,          \* what a provider may report for one answer (0: a mock)
    MonthOf,        \* the month of each day: a sequence
    MaxAsked,       \* bound: questions in all
    MaxBudgetFaults \* bound: refused reads and writes, and restarts

CONSTANT NoQuota
ASSUME BudgetAssumption ==
    /\ Quota = NoQuota \/ Quota \in Nat
    /\ Usage \subseteq Nat /\ IsFiniteSet(Queries)
    /\ MonthOf \in Seq(Nat) /\ MonthOf # <<>>

VARIABLES
    today,          \* the UTC day, an index of MonthOf
    dayBook,        \* dayBook[d]: tokens on the record of day d, 0 when there is none
    monthBook,      \* monthBook[m]: tokens on the record of month m
    entries,        \* the records in memory, of every load, oldest first
    cached,         \* the one the service's map holds, 0 for none
    queries,           \* each question: where it is, its record, what it read and spent
    asked, reported, budgetFaults

budgetVars == <<today, dayBook, monthBook, entries, cached, queries, asked, reported, budgetFaults>>

Days == DOMAIN MonthOf
Months == Range(MonthOf)
Month == MonthOf[today]
NoQuery == [pc |-> "idle", day |-> 1, entry |-> 0, spent |-> 0]

BudgetInit ==
    /\ today = 1 /\ dayBook = [d \in Days |-> 0] /\ monthBook = [m \in Months |-> 0]
    /\ entries = <<>> /\ cached = 0 /\ queries = [a \in Queries |-> NoQuery]
    /\ asked = 0 /\ reported = 0 /\ budgetFaults = 0

Moves(a, pc) == queries' = [queries EXCEPT ![a].pc = pc]
Refused == budgetFaults < MaxBudgetFaults /\ budgetFaults' = budgetFaults + 1

(* load(): the record in memory, or a read under way of the day it is now. *)
LoadDay(a, known, missing) ==
    queries' = [queries EXCEPT ![a].pc = IF cached = 0 THEN missing ELSE known,
                         ![a].entry = cached, ![a].day = today]

(* The read returns.  Whatever went wrong is "nothing spent yet"; the record *)
(* read last is the one the map keeps, those of earlier reads live on in the *)
(* questions that hold them.                                                *)
Loaded(a, pc) ==
    /\ \/ entries' = Append(entries, dayBook[queries[a].day]) /\ UNCHANGED budgetFaults
       \/ Refused /\ entries' = Append(entries, 0)
    /\ cached' = Len(entries')
    /\ queries' = [queries EXCEPT ![a].pc = pc, ![a].entry = Len(entries')]

(* The classification is doubtful: check() comes before the paid answer.    *)
Doubt(a) ==
    /\ queries[a].pc = "idle" /\ asked < MaxAsked /\ asked' = asked + 1
    /\ LoadDay(a, "checking", "reading")
    /\ UNCHANGED <<today, dayBook, monthBook, entries, cached, reported, budgetFaults>>

FirstLook(a) ==
    /\ queries[a].pc = "reading" /\ Loaded(a, "checking")
    /\ UNCHANGED <<today, dayBook, monthBook, asked, reported>>

Exhausted(spent) == Quota # NoQuota /\ spent >= Quota

(* An exhausted feature is answered without the model.                      *)
Check(a) ==
    /\ queries[a].pc = "checking"
    /\ Moves(a, IF Exhausted(entries[queries[a].entry]) THEN "idle" ELSE "paid")
    /\ UNCHANGED <<today, dayBook, monthBook, entries, cached, asked, reported, budgetFaults>>

(* The model answers and its provider says what it cost: consume().         *)
PaidAnswer(a) ==
    /\ queries[a].pc = "paid"
    /\ \E cost \in Usage :
        /\ reported' = reported + cost
        /\ queries' = [queries EXCEPT ![a] =
            [pc |-> IF cached = 0 THEN "again" ELSE "spending",
             day |-> today, entry |-> cached, spent |-> cost]]
    /\ UNCHANGED <<today, dayBook, monthBook, entries, cached, asked, budgetFaults>>

SecondLook(a) ==
    /\ queries[a].pc = "again" /\ Loaded(a, "spending")
    /\ UNCHANGED <<today, dayBook, monthBook, asked, reported>>

(* The record grows in memory first; the document carries what it then says, *)
(* and is put under today's name: a mock's answer costs nothing.            *)
Spend(a) ==
    /\ queries[a].pc = "spending"
    /\ IF queries[a].spent = 0
       THEN Moves(a, "idle") /\ UNCHANGED <<entries, dayBook, budgetFaults>>
       ELSE LET total == entries[queries[a].entry] + queries[a].spent
            IN  /\ entries' = [entries EXCEPT ![queries[a].entry] = total]
                /\ \/ /\ dayBook' = [dayBook EXCEPT ![today] = total]
                      /\ queries' = [queries EXCEPT ![a].pc = "monthly", ![a].day = today]
                      /\ UNCHANGED budgetFaults
                   \/ Refused /\ UNCHANGED dayBook /\ Moves(a, "idle")
    /\ UNCHANGED <<today, monthBook, cached, asked, reported>>

(* loadMonthly(): the record of the month the read began in, nothing when   *)
(* that month is over by the time it is read, or when the read fails.       *)
MonthlyRead(a) ==
    /\ queries[a].pc = "monthly"
    /\ \E failed \in BOOLEAN :
        /\ IF failed THEN Refused ELSE UNCHANGED budgetFaults
        /\ queries' = [queries EXCEPT ![a].pc = "accruing", ![a].spent =
             @ + (IF failed \/ MonthOf[queries[a].day] # Month THEN 0 ELSE monthBook[Month]),
             ![a].day = today]
    /\ UNCHANGED <<today, dayBook, monthBook, entries, cached, asked, reported>>

MonthlyPut(a) ==
    /\ queries[a].pc = "accruing" /\ Moves(a, "idle")
    /\ \/ /\ monthBook' = [monthBook EXCEPT ![MonthOf[queries[a].day]] = queries[a].spent]
          /\ UNCHANGED budgetFaults
       \/ Refused /\ UNCHANGED monthBook
    /\ UNCHANGED <<today, dayBook, entries, cached, asked, reported>>

Midnight ==
    /\ today < Len(MonthOf) /\ today' = today + 1
    /\ UNCHANGED <<dayBook, monthBook, entries, cached, queries, asked, reported, budgetFaults>>

BudgetRestart ==
    /\ Refused /\ cached' = 0 /\ entries' = <<>> /\ queries' = [a \in Queries |-> NoQuery]
    /\ UNCHANGED <<today, dayBook, monthBook, asked, reported>>

BudgetNext ==
    \/ \E a \in Queries : \/ Doubt(a) \/ FirstLook(a) \/ Check(a) \/ PaidAnswer(a)
                       \/ SecondLook(a) \/ Spend(a) \/ MonthlyRead(a) \/ MonthlyPut(a)
    \/ Midnight \/ BudgetRestart

BudgetSpec == BudgetInit /\ [][BudgetNext]_budgetVars

-----------------------------------------------------------------------------

(* The months' records together never say more was spent than providers     *)
(* reported: whatever is lost by readers that overlap, by a refused write   *)
(* or at midnight, no answer is charged to a month twice.                   *)
MonthlyNeverOverstates == FoldFunction(+, 0, monthBook) =< reported
=============================================================================
