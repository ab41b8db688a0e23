--------------------------------- MODULE Bundles ---------------------------------
(***************************************************************************)
(* The portable bundle of ops/backup.service.ts: every object of the       *)
(* storage in one JSON answer, and the way back.  The keys are listed page *)
(* by page and then read one by one, while the services of the office go   *)
(* on saving and deleting.  Keys are numbers in the order of their names,  *)
(* a content is the number of its save.                                    *)
(***************************************************************************)
EXTENDS Naturals, Sequences, FiniteSets, SequencesExt, FiniteSetsExt

CONSTANTS StoreKeys,        \* keys, numbers
          Driver,           \* "pg" or "local"
          PageLimit,        \* objects of a page: 1000
          Corrupt,          \* contents that do not parse, of the bundles that are brought
          MaxSaves,         \* bound: saves and deletions
          MaxBundleFaults   \* bound: reads and puts that fail

ASSUME BundlesAssumption ==
    /\ StoreKeys \subseteq Nat \ {0} /\ IsFiniteSet(StoreKeys)
    /\ Driver \in {"pg", "local"} /\ PageLimit \in Nat \ {0}
    /\ {MaxSaves, MaxBundleFaults} \subseteq Nat

VARIABLES objects,          \* what the storage holds: content by key, 0: nothing
          making,           \* the bundle in the making
          bringing,         \* the bundle that is restored
          lasting,          \* history: keys that were there ever since the making began
          seen,             \* history: contents each key had in the making
          saves             \* [count, faults]

bundleVars == <<objects, making, bringing, lasting, seen, saves>>

NoBundle == [step |-> "none", cursor |-> 0, listed |-> <<>>, out |-> <<>>]
NothingBrought == [step |-> "none", todo |-> {}, skipped |-> {}]

Present == {k \in StoreKeys : objects[k] # 0}

BundlesInit ==
    /\ objects = [k \in StoreKeys |-> 0]
    /\ making = NoBundle
    /\ bringing = NothingBrought
    /\ lasting = {}
    /\ seen = [k \in StoreKeys |-> {}]
    /\ saves = [count |-> 0, faults |-> 0]

Making == making.step \in {"list", "read"}

Changed(k, content) ==
    /\ objects' = [objects EXCEPT ![k] = content]
    /\ seen' = IF Making THEN [seen EXCEPT ![k] = @ \cup {content}] ELSE seen
    /\ lasting' = IF content = 0 THEN lasting \ {k} ELSE lasting

\* A service of the office saves an object, or deletes it.
OfficeSaves(k) ==
    /\ saves.count < MaxSaves
    /\ saves' = [saves EXCEPT !.count = @ + 1]
    /\ Changed(k, saves.count + 1) \/ (objects[k] # 0 /\ Changed(k, 0))
    /\ UNCHANGED <<making, bringing>>

StartBundle ==
    /\ ~Making
    /\ making' = [NoBundle EXCEPT !.step = "list"]
    /\ lasting' = Present
    /\ seen' = [k \in StoreKeys |-> {objects[k]}]
    /\ UNCHANGED <<objects, bringing, saves>>

\* In their order: as many are before the i-th as there are numbers below i.
Sorted(keys) ==
    [i \in 1..Cardinality(keys) |-> CHOOSE k \in keys : Cardinality({j \in keys : j < k}) = i - 1]

\* The last key of the page.
NextCursor(rows) ==
    rows[PageLimit]

\* ORDER BY key LIMIT limit + 1, of the keys beyond the cursor.
PgPage ==
    LET rows == Sorted({k \in Present : k > making.cursor})
    IN [keys |-> SubSeq(rows, 1, Min({PageLimit, Len(rows)})),
        cursor |-> IF Len(rows) > PageLimit THEN NextCursor(rows) ELSE 0]

\* A walk of the tree: the first files it meets, and never a cursor.
LocalPages ==
    {[keys |-> SetToSeq(S), cursor |-> 0] : S \in kSubset(Min({PageLimit, Cardinality(Present)}), Present)}

\* "Collect all pages": as long as there is a cursor.
ListPage ==
    /\ making.step = "list"
    /\ \E page \in IF Driver = "pg" THEN {PgPage} ELSE LocalPages :
          making' = [making EXCEPT !.listed = @ \o page.keys, !.cursor = page.cursor,
                                   !.step = IF page.cursor = 0 THEN "read" ELSE "list"]
    /\ UNCHANGED <<objects, bringing, lasting, seen, saves>>

\* An object that is gone is left out, and so is one that cannot be read.
ReadObject ==
    /\ making.step = "read" /\ making.listed # <<>>
    /\ LET k == Head(making.listed)
           rest == [making EXCEPT !.listed = Tail(@)]
       IN \/ /\ objects[k] # 0
             /\ making' = [rest EXCEPT !.out = Append(@, <<k, objects[k]>>)]
             /\ UNCHANGED <<lasting, saves>>
          \/ /\ objects[k] = 0
             /\ making' = rest
             /\ UNCHANGED <<lasting, saves>>
          \/ /\ saves.faults < MaxBundleFaults
             /\ saves' = [saves EXCEPT !.faults = @ + 1]
             /\ making' = rest
             /\ lasting' = lasting \ {k}
    /\ UNCHANGED <<objects, bringing, seen>>

EndBundle ==
    /\ making.step = "read" /\ making.listed = <<>>
    /\ making' = [making EXCEPT !.step = "made"]
    /\ UNCHANGED <<objects, bringing, lasting, seen, saves>>

\* The bundle that was made last comes back, damaged on its way or not.
StartBringing ==
    /\ making.step = "made" /\ bringing.step = "none"
    /\ bringing' = [NothingBrought EXCEPT !.step = "put", !.todo = Range(making.out)]
    /\ UNCHANGED <<objects, making, lasting, seen, saves>>

\* A content that does not parse is skipped; a put that fails ends it all, with
\* no word of what was put before.
BringObject ==
    /\ bringing.step = "put"
    /\ \E o \in bringing.todo :
          \/ /\ o[2] \in Corrupt
             /\ bringing' = [bringing EXCEPT !.todo = @ \ {o}, !.skipped = @ \cup {o[1]}]
             /\ UNCHANGED <<objects, lasting, seen, saves>>
          \/ /\ o[2] \notin Corrupt
             /\ Changed(o[1], o[2])
             /\ bringing' = [bringing EXCEPT !.todo = @ \ {o}]
             /\ UNCHANGED saves
          \/ /\ o[2] \notin Corrupt /\ saves.faults < MaxBundleFaults
             /\ saves' = [saves EXCEPT !.faults = @ + 1]
             /\ bringing' = NothingBrought
             /\ UNCHANGED <<objects, lasting, seen>>
    /\ UNCHANGED making

EndBringing ==
    /\ bringing.step = "put" /\ bringing.todo = {}
    /\ bringing' = NothingBrought
    /\ UNCHANGED <<objects, making, lasting, seen, saves>>

BundlesNext ==
    \/ \E k \in StoreKeys : OfficeSaves(k)
    \/ StartBundle \/ ListPage \/ ReadObject \/ EndBundle
    \/ StartBringing \/ BringObject \/ EndBringing

BundlesSpec == BundlesInit /\ [][BundlesNext]_bundleVars

\* A bundle has every object that was there from the first page to the last read
\* (and could be read), and each with a content it had meanwhile, however the
\* office's saves and deletions fall between the pages and the reads.
BundleWhole ==
    making.step = "made" =>
        /\ lasting \subseteq {making.out[i][1] : i \in DOMAIN making.out}
        /\ \A i \in DOMAIN making.out : making.out[i][2] \in seen[making.out[i][1]]
=================================================================================
