-------------------------------- MODULE Providers --------------------------------
(***************************************************************************)
(* The provider settings of the dashboard (modules/providers, table         *)
(* provider_configs) and the factory that builds an adapter.  The database  *)
(* stamps every update of a row, recordHealth() included, and the active    *)
(* row stamped last is the one resolveAdapter() would serve.  A connection  *)
(* test reads the row, asks the provider, and writes the verdict later.     *)
(* Rows are never deleted.                                                  *)
(***************************************************************************)
EXTENDS Naturals, Sequences, FiniteSets

CONSTANTS
    Categories,     \* PROVIDER_CATEGORIES
    InTable,         \* those the table's check constraint allows
    AdapterKeys,    \* what a row may name, "mock" among them
    Environment,    \* the adapter or the driver it selects for a category, and
                    \* whether it names a database
    InProduction,   \* NODE_ENV is production
    Testers,        \* dashboards that run connection tests
    MaxConfigs, MaxConfigWrites     \* bounds

ASSUME ProviderSettings == /\ InTable \subseteq Categories /\ "mock" \in AdapterKeys
                           /\ InProduction \in BOOLEAN

VARIABLES
    configs,        \* the rows: [type, adapter, active, health, fallback, stamp]
    tests,          \* each tester: the rows it has yet to test, the first one's adapter
    configWrites    \* statements so far; the stamp of the next one

providerVars == <<configs, tests, configWrites>>

NoFallback == 0
Untested == "unknown"
NoTest == [todo |-> <<>>, asked |-> "no"]

ProvidersInit == configs = <<>> /\ tests = [t \in Testers |-> NoTest] /\ configWrites = 0

Ids == DOMAIN configs
Statement == configWrites < MaxConfigWrites /\ configWrites' = configWrites + 1

(* The table: no row of a category its check does not list, and no two of   *)
(* one category and adapter.                                                *)
Refuses(row, but) ==
    \/ row.type \notin InTable
    \/ \E id \in Ids \ {but} : configs[id].type = row.type /\ configs[id].adapter = row.adapter

(* INSERT: never tested, nothing to fall back on, stamped now.              *)
NewRow(type, adapter, active) ==
    [type |-> type, adapter |-> adapter, active |-> active,
     health |-> Untested, fallback |-> NoFallback, stamp |-> configWrites']

(* UPDATE of the fields a patch has, where [] stands for none: the row is    *)
(* stamped by the trigger; a patch without a field is not sent.             *)
Patched(id, patch) ==
    [field \in DOMAIN configs[id] |->
        IF field \in DOMAIN patch THEN patch[field]
        ELSE IF field = "stamp" THEN configWrites' ELSE configs[id][field]]

Update(id, patch) ==
    IF patch = <<>> THEN UNCHANGED <<configs, configWrites>>
    ELSE /\ Statement
         /\ configs' = IF Refuses(Patched(id, patch), id) THEN configs
                       ELSE [configs EXCEPT ![id] = Patched(id, patch)]

(* create(): what the database refuses changes nothing.                     *)
CreateConfig ==
    \E type \in Categories, adapter \in AdapterKeys, active \in BOOLEAN :
        /\ Statement /\ Len(configs) < MaxConfigs
        /\ configs' = IF Refuses(NewRow(type, adapter, active), NoFallback) THEN configs
                      ELSE Append(configs, NewRow(type, adapter, active))
        /\ UNCHANGED tests

(* update(): the fields given, each optional; the verdict of the last test  *)
(* stays whatever changes.                                                  *)
UpdateConfig ==
    \E id \in Ids, patch \in {<<>>} \cup [{"adapter"} -> AdapterKeys] \cup [{"active"} -> BOOLEAN]
                                \cup [adapter : AdapterKeys, active : BOOLEAN] :
        Update(id, patch) /\ UNCHANGED tests

(* What setFallback() asks of the row to fall back on.                      *)
MayStandIn(id, other) ==
    other # NoFallback => other # id /\ configs[other].type = configs[id].type

SetFallback ==
    \E id \in Ids, other \in Ids \cup {NoFallback} :
        MayStandIn(id, other) /\ Update(id, [fallback |-> other]) /\ UNCHANGED tests

(* POST :id/test, and GET health over every row: one row after the other.   *)
TestConfig(t) ==
    /\ tests[t].todo = <<>>
    /\ \E rows \in {<<id>> : id \in Ids} \cup {[id \in Ids |-> id]} :
        tests' = [tests EXCEPT ![t].todo = rows]
    /\ UNCHANGED <<configs, configWrites>>

(* createAdapterFor(): the row's key only decides whether a mock is refused; *)
(* the class that is built is the one the environment names, and what has   *)
(* no class but the mock is mocked in production too.                       *)
Real == [sms |-> {"kavenegar"}, payment |-> {"zarinpal"}, email |-> {"smtp"},
         ai |-> {"openai", "openai-compatible"}]

StorageFor ==
    IF \/ Environment.storage = "pg"
       \/ Environment.storage = "" /\ InProduction /\ Environment.database
    THEN IF Environment.database THEN "pg" ELSE "refused"
    ELSE "local"

AdapterFor(type, key) ==
    IF key = "mock" /\ InProduction THEN "refused"
    ELSE IF type = "storage" THEN StorageFor
    ELSE IF type \in DOMAIN Real /\ Environment[type] \in Real[type] THEN Environment[type]
    ELSE "mock"

AskAdapter(t) ==
    /\ tests[t].todo # <<>> /\ tests[t].asked = "no"
    /\ LET id == Head(tests[t].todo)
           adapter == AdapterFor(configs[id].type, configs[id].adapter)
       IN  \E verdict \in IF adapter = "refused" THEN {"unhealthy"} ELSE {"healthy", "unhealthy"} :
             tests' = [tests EXCEPT ![t].asked = verdict]
    /\ UNCHANGED <<configs, configWrites>>

(* recordHealth(): the verdict lands on the row as it is by now.            *)
RecordHealth(t) ==
    /\ tests[t].todo # <<>> /\ tests[t].asked # "no" /\ Statement
    /\ configs' = [configs EXCEPT ![Head(tests[t].todo)].health = tests[t].asked,
                                  ![Head(tests[t].todo)].stamp = configWrites']
    /\ tests' = [tests EXCEPT ![t].todo = Tail(@), ![t].asked = "no"]

ProvidersNext ==
    \/ CreateConfig \/ UpdateConfig \/ SetFallback
    \/ \E t \in Testers : TestConfig(t) \/ AskAdapter(t) \/ RecordHealth(t)

ProvidersSpec == ProvidersInit /\ [][ProvidersNext]_providerVars

-----------------------------------------------------------------------------

(* The row that serves a category: findActiveByType().                      *)
Serving(type) ==
    LET active == {id \in Ids : configs[id].type = type /\ configs[id].active}
    IN  {id \in active : \A other \in active : configs[other].stamp <= configs[id].stamp}

(* However rows are created, changed and tested by several dashboards at    *)
(* once, a category has one row that serves at most, none serves under a    *)
(* category the table refuses, and what stands in for a row is another row  *)
(* of the same category, never the row itself.                              *)
StandInsAreOfTheirKind ==
    /\ \A type \in Categories :
          Cardinality(Serving(type)) <= IF type \in InTable THEN 1 ELSE 0
    /\ \A id \in Ids : configs[id].fallback # NoFallback =>
        /\ configs[id].fallback \in Ids \ {id}
        /\ configs[configs[id].fallback].type = configs[id].type
=============================================================================
