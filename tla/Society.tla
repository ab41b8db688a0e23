--------------------------------- MODULE Society ---------------------------------
(***************************************************************************)
(* The society of experts and the Leader that sends work to it: the        *)
(* pipeline of orchestrator.service.ts (cite, route, break a tie, check    *)
(* the grant, choose where to infer, run), with the desks it asks          *)
(* (agent-governance, hybrid-inference-router, llm-tiebreaker, expert-     *)
(* registry, model-assignment), the desks its owner changes meanwhile      *)
(* (grants, the off-switch, pins, evolution) and the metrics that listen.  *)
(*                                                                         *)
(* All of it is in memory and dies with the process.  A dispatch awaits    *)
(* between its gates, so an owner's request can come between any two.      *)
(* Scores are left out: any scoped expert may be the best one.             *)
(***************************************************************************)
EXTENDS Clock, Sequences, FiniteSets

-----------------------------------------------------------------------------
(***************************************************************************)
(* The experts, as their answers go: apps/agents/*, all but one built by   *)
(* createExpertAgent (shared/src/agent-kit.ts).  An answer is text         *)
(* computed from the question and from tables in the code; what is kept of *)
(* it is whether the expert says it is grounded, that is, whether a branch *)
(* that cites articles was taken.                                          *)
(*                                                                         *)
(* A question is the set of topics its words name (the keyword tables and  *)
(* their aliases); a skill is the topic that routing matched best.         *)
(***************************************************************************)

\* CRIMES_DB: the crimes with an article of their own.
Crimes == {"theft", "fraud", "assault", "homicide", "breach_of_trust", "forgery",
           "threat", "false_accusation"}

Topics == Crimes \cup {"contracts", "property", "tort", "inheritance", "procedure",
                       "sentencing", "family", "abroad", "registry"}

Answer(ok, grounded) ==
    [ok |-> ok, grounded |-> grounded, review |-> TRUE]

Names(question, skill, topic) ==
    topic \in question \cup {skill}

-----------------------------------------------------------------------------
(* The civil desk: a branch for each of four topics, by the skill or by the *)
(* words, cites articles; the last branch cites none.                       *)

ContractAsked(question, skill) ==
    Names(question, skill, "contracts")

LandAsked(question, skill) ==
    Names(question, skill, "property")

TortAsked(question, skill) ==
    Names(question, skill, "tort")

InheritanceAsked(question, skill) ==
    Names(question, skill, "inheritance")

CivilExpert(question, skill) ==
    Answer(TRUE, \/ ContractAsked(question, skill)
                 \/ LandAsked(question, skill)
                 \/ TortAsked(question, skill)
                 \/ InheritanceAsked(question, skill))

-----------------------------------------------------------------------------
(* The criminal desk: a crime first, by the words alone, then procedure,    *)
(* then sentencing.                                                         *)

\* analyzeCrime: a crime whose name, or an alias of it, is in the words.
CrimeNamed(question) ==
    question \cap Crimes # {}

ProcedureAsked(question, skill) ==
    Names(question, skill, "procedure")

SentencingAsked(question, skill) ==
    Names(question, skill, "sentencing")

CriminalExpert(question, skill) ==
    Answer(TRUE, \/ CrimeNamed(question)
                 \/ ProcedureAsked(question, skill)
                 \/ SentencingAsked(question, skill))

-----------------------------------------------------------------------------
\* The base agent, a member spawned without an executor, and the desks whose
\* executor is passed under a name the kit does not read: nothing generated.
StandIn(question, skill) ==
    Answer(TRUE, FALSE)

\* executeExpert: an executor that throws is an answer that failed.
ExpertFailed ==
    Answer(FALSE, FALSE)

\* The kit runs customExecute; the desks for family, abroad and registration
\* pass theirs as executor, so they answer as the stand-in does.
Expert(agent, question, skill) ==
    CASE agent = "civil" -> CivilExpert(question, skill)
      [] agent = "criminal" -> CriminalExpert(question, skill)
      [] OTHER -> StandIn(question, skill)

-----------------------------------------------------------------------------
Tiers == {"spartan", "counsel", "senator"}
HybridPolicies == {"local_only", "cloud_only", "hybrid_local_first", "hybrid_cloud_first"}

CONSTANTS Core,             \* the fleet's own agents
          Spawnable,        \* ids a member may be spawned under
          FieldOf,          \* [Core \cup Spawnable -> fields]
          Questions,        \* what may be asked: sets of topics
          Dispatches,       \* dispatches that may be in flight
          Tier,             \* AGENT_TIER
          EnvPolicy,        \* the hybrid policy of the environment, or "none"
          Presets,          \* the presets the dashboard may have set, "none" among them
          Ttls,             \* how long a grant may be given for
          MaxGrants,        \* bound: grants issued
          MaxTasks,         \* bound: tasks accepted
          MaxOwnerActs      \* bound: the owner's other changes

ASSUME SocietyAssumption ==
    /\ {MaxGrants, MaxTasks, MaxOwnerActs} \subseteq Nat
    /\ \A q \in Questions : q \subseteq Topics
    /\ Tier \in Tiers
    /\ Presets \subseteq Tiers \cup {"none"}
    /\ Ttls \subseteq Nat

VARIABLES society,          \* members, disabled, grants, pins
          tasks,            \* the dispatches
          fleet,            \* the metrics: per agent what was routed, completed, failed
          counts            \* bounds: tasks accepted, changes by the owner

societyVars == <<society, tasks, fleet, counts>>

Agents == Core \cup Spawnable
Fields == {FieldOf[a] : a \in Agents}
Nobody == "nobody"
ASSUME NobodyAssumption == Nobody \notin Agents

NoTask == [pc |-> "idle", privileged |-> FALSE, question |-> {}, cited |-> FALSE,
           field |-> "general", agent |-> Nobody, grant |-> 0, checked |-> 0,
           target |-> "none", asked |-> FALSE, answer |-> ExpertFailed]
NotYet == MaxClock + 1     \* not revoked
Fleet == [members |-> Core, disabled |-> {}, grants |-> <<>>,
          pins |-> [a \in Agents |-> "none"]]
NoMetrics == [routed |-> 0, completed |-> 0, failed |-> 0]

SocietyInit ==
    /\ society = Fleet
    /\ tasks = [d \in Dispatches |-> NoTask]
    /\ fleet = [a \in Agents |-> NoMetrics]
    /\ counts = [tasks |-> 0, acts |-> 0]

Counted(agent, what) ==
    fleet' = [fleet EXCEPT ![agent][what] = @ + 1]

Goes(d, task) ==
    tasks' = [tasks EXCEPT ![d] = task]

Ended(d) ==
    tasks[d].pc \in {"idle", "answered", "refused"}

\* dispatch(): the shelf is searched for verified law first (a failing search
\* counts as no law), and what it finds goes into the task.
Accept(d, question, privileged, cited) ==
    /\ Ended(d)
    /\ counts.tasks < MaxTasks
    /\ counts' = [counts EXCEPT !.tasks = @ + 1]
    /\ Goes(d, [NoTask EXCEPT !.pc = "route", !.question = question,
                              !.privileged = privileged, !.cited = cited])
    /\ UNCHANGED <<society, fleet, now>>

\* Members of the field or generalists, not switched off.
Scoped(field) ==
    {a \in society.members \ society.disabled : FieldOf[a] \in {field, "general"}}

\* route(): the best of the scoped ones that score at all, or nobody, who is
\* counted under no agent.
Routed(d, task, field, agent, pc) ==
    /\ agent \in Scoped(field) \cup {Nobody}
    /\ Goes(d, [task EXCEPT !.field = field, !.agent = agent,
                            !.pc = IF pc = "check" /\ agent = Nobody THEN "refused" ELSE pc])
    /\ IF agent = Nobody THEN UNCHANGED fleet ELSE Counted(agent, "routed")

\* The classifier is sure of the field, or asks for the tie to be broken.
Route(d, field, agent, sure) ==
    /\ tasks[d].pc = "route"
    /\ Routed(d, tasks[d], field, agent, IF sure THEN "check" ELSE "tie")
    /\ UNCHANGED <<society, counts, now>>

\* resolve(): a privileged question is not shown to the provider.
Askable(task) ==
    ~task.privileged

\* Not asked (privileged, no provider, no budget), or asked in vain (timeout,
\* an answer that is not of the form, nothing new): the first route stands.
TieStands(d) ==
    /\ tasks[d].pc = "tie"
    /\ Goes(d, [tasks[d] EXCEPT !.pc = IF tasks[d].agent = Nobody THEN "refused" ELSE "check",
                                !.asked = Askable(tasks[d])])
    /\ UNCHANGED <<society, fleet, counts, now>>

\* The provider names another field, or another kind of question: the task is
\* routed again.
TieBroken(d, field, agent) ==
    LET task == [tasks[d] EXCEPT !.asked = TRUE] IN
    /\ task.pc = "tie"
    /\ Askable(task)
    /\ Routed(d, task, field, agent, "check")
    /\ UNCHANGED <<society, counts, now>>

GrantsFor(agent, field) ==
    {g \in DOMAIN society.grants :
        society.grants[g].agent = agent /\ society.grants[g].field = field}

\* check(): of the grants for the agent and the field, the one that runs
\* longest speaks, revoked or not (of equals, the first issued).
Speaking(agent, field) ==
    CHOOSE g \in GrantsFor(agent, field) :
        \A h \in GrantsFor(agent, field) :
            \/ society.grants[g].expires > society.grants[h].expires
            \/ society.grants[g].expires = society.grants[h].expires /\ g <= h

GrantAllows(agent, field) ==
    /\ agent \notin society.disabled
    /\ GrantsFor(agent, field) # {}
    /\ LET grant == society.grants[Speaking(agent, field)] IN
       grant.revoked = NotYet /\ grant.expires > now

CheckGrant(d) ==
    LET task == tasks[d] IN
    /\ task.pc = "check"
    /\ IF GrantAllows(task.agent, task.field)
       THEN /\ Goes(d, [task EXCEPT !.pc = "decide", !.checked = now,
                                    !.grant = Speaking(task.agent, task.field)])
            /\ UNCHANGED fleet
       ELSE /\ Goes(d, [task EXCEPT !.pc = "refused"])
            /\ Counted(task.agent, "failed")
    /\ UNCHANGED <<society, counts, now>>

\* The mistake of honouring a pin before the secrecy law.
PinFirst(privileged, pin, policy, healthy, budgetGone) ==
    IF pin # "none" THEN pin ELSE IF privileged THEN "local" ELSE "cloud"

\* decide(), three layers: secrecy, the manual pin, the Leader's lending.
Target(privileged, pin, policy, healthy, budgetGone) ==
    CASE privileged -> "local"
      [] ~privileged /\ pin # "none" -> pin
      [] OTHER ->
            LET cloudWanted == \/ policy = "cloud_only"
                               \/ policy = "hybrid_local_first" /\ ~healthy /\ ~budgetGone
                               \/ policy = "hybrid_cloud_first" /\ ~budgetGone
            IN  IF cloudWanted THEN "cloud" ELSE "local"

\* currentPolicy(): the dashboard's preset, then the environment, then the tier.
CurrentPolicy(preset) ==
    CASE preset = "senator" -> "hybrid_cloud_first"
      [] preset = "counsel" -> "hybrid_local_first"
      [] preset = "spartan" -> "local_only"
      [] preset = "none" /\ EnvPolicy \in HybridPolicies -> EnvPolicy
      [] OTHER -> IF Tier = "senator" THEN "hybrid_cloud_first" ELSE "hybrid_local_first"

\* probeLocal(): no address, one outside the local network, silence for 1.5 s and
\* an error are all one.
ProbeLocal(wired) ==
    IF wired THEN BOOLEAN ELSE {FALSE}

\* The policy is read, the local box probed, then the month's budget read.
Decide(d, preset, healthy, budgetGone) ==
    LET task == tasks[d]
        policy == CurrentPolicy(preset)
    IN
    /\ task.pc = "decide"
    /\ Goes(d, [task EXCEPT !.pc = "run",
                            !.target = Target(task.privileged, society.pins[task.agent],
                                              policy, healthy, budgetGone)])
    /\ UNCHANGED <<society, fleet, counts, now>>

\* The shelf's verdict replaces the expert's own.
Grounded(task, answer) ==
    [answer EXCEPT !.grounded = task.cited]

\* executeExpert, counted as completed or failed.
Run(d, skill, threw) ==
    LET task == tasks[d]
        answer == IF threw THEN ExpertFailed ELSE Expert(task.agent, task.question, skill)
    IN  /\ task.pc = "run"
        /\ task.agent \in society.members
        /\ Goes(d, [task EXCEPT !.pc = "answered", !.answer = Grounded(task, answer)])
        /\ Counted(task.agent, IF answer.ok THEN "completed" ELSE "failed")
        /\ UNCHANGED <<society, counts, now>>

\* The member was retired since it was chosen: registry.get() is undefined, the
\* request throws, and no event tells the metrics.
RunsNobody(d) ==
    /\ tasks[d].pc = "run"
    /\ tasks[d].agent \notin society.members
    /\ Goes(d, [tasks[d] EXCEPT !.pc = "refused"])
    /\ UNCHANGED <<society, fleet, counts, now>>

\* The owner's desk, of which each change takes one request.
OwnerActs(newSociety) ==
    /\ counts.acts < MaxOwnerActs
    /\ counts' = [counts EXCEPT !.acts = @ + 1]
    /\ society' = newSociety
    /\ UNCHANGED <<tasks, fleet, now>>

\* grant() asks nothing about the agent: it may not exist (yet).
IssueGrant(agent, field, ttl) ==
    /\ Len(society.grants) < MaxGrants
    /\ society' = [society EXCEPT !.grants =
                      Append(@, [agent |-> agent, field |-> field,
                                 expires |-> now + ttl, revoked |-> NotYet])]
    /\ UNCHANGED <<tasks, fleet, counts, now>>

RevokeGrant(g) ==
    /\ g \in DOMAIN society.grants
    /\ society.grants[g].revoked = NotYet
    /\ OwnerActs([society EXCEPT !.grants[g].revoked = now])

SetDisabled(agent, off) ==
    OwnerActs([society EXCEPT !.disabled = IF off THEN @ \cup {agent} ELSE @ \ {agent}])

Pin(agent, target) ==
    /\ agent \in society.members \/ target = "none"
    /\ OwnerActs([society EXCEPT !.pins[agent] = target])

\* spawn(): an id not in use.  Grants and pins are looked at by nobody.
Spawn(agent) ==
    /\ agent \notin society.members
    /\ OwnerActs([society EXCEPT !.members = @ \cup {agent}])

\* retire(): spawned members only; their grants and pins stay on the desks.
Retire(agent) ==
    /\ agent \in society.members \ Core
    /\ OwnerActs([society EXCEPT !.members = @ \ {agent}])

\* The process ends: nothing of all this was written anywhere.
SocietyRestart ==
    /\ counts.acts < MaxOwnerActs
    /\ counts' = [counts EXCEPT !.acts = @ + 1]
    /\ society' = Fleet
    /\ tasks' = [d \in Dispatches |-> NoTask]
    /\ fleet' = [a \in Agents |-> NoMetrics]
    /\ UNCHANGED now

SocietyTick ==
    Tick /\ UNCHANGED societyVars

SocietyNext ==
    \/ \E d \in Dispatches :
           \/ \E question \in Questions, privileged, cited \in BOOLEAN :
                  Accept(d, question, privileged, cited)
           \/ \E field \in Fields, agent \in Agents \cup {Nobody} :
                  \/ \E sure \in BOOLEAN : Route(d, field, agent, sure)
                  \/ TieBroken(d, field, agent)
           \/ TieStands(d)
           \/ CheckGrant(d)
           \/ \E preset \in Presets, wired, budgetGone \in BOOLEAN : \E healthy \in ProbeLocal(wired) :
                  Decide(d, preset, healthy, budgetGone)
           \/ \E skill \in Topics, threw \in BOOLEAN : Run(d, skill, threw)
           \/ RunsNobody(d)
    \/ \E agent \in Agents :
           \/ \E field \in Fields, ttl \in Ttls : IssueGrant(agent, field, ttl)
           \/ \E off \in BOOLEAN : SetDisabled(agent, off)
           \/ \E target \in {"none", "local", "cloud"} : Pin(agent, target)
           \/ Spawn(agent)
           \/ Retire(agent)
    \/ \E g \in 1..MaxGrants : RevokeGrant(g)
    \/ SocietyRestart
    \/ SocietyTick

SocietySpec ==
    SocietyInit /\ ClockInit /\ [][SocietyNext]_<<now, societyVars>>

-----------------------------------------------------------------------------

\* "Privileged tasks NEVER go to cloud": neither to be run, whatever is pinned
\* and whatever is healthy, nor to be classified on the way.
PrivilegedStaysLocal ==
    \A d \in Dispatches :
        tasks[d].privileged => tasks[d].target # "cloud" /\ ~tasks[d].asked

\* What runs, runs under a grant for that agent and for the field the task ended
\* up in, however it was rerouted, and the grant was in force when it was asked.
RunsAreGranted ==
    \A d \in Dispatches :
        LET task == tasks[d] IN
        task.pc \in {"decide", "run", "answered"} =>
            /\ task.grant \in DOMAIN society.grants
            /\ LET grant == society.grants[task.grant] IN
               /\ <<grant.agent, grant.field>> = <<task.agent, task.field>>
               /\ task.checked < grant.expires
               /\ grant.revoked = NotYet \/ task.checked <= grant.revoked

\* An answer says it is grounded only over verified law from the shelf, whatever
\* articles an expert names; and the fleet's card of no agent shows more answers
\* than it was given tasks, those on their way included.
GroundedHonest ==
    /\ \A d \in Dispatches : tasks[d].answer.grounded => tasks[d].cited /\ tasks[d].answer.review
    /\ \A a \in Agents :
           fleet[a].completed + fleet[a].failed
             + Cardinality({d \in Dispatches : tasks[d].agent = a
                                /\ tasks[d].pc \in {"check", "decide", "run"}})
               <= fleet[a].routed

\* At the gates: a privileged turn stays local, a run holds its grant, and what
\* is said to be grounded is.
SocietyHolds ==
    PrivilegedStaysLocal /\ RunsAreGranted /\ GroundedHonest
=================================================================================
