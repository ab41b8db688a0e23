---------------------------------- MODULE Wizard ----------------------------------
(***************************************************************************)
(* The setup wizard: setup/setup.service.ts.  One state, started once,     *)
(* advanced step by step and finished.  An operation that finds no state   *)
(* in memory reads the store (ensure), and what it reads replaces what     *)
(* memory holds by then, be it nothing; the rest of it is one step, ended  *)
(* by a put of what memory holds.                                          *)
(*                                                                         *)
(* A state is the number of its start and the steps done; the current step *)
(* is the one after them.  Payloads are left out, but for being there.     *)
(***************************************************************************)
EXTENDS Naturals, SequencesExt

CONSTANTS Steps,            \* WIZARD_STEPS, the last one "done"
          Asks,             \* requests that may overlap
          MaxStarts,        \* bound: states started
          MaxReads,         \* bound: reads of the store
          MaxWrites,        \* bound: puts on their way
          MaxWizardFaults   \* bound: puts that fail and crashes

ASSUME WizardAssumption ==
    /\ Steps \in Seq(STRING) /\ Steps # <<>>
    /\ \A i \in DOMAIN Steps : Steps[i] = "done" <=> i = Len(Steps)
    /\ {MaxStarts, MaxReads, MaxWrites, MaxWizardFaults} \subseteq Nat

VARIABLES wizard,           \* the state in memory
          stored,           \* the state in the store
          writes,           \* puts on their way, in order
          asks,             \* requests that are reading, and what they read
          setup             \* bounds

wizardVars == <<wizard, stored, writes, asks, setup>>

\* Start 0: there is no state.
NoState == [start |-> 0, completed |-> <<>>, finished |-> FALSE]
NoAsk == [op |-> "none", step |-> "", read |-> NoState]

WizardInit ==
    /\ wizard = NoState
    /\ stored = NoState
    /\ writes = <<>>
    /\ asks = [a \in Asks |-> NoAsk]
    /\ setup = [starts |-> 0, reads |-> 0, faults |-> 0]

Current(state) ==
    IF Len(state.completed) < Len(Steps) THEN Steps[Len(state.completed) + 1] ELSE "done"

\* persist().
Persisted(state) ==
    /\ Len(writes) < MaxWrites
    /\ wizard' = state
    /\ writes' = Append(writes, state)

Step(state, step) ==
    [state EXCEPT !.completed = IF Contains(@, step) THEN @ ELSE Append(@, step)]

\* start(): one that exists is resumed.
Start(state) ==
    IF state # NoState THEN wizard' = state /\ UNCHANGED <<writes, setup>>
    ELSE /\ setup.starts < MaxStarts
         /\ setup' = [setup EXCEPT !.starts = @ + 1]
         /\ Persisted([NoState EXCEPT !.start = setup.starts + 1])

\* "Resume from where it is."
AtStep(state, step) ==
    Current(state) = step

\* advance(), of a step with the payload it needs.  Without a state it starts
\* one first, and then is a request like any other.
Advance(state, step) ==
    IF state = NoState THEN Start(state)
    ELSE /\ UNCHANGED setup
         /\ IF AtStep(state, step)
            THEN Persisted([Step(state, step) EXCEPT !.finished = @ \/ step = "done"])
            ELSE wizard' = state /\ UNCHANGED writes

\* finish(): refused without a state, and only at the last step.
FinishSetup(state) ==
    /\ UNCHANGED setup
    /\ IF state # NoState /\ Current(state) = "done"
       THEN Persisted([Step(state, "done") EXCEPT !.finished = TRUE])
       ELSE wizard' = state /\ UNCHANGED writes

Serve(op, step, state) ==
    \/ op = "start" /\ Start(state)
    \/ op = "advance" /\ Advance(state, step)
    \/ op = "finish" /\ FinishSetup(state)

\* A request that finds a state in memory.
Request(op, step) ==
    /\ wizard # NoState
    /\ Serve(op, step, wizard)
    /\ UNCHANGED <<stored, asks>>

\* A request that finds none: ensure() reads the store,
ReadsStore(a, op, step) ==
    /\ wizard = NoState
    /\ asks[a] = NoAsk
    /\ setup.reads < MaxReads
    /\ setup' = [setup EXCEPT !.reads = @ + 1]
    /\ asks' = [asks EXCEPT ![a] = [op |-> op, step |-> step, read |-> stored]]
    /\ UNCHANGED <<wizard, stored, writes>>

\* and goes on with what it read.
GoesOn(a) ==
    /\ asks[a] # NoAsk
    /\ Serve(asks[a].op, asks[a].step, asks[a].read)
    /\ asks' = [asks EXCEPT ![a] = NoAsk]
    /\ UNCHANGED stored

\* reset(), the store's document deleted with it.
Reset ==
    /\ wizard # NoState
    /\ wizard' = NoState
    /\ stored' = NoState
    /\ UNCHANGED <<writes, asks, setup>>

WriteLands ==
    /\ writes # <<>>
    /\ stored' = Head(writes)
    /\ writes' = Tail(writes)
    /\ UNCHANGED <<wizard, asks, setup>>

WriteFails ==
    /\ writes # <<>>
    /\ setup.faults < MaxWizardFaults
    /\ setup' = [setup EXCEPT !.faults = @ + 1]
    /\ writes' = Tail(writes)
    /\ UNCHANGED <<wizard, stored, asks>>

WizardCrash ==
    /\ setup.faults < MaxWizardFaults
    /\ setup' = [setup EXCEPT !.faults = @ + 1]
    /\ wizard' = NoState
    /\ writes' = <<>>
    /\ asks' = [a \in Asks |-> NoAsk]
    /\ UNCHANGED stored

Ops == {"start", "advance", "finish"}

WizardNext ==
    \/ \E op \in Ops, step \in Range(Steps) :
           /\ op # "advance" => step = "done"
           /\ Request(op, step) \/ \E a \in Asks : ReadsStore(a, op, step)
    \/ \E a \in Asks : GoesOn(a)
    \/ Reset
    \/ WriteLands \/ WriteFails
    \/ WizardCrash

WizardSpec == WizardInit /\ [][WizardNext]_wizardVars

-----------------------------------------------------------------------------

\* In memory, in the store and on the way there, the steps done are the first
\* ones in their order, none skipped, and a finished wizard has done them all:
\* through resets, restarts, puts that fail and reads that come back late.
StepsInOrder ==
    \A state \in {wizard, stored} \cup Range(writes) :
        /\ IsPrefix(state.completed, Steps)
        /\ state.finished => state.completed = Steps
=================================================================================
