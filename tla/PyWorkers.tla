-------------------------------- MODULE PyWorkers --------------------------------
(***************************************************************************)
(* The API and the Python workers: orchestrator/python-worker.service.ts   *)
(* (enqueue, result, probe, runTool), the two callers of file-intelligence *)
(* .service.ts (analyze, shelfText), the Redis client that carries them    *)
(* (providers/queue/redis-resp.client.ts) and the worker's loop            *)
(* (apps/workers/py/pylegal/worker.py).                                    *)
(*                                                                         *)
(* Jobs go into one Redis list, pushed on the left and popped on the left: *)
(* the last one in is the first one out.  A popped job is in its worker's  *)
(* hands only; nobody sends it again.  An answer is a key with a lifetime. *)
(* A caller pushes its jobs one after the other, then reads each answer    *)
(* again and again until it is there or the deadline has passed.  Time is  *)
(* left out: a deadline may pass at any moment of the wait, and a push     *)
(* ends, for the socket has a timeout; one that fails may have reached     *)
(* Redis all the same.  A command whose connection Redis closes in an      *)
(* orderly way never ends: nobody listens for that, and the timeout goes   *)
(* with the socket.  An answer is kept for an hour, a caller waits for  *)
(* eight seconds at most: none expires under its caller.                   *)
(***************************************************************************)
EXTENDS Naturals, SequencesExt

CONSTANTS Callers,          \* requests that wait for a worker
          Hands,            \* worker processes
          Requests,         \* what a caller may ask for: sequences of tools
          MaxJobs,          \* bound: jobs made
          MaxWireFaults     \* bound: commands that fail, workers and boots that end

ASSUME PyAssumption ==
    /\ {MaxJobs, MaxWireFaults} \subseteq Nat
    /\ Requests \subseteq Seq(STRING) /\ \A r \in Requests : Len(r) \in 1..2

VARIABLES line,             \* the list in Redis, its left end first
          answers,          \* by job: what its worker posted
          hands,            \* the job each worker has popped, 0 if none
          callers,
          py                \* ghosts and bounds

pyVars == <<line, answers, hands, callers, py>>

Away == [pc |-> "away", tools |-> <<>>, jobs |-> <<>>, sent |-> TRUE, late |-> FALSE, got |-> <<>>]

PyInit ==
    /\ line = <<>>
    /\ answers = [j \in 1..MaxJobs |-> "none"]
    /\ hands = [h \in Hands |-> 0]
    /\ callers = [c \in Callers |-> Away]
    /\ py = [jobs |-> 0, faults |-> 0, run |-> [j \in 1..MaxJobs |-> 0], good |-> {}, told |-> {}]

PyFault ==
    /\ py.faults < MaxWireFaults
    /\ py' = [py EXCEPT !.faults = @ + 1]

\* A request that needs a worker: analyze (two jobs), shelfText, probe, runTool.
Call(c, tools) ==
    /\ callers[c] = Away
    /\ py.jobs + Len(tools) <= MaxJobs
    /\ py' = [py EXCEPT !.jobs = @ + Len(tools)]
    /\ callers' = [callers EXCEPT ![c] =
           [Away EXCEPT !.pc = "push", !.tools = tools,
                        !.jobs = [i \in DOMAIN tools |-> py.jobs + i]]]
    /\ UNCHANGED <<line, answers, hands>>

\* enqueue() is over for the first tool left.  After the last one the caller
\* polls if every push was acknowledged; otherwise it does without.
Pushed(c, sent) ==
    LET caller == callers[c]
        queued == caller.sent /\ sent
    IN  callers' = [callers EXCEPT ![c] =
            IF Len(caller.tools) > 1
            THEN [caller EXCEPT !.tools = Tail(@), !.sent = queued]
            ELSE IF queued
            THEN [caller EXCEPT !.pc = "poll", !.tools = <<>>,
                                !.got = [i \in DOMAIN caller.jobs |-> "none"]]
            ELSE Away]

\* The job whose push is under way.
Pushing(c) ==
    callers[c].jobs[Len(callers[c].jobs) - Len(callers[c].tools) + 1]

Push(c) ==
    /\ callers[c].pc = "push"
    /\ line' = <<Pushing(c)>> \o line
    /\ Pushed(c, TRUE)
    /\ UNCHANGED <<answers, hands, py>>

\* The push is refused, or done without its caller hearing of it.
PushFails(c) ==
    /\ callers[c].pc = "push"
    /\ PyFault
    /\ line' \in {line, <<Pushing(c)>> \o line}
    /\ Pushed(c, FALSE)
    /\ UNCHANGED <<answers, hands>>

\* Redis closes the connection of the command under way, LPUSH or GET, without an
\* answer: the caller waits for it for ever.
ClosedUnderCaller(c) ==
    /\ callers[c].pc \in {"push", "poll"}
    /\ PyFault
    /\ line' \in {line} \cup (IF callers[c].pc = "push" THEN {<<Pushing(c)>> \o line} ELSE {})
    /\ callers' = [callers EXCEPT ![c] = [Away EXCEPT !.pc = "stuck"]]
    /\ UNCHANGED <<answers, hands>>

\* One round of the loop finds an answer: one in a single chunk, for what is cut
\* short does not parse and is read again.
Read(c, i) ==
    LET caller == callers[c]
        answer == answers[caller.jobs[i]]
    IN  /\ caller.pc = "poll"
        /\ caller.got[i] = "none"
        /\ ~caller.late
        /\ answer # "none"
        /\ callers' = [callers EXCEPT ![c].got[i] = answer]
        /\ UNCHANGED <<line, answers, hands, py>>

\* Date.now() reaches the deadline.
DeadlinePasses(c) ==
    /\ callers[c].pc = "poll"
    /\ ~callers[c].late
    /\ callers' = [callers EXCEPT ![c].late = TRUE]
    /\ UNCHANGED <<line, answers, hands, py>>

\* The mistake of a loop that waits for its answer however long it takes.
AnsweredOnly(caller) ==
    \A i \in DOMAIN caller.got : caller.got[i] # "none"

\* Every answer is read, or the deadline has passed.
Over(caller) ==
    \/ \A i \in DOMAIN caller.got : caller.got[i] # "none"
    \/ caller.late

\* "Completed" needs a good answer to every job; anything less is the fallback.
Answered(c) ==
    /\ callers[c].pc = "poll"
    /\ Over(callers[c])
    /\ py' = [py EXCEPT !.told = IF \A i \in DOMAIN callers[c].got : callers[c].got[i] = "ok"
                                 THEN @ \cup Range(callers[c].jobs) ELSE @]
    /\ callers' = [callers EXCEPT ![c] = Away]
    /\ UNCHANGED <<line, answers, hands>>

\* BLPOP.
Take(h) ==
    /\ hands[h] = 0
    /\ line # <<>>
    /\ hands' = [hands EXCEPT ![h] = Head(line)]
    /\ line' = Tail(line)
    /\ py' = [py EXCEPT !.run[Head(line)] = @ + 1]
    /\ UNCHANGED <<answers, callers>>

\* handle(), whose tool works or raises, and SET with an expiry.
Post(h, ok) ==
    /\ hands[h] # 0
    /\ answers' = [answers EXCEPT ![hands[h]] = IF ok THEN "ok" ELSE "failed"]
    /\ py' = [py EXCEPT !.good = IF ok THEN @ \cup {hands[h]} ELSE @]
    /\ hands' = [hands EXCEPT ![h] = 0]
    /\ UNCHANGED <<line, callers>>

\* The SET fails, or the worker ends: the job is gone, and its answer with it.
JobLost(h) ==
    /\ hands[h] # 0
    /\ PyFault
    /\ hands' = [hands EXCEPT ![h] = 0]
    /\ UNCHANGED <<line, answers, callers>>

\* The API ends: the callers go, their jobs stay in the line.
PyRestart ==
    /\ PyFault
    /\ callers' = [c \in Callers |-> Away]
    /\ UNCHANGED <<line, answers, hands>>

PyNext ==
    \/ \E c \in Callers :
           \/ \E tools \in Requests : Call(c, tools)
           \/ Push(c) \/ PushFails(c) \/ ClosedUnderCaller(c) \/ DeadlinePasses(c) \/ Answered(c)
           \/ \E i \in 1..2 : i \in DOMAIN callers[c].jobs /\ Read(c, i)
    \/ \E h \in Hands :
           \/ Take(h) \/ JobLost(h)
           \/ \E ok \in BOOLEAN : Post(h, ok)
    \/ PyRestart

PySpec == PyInit /\ [][PyNext]_pyVars

-----------------------------------------------------------------------------

\* A caller told that the workers did it has, for each of its own jobs, a good
\* answer a worker posted; and a job is run once at most, however many workers
\* pop, fail and end, and whether or not its push was heard of.
AnswersHonest ==
    /\ py.told \subseteq py.good
    /\ \A j \in 1..MaxJobs : py.run[j] <= 1

\* Every request that waits for a worker ends, though workers end, answers are
\* lost and Redis fails: commands time out and loops have deadlines.  Only one whose
\* connection Redis closed in an orderly way waits for ever.
CallersEnd ==
    \A c \in Callers : []<>(callers[c] = Away \/ callers[c].pc = "stuck")
=================================================================================
