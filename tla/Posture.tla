---------------------------------- MODULE Posture ----------------------------------
(***************************************************************************)
(* The security sweep: security/security-audit.service.ts (the probes, the *)
(* history of reports, what regressed), security-scheduler.service.ts      *)
(* (runNow: the timer's and the owner's scans), security-guardian.agent.ts *)
(* (a scan by the fleet's guardian) and common/alert-relay.service.ts (the *)
(* webhook that carries a fire to the office).                             *)
(*                                                                         *)
(* A scan probes the checks one after the other, reads the history, writes *)
(* it back with its report more, and then tells.  Two scans may overlap:   *)
(* the second to write loses the first one's report.  That there was a     *)
(* scan before is remembered by the process only.  A report is the         *)
(* statuses of its checks; its score and its wording are left out.         *)
(***************************************************************************)
EXTENDS Naturals, SequencesExt

CONSTANTS Checks,           \* the matrix, in its order
          Critical,         \* the checks whose severity is critical
          Scans,            \* scans that may overlap
          MaxReports,       \* MAX_REPORTS
          MaxScans,         \* bound: scans
          MaxSlips,         \* bound: changes of what the probes find
          MaxPostureFaults  \* bound: puts and webhooks that fail, and crashes

ASSUME PostureAssumption ==
    /\ Critical \subseteq Range(Checks)
    /\ {MaxReports, MaxScans, MaxSlips, MaxPostureFaults} \subseteq Nat
    /\ MaxReports > 0

VARIABLES sound,            \* the checks whose probe would find them in order
          scannedBefore,    \* lastRunAt is set
          reports,          \* the stored history
          scans,            \* the scans under way
          posture           \* ghosts and bounds

postureVars == <<sound, scannedBefore, reports, scans, posture>>

NoScan == [pc |-> "idle", id |-> 0, source |-> "owner", results |-> <<>>, history |-> <<>>]

PostureInit ==
    /\ sound = Range(Checks)
    /\ scannedBefore = FALSE
    /\ reports = <<>>
    /\ scans = [s \in Scans |-> NoScan]
    /\ posture = [scans |-> 0, slips |-> 0, faults |-> 0, fires |-> {}, cut |-> {}, rang |-> {}]

PostureFault ==
    posture.faults < MaxPostureFaults

\* The deployment gets better or worse.
Slips(check) ==
    /\ posture.slips < MaxSlips
    /\ posture' = [posture EXCEPT !.slips = @ + 1]
    /\ sound' = IF check \in sound THEN sound \ {check} ELSE sound \cup {check}
    /\ UNCHANGED <<scannedBefore, reports, scans>>

\* The timer, the owner, or a task dispatched to the guardian.
Scan(s, source) ==
    /\ scans[s] = NoScan
    /\ posture.scans < MaxScans
    /\ posture' = [posture EXCEPT !.scans = @ + 1]
    /\ scans' = [scans EXCEPT ![s] = [NoScan EXCEPT !.pc = "probe", !.id = posture.scans + 1,
                                                    !.source = source]]
    /\ UNCHANGED <<sound, scannedBefore, reports>>

\* verdict(); whether the last scan is recent is asked of memory.
Verdict(check) ==
    IF check = "standards.freshness" THEN (IF scannedBefore THEN "pass" ELSE "warn")
    ELSE IF check \in sound THEN "pass"
    ELSE IF check \in Critical THEN "fail"
    ELSE "warn"

Probe(s) ==
    LET scan == scans[s] IN
    /\ scan.pc = "probe"
    /\ scans' = [scans EXCEPT ![s] =
           IF Len(scan.results) < Len(Checks)
           THEN [scan EXCEPT !.results = Append(@, Verdict(Checks[Len(@) + 1]))]
           ELSE [scan EXCEPT !.pc = "write", !.history = reports]]
    /\ UNCHANGED <<sound, scannedBefore, reports, posture>>

\* What the newest stored report says.
LastReport(history) ==
    IF history # <<>> THEN Last(history).results ELSE <<>>

Regressed(old, new) ==
    {i \in DOMAIN new : i \in DOMAIN old /\ old[i] = "pass" /\ new[i] # "pass"}

\* The put lands: the history that was read, and this report.
Written(s) ==
    LET scan == scans[s]
        report == [id |-> scan.id, source |-> scan.source, results |-> scan.results]
        all == Append(scan.history, report)
    IN  /\ scan.pc = "write"
        /\ reports' = SubSeq(all, IF Len(all) > MaxReports THEN 2 ELSE 1, Len(all))
        /\ scannedBefore' = TRUE
        /\ scans' = [scans EXCEPT ![s].pc = "tell"]
        /\ UNCHANGED <<sound, posture>>

WriteRefused(s) ==
    /\ scans[s].pc = "write"
    /\ PostureFault
    /\ posture' = [posture EXCEPT !.faults = @ + 1]
    /\ scans' = [scans EXCEPT ![s] = NoScan]
    /\ UNCHANGED <<sound, scannedBefore, reports>>

\* The mistake of calling a failure a fire, and a regression none.
FailuresOnly(scan) ==
    scan.source # "guardian" /\ "fail" \in Range(scan.results)

\* runNow() calls a regression or a failure a fire; the guardian tells the bus
\* that there was a scan, and its caller what it found.
Fire(scan) ==
    /\ scan.source # "guardian"
    /\ \/ Regressed(LastReport(scan.history), scan.results) # {}
       \/ "fail" \in Range(scan.results)

\* The events are emitted; the relay has one shot at the webhook for a fire.
Tells(s, answered) ==
    /\ scans[s].pc = "tell"
    /\ ~answered => PostureFault /\ Fire(scans[s])
    /\ scans' = [scans EXCEPT ![s] = NoScan]
    /\ posture' = [posture EXCEPT
           !.faults = IF answered THEN @ ELSE @ + 1,
           !.fires = IF Fire(scans[s]) THEN @ \cup {scans[s].id} ELSE @,
           !.rang = IF Fire(scans[s]) /\ answered THEN @ \cup {scans[s].id} ELSE @]
    /\ UNCHANGED <<sound, scannedBefore, reports>>

\* A restart; a ghost keeps which stored reports had not been told of.
PostureRestart ==
    /\ PostureFault
    /\ posture' = [posture EXCEPT !.faults = @ + 1,
           !.cut = @ \cup {scans[s].id : s \in {t \in Scans : scans[t].pc = "tell"}}]
    /\ scannedBefore' = FALSE
    /\ scans' = [s \in Scans |-> NoScan]
    /\ UNCHANGED <<sound, reports>>

PostureNext ==
    \/ \E check \in Range(Checks) \ {"standards.freshness"} : Slips(check)
    \/ \E s \in Scans :
           \/ \E source \in {"owner", "guardian"} : Scan(s, source)
           \/ Probe(s) \/ Written(s) \/ WriteRefused(s)
           \/ \E answered \in BOOLEAN : Tells(s, answered)
    \/ PostureRestart

PostureSpec == PostureInit /\ [][PostureNext]_postureVars

-----------------------------------------------------------------------------

\* The report at i of the history has been told of, or is about to be, or the
\* process ended before it could.
ToldOf(i) ==
    \/ reports[i].id \in posture.fires \cup posture.cut
    \/ \E s \in Scans : scans[s].id = reports[i].id /\ scans[s].pc = "tell"

\* Whether the report at i is worse somewhere than the one before it.
Worse(i) ==
    i > 1 /\ Regressed(reports[i - 1].results, reports[i].results) # {}

\* Of any two reports that follow each other in the stored history, the second
\* one being the timer's or the owner's, no check is worse in the second
\* without a fire: with scans overlapping, reports lost and restarts.
FiresAreTold ==
    \A i \in DOMAIN reports : Worse(i) /\ reports[i].source = "owner" => ToldOf(i)

\* "A REGRESSION or a FAIL is a fire, not a heartbeat ... so a degradation can't
\* die silently in the bus": the same, whoever scanned.
NoSilentDegradation ==
    \A i \in DOMAIN reports : Worse(i) => ToldOf(i)
=================================================================================
