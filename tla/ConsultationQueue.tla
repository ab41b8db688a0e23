-------------------------- MODULE ConsultationQueue --------------------------
(***************************************************************************)
(* ConsultationQueueService over BillingService, in one API process.  The  *)
(* line of tickets lives in memory; it is loaded lazily by the first       *)
(* requests after a boot and written back whole by every operation.        *)
(*                                                                         *)
(* How requests interleave depends on the storage driver.  Over Postgres   *)
(* ("pg") each get and put is a round trip on one of four connections:     *)
(* others run meanwhile, and snapshots land in any order.  The local       *)
(* driver reads and writes files synchronously, so that a request, once it *)
(* has passed the guard's session check, runs to its end, or to the        *)
(* wallet's await, before another comes in; but a write that is cut short  *)
(* leaves a torn file, which the next boot reads as an empty one.          *)
(*                                                                         *)
(* persist() writes tickets and telecoms under two keys; here they travel  *)
(* as one snapshot, no property relates the two.                           *)
(***************************************************************************)
EXTENDS Billing, SequencesExt

CONSTANTS
  Requests,
  MaxTickets,     \* bound: tickets ever issued
  Switches,       \* bound: the switches the lawyer moves, as <<operation, position>>
  Driver,         \* STORAGE_DRIVER: "local", the default, or "pg"
  Failures,       \* what may fail: a subset of {"get", "put", "refund", "process"}
  MaxFaults       \* bound: failures altogether

ASSUME RequestsAreFinite == IsFiniteSet(Requests)
ASSUME MaxTicketsIsNat == MaxTickets \in Nat
ASSUME KnownSwitches == Switches \subseteq {"setOnline", "setQueueOpen"} \X BOOLEAN
ASSUME KnownDriver == Driver \in {"local", "pg"}
ASSUME KnownFailures == Failures \subseteq {"get", "put", "refund", "process"}
ASSUME MaxFaultsIsNat == MaxFaults \in Nat

VARIABLES
  tickets,    \* the line: a sequence of tickets
  telecoms,   \* [online, open]
  loaded,
  stored,     \* the snapshot in storage
  reply,      \* what storage answered to each request's reads
  puts,       \* snapshots on their way, in the order they were sent
  unsent,     \* history: memory was changed, or a read or write failed or came late, with
              \* no snapshot sent since
  faults,     \* failures so far
  issued,     \* tickets issued so far; a ticket's id is its number
  pc,
  req

memoryVars == <<tickets, telecoms, loaded>>
storageVars == <<stored, reply, puts, unsent, faults>>
controlVars == <<pc, req>>
vars == <<memoryVars, storageVars, issued, controlVars, billingVars>>

Statuses == {"waiting", "up_next", "in_call", "done", "no_show", "cancelled"}
Over == {"done", "no_show", "cancelled"}
InService == {"up_next", "in_call"}
Boot == [online |-> FALSE, open |-> TRUE]
Nothing == [tickets |-> <<>>, telecoms |-> Boot]
NoRequest == [op |-> "none"]

Ids(line) == {line[i].id : i \in DOMAIN line}
At(line, t) == CHOOSE i \in DOMAIN line : line[i].id = t
Ticket(t) == tickets[At(tickets, t)]
WithStatus(S) == {i \in DOMAIN tickets : tickets[i].status \in S}
First(S) == CHOOSE i \in S : \A j \in S : i <= j
SetStatus(i, status) == [tickets EXCEPT ![i].status = status]

Init ==
  /\ BillingInit
  /\ tickets = <<>> /\ telecoms = Boot /\ loaded = FALSE
  /\ stored = Nothing /\ reply = [r \in Requests |-> Nothing]
  /\ puts = <<>> /\ unsent = FALSE /\ faults = 0 /\ issued = 0
  /\ pc = [r \in Requests |-> "idle"]
  /\ req = [r \in Requests |-> NoRequest]

-----------------------------------------------------------------------------
(* Requests arriving.                                                      *)

Active == {r \in Requests : pc[r] # "idle"}
Loading == {r \in Requests : pc[r] \in {"load", "fill", "load2", "fill2"}}

\* Every operation of the queue begins with ensureLoaded().
Call(r, q) ==
  /\ pc[r] = "idle"
  /\ pc' = [pc EXCEPT ![r] = IF loaded THEN "act" ELSE "load"]
  /\ req' = [req EXCEPT ![r] = q]
  /\ UNCHANGED <<memoryVars, storageVars, issued, billingVars>>

Asking(op) == {r \in Active : req[r].op = op}

LawyerCalls(r) ==
  \/ \E s \in Switches : Call(r, [op |-> s[1], to |-> s[2]])
  \/ Call(r, [op |-> "next"])
  \/ \E t \in 1 .. issued, op \in {"skip", "startCall", "done", "no_show"} :
       Call(r, [op |-> op, ticket |-> t])

\* The controller answers a join before it is done: a client asks when it likes.
ClientCalls(r) ==
  \E u \in Users :
    \/ /\ issued + Cardinality(Asking("join") \cap Loading) < MaxTickets
       /\ \E p \in Live : Call(r, [op |-> "join", user |-> u, purchase |-> p])
    \/ \E t \in 1 .. issued : Call(r, [op |-> "cancel", user |-> u, ticket |-> t])

\* position(), waiting(), list() and the like change nothing, but load what is not
\* loaded: a join's own controller asks for the position without waiting for it.
Look(r) == ~loaded /\ Call(r, [op |-> "look"])

\* buyConsultation does not touch the queue.
Buy(r) ==
  /\ pc[r] = "idle"
  /\ Cardinality(New) > Cardinality(Asking("buy"))
  /\ \E u \in Users, via \in PayMethods :
       /\ req' = [req EXCEPT ![r] = [op |-> "buy", user |-> u, via |-> via]]
       /\ pc' = [pc EXCEPT ![r] = IF via = "wallet" THEN "debit" ELSE "record"]
  /\ UNCHANGED <<memoryVars, storageVars, issued, billingVars>>

-----------------------------------------------------------------------------
(* Between two awaits.                                                     *)

Goto(r, step) == pc' = [pc EXCEPT ![r] = step] /\ UNCHANGED req
End(r) == pc' = [pc EXCEPT ![r] = "idle"] /\ req' = [req EXCEPT ![r] = NoRequest]
Fault(what) == what \in Failures /\ faults < MaxFaults /\ faults' = faults + 1
Refuse(r) == End(r) /\ UNCHANGED <<memoryVars, storageVars, issued, billingVars>>

\* Variant: what is sent is the memory as it was before this step.
PersistBefore(r, step) ==
  /\ puts' = Append(puts, [by |-> r, tickets |-> tickets, telecoms |-> telecoms])
  /\ unsent' = FALSE
  /\ Goto(r, step)
  /\ UNCHANGED <<loaded, stored, reply, faults>>

\* persist(): the memory as this step leaves it is sent off, and r waits.
Persist(r, step) ==
  /\ puts' = Append(puts, [by |-> r, tickets |-> tickets', telecoms |-> telecoms'])
  /\ unsent' = FALSE
  /\ Goto(r, step)
  /\ UNCHANGED <<loaded, stored, reply, faults>>

\* The two reads of ensureLoaded(), each answered before it is taken.  A read of the
\* line that fails counts as an empty line, and one of the telecoms as no change.
ReadTickets(r) ==
  /\ pc[r] = "load"
  /\ \/ reply' = [reply EXCEPT ![r].tickets = stored.tickets] /\ UNCHANGED <<unsent, faults>>
     \/ reply' = [reply EXCEPT ![r].tickets = <<>>] /\ unsent' = TRUE /\ Fault("get")
  /\ Goto(r, "fill")
  /\ UNCHANGED <<memoryVars, stored, puts, issued, billingVars>>

TakeTickets(r) ==
  /\ pc[r] = "fill"
  /\ tickets' = reply[r].tickets
  /\ reply' = [reply EXCEPT ![r].tickets = <<>>]
  /\ unsent' = (unsent \/ loaded)
  /\ Goto(r, "load2")
  /\ UNCHANGED <<telecoms, loaded, stored, puts, faults, issued, billingVars>>

ReadTelecoms(r) ==
  /\ pc[r] = "load2"
  /\ reply' = [reply EXCEPT ![r].telecoms = stored.telecoms]
  /\ Goto(r, "fill2")
  /\ UNCHANGED <<memoryVars, stored, puts, unsent, faults, issued, billingVars>>

TakeTelecoms(r) ==
  /\ pc[r] = "fill2"
  /\ telecoms' = reply[r].telecoms
  /\ reply' = [reply EXCEPT ![r].telecoms = Boot]
  /\ unsent' = (unsent \/ loaded)
  /\ loaded' = TRUE
  /\ Goto(r, "act")
  /\ UNCHANGED <<tickets, stored, puts, faults, issued, billingVars>>

MissTelecoms(r) ==
  /\ pc[r] = "load2"
  /\ Fault("get") /\ unsent' = TRUE
  /\ loaded' = TRUE
  /\ Goto(r, "act")
  /\ UNCHANGED <<tickets, telecoms, stored, reply, puts, issued, billingVars>>

Acting(r, op) == pc[r] = "act" /\ req[r].op = op

Looked(r) == Acting(r, "look") /\ Refuse(r)

SetOnline(r) ==
  /\ Acting(r, "setOnline")
  /\ telecoms' = [telecoms EXCEPT !.online = req[r].to]
  /\ UNCHANGED <<tickets, issued, billingVars>>
  /\ Persist(r, "put")

SetQueueOpen(r) ==
  /\ Acting(r, "setQueueOpen")
  /\ telecoms' = [telecoms EXCEPT !.open = req[r].to]
  /\ UNCHANGED <<tickets, issued, billingVars>>
  /\ Persist(r, "put")

\* join(): the purchase is marked consumed only after the snapshot has landed.
Join(r) ==
  LET p == req[r].purchase
      u == req[r].user
  IN  /\ Acting(r, "join")
      /\ IF /\ telecoms.open /\ telecoms.online
            /\ p \in Live /\ purchases[p].user = u /\ ~purchases[p].consumed
         THEN /\ issued' = issued + 1
              /\ tickets' = Append(tickets, [id |-> issued + 1, user |-> u, purchase |-> p,
                                             status |-> "waiting"])
              /\ UNCHANGED <<telecoms, billingVars>>
              /\ Persist(r, "joined")
         ELSE Refuse(r)

Consume(r) ==
  /\ pc[r] = "consume"
  /\ MarkConsumed(req[r].purchase)
  /\ End(r)
  /\ UNCHANGED <<memoryVars, storageVars, issued>>

\* Variant: who is in service is not ended first.
PromoteOnly(r) ==
  /\ Acting(r, "next")
  /\ Goto(r, "promote")
  /\ UNCHANGED <<memoryVars, storageVars, issued, billingVars>>

\* next(): whoever is in service ends, and that is written, before another is
\* called up; where nobody is, the next one is called up at once.
EndCurrent(r) ==
  /\ Acting(r, "next")
  /\ WithStatus(InService) # {}
  /\ tickets' = SetStatus(First(WithStatus(InService)), "done")
  /\ UNCHANGED <<telecoms, issued, billingVars>>
  /\ Persist(r, "ended")

Promote(r) ==
  /\ pc[r] = "promote" \/ (Acting(r, "next") /\ WithStatus(InService) = {})
  /\ IF WithStatus({"waiting"}) = {}
     THEN Refuse(r)
     ELSE /\ tickets' = SetStatus(First(WithStatus({"waiting"})), "up_next")
          /\ UNCHANGED <<telecoms, issued, billingVars>>
          /\ Persist(r, "put")

\* skip(): to the end of the line.
Skip(r) ==
  LET t == req[r].ticket
  IN  /\ Acting(r, "skip")
      /\ IF t \in Ids(tickets) /\ Ticket(t).status \in {"waiting", "up_next"}
         THEN /\ tickets' = Append(RemoveAt(tickets, At(tickets, t)),
                                   [Ticket(t) EXCEPT !.status = "waiting"])
              /\ UNCHANGED <<telecoms, issued, billingVars>>
              /\ Persist(r, "put")
         ELSE Refuse(r)

StartCall(r) ==
  LET t == req[r].ticket
  IN  /\ Acting(r, "startCall")
      /\ IF t \in Ids(tickets) /\ Ticket(t).status = "up_next"
         THEN /\ tickets' = SetStatus(At(tickets, t), "in_call")
              /\ UNCHANGED <<telecoms, issued, billingVars>>
              /\ Persist(r, "put")
         ELSE Refuse(r)

\* Variant: a ticket that is over can be ended again.
EndTicketAnyStatus(r) ==
  LET t == req[r].ticket
  IN  /\ pc[r] = "act" /\ req[r].op \in {"done", "no_show"}
      /\ IF t \in Ids(tickets)
         THEN /\ tickets' = SetStatus(At(tickets, t), req[r].op)
              /\ UNCHANGED <<telecoms, issued, billingVars>>
              /\ Persist(r, "put")
         ELSE Refuse(r)

EndTicket(r) ==
  LET t == req[r].ticket
  IN  /\ pc[r] = "act" /\ req[r].op \in {"done", "no_show"}
      /\ IF t \in Ids(tickets) /\ Ticket(t).status \in InService
         THEN /\ tickets' = SetStatus(At(tickets, t), req[r].op)
              /\ UNCHANGED <<telecoms, issued, billingVars>>
              /\ Persist(r, "put")
         ELSE Refuse(r)

\* cancel(): the ticket is cancelled and the refund claimed at once; the
\* snapshot is sent after the wallet has paid.
Cancel(r) ==
  LET t == req[r].ticket
      p == Ticket(t).purchase
  IN  /\ Acting(r, "cancel")
      /\ IF t \in Ids(tickets) /\ Ticket(t).user = req[r].user /\ Ticket(t).status = "waiting"
         THEN /\ tickets' = SetStatus(At(tickets, t), "cancelled")
              /\ UNCHANGED <<telecoms, issued>>
              /\ IF Refundable(p)
                 THEN /\ ClaimRefund(p)
                      /\ unsent' = TRUE
                      /\ pc' = [pc EXCEPT ![r] = "refund"]
                      /\ req' = [req EXCEPT ![r] = [op |-> "cancel", user |-> req[r].user, purchase |-> p]]
                      /\ UNCHANGED <<loaded, stored, reply, puts, faults>>
                 ELSE UNCHANGED billingVars /\ Persist(r, "put")
         ELSE Refuse(r)

Refund(r) ==
  /\ pc[r] = "refund"
  /\ PayRefund(req[r].purchase, req[r].user)
  /\ UNCHANGED <<tickets, telecoms, issued>>
  /\ Persist(r, "put")

\* The wallet refuses: cancel() throws before it persists.
RefundFails(r) ==
  /\ pc[r] = "refund"
  /\ Fault("refund")
  /\ End(r)
  /\ UNCHANGED <<memoryVars, stored, reply, puts, unsent, issued, billingVars>>

DebitWallet(r) ==
  /\ pc[r] = "debit"
  /\ IF CanPay(req[r].user)
     THEN Debit(req[r].user) /\ Goto(r, "record")
     ELSE End(r) /\ UNCHANGED billingVars
  /\ UNCHANGED <<memoryVars, storageVars, issued>>

RecordPurchase(r) ==
  /\ pc[r] = "record"
  /\ Record(CHOOSE p \in New : TRUE, req[r].user, req[r].via)
  /\ End(r)
  /\ UNCHANGED <<memoryVars, storageVars, issued>>

-----------------------------------------------------------------------------
(* Storage.                                                                *)

AfterPut(step) ==
  CASE step = "joined" -> "consume" [] step = "ended" -> "promote" [] OTHER -> "idle"

Land(i) ==
  LET r == puts[i].by
  IN  /\ stored' = [tickets |-> puts[i].tickets, telecoms |-> puts[i].telecoms]
      /\ puts' = RemoveAt(puts, i)
      /\ pc' = [pc EXCEPT ![r] = AfterPut(pc[r])]
      /\ req' = [req EXCEPT ![r] = IF AfterPut(pc[r]) = "idle" THEN NoRequest ELSE @]
      /\ UNCHANGED <<memoryVars, reply, unsent, faults, issued, billingVars>>

\* What may be found in storage when the puts of S were refused or cut short: under
\* each key what was there, or what was being written, or, in a file truncated before
\* it is written, what a torn file reads as.
Torn(value, S) == IF Driver = "local" /\ S # {} THEN {value} ELSE {}
Left(S) ==
  [tickets : {stored.tickets} \cup {puts[i].tickets : i \in S} \cup Torn(<<>>, S),
   telecoms : {stored.telecoms} \cup {puts[i].telecoms : i \in S} \cup Torn(Boot, S)]

\* A refused write: the operation throws where it stands.
PutFails(i) ==
  /\ Fault("put")
  /\ End(puts[i].by)
  /\ puts' = RemoveAt(puts, i)
  /\ stored' \in Left({i})
  /\ unsent' = (unsent \/ i = Len(puts))
  /\ UNCHANGED <<memoryVars, reply, issued, billingVars>>

\* The process dies: memory is gone, snapshots on their way may have landed.
Restart ==
  /\ Fault("process")
  /\ tickets' = <<>> /\ telecoms' = Boot /\ loaded' = FALSE
  /\ stored' \in Left(DOMAIN puts)
  /\ reply' = [r \in Requests |-> Nothing]
  /\ puts' = <<>> /\ unsent' = FALSE
  /\ pc' = [r \in Requests |-> "idle"]
  /\ req' = [r \in Requests |-> NoRequest]
  /\ ForgetPurchases
  /\ UNCHANGED issued

-----------------------------------------------------------------------------
Arrival(r) == LawyerCalls(r) \/ ClientCalls(r) \/ Look(r) \/ Buy(r)

Step(r) ==
  \/ ReadTickets(r) \/ TakeTickets(r)
  \/ ReadTelecoms(r) \/ TakeTelecoms(r) \/ MissTelecoms(r)
  \/ Looked(r) \/ SetOnline(r) \/ SetQueueOpen(r)
  \/ Join(r) \/ Consume(r)
  \/ EndCurrent(r) \/ Promote(r)
  \/ Skip(r) \/ StartCall(r) \/ EndTicket(r)
  \/ Cancel(r) \/ Refund(r)
  \/ DebitWallet(r) \/ RecordPurchase(r)

\* The steps no other request comes between: from ensureLoaded() to the next await
\* that waits for something, which over local files is the wallet's.
Turn ==
  IF Driver = "local"
  THEN {"load", "fill", "load2", "fill2", "act", "joined", "consume", "ended", "promote", "put"}
  ELSE {"act"}
Running == {r \in Requests : pc[r] \in Turn}

Next ==
  \/ \E r \in Requests : Running \subseteq {r} /\ Step(r)
  \/ \E r \in Requests : Running = {} /\ (Arrival(r) \/ RefundFails(r))
  \/ \E i \in DOMAIN puts : Running \subseteq {puts[i].by} /\ (Land(i) \/ PutFails(i))
  \/ Restart

Spec == Init /\ [][Next]_vars

-----------------------------------------------------------------------------
TicketType == [id : 1 .. MaxTickets, user : Users, purchase : Purchases, status : Statuses]

TypeOK ==
  /\ BillingTypeOK
  /\ tickets \in Seq(TicketType) /\ stored.tickets \in Seq(TicketType)
  /\ \A r \in Requests : reply[r].tickets \in Seq(TicketType)
  /\ {telecoms, stored.telecoms} \subseteq [online : BOOLEAN, open : BOOLEAN]
  /\ {loaded, unsent} \subseteq BOOLEAN
  /\ issued \in 0 .. MaxTickets /\ faults \in 0 .. MaxFaults
  /\ pc \in [Requests -> {"idle", "load", "fill", "load2", "fill2", "act", "joined", "consume", "ended", "promote",
                          "refund", "debit", "record", "put"}]

\* A refund gives back what was paid for a purchase, once: a wallet and the
\* purchases made from it that were not refunded never add up to more than the
\* wallet held, however joins, cancels, failures and restarts interleave.
NoMoneyFromNothing ==
  \A u \in Users :
    LET held == {p \in Live : purchases[p].user = u /\ purchases[p].via = "wallet" /\ settled[p] = 0}
    IN  balance[u] + Price * Cardinality(held) <= Funds

\* "Client cancels while still waiting -> wallet refund, no questions asked"
\* (queue.service.ts:245): once nobody is working on it, a cancelled ticket's
\* purchase has been refunded.
CancelRefunds ==
  \A i \in DOMAIN tickets :
    tickets[i].status = "cancelled" /\ (\A r \in Requests : pc[r] # "refund")
      => settled[tickets[i].purchase] > 0

\* "same purchase cannot re-join" (billing-queue.spec.ts:162): one purchase, one
\* place in the line.
OneTicketPerPurchase ==
  \A i, j \in DOMAIN tickets : tickets[i].purchase = tickets[j].purchase => i = j

\* "Call the next ticket — whoever is in_call ends done" (telecoms.controller.ts:98):
\* one client at most is in service.
OneInService == Cardinality(WithStatus(InService)) <= 1

\* "A reset does not lose the line either" (queue.service.ts:45, in Persian): once every
\* snapshot has landed the line in storage is the line in memory, unless a change, a
\* failure or a late answer parted them and nothing was sent since.
StoredCatchesUp ==
  loaded /\ puts = <<>> /\ ~unsent => stored = [tickets |-> tickets, telecoms |-> telecoms]

\* A ticket that was written as over never shows in storage as anything else: a torn
\* file may lose it, but no restart brings a client who was served, or whose
\* cancellation was written, back into the line.
StaysOver ==
  \A i \in DOMAIN stored.tickets, j \in DOMAIN stored'.tickets :
    stored'.tickets[j].id = stored.tickets[i].id /\ stored.tickets[i].status \in Over
      => stored'.tickets[j] = stored.tickets[i]

WhatIsOverStaysOver == [][StaysOver]_vars

\* A purchase is consumed by a place in the line (queue.service.ts:201-213): as long as
\* the process that marked it lives, the ticket it went into is there.
ConsumedHasATicket ==
  loaded => \A p \in Live : purchases[p].consumed =>
              \E i \in DOMAIN tickets : tickets[i].purchase = p
=============================================================================
