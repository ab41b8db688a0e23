---------------------------------- MODULE Inbox ----------------------------------
(***************************************************************************)
(* What a client is told: notifications/notification.service.ts, and the   *)
(* lawyer's own call panel (comms-settings.service.ts), one client's       *)
(* messages.  The waiting line (ConsultationQueue) and the purchases call  *)
(* these operations and do not wait for them.                              *)
(*                                                                         *)
(* The messages and the panel are two stored documents.  list() and        *)
(* markRead() read the inbox first if this boot has not; push() does not:  *)
(* it adds to what memory holds and writes that.  Likewise upNext() takes  *)
(* the panel from memory, loaded or not.  A message sent by SMS is written *)
(* a second time, in the object the push still holds: a read of the inbox  *)
(* in between leaves that object outside memory.                           *)
(***************************************************************************)
EXTENDS LazyStore

CONSTANTS Pushes,           \* messages that may be on their way
          Cap,              \* CAP
          MaxMessages,      \* bound: messages
          MaxMarks,         \* bound: markRead and setCallPanel
          MaxInboxFaults    \* bound: puts that fail and crashes

ASSUME InboxAssumption ==
    /\ {Cap, MaxMessages, MaxMarks, MaxInboxFaults} \subseteq Nat
    /\ Cap > 0

VARIABLES inbox,            \* the client's messages, a store
          panel,            \* whether the call panel is wired, a store
          pushes,           \* the messages on their way
          desk              \* ghosts and bounds

inboxVars == <<inbox, panel, pushes, desk>>

NoPush == [pc |-> "idle", id |-> 0, boot |-> 0, call |-> FALSE, phone |-> FALSE]

InboxInit ==
    /\ inbox = NewStore(<<>>)
    /\ panel = NewStore(FALSE)
    /\ pushes = [p \in Pushes |-> NoPush]
    /\ desk = [messages |-> 0, marks |-> 0, faults |-> 0, reads |-> 0, dialled |-> {}, sent |-> {}]

InboxFault ==
    /\ desk.faults < MaxInboxFaults
    /\ desk' = [desk EXCEPT !.faults = @ + 1]

Capped(messages) ==
    SubSeq(messages, IF Len(messages) > Cap THEN Len(messages) - Cap + 1 ELSE 1, Len(messages))

\* push(), up to its first put.
MessagePushed(p, id, call, phone) ==
    LET message == [id |-> id, read |-> FALSE, sms |-> FALSE, call |-> call] IN
    /\ inbox' = Save(inbox, Capped(Append(inbox.mem, message)), p)
    /\ pushes' = [pushes EXCEPT ![p] =
                     [pc |-> "put", id |-> id, boot |-> desk.reads, call |-> call, phone |-> phone]]

\* queuePosition, almostThere, pushPayment: a message, with an SMS if there is a phone.
Tell(p, phone) ==
    /\ pushes[p] = NoPush
    /\ desk.messages < MaxMessages
    /\ desk' = [desk EXCEPT !.messages = @ + 1]
    /\ MessagePushed(p, desk.messages + 1, FALSE, phone)
    /\ UNCHANGED panel

\* upNext(): with a panel in memory the client is dialled first.
UpNext(p) ==
    /\ pushes[p] = NoPush
    /\ desk.messages < MaxMessages
    /\ desk' = [desk EXCEPT !.messages = @ + 1]
    /\ IF panel.mem
       THEN /\ pushes' = [pushes EXCEPT ![p] = [NoPush EXCEPT !.pc = "dial", !.id = desk.messages + 1]]
            /\ UNCHANGED inbox
       ELSE MessagePushed(p, desk.messages + 1, FALSE, TRUE)
    /\ UNCHANGED panel

\* res.ok: the panel took the call.
CallPlaced(answered) ==
    answered

Dialled(p, answered) ==
    /\ pushes[p].pc = "dial"
    /\ desk' = IF answered THEN [desk EXCEPT !.dialled = @ \cup {pushes[p].id}] ELSE desk
    /\ MessagePushed(p, pushes[p].id, CallPlaced(answered), TRUE)
    /\ UNCHANGED panel

\* The put has landed: the SMS, if there is one to send.
InboxSettles(p) ==
    /\ pushes[p].pc = "put"
    /\ p \in inbox.acked
    /\ inbox' = [inbox EXCEPT !.acked = @ \ {p}]
    /\ pushes' = [pushes EXCEPT ![p] = IF @.phone THEN [@ EXCEPT !.pc = "sms"] ELSE NoPush]
    /\ UNCHANGED <<panel, desk>>

\* The message the push holds is marked as sent, and the inbox is written again.
Sent(p, ok) ==
    LET id == pushes[p].id
        held == pushes[p].boot = desk.reads
    IN  /\ pushes[p].pc = "sms"
        /\ desk' = IF ok THEN [desk EXCEPT !.sent = @ \cup {id}] ELSE desk
        /\ inbox' = Save(inbox, [i \in DOMAIN inbox.mem |->
                                    IF held /\ inbox.mem[i].id = id
                                    THEN [inbox.mem[i] EXCEPT !.sms = ok] ELSE inbox.mem[i]], p)
        /\ pushes' = [pushes EXCEPT ![p] = [@ EXCEPT !.pc = "put", !.phone = FALSE]]
        /\ UNCHANGED panel

\* The gateway throws, or the put has failed.
PushEnds(p) ==
    /\ \/ pushes[p].pc = "sms"
       \/ pushes[p].pc = "put" /\ p \notin inbox.acked /\ ~Waiting(inbox, p)
    /\ pushes' = [pushes EXCEPT ![p] = NoPush]
    /\ UNCHANGED <<inbox, panel, desk>>

\* list(): the first one of a boot reads what is stored.
List ==
    /\ ~inbox.loaded
    /\ inbox' = Load(inbox)
    /\ desk' = [desk EXCEPT !.reads = @ + 1]
    /\ UNCHANGED <<panel, pushes>>

\* markRead(), every message the client has.
MarkRead ==
    /\ desk.marks < MaxMarks
    /\ LET read == IF inbox.loaded THEN inbox ELSE Load(inbox) IN
       inbox' = Save(read, [i \in DOMAIN read.mem |-> [read.mem[i] EXCEPT !.read = TRUE]], "reader")
    /\ desk' = [desk EXCEPT !.marks = @ + 1, !.reads = IF inbox.loaded THEN @ ELSE @ + 1]
    /\ UNCHANGED <<panel, pushes>>

\* view(): the first one of a boot reads the panel.
ViewPanel ==
    /\ ~panel.loaded
    /\ panel' = Load(panel)
    /\ UNCHANGED <<inbox, pushes, desk>>

\* setCallPanel().
WirePanel ==
    /\ desk.marks < MaxMarks
    /\ desk' = [desk EXCEPT !.marks = @ + 1]
    /\ panel' = Save(IF panel.loaded THEN panel ELSE Load(panel), TRUE, "owner")
    /\ UNCHANGED <<inbox, pushes>>

InboxPutLands ==
    /\ \/ inbox' \in Landings(inbox, TRUE) /\ UNCHANGED panel
       \/ panel' \in Landings(panel, TRUE) /\ UNCHANGED inbox
    /\ UNCHANGED <<pushes, desk>>

InboxPutFails ==
    /\ InboxFault
    /\ \/ inbox' \in Refusals(inbox, TRUE) /\ UNCHANGED panel
       \/ panel' \in Refusals(panel, TRUE) /\ UNCHANGED inbox
    /\ UNCHANGED pushes

InboxRestart ==
    /\ desk.faults < MaxInboxFaults
    /\ desk' = [desk EXCEPT !.faults = @ + 1, !.reads = 0]
    /\ inbox' = [Crash(inbox, <<>>) EXCEPT !.acked = {}]
    /\ panel' = [Crash(panel, FALSE) EXCEPT !.acked = {}]
    /\ pushes' = [p \in Pushes |-> NoPush]

InboxNext ==
    \/ \E p \in Pushes :
           \/ \E phone \in BOOLEAN : Tell(p, phone)
           \/ UpNext(p)
           \/ \E ok \in BOOLEAN : Dialled(p, ok) \/ Sent(p, ok)
           \/ InboxSettles(p) \/ PushEnds(p)
    \/ List \/ MarkRead \/ ViewPanel \/ WirePanel
    \/ InboxPutLands \/ InboxPutFails
    \/ InboxRestart

InboxSpec == InboxInit /\ [][InboxNext]_inboxVars

-----------------------------------------------------------------------------

\* The inbox "never PRETENDS the phone rang": a message that speaks of a call
\* was dialled, one marked as sent was sent, in memory and in the store, with
\* pushes overlapping reads and restarts; and no inbox outgrows its cap.
NeverPretends ==
    \A doc \in {inbox.mem, inbox.disk} :
        /\ Len(doc) <= Cap
        /\ \A i \in DOMAIN doc :
               /\ doc[i].call => doc[i].id \in desk.dialled
               /\ doc[i].sms => doc[i].id \in desk.sent
=================================================================================
