---------------------------------- MODULE Mailer ----------------------------------
(***************************************************************************)
(* Sending a message over SMTP: providers/email/smtp-email.adapter.ts.     *)
(* One message a connection: the server greets, then each command waits    *)
(* for its reply, one expected code each.  Replies come in the order of    *)
(* the commands (a reply of several lines counts as one).                  *)
(*                                                                         *)
(* The timeout and the first error listener belong to the opening of the   *)
(* connection.  Once the greeting is there they reject a promise that is   *)
(* settled: a server that falls silent later on leaves the command, and    *)
(* with it sendMail(), waiting for good; and so does one that closes the   *)
(* connection in an orderly way, at any time.                              *)
(***************************************************************************)
EXTENDS Naturals, SequencesExt

CONSTANTS Mails,            \* the calls of sendMail
          Dialogues         \* the commands each configuration sends

\* Every dialogue opens and ends the same way, and has one message.
ASSUME MailerAssumption ==
    \A d \in Dialogues :
        /\ d \in Seq(STRING) /\ Len(d) > 3
        /\ d[1] = "greeting"
        /\ d[Len(d) - 2] = "DATA" /\ d[Len(d) - 1] = "body" /\ d[Len(d)] = "QUIT"
        /\ \A i \in 1..(Len(d) - 2) : d[i] \notin {"body", "QUIT"}

VARIABLES mails,            \* the calls: where each one is, and what it returned
          delivered         \* the messages the server took on (its own state)

mailVars == <<mails, delivered>>

NoMail == [pc |-> "idle", left |-> <<>>, result |-> "none"]

MailerInit ==
    /\ mails = [m \in Mails |-> NoMail]
    /\ delivered = {}

\* sendMail(): connect, and wait for the greeting.
SendMail(m, dialogue) ==
    /\ mails[m].pc = "idle"
    /\ mails' = [mails EXCEPT ![m] = [pc |-> "waiting", left |-> dialogue, result |-> "none"]]
    /\ UNCHANGED delivered

Returns(m, result) ==
    mails' = [mails EXCEPT ![m] = [@ EXCEPT !.pc = "over", !.result = result]]

\* The mistake of taking the message as sent once the server asks for its body.
HandedOver(m) ==
    IF Head(mails[m].left) = "DATA" THEN Returns(m, "success")
    ELSE mails' = [mails EXCEPT ![m].left = Tail(@)]

\* The code that was expected: the next command; after QUIT there is none.
Expected(m) ==
    IF Tail(mails[m].left) = <<>> THEN Returns(m, "success")
    ELSE mails' = [mails EXCEPT ![m].left = Tail(@)]

\* Any other code: a typed error, except after the message: QUIT is courtesy.
Unexpected(m) ==
    Returns(m, IF Head(mails[m].left) = "QUIT" THEN "success" ELSE "refused")

\* The server replies.  When it acknowledges the body the message is its own.
Replies(m) ==
    /\ mails[m].pc = "waiting"
    /\ \/ /\ Expected(m)
          /\ delivered' = IF Head(mails[m].left) = "body" THEN delivered \cup {m} ELSE delivered
       \/ /\ Unexpected(m)
          /\ UNCHANGED delivered

\* The socket reports an error; the message may be the server's already.  The
\* error of a QUIT is swallowed.
SocketError(m) ==
    /\ mails[m].pc = "waiting"
    /\ Returns(m, IF Head(mails[m].left) = "QUIT" THEN "success" ELSE "not sent")
    /\ \/ UNCHANGED delivered
       \/ Head(mails[m].left) = "body" /\ delivered' = delivered \cup {m}

\* The timeout: an answer before the greeting, afterwards the end of the socket only.
TimesOut(m) ==
    /\ mails[m].pc = "waiting"
    /\ IF Head(mails[m].left) = "greeting" THEN Returns(m, "not sent")
       ELSE mails' = [mails EXCEPT ![m].pc = "hung"]
    /\ UNCHANGED delivered

\* The server closes, or the upgraded socket falls silent: nobody hears of it.
EndsQuietly(m) ==
    /\ mails[m].pc = "waiting"
    /\ mails' = [mails EXCEPT ![m].pc = "hung"]
    /\ \/ UNCHANGED delivered
       \/ Head(mails[m].left) = "body" /\ delivered' = delivered \cup {m}

MailerNext ==
    \E m \in Mails :
        \/ \E dialogue \in Dialogues : SendMail(m, dialogue)
        \/ Replies(m)
        \/ SocketError(m) \/ TimesOut(m) \/ EndsQuietly(m)

MailerSpec ==
    MailerInit /\ [][MailerNext]_mailVars

-----------------------------------------------------------------------------

\* "A rejected relay NEVER reports success": success is returned for a message
\* the server acknowledged, and a typed refusal for one it did not take on.
\* (Of one that ends in an error or in silence neither can be said.)
SuccessMeansAccepted ==
    \A m \in Mails :
        /\ mails[m].result = "success" => m \in delivered
        /\ mails[m].result = "refused" => m \notin delivered
=================================================================================
