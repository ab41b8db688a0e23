---------------------------------- MODULE Resp ----------------------------------
(***************************************************************************)
(* Redis replies off a socket: RedisRespClient and RespSubscriber (api,    *)
(* providers/queue/redis-resp.client.ts) and their Python twin (workers,   *)
(* pylegal/resp_client.py).  TCP hands bytes over in chunks of any size.   *)
(* The subscriber parses what it has after every chunk; the client does so *)
(* for one reply, and takes a text for whole when its first line is there; *)
(* the worker's reads block until all they ask for is there, or the end.   *)
(*                                                                         *)
(* Of a byte its part in the framing is kept: a line is its type with its  *)
(* number, then cr and lf; a payload may hold any byte, cr and lf too.     *)
(* Before a command with a password the client writes AUTH on the same     *)
(* connection; the worker sends it on another one, and what follows is     *)
(* refused.                                                                *)
(***************************************************************************)
EXTENDS Integers, SequencesExt

CONSTANTS
    Payloads,       \* the texts Redis may send: sequences of bytes
    MaxPushes       \* bound: messages pushed to a subscriber

ASSUME RespAssumption == MaxPushes \in Nat

VARIABLES
    reader,         \* who reads: [kind: subscriber, client or worker; secured]
    socket          \* [sent, wire, got, chunks, heard, open]: replies sent, their
                    \* bytes under way and unread, chunks, what was made of them

respVars == <<reader, socket>>

Byte(type, n) == [type |-> type, n |-> n]
Letter == Byte("x", 0)
Eol == <<Byte("cr", 0), Byte("lf", 0)>>
Line(type, n) == <<Byte(type, n)>> \o Eol

\* Replies.  The first letter of a message says what it is.
Number(n) == [type |-> ":", n |-> n]
Text(bytes) == [type |-> "$", bytes |-> bytes]
Null == [type |-> "null"]
Okay == [type |-> "+"]
Refusal == [type |-> "-"]
ListOf(items) == [type |-> "*", items |-> items]
Pushed3(payload) == ListOf(<<Text(<<Letter>>), Text(<<Letter>>), Text(payload)>>)
Subscribed3 == ListOf(<<Text(<<Letter>>), Text(<<Letter>>), Number(1)>>)

ItemBytes(v) ==
    CASE v.type = "$" -> Line("$", Len(v.bytes)) \o v.bytes \o Eol
      [] v.type = ":" -> Line(":", v.n)
      [] v.type = "null" -> Line("$", -1)
      [] OTHER -> Line(v.type, 0)

ReplyBytes(v) ==
    IF v.type = "*"
    THEN Line("*", Len(v.items)) \o FlattenSeq([i \in DOMAIN v.items |-> ItemBytes(v.items[i])])
    ELSE ItemBytes(v)

-----------------------------------------------------------------------------

Incomplete == [state |-> "incomplete"]
Parsed(value, rest) == [state |-> "parsed", value |-> value, rest |-> rest]

\* indexOf('\r\n', 1), 0 if it is not there.
LineEnd(buf) ==
    LET ends == {i \in 2..(Len(buf) - 1) : buf[i].type = "cr" /\ buf[i + 1].type = "lf"}
    IN  IF ends = {} THEN 0 ELSE Min(ends)

Rest(buf, from) == SubSeq(buf, from, Len(buf))

\* Where a text of that length ends in what there is, by reader: the subscriber
\* wants it all, the client takes what it has, the worker, at the end of the
\* connection, drops two bytes of what it has for the line end.
Available(kind, buf, start, length) ==
    CASE kind = "client" -> Min({start + length - 1, Len(buf)})
      [] kind = "ended" -> Min({start + length - 1, Len(buf) - 2})
      [] OTHER -> IF Len(buf) < start + length + 1 THEN -1 ELSE start + length - 1

\* parseReply() of what is no list.
Item(kind, buf) ==
    LET start == LineEnd(buf) + 2
        length == buf[1].n
        last == Available(kind, buf, start, length)
    IN  IF LineEnd(buf) = 0 THEN Incomplete
        ELSE IF buf[1].type = "$" /\ length # -1
        THEN IF last = -1 THEN Incomplete
             ELSE Parsed(Text(SubSeq(buf, start, last)), Rest(buf, start + length + 2))
        ELSE Parsed(CASE buf[1].type = ":" -> Number(length)
                      [] buf[1].type = "$" -> Null
                      [] OTHER -> [type |-> buf[1].type], Rest(buf, start))

\* parseReply(): a list is its items one after the other.
Parse(kind, buf) ==
    IF LineEnd(buf) = 0 THEN Incomplete
    ELSE IF buf[1].type # "*" \/ buf[1].n <= 0 THEN Item(kind, buf)
    ELSE FoldLeft(LAMBDA so_far, i :
                      IF so_far = Incomplete THEN Incomplete
                      ELSE LET item == Item(kind, so_far.rest)
                           IN  IF item = Incomplete THEN Incomplete
                               ELSE Parsed(ListOf(Append(so_far.value.items, item.value)), item.rest),
                  Parsed(ListOf(<<>>), Rest(buf, LineEnd(buf) + 2)),
                  [i \in 1..buf[1].n |-> i])

IsMessage(v) == v.type = "*" /\ Len(v.items) = 3 /\ v.items[3].type = "$"

\* RespSubscriber.feed(): every frame that is whole, one per reply sent at most, of
\* which messages are handed over.
Feed(s) ==
    FoldLeft(LAMBDA so_far, i :
                 LET frame == Parse("subscriber", so_far.got)
                 IN  IF frame = Incomplete THEN so_far
                     ELSE [so_far EXCEPT !.got = frame.rest,
                                         !.heard = IF IsMessage(frame.value) THEN Append(@, frame.value)
                                                   ELSE @],
             s, s.sent)

\* The data handler of call(): with a password the second chunk at the earliest,
\* less its first line.
CallHears(s) ==
    IF reader.secured /\ s.chunks < 2 THEN s
    ELSE LET reply == Parse("client", IF reader.secured THEN Rest(s.got, LineEnd(s.got) + 2) ELSE s.got)
         IN  IF reply = Incomplete THEN s ELSE [s EXCEPT !.heard = <<reply.value>>]

\* RespClient._parse(), whose reads wait for what is missing.
WorkerReads(s) ==
    LET reply == Parse("worker", s.got)
    IN  IF reply = Incomplete THEN s ELSE [s EXCEPT !.heard = <<reply.value>>]

CallOver == reader.kind # "subscriber" /\ socket.heard # <<>>

-----------------------------------------------------------------------------

RespInit ==
    /\ reader \in [kind : {"subscriber", "client", "worker"}, secured : BOOLEAN]
    /\ socket = [sent |-> <<>>, wire |-> <<>>, got |-> <<>>, chunks |-> 0, heard |-> <<>>, open |-> TRUE]

\* What Redis answers: to the client's AUTH first, and to a worker that has not
\* authenticated this connection nothing but a refusal.
RedisSends ==
    /\ socket.open
    /\ \E v \in CASE reader.kind = "subscriber" ->
                       IF socket.sent = <<>> THEN {Subscribed3} ELSE {Pushed3(p) : p \in Payloads}
                  [] reader.kind = "worker" /\ reader.secured -> {Refusal}
                  [] OTHER -> {Number(1), Null, Okay, Refusal, ListOf(<<Text(<<Letter>>), Number(2)>>)}
                                  \cup {Text(p) : p \in Payloads}
                                  \cup {ListOf(<<Text(<<Letter>>), Text(p)>>) : p \in Payloads} :
          /\ Len(socket.sent) < IF reader.kind = "subscriber" THEN MaxPushes + 1 ELSE 1
          /\ socket' = [socket EXCEPT !.sent = Append(@, v),
                                      !.wire = @ \o (IF reader.kind = "client" /\ reader.secured
                                                     THEN ReplyBytes(Okay) ELSE <<>>) \o ReplyBytes(v)]
    /\ UNCHANGED reader

\* A chunk: any number of the bytes under way.
ChunkArrives ==
    /\ socket.open /\ ~CallOver
    /\ \E k \in DOMAIN socket.wire :
          LET s == [socket EXCEPT !.got = @ \o SubSeq(socket.wire, 1, k), !.wire = Rest(@, k + 1),
                                  !.chunks = Min({@ + 1, 2})]
          IN  socket' = CASE reader.kind = "subscriber" -> Feed(s)
                          [] reader.kind = "client" -> CallHears(s)
                          [] OTHER -> WorkerReads(s)
    /\ UNCHANGED reader

\* An orderly end with bytes missing: the worker takes what it has, the client and
\* the subscriber are not told.
SocketEnds ==
    /\ socket.open /\ ~CallOver
    /\ socket' = [socket EXCEPT !.open = FALSE,
           !.heard = IF reader.kind # "worker" THEN @
                     ELSE LET reply == Parse("ended", socket.got)
                          IN  IF reply = Incomplete THEN <<Refusal>> ELSE <<reply.value>>]
    /\ UNCHANGED reader

\* The socket's timeout: the call fails.  The subscriber's has no handler.
CallTimesOut ==
    /\ socket.open /\ ~CallOver /\ reader.kind # "subscriber"
    /\ socket' = [socket EXCEPT !.heard = <<Refusal>>, !.open = FALSE]
    /\ UNCHANGED reader

RespNext == RedisSends \/ ChunkArrives \/ SocketEnds \/ CallTimesOut

-----------------------------------------------------------------------------

\* The replies whose last byte is in.
WholeReplies ==
    LET size(v) == Len(ReplyBytes(v))
        total(vs) == FoldLeft(LAMBDA n, v : n + size(v), 0, vs)
        in == total(socket.sent) - Len(socket.wire)
    IN  SubSeq(socket.sent, 1, Max({n \in 0..Len(socket.sent) : total(SubSeq(socket.sent, 1, n)) <= in}))

\* A value cut short: a text that is the beginning of the other.
BeginningOf(v, w) ==
    \/ v = w
    \/ v.type = "$" /\ w.type = "$" /\ IsPrefix(v.bytes, w.bytes)
    \/ /\ v.type = "*" /\ w.type = "*" /\ Len(v.items) = Len(w.items)
       /\ Front(v.items) = Front(w.items)
       /\ Last(v.items).type = "$" /\ Last(w.items).type = "$"
       /\ IsPrefix(Last(v.items).bytes, Last(w.items).bytes)

\* However TCP cuts the bytes, a subscriber hands over every message that is in,
\* whole and in order, and nothing else; a number, a refusal or an empty answer a
\* call returns is what Redis said, and a text is, or begins, what it said; the
\* worker's texts are whole while the connection lasts; and a call whose reply is
\* in, if no password came before it, is over.
FramesHold ==
    /\ reader.kind = "subscriber" => socket.heard = SelectSeq(WholeReplies, IsMessage)
    /\ CallOver => \/ socket.heard[1] = Refusal /\ ~socket.open
               \/ BeginningOf(socket.heard[1], socket.sent[1])
    /\ CallOver /\ reader.kind = "worker" /\ socket.open => socket.heard = socket.sent
    /\ reader.kind # "subscriber" /\ ~reader.secured /\ socket.sent # <<>> /\ socket.wire = <<>> => CallOver
=================================================================================
