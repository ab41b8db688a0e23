------------------------------ MODULE Wires_proofs ------------------------------
(***************************************************************************)
(* Proofs about what goes over the wires of the office.                    *)
(*                                                                         *)
(* Mailer, for any number of calls and any dialogues of the shape the      *)
(* adapter sends: what sendMail() returns agrees with what the server did. *)
(* Kitchen, for any number of events, streams and faults: the tab listens  *)
(* to one stream at most and shows the events in their order.              *)
(* EventBridge, for any number of replicas and faults: an event is heard   *)
(* once.  PyWorkers, for any workers and requests: an answer is that of    *)
(* the jobs it is told of.                                                 *)
(*                                                                         *)
(* Posture, for any checks and scans: a regression is a fire.  Inbox, for  *)
(* any pushes: what a message says was done was done.  Monitor, for any    *)
(* routes and probes: the lines of /metrics add up to the counters, and a  *)
(* probe that was told well was told so of a database that had been up.    *)
(*                                                                         *)
(* Between them: the office's behaviours are behaviours of these parts.    *)
(***************************************************************************)
EXTENDS MCOffice, LazyStore_proofs

-----------------------------------------------------------------------------
(* Mailer.                                                                  *)

\* What is left of a dialogue at its command k.
Remainder(d, k) == SubSeq(d, k, Len(d))

MailType == [pc : {"idle", "waiting", "hung", "over"}, left : Seq(STRING),
             result : {"none", "success", "refused", "not sent"}]

\* A call that waits is at a command of its dialogue, and the server has its
\* message when only QUIT is left.
InDialogue(m) ==
    \E d \in Dialogues : \E k \in 1..Len(d) :
        /\ mails[m].left = Remainder(d, k)
        /\ m \in delivered <=> k = Len(d)

\* What is kept of one call.
CallHolds(m) ==
    /\ mails[m].pc = "waiting" => InDialogue(m)
    /\ mails[m].pc = "idle" => m \notin delivered
    /\ mails[m].pc # "over" => mails[m].result = "none"
    /\ mails[m].result = "success" => m \in delivered
    /\ mails[m].result = "refused" => m \notin delivered

MailInv ==
    /\ mails \in [Mails -> MailType]
    /\ \A m \in Mails : CallHolds(m)

-----------------------------------------------------------------------------

\* The command that waits for its reply, and what is left after it.
LEMMA WhatIsLeft ==
  ASSUME NEW d \in Dialogues, NEW k \in 1..Len(d)
  PROVE  /\ Remainder(d, k) \in Seq(STRING)
         /\ Head(Remainder(d, k)) = d[k]
         /\ Tail(Remainder(d, k)) = Remainder(d, k + 1)
         /\ Tail(Remainder(d, k)) = <<>> <=> k = Len(d)
         /\ k # Len(d) => k + 1 \in 1..Len(d)
         /\ d[k] = "QUIT" <=> k = Len(d)
         /\ d[k] = "body" <=> k + 1 = Len(d)
<1>1. /\ d \in Seq(STRING) /\ Len(d) \in Nat /\ Len(d) > 3
      /\ d[Len(d) - 1] = "body" /\ d[Len(d)] = "QUIT"
      /\ \A i \in 1..(Len(d) - 2) : d[i] \notin {"body", "QUIT"}
  BY MailerAssumption, LenProperties
<1>2. /\ Head(Remainder(d, k)) = d[k]
      /\ Tail(Remainder(d, k)) = Remainder(d, k + 1)
  BY <1>1, HeadTailOfSubSeq DEF Remainder
<1>3. ASSUME NEW i \in 1..Len(d)
      PROVE  Remainder(d, i) \in Seq(STRING) /\ Remainder(d, i) # <<>>
  <2>1. \A j \in i..Len(d) : d[j] \in STRING
    BY <1>1, ElementOfSeq
  <2>2. /\ Remainder(d, i) \in Seq(STRING)
        /\ Len(Remainder(d, i)) = IF i <= Len(d) THEN Len(d) - i + 1 ELSE 0
    BY <1>1, <2>1, SubSeqProperties DEF Remainder
  <2>3. Len(Remainder(d, i)) # 0
    BY <1>1, <2>2
  <2> QED BY <2>2, <2>3, EmptySeq
<1>4. k = Len(d) => Tail(Remainder(d, k)) = <<>>
  <2>1. Len(d) < Len(d) + 1 /\ Len(d) + 1 \in Int /\ Len(d) \in Int
    BY <1>1
  <2>2. SubSeq(d, Len(d) + 1, Len(d)) = <<>>
    BY <2>1, SubSeqEmpty
  <2> QED BY <1>2, <2>2 DEF Remainder
<1>5. k # Len(d) => k + 1 \in 1..Len(d)
  BY <1>1
<1>6. k # Len(d) => Tail(Remainder(d, k)) # <<>>
  BY <1>2, <1>3, <1>5
<1>7. /\ d[k] = "QUIT" <=> k = Len(d)
      /\ d[k] = "body" <=> k + 1 = Len(d)
  BY <1>1
<1> QED BY <1>2, <1>3, <1>4, <1>5, <1>6, <1>7

\* A step of one call leaves the others as they are.
LEMMA OneCallAtATime ==
  ASSUME MailInv, NEW m \in Mails, NEW r \in MailType,
         mails' = [mails EXCEPT ![m] = r],
         delivered' \in {delivered, delivered \cup {m}},
         mails'[m] = r => CallHolds(m)'
  PROVE  MailInv'
<1>1. /\ mails' \in [Mails -> MailType] /\ mails'[m] = r
      /\ \A n \in Mails : n # m => mails'[n] = mails[n]
  BY DEF MailInv
<1>2. \A n \in Mails : n # m => (n \in delivered' <=> n \in delivered)
  OBVIOUS
<1>3. \A n \in Mails : CallHolds(n)'
  BY <1>1, <1>2 DEF MailInv, CallHolds, InDialogue
<1> QED BY <1>1, <1>3 DEF MailInv

\* A call that waits, with its dialogue.
LEMMA CallInDialogue ==
  ASSUME MailInv, NEW m \in Mails, mails[m].pc = "waiting"
  PROVE  /\ mails[m] \in MailType /\ mails[m].result = "none"
         /\ \E d \in Dialogues : \E k \in 1..Len(d) :
               /\ mails[m].left = Remainder(d, k)
               /\ m \in delivered <=> k = Len(d)
               /\ Head(mails[m].left) = "QUIT" <=> k = Len(d)
               /\ Head(mails[m].left) = "body" <=> k + 1 = Len(d)
               /\ Tail(mails[m].left) = Remainder(d, k + 1)
               /\ Tail(mails[m].left) = <<>> <=> k = Len(d)
               /\ k # Len(d) => k + 1 \in 1..Len(d)
<1>1. mails[m] \in MailType /\ CallHolds(m)
  BY DEF MailInv
<1>2. PICK d \in Dialogues : \E k \in 1..Len(d) :
        mails[m].left = Remainder(d, k) /\ (m \in delivered <=> k = Len(d))
  BY <1>1 DEF CallHolds, InDialogue
<1>3. PICK k \in 1..Len(d) :
        mails[m].left = Remainder(d, k) /\ (m \in delivered <=> k = Len(d))
  BY <1>2
<1>4. /\ Head(mails[m].left) = "QUIT" <=> k = Len(d)
      /\ Head(mails[m].left) = "body" <=> k + 1 = Len(d)
      /\ Tail(mails[m].left) = Remainder(d, k + 1)
      /\ Tail(mails[m].left) = <<>> <=> k = Len(d)
      /\ k # Len(d) => k + 1 \in 1..Len(d)
  <2>1. /\ Head(Remainder(d, k)) = d[k]
        /\ Tail(Remainder(d, k)) = Remainder(d, k + 1)
        /\ Tail(Remainder(d, k)) = <<>> <=> k = Len(d)
        /\ k # Len(d) => k + 1 \in 1..Len(d)
    BY WhatIsLeft
  <2>2. /\ d[k] = "QUIT" <=> k = Len(d)
        /\ d[k] = "body" <=> k + 1 = Len(d)
    BY WhatIsLeft
  <2> QED BY <1>3, <2>1, <2>2
<1>5. mails[m].result = "none"
  BY <1>1 DEF CallHolds
<1> QED BY <1>1, <1>3, <1>4, <1>5

\* A call that returns: with success when the server has the message, with a
\* refusal when it has not.
LEMMA CallReturns ==
  ASSUME MailInv, NEW m \in Mails, mails[m].pc = "waiting",
         NEW result \in {"success", "refused", "not sent"}, Returns(m, result),
         delivered' \in {delivered, delivered \cup {m}},
         result = "success" => m \in delivered,
         result = "refused" => m \notin delivered'
  PROVE  MailInv'
<1> DEFINE r == [mails[m] EXCEPT !.pc = "over", !.result = result]
<1>1. r \in MailType /\ r.pc = "over" /\ r.result = result
  BY DEF MailInv, MailType
<1>2. mails' = [mails EXCEPT ![m] = r]
  BY DEF Returns
<1> HIDE DEF r
<1>3. mails'[m] = r => CallHolds(m)'
  BY <1>1 DEF CallHolds
<1> QED BY <1>1, <1>2, <1>3, OneCallAtATime

\* A call that is left hanging says nothing of its message.
LEMMA CallHangs ==
  ASSUME MailInv, NEW m \in Mails, mails[m].pc = "waiting",
         mails' = [mails EXCEPT ![m].pc = "hung"],
         delivered' \in {delivered, delivered \cup {m}}
  PROVE  MailInv'
<1> DEFINE r == [mails[m] EXCEPT !.pc = "hung"]
<1>1. mails[m].result = "none"
  BY CallInDialogue
<1>2. r \in MailType /\ r.pc = "hung" /\ r.result = "none"
  BY <1>1 DEF MailInv, MailType
<1>3. mails' = [mails EXCEPT ![m] = r]
  OBVIOUS
<1> HIDE DEF r
<1>4. mails'[m] = r => CallHolds(m)'
  BY <1>2 DEF CallHolds
<1> QED BY <1>2, <1>3, <1>4, OneCallAtATime

\* The server answers with the code that was expected.
LEMMA ExpectedKeepsInv ==
  ASSUME MailInv, NEW m \in Mails, mails[m].pc = "waiting", Expected(m),
         delivered' = IF Head(mails[m].left) = "body" THEN delivered \cup {m} ELSE delivered
  PROVE  MailInv'
<1>1. PICK d \in Dialogues : \E k \in 1..Len(d) :
        /\ m \in delivered <=> k = Len(d)
        /\ Head(mails[m].left) = "body" <=> k + 1 = Len(d)
        /\ Tail(mails[m].left) = Remainder(d, k + 1)
        /\ Tail(mails[m].left) = <<>> <=> k = Len(d)
        /\ k # Len(d) => k + 1 \in 1..Len(d)
  BY CallInDialogue
<1>2. PICK k \in 1..Len(d) :
        /\ m \in delivered <=> k = Len(d)
        /\ Head(mails[m].left) = "body" <=> k + 1 = Len(d)
        /\ Tail(mails[m].left) = Remainder(d, k + 1)
        /\ Tail(mails[m].left) = <<>> <=> k = Len(d)
        /\ k # Len(d) => k + 1 \in 1..Len(d)
  BY <1>1
<1>3. CASE k = Len(d)
  <2>1. Returns(m, "success") /\ m \in delivered
    BY <1>2, <1>3 DEF Expected
  <2> QED BY <2>1, CallReturns
<1>4. CASE k # Len(d)
  <2> DEFINE r == [mails[m] EXCEPT !.left = Remainder(d, k + 1)]
  <2>1. mails' = [mails EXCEPT ![m] = r]
    BY <1>2, <1>4 DEF Expected
  <2>2. k + 1 \in 1..Len(d) /\ Remainder(d, k + 1) \in Seq(STRING)
    BY <1>2, <1>4, WhatIsLeft
  <2>3. mails[m] \in MailType /\ mails[m].result = "none"
    BY CallInDialogue
  <2>4. r \in MailType /\ r.pc = "waiting" /\ r.result = "none" /\ r.left = Remainder(d, k + 1)
    BY <2>2, <2>3 DEF MailType
  <2> HIDE DEF r
  <2>5. m \in delivered' <=> k + 1 = Len(d)
    BY <1>2, <1>4
  <2>6. mails'[m] = r => InDialogue(m)'
    BY <2>2, <2>4, <2>5 DEF InDialogue
  <2>7. mails'[m] = r => CallHolds(m)'
    BY <2>4, <2>6 DEF CallHolds
  <2> QED BY <2>1, <2>4, <2>7, OneCallAtATime
<1> QED BY <1>3, <1>4

\* A call begins at the first command of a dialogue, which is not its last.
LEMMA SendKeepsInv ==
  ASSUME MailInv, NEW m \in Mails, NEW d \in Dialogues, SendMail(m, d)
  PROVE  MailInv'
<1> DEFINE r == [pc |-> "waiting", left |-> d, result |-> "none"]
<1>1. mails' = [mails EXCEPT ![m] = r] /\ delivered' = delivered /\ m \notin delivered
  BY DEF SendMail, MailInv, CallHolds
<1>7. d \in Seq(STRING)
  BY MailerAssumption
<1>2. Len(d) \in Nat /\ Len(d) > 3
  BY MailerAssumption, LenProperties
<1>3. 1 \in 1..Len(d) /\ 1 # Len(d) /\ d = Remainder(d, 1)
  <2>1. 1 \in 1..Len(d) /\ 1 # Len(d)
    BY <1>2
  <2> QED BY <1>7, <2>1, SubSeqFull DEF Remainder
<1>4. r \in MailType /\ r.pc = "waiting" /\ r.result = "none" /\ r.left = d
  BY <1>7 DEF MailType
<1> HIDE DEF r
<1>5. mails'[m] = r => InDialogue(m)'
  BY <1>1, <1>3, <1>4 DEF InDialogue
<1>6. mails'[m] = r => CallHolds(m)'
  BY <1>4, <1>5 DEF CallHolds
<1> QED BY <1>1, <1>4, <1>6, OneCallAtATime

-----------------------------------------------------------------------------

\* Every step of the mailer keeps the invariant.
LEMMA MailStep ==
  ASSUME MailInv, [MailerNext]_mailVars
  PROVE  MailInv'
<1>1. CASE UNCHANGED mailVars
  BY <1>1 DEF mailVars, MailInv, CallHolds, InDialogue
<1>2. ASSUME NEW m \in Mails, NEW d \in Dialogues, SendMail(m, d)
      PROVE  MailInv'
  BY <1>2, SendKeepsInv
<1>3. ASSUME NEW m \in Mails, Replies(m)
      PROVE  MailInv'
  <2>1. mails[m].pc = "waiting"
    BY <1>3 DEF Replies
  <2>2. CASE Expected(m) /\ delivered' = IF Head(mails[m].left) = "body"
                                         THEN delivered \cup {m} ELSE delivered
    BY <2>1, <2>2, ExpectedKeepsInv
  <2>3. CASE Unexpected(m) /\ UNCHANGED delivered
    BY <2>1, <2>3, CallInDialogue, CallReturns DEF Unexpected
  <2> QED BY <1>3, <2>2, <2>3 DEF Replies
<1>4. ASSUME NEW m \in Mails, SocketError(m)
      PROVE  MailInv'
  <2>1. mails[m].pc = "waiting" /\ delivered' \in {delivered, delivered \cup {m}}
    BY <1>4 DEF SocketError
  <2> QED BY <1>4, <2>1, CallInDialogue, CallReturns DEF SocketError
<1>5. ASSUME NEW m \in Mails, TimesOut(m)
      PROVE  MailInv'
  BY <1>5, CallInDialogue, CallReturns, CallHangs DEF TimesOut
<1>6. ASSUME NEW m \in Mails, EndsQuietly(m)
      PROVE  MailInv'
  BY <1>6, CallHangs DEF EndsQuietly
<1> QED BY <1>1, <1>2, <1>3, <1>4, <1>5, <1>6 DEF MailerNext

\* sendMail() reports success only for a message the server has acknowledged, and
\* a refusal only for one it did not take on: for any number of calls, any
\* dialogues of the adapter's shape, and whenever the server answers, errs, falls
\* silent or closes.
THEOREM NoFalseSuccess == MailerSpec => []SuccessMeansAccepted
<1>1. MailerInit => MailInv
  BY DEF MailerInit, NoMail, MailInv, MailType, CallHolds
<1>2. MailInv /\ [MailerNext]_mailVars => MailInv'
  BY MailStep
<1>3. MailInv => SuccessMeansAccepted
  BY DEF MailInv, CallHolds, SuccessMeansAccepted
<1> QED BY <1>1, <1>2, <1>3, PTL DEF MailerSpec

-----------------------------------------------------------------------------
(* Kitchen.                                                                 *)

USE KitchenAssumption

OpeningSteps == {"none", "recent", "paint", "mint", "stream", "pause", "over"}

OpeningType == [step : OpeningSteps, stopped : BOOLEAN, read : Nat]

StreamType == [by : Openings, at : {"asked", "open", "closed"}, next : Nat, beats : BOOLEAN]

StreamsHeard == {t \in DOMAIN streams : streams[t].at # "closed"}

Typed ==
    /\ emitted \in Nat
    /\ opening \in [Openings -> OpeningType]
    /\ streams \in Seq(StreamType)

\* A stream is heard while its opening is at it, and an opening is at one only.
StreamsAreOwned ==
    /\ \A t \in StreamsHeard : opening[streams[t].by].step = "stream"
    /\ \A t, u \in StreamsHeard : streams[t].by = streams[u].by => t = u

\* An opening that was stopped listens no more; the second one begins when the
\* roster lands, which stops the first; both are stopped when the tab is left.
OpeningsAreStopped ==
    /\ \A i \in Openings : opening[i].step \in {"stream", "pause"} => ~opening[i].stopped
    /\ opening[1].stopped \/ opening[2].step = "none"
    /\ kitchen.roster \/ opening[2].step = "none"
    /\ kitchen.left => \A i \in Openings : opening[i].stopped

StreamInv ==
    Typed /\ StreamsAreOwned /\ OpeningsAreStopped

-----------------------------------------------------------------------------
(* What a step does to the openings and the streams.                       *)

\* Openings are two.
LEMMA TwoOpenings == 1 \in Openings /\ 2 \in Openings /\ \A i \in Openings : i = 1 \/ i = 2
BY DEF Openings

\* One opening goes on to another step; it was begun, and does not listen if it
\* was stopped.
LEMMA OneOpeningGoes ==
  ASSUME Typed, OpeningsAreStopped, NEW i \in Openings, NEW step \in OpeningSteps,
         opening' = [opening EXCEPT ![i].step = step],
         opening[i].step # "none",
         step \in {"stream", "pause"} => ~opening[i].stopped,
         kitchen'.left = kitchen.left, kitchen'.roster = kitchen.roster
  PROVE  /\ opening' \in [Openings -> OpeningType]
         /\ opening'[i].step = step
         /\ \A k \in Openings : k # i => opening'[k] = opening[k]
         /\ OpeningsAreStopped'
<1>1. /\ opening' \in [Openings -> OpeningType]
      /\ opening'[i].step = step /\ opening'[i].stopped = opening[i].stopped
      /\ \A k \in Openings : k # i => opening'[k] = opening[k]
  BY DEF Typed, OpeningType
<1> QED BY <1>1, TwoOpenings DEF OpeningsAreStopped

\* The streams heard after a step were heard before it, by openings still at them.
LEMMA HeardStaysOwned ==
  ASSUME StreamsAreOwned,
         \A t \in StreamsHeard' : /\ t \in StreamsHeard /\ streams'[t].by = streams[t].by
                           /\ opening'[streams[t].by].step = "stream"
  PROVE  StreamsAreOwned'
BY DEF StreamsAreOwned

\* Another stream in the place of one, of the same opening.
LEMMA StreamReplaced ==
  ASSUME Typed, NEW t \in DOMAIN streams, NEW s \in StreamType, s.by = streams[t].by,
         streams' = [streams EXCEPT ![t] = s]
  PROVE  /\ streams' \in Seq(StreamType)
         /\ DOMAIN streams' = DOMAIN streams
         /\ streams'[t] = s
         /\ \A u \in DOMAIN streams : streams'[u].by = streams[u].by
         /\ \A u \in DOMAIN streams : u # t => streams'[u] = streams[u]
<1>1. DOMAIN streams = 1..Len(streams)
  BY LenProperties DEF Typed
<1>2. streams' \in Seq(StreamType) /\ Len(streams') = Len(streams)
  BY <1>1, ExceptSeq DEF Typed
<1>3. \A u \in 1..Len(streams) : streams'[u] = IF u = t THEN s ELSE streams[u]
  BY <1>1, ExceptSeq DEF Typed
<1>4. DOMAIN streams' = 1..Len(streams')
  BY <1>2, LenProperties
<1> QED BY <1>1, <1>2, <1>3, <1>4

\* A stream of the sequence has its type.
LEMMA StreamIsTyped ==
  ASSUME Typed, NEW t \in DOMAIN streams
  PROVE  streams[t] \in StreamType
BY LenProperties, ElementOfSeq DEF Typed

\* Closing the streams of some openings closes them, and nothing else.
LEMMA ClosedStreams ==
  ASSUME Typed, NEW open, streams' = Closed(open)
  PROVE  /\ streams' \in Seq(StreamType)
         /\ \A t \in StreamsHeard' : /\ t \in StreamsHeard /\ streams'[t].by = streams[t].by
                              /\ streams[t].by \notin open
<1> DEFINE closed == [t \in DOMAIN streams |->
                        IF streams[t].by \in open THEN [streams[t] EXCEPT !.at = "closed"]
                        ELSE streams[t]]
<1>1. \A t \in DOMAIN streams : closed[t] \in StreamType
  <2>1. ASSUME NEW t \in DOMAIN streams
        PROVE  closed[t] \in StreamType
    <3>1. streams[t] \in StreamType
      BY StreamIsTyped
    <3>2. [streams[t] EXCEPT !.at = "closed"] \in StreamType
      BY <3>1 DEF StreamType
    <3> QED BY <3>1, <3>2
  <2> QED BY <2>1
<1>2. Len(streams) \in Nat /\ DOMAIN streams = 1..Len(streams)
  BY LenProperties DEF Typed
<1>3. closed \in [1..Len(streams) -> StreamType]
  <2>1. closed = [t \in 1..Len(streams) |-> closed[t]]
    BY <1>2
  <2>2. \A t \in 1..Len(streams) : closed[t] \in StreamType
    BY <1>1, <1>2
  <2> HIDE DEF closed
  <2> QED BY <2>1, <2>2
<1>4. streams' = closed
  BY DEF Closed
<1>5. closed \in Seq(StreamType)
  BY <1>2, <1>3
<1>6. ASSUME NEW t \in StreamsHeard'
      PROVE  /\ t \in StreamsHeard /\ streams'[t].by = streams[t].by
             /\ streams[t].by \notin open
  <2>1. t \in DOMAIN streams /\ closed[t].at # "closed"
    BY <1>4 DEF StreamsHeard
  <2>2. streams[t] \in StreamType
    BY <2>1, StreamIsTyped
  <2>3. streams[t].by \notin open
    BY <2>1, <2>2 DEF StreamType
  <2> QED BY <1>4, <2>1, <2>3 DEF StreamsHeard
<1> QED BY <1>4, <1>5, <1>6
-----------------------------------------------------------------------------
(* The steps keep the invariant.                                           *)

\* An opening that does not listen goes on, and no stream is touched.
LEMMA OpeningGoesAlone ==
  ASSUME StreamInv, emitted' \in Nat, NEW i \in Openings, NEW step \in OpeningSteps \ {"stream"},
         OpeningGoes(i, step), opening[i].step \notin {"none", "stream"},
         step = "pause" => ~opening[i].stopped,
         streams' = streams,
         kitchen'.left = kitchen.left, kitchen'.roster = kitchen.roster
  PROVE  StreamInv'
<1>1. /\ opening' \in [Openings -> OpeningType]
      /\ \A k \in Openings : k # i => opening'[k] = opening[k]
      /\ OpeningsAreStopped'
  BY OneOpeningGoes DEF StreamInv, OpeningGoes
<1>2. Typed'
  BY <1>1 DEF StreamInv, Typed
<1>3. StreamsHeard' = StreamsHeard
  BY DEF StreamsHeard
<1>4. ASSUME NEW t \in StreamsHeard
      PROVE  opening'[streams[t].by].step = "stream"
  <2>1. streams[t].by \in Openings /\ opening[streams[t].by].step = "stream"
    BY StreamIsTyped DEF StreamInv, StreamsAreOwned, StreamsHeard, StreamType
  <2> QED BY <1>1, <2>1
<1>5. StreamsAreOwned'
  BY <1>3, <1>4, HeardStaysOwned DEF StreamInv
<1> QED BY <1>1, <1>2, <1>5 DEF StreamInv

\* A fault leaves the roster and the tab as they are.
LEMMA FaultIsNoNavigation ==
  ASSUME KitchenFault
  PROVE  kitchen'.left = kitchen.left /\ kitchen'.roster = kitchen.roster
BY DEF KitchenFault

\* Reading the ring is a step of one opening that notes what it read.
LEMMA ReadKeepsInv ==
  ASSUME StreamInv, NEW i \in Openings, ReadRecent(i)
  PROVE  StreamInv'
<1>1. /\ opening[i].step = "recent" /\ emitted \in Nat /\ opening[i] \in OpeningType
      /\ opening' = [opening EXCEPT ![i] = [@ EXCEPT !.step = "paint", !.read = emitted]]
      /\ emitted' = emitted /\ streams' = streams /\ kitchen' = kitchen
  BY DEF ReadRecent, StreamInv, Typed
<1>2. DEFINE painting == [opening[i] EXCEPT !.step = "paint", !.read = emitted]
<1>3. painting \in OpeningType /\ painting.step = "paint" /\ painting.stopped = opening[i].stopped
  BY <1>1 DEF OpeningType, OpeningSteps
<1>4. /\ opening' \in [Openings -> OpeningType] /\ opening'[i] = painting
      /\ \A k \in Openings : k # i => opening'[k] = opening[k]
  <2>1. opening' = [opening EXCEPT ![i] = painting]
    BY <1>1
  <2> HIDE DEF painting
  <2> QED BY <1>3, <2>1 DEF StreamInv, Typed
<1> HIDE DEF painting
<1>5. Typed'
  BY <1>1, <1>4 DEF StreamInv, Typed
<1>6. OpeningsAreStopped'
  BY <1>1, <1>3, <1>4, TwoOpenings DEF StreamInv, OpeningsAreStopped
<1>7. ASSUME NEW t \in StreamsHeard
      PROVE  opening'[streams[t].by].step = "stream"
  <2>1. streams[t].by \in Openings /\ opening[streams[t].by].step = "stream"
    BY StreamIsTyped DEF StreamInv, StreamsAreOwned, StreamsHeard, StreamType
  <2> QED BY <1>1, <1>4, <2>1
<1>8. StreamsAreOwned'
  <2>1. StreamsHeard' = StreamsHeard
    BY <1>1 DEF StreamsHeard
  <2> QED BY <1>1, <1>7, <2>1, HeardStaysOwned DEF StreamInv
<1> QED BY <1>5, <1>6, <1>8 DEF StreamInv

\* A stream is opened by an opening that has none and was not stopped.
LEMMA OpenKeepsInv ==
  ASSUME StreamInv, NEW i \in Openings, OpenStream(i)
  PROVE  StreamInv'
<1>1. opening[i].step = "mint" /\ emitted' = emitted /\ kitchen' = kitchen
  BY DEF OpenStream
<1>2. CASE ~StillWanted(i)
  <2>1. OpeningGoes(i, "over") /\ streams' = streams
    BY <1>2 DEF OpenStream
  <2>2. emitted' \in Nat /\ "over" \in OpeningSteps \ {"stream"}
    BY <1>1 DEF StreamInv, Typed, OpeningSteps
  <2> QED BY <1>1, <2>1, <2>2, OpeningGoesAlone
<1>3. CASE StillWanted(i)
  <2> DEFINE wanted == [by |-> i, at |-> "asked", next |-> 0, beats |-> FALSE]
  <2>1. streams' = Append(streams, wanted) /\ OpeningGoes(i, "stream")
    BY <1>3 DEF OpenStream
  <2>2. wanted \in StreamType /\ wanted.by = i /\ streams \in Seq(StreamType)
    BY DEF StreamType, StreamInv, Typed
  <2> HIDE DEF wanted
  <2>3. /\ streams' \in Seq(StreamType) /\ Len(streams) \in Nat
        /\ DOMAIN streams = 1..Len(streams) /\ DOMAIN streams' = 1..(Len(streams) + 1)
        /\ streams'[Len(streams) + 1] = wanted
        /\ \A t \in 1..Len(streams) : streams'[t] = streams[t]
    BY <2>1, <2>2, AppendProperties, LenProperties
  <2>4. /\ opening' \in [Openings -> OpeningType] /\ opening'[i].step = "stream"
        /\ \A k \in Openings : k # i => opening'[k] = opening[k]
        /\ OpeningsAreStopped'
    <3>1. "stream" \in OpeningSteps /\ ~opening[i].stopped
      BY <1>3 DEF OpeningSteps, StillWanted
    <3> QED BY <1>1, <2>1, <3>1, OneOpeningGoes DEF StreamInv, OpeningGoes
  <2>5. Typed'
    BY <1>1, <2>3, <2>4 DEF StreamInv, Typed
  <2>6. ASSUME NEW t \in StreamsHeard', t # Len(streams) + 1
        PROVE  /\ t \in StreamsHeard /\ streams'[t] = streams[t]
               /\ streams[t].by # i /\ opening'[streams[t].by].step = "stream"
    <3>1. t \in 1..Len(streams)
      BY <2>3, <2>6 DEF StreamsHeard
    <3>2. t \in StreamsHeard /\ streams'[t] = streams[t]
      BY <2>3, <3>1 DEF StreamsHeard
    <3>3. streams[t].by \in Openings /\ opening[streams[t].by].step = "stream"
      BY <3>2, StreamIsTyped DEF StreamInv, StreamsAreOwned, StreamsHeard, StreamType
    <3> QED BY <1>1, <2>4, <3>2, <3>3
  <2>7. \A t \in StreamsHeard' : opening'[streams'[t].by].step = "stream"
    BY <2>2, <2>3, <2>4, <2>6
  <2>8. \A t, u \in StreamsHeard' : streams'[t].by = streams'[u].by => t = u
    <3>1. ASSUME NEW t \in StreamsHeard', NEW u \in StreamsHeard', streams'[t].by = streams'[u].by
          PROVE  t = u
      <4>1. CASE t # Len(streams) + 1 /\ u # Len(streams) + 1
        BY <2>6, <3>1, <4>1 DEF StreamInv, StreamsAreOwned
      <4>2. CASE t = Len(streams) + 1 /\ u # Len(streams) + 1
        BY <2>2, <2>3, <2>6, <3>1, <4>2
      <4>3. CASE t # Len(streams) + 1 /\ u = Len(streams) + 1
        BY <2>2, <2>3, <2>6, <3>1, <4>3
      <4> QED BY <4>1, <4>2, <4>3
    <3> QED BY <3>1
  <2>9. StreamsAreOwned'
    BY <2>7, <2>8 DEF StreamsAreOwned
  <2> QED BY <2>4, <2>5, <2>9 DEF StreamInv
<1> QED BY <1>2, <1>3

\* A stream that connects or shows an event stays heard, by the same opening.
LEMMA HeardKeepsInv ==
  ASSUME StreamInv, NEW t \in DOMAIN streams, streams[t].at # "closed",
         NEW s \in StreamType, s.by = streams[t].by,
         streams' = [streams EXCEPT ![t] = s],
         emitted' = emitted, opening' = opening, kitchen' = kitchen
  PROVE  StreamInv'
<1>1. /\ streams' \in Seq(StreamType) /\ DOMAIN streams' = DOMAIN streams
      /\ \A u \in DOMAIN streams : streams'[u].by = streams[u].by
      /\ \A u \in DOMAIN streams : u # t => streams'[u] = streams[u]
  BY StreamReplaced DEF StreamInv
<1>2. Typed'
  BY <1>1 DEF StreamInv, Typed
<1>3. \A u \in StreamsHeard' : u \in StreamsHeard /\ streams'[u].by = streams[u].by
  BY <1>1 DEF StreamsHeard
<1>4. StreamsAreOwned'
  <2>1. \A u \in StreamsHeard' : opening'[streams[u].by].step = "stream"
    BY <1>3 DEF StreamInv, StreamsAreOwned
  <2> QED BY <1>3, <2>1, HeardStaysOwned DEF StreamInv
<1>5. OpeningsAreStopped'
  BY DEF StreamInv, OpeningsAreStopped
<1> QED BY <1>2, <1>4, <1>5 DEF StreamInv

\* The API takes the ticket.
LEMMA ConnectKeepsInv ==
  ASSUME StreamInv, NEW t \in DOMAIN streams, Connect(t)
  PROVE  StreamInv'
<1> DEFINE s == [streams[t] EXCEPT !.at = "open", !.next = emitted + 1, !.beats = TRUE]
<1>1. streams[t] \in StreamType /\ emitted \in Nat
  BY StreamIsTyped DEF StreamInv, Typed
<1>2. s \in StreamType /\ s.by = streams[t].by
  <2>1. emitted + 1 \in Nat
    BY <1>1
  <2> HIDE KitchenAssumption
  <2> QED BY <1>1, <2>1 DEF StreamType
<1>3. /\ streams[t].at # "closed" /\ streams' = [streams EXCEPT ![t] = s]
      /\ emitted' = emitted /\ opening' = opening /\ kitchen' = kitchen
  BY DEF Connect
<1> HIDE DEF s
<1> QED BY <1>2, <1>3, HeardKeepsInv

\* An event arrives.
LEMMA ShowKeepsInv ==
  ASSUME StreamInv, NEW t \in DOMAIN streams, ShowEvent(t)
  PROVE  StreamInv'
<1> DEFINE s == [streams[t] EXCEPT !.next = streams[t].next + 1]
<1>1. streams[t] \in StreamType
  BY StreamIsTyped DEF StreamInv
<1>2. s \in StreamType /\ s.by = streams[t].by
  BY <1>1 DEF StreamType
<1>3. /\ streams[t].at # "closed" /\ streams' = [streams EXCEPT ![t] = s]
      /\ emitted' = emitted /\ opening' = opening /\ kitchen' = kitchen
  BY DEF ShowEvent
<1> HIDE DEF s
<1> QED BY <1>2, <1>3, HeardKeepsInv

\* A stream that fails is closed before its opening pauses; no other stream is of
\* that opening.
LEMMA ErrorKeepsInv ==
  ASSUME StreamInv, NEW t \in DOMAIN streams, streams[t].at # "closed",
         NEW beats \in BOOLEAN, Errored(t, beats)
  PROVE  StreamInv'
<1> DEFINE i == streams[t].by
           s == [streams[t] EXCEPT !.at = "closed", !.beats = beats]
<1>1. streams[t] \in StreamType /\ t \in StreamsHeard
  BY StreamIsTyped DEF StreamInv, StreamsHeard
<1>2. s \in StreamType /\ s.by = streams[t].by /\ s.at = "closed"
  BY <1>1 DEF StreamType
<1>3. /\ i \in Openings /\ opening[i].step = "stream" /\ ~opening[i].stopped
  BY <1>1 DEF StreamInv, StreamsAreOwned, OpeningsAreStopped, StreamType
<1>4. /\ streams' = [streams EXCEPT ![t] = s] /\ OpeningGoes(i, "pause")
      /\ emitted' = emitted
      /\ kitchen'.left = kitchen.left /\ kitchen'.roster = kitchen.roster
  BY FaultIsNoNavigation DEF Errored
<1> HIDE DEF s
<1>5. /\ streams' \in Seq(StreamType) /\ DOMAIN streams' = DOMAIN streams /\ streams'[t] = s
      /\ \A u \in DOMAIN streams : u # t => streams'[u] = streams[u]
  BY <1>2, <1>4, StreamReplaced DEF StreamInv
<1>6. /\ opening' \in [Openings -> OpeningType]
      /\ \A k \in Openings : k # i => opening'[k] = opening[k]
      /\ OpeningsAreStopped'
  <2>1. "pause" \in OpeningSteps
    BY DEF OpeningSteps
  <2> QED BY <1>3, <1>4, <2>1, OneOpeningGoes DEF StreamInv, OpeningGoes
<1>7. Typed'
  BY <1>4, <1>5, <1>6 DEF StreamInv, Typed
<1>8. ASSUME NEW u \in StreamsHeard'
      PROVE  /\ u \in StreamsHeard /\ streams'[u].by = streams[u].by
             /\ opening'[streams[u].by].step = "stream"
  <2>1. u \in DOMAIN streams /\ u # t
    BY <1>2, <1>5 DEF StreamsHeard
  <2>2. streams'[u] = streams[u] /\ u \in StreamsHeard
    BY <1>5, <2>1 DEF StreamsHeard
  <2>3. /\ streams[u].by # i /\ streams[u].by \in Openings
        /\ opening[streams[u].by].step = "stream"
    BY <1>1, <2>1, <2>2, StreamIsTyped DEF StreamInv, StreamsAreOwned, StreamType
  <2> QED BY <1>6, <2>2, <2>3
<1>9. StreamsAreOwned'
  BY <1>8, HeardStaysOwned DEF StreamInv
<1> QED BY <1>6, <1>7, <1>9 DEF StreamInv

\* An opening that is stopped listens no more and keeps its type.
LEMMA StoppedOpening ==
  ASSUME Typed, NEW i \in Openings
  PROVE  /\ Stopped(i) \in OpeningType /\ Stopped(i).stopped
         /\ Stopped(i).step \notin {"stream", "pause"}
         /\ opening[i].step = "none" => Stopped(i).step = "none"
<1>1. opening[i] \in OpeningType
  BY DEF Typed
<1>2. opening[i].step \in OpeningSteps /\ "over" \in OpeningSteps
  BY <1>1 DEF OpeningType, OpeningSteps
<1> QED BY <1>1, <1>2 DEF Stopped, OpeningType

\* The roster stops the first opening and begins the second, which had none.
LEMMA RosterKeepsInv ==
  ASSUME StreamInv, RosterLands
  PROVE  StreamInv'
<1>1. /\ ~kitchen.left /\ opening[2].step = "none"
      /\ opening' = [opening EXCEPT ![1] = Stopped(1), ![2].step = "recent"]
      /\ streams' = Closed({1}) /\ emitted' = emitted
      /\ kitchen'.left = kitchen.left /\ kitchen'.roster
  BY DEF RosterLands, StreamInv, OpeningsAreStopped
<1> DEFINE begun == [opening[2] EXCEPT !.step = "recent"]
<1>2. begun \in OpeningType /\ begun.step = "recent"
  BY TwoOpenings, SMTT(30) DEF OpeningType, OpeningSteps, StreamInv, Typed
<1>3. opening' \in [Openings -> OpeningType] /\ opening'[1] = Stopped(1) /\ opening'[2] = begun
  <2>1. opening' = [[opening EXCEPT ![1] = Stopped(1)] EXCEPT ![2] = begun]
    BY <1>1
  <2> HIDE DEF begun
  <2>2. Stopped(1) \in OpeningType /\ opening \in [Openings -> OpeningType]
    BY TwoOpenings, StoppedOpening DEF StreamInv, Typed
  <2> QED BY <1>2, <2>1, <2>2, TwoOpenings
<1>4. Stopped(1).stopped /\ Stopped(1).step \notin {"stream", "pause"}
  BY StoppedOpening, TwoOpenings DEF StreamInv
<1> HIDE DEF begun
<1>5. /\ streams' \in Seq(StreamType)
      /\ \A t \in StreamsHeard' : t \in StreamsHeard /\ streams'[t].by = streams[t].by /\ streams[t].by # 1
  BY <1>1, ClosedStreams DEF StreamInv
<1>6. StreamsHeard' = {}
  <2>1. ASSUME NEW t \in StreamsHeard'
        PROVE  FALSE
    <3>1. t \in StreamsHeard /\ streams[t].by = 2
      BY <1>5, StreamIsTyped, TwoOpenings DEF StreamInv, StreamsHeard, StreamType
    <3> QED BY <1>1, <3>1 DEF StreamInv, StreamsAreOwned
  <2> QED BY <2>1
<1>7. Typed' /\ StreamsAreOwned'
  BY <1>1, <1>3, <1>5, <1>6 DEF StreamInv, Typed, StreamsAreOwned
<1>8. OpeningsAreStopped'
  BY <1>1, <1>2, <1>3, <1>4, TwoOpenings DEF OpeningsAreStopped
<1> QED BY <1>7, <1>8 DEF StreamInv

\* Leaving the tab stops both openings and closes every stream.
LEMMA LeaveKeepsInv ==
  ASSUME StreamInv, LeaveKitchen
  PROVE  StreamInv'
<1>1. /\ opening' = [i \in Openings |-> Stopped(i)] /\ streams' = Closed(Openings)
      /\ emitted' = emitted /\ kitchen'.roster = kitchen.roster
  BY DEF LeaveKitchen
<1>2. \A i \in Openings : /\ opening'[i] \in OpeningType /\ opening'[i].stopped
                          /\ opening'[i].step \notin {"stream", "pause"}
                          /\ opening[i].step = "none" => opening'[i].step = "none"
  BY <1>1, StoppedOpening DEF StreamInv
<1>3. opening' \in [Openings -> OpeningType]
  BY <1>1, StoppedOpening DEF StreamInv
<1>4. /\ streams' \in Seq(StreamType)
      /\ \A t \in StreamsHeard' : t \in StreamsHeard /\ streams[t].by \notin Openings
  BY <1>1, ClosedStreams DEF StreamInv
<1>5. StreamsHeard' = {}
  BY <1>4, StreamIsTyped DEF StreamInv, StreamsHeard, StreamType
<1>6. Typed' /\ StreamsAreOwned'
  BY <1>1, <1>3, <1>4, <1>5 DEF StreamInv, Typed, StreamsAreOwned
<1>7. OpeningsAreStopped'
  BY <1>1, <1>2, TwoOpenings DEF StreamInv, OpeningsAreStopped
<1> QED BY <1>6, <1>7 DEF StreamInv

-----------------------------------------------------------------------------

\* The invariant holds at first: the first opening is at its request.
LEMMA StreamsInit ==
  ASSUME KitchenInit
  PROVE  StreamInv
<1>1. /\ emitted = 0 /\ streams = <<>> /\ ~kitchen.left /\ ~kitchen.roster
      /\ opening = [i \in Openings |-> [step |-> IF i = 1 THEN "recent" ELSE "none",
                                        stopped |-> FALSE, read |-> 0]]
  BY DEF KitchenInit
<1>2. Typed
  BY <1>1 DEF Typed, OpeningType, OpeningSteps
<1>3. StreamsHeard = {}
  BY <1>1 DEF StreamsHeard
<1>4. OpeningsAreStopped
  BY <1>1, TwoOpenings DEF OpeningsAreStopped
<1> QED BY <1>2, <1>3, <1>4 DEF StreamInv, StreamsAreOwned

\* Every step of the kitchen keeps it.
LEMMA StreamsStep ==
  ASSUME StreamInv, [KitchenNext]_kitchenVars
  PROVE  StreamInv'
<1>0. emitted \in Nat
  BY DEF StreamInv, Typed
<1>1. CASE UNCHANGED kitchenVars
  BY <1>1 DEF kitchenVars, StreamInv, Typed, StreamsAreOwned, OpeningsAreStopped, StreamsHeard
<1>2. CASE EmitsOnBus
  BY <1>0, <1>2 DEF EmitsOnBus, StreamInv, Typed, StreamsAreOwned, OpeningsAreStopped, StreamsHeard
<1>3. CASE RosterLands
  BY <1>3, RosterKeepsInv
<1>4. CASE LeaveKitchen
  BY <1>4, LeaveKeepsInv
<1>5. ASSUME NEW i \in Openings,
             FirstPaint(i) \/ NoPaint(i) \/ NoTicket(i) \/ Reopen(i)
      PROVE  StreamInv'
  <2>1. /\ emitted' = emitted /\ streams' = streams
        /\ kitchen'.left = kitchen.left /\ kitchen'.roster = kitchen.roster
        /\ opening[i].step \notin {"none", "stream"}
        /\ OpeningGoes(i, "mint") \/ OpeningGoes(i, "over") \/ OpeningGoes(i, "recent")
    <3>1. CASE FirstPaint(i)
      BY <3>1 DEF FirstPaint
    <3>2. CASE NoPaint(i) \/ NoTicket(i)
      BY <3>2, FaultIsNoNavigation DEF NoPaint, NoTicket
    <3>3. CASE Reopen(i)
      BY <3>3 DEF Reopen
    <3> QED BY <1>5, <3>1, <3>2, <3>3
  <2>2. {"mint", "over", "recent"} \subseteq OpeningSteps \ {"stream", "pause"}
    BY DEF OpeningSteps
  <2> QED BY <1>0, <2>1, <2>2, OpeningGoesAlone
<1>6. ASSUME NEW i \in Openings, ReadRecent(i) \/ OpenStream(i)
      PROVE  StreamInv'
  BY <1>6, ReadKeepsInv, OpenKeepsInv
<1>7. ASSUME NEW t \in DOMAIN streams, RefuseStream(t) \/ BreakStream(t)
      PROVE  StreamInv'
  BY <1>7, ErrorKeepsInv DEF RefuseStream, BreakStream
<1>8. ASSUME NEW t \in DOMAIN streams, Connect(t) \/ ShowEvent(t)
      PROVE  StreamInv'
  BY <1>8, ConnectKeepsInv, ShowKeepsInv
<1> QED BY <1>1, <1>2, <1>3, <1>4, <1>5, <1>6, <1>7, <1>8 DEF KitchenNext

\* Two streams heard would be of two openings, both at their stream: the first is
\* stopped when the second begins.
LEMMA OneIsHeard ==
  ASSUME StreamInv
  PROVE  OneStream
<1>1. \A t \in StreamsHeard : streams[t].by \in Openings /\ ~opening[streams[t].by].stopped
                       /\ opening[streams[t].by].step = "stream"
  BY StreamIsTyped DEF StreamInv, StreamsAreOwned, OpeningsAreStopped, StreamsHeard, StreamType
<1>2. \A t, u \in StreamsHeard : t = u
  BY <1>1, TwoOpenings DEF StreamInv, StreamsAreOwned, OpeningsAreStopped
<1>3. kitchen.left => StreamsHeard = {}
  BY <1>1 DEF StreamInv, OpeningsAreStopped
<1>4. Cardinality(StreamsHeard) <= 1
  <2>1. CASE StreamsHeard = {}
    BY <2>1, FS_EmptySet
  <2>2. CASE StreamsHeard # {}
    <3>1. PICK t \in StreamsHeard : TRUE
      BY <2>2
    <3>2. StreamsHeard = {t}
      BY <1>2
    <3>3. Cardinality(StreamsHeard) = 1
      BY <3>2, FS_Singleton
    <3> QED BY <3>3
  <2> QED BY <2>1, <2>2
<1> QED BY <1>3, <1>4 DEF OneStream, StreamsHeard

\* However the answers to its two openings land, and whichever streams break, the
\* tab listens to one stream at most, and to none when it has been left: for any
\* number of events, streams and faults.
THEOREM ListensToOne == KitchenSpec => []OneStream
<1>1. KitchenInit => StreamInv
  BY StreamsInit
<1>2. StreamInv /\ [KitchenNext]_kitchenVars => StreamInv'
  BY StreamsStep
<1>3. StreamInv => OneStream
  BY OneIsHeard
<1> QED BY <1>1, <1>2, <1>3, PTL DEF KitchenSpec

-----------------------------------------------------------------------------
(* What the kitchen shows.                                                  *)

ScreenType == [shown : Seq(Nat), live : BOOLEAN, working : BOOLEAN]
FeedType == [roster : BOOLEAN, left : BOOLEAN, late : BOOLEAN, faults : Nat]

\* A list of events none of which comes after the one numbered n, in their order but
\* for one place; a place of 0 is none.
Ordered(shown, n, cut) ==
    /\ shown \in Seq(Nat) /\ cut \in 0..Len(shown)
    /\ \A k \in 1..Len(shown) : shown[k] <= n
    /\ \A k \in 1..(Len(shown) - 1) : k # cut => shown[k] < shown[k + 1]

\* What is shown beyond that place comes before the event numbered n.
Below(shown, n, cut) ==
    \A k \in 1..Len(shown) : k > cut => shown[k] < n

\* What is shown steps back at that place only, and only if a late paint is beneath;
\* what is beyond it is before what the open stream has next.
Fits(cut) ==
    /\ kitchen.late \/ cut = 0
    /\ Ordered(screen.shown, emitted, cut)
    /\ \A t \in StreamsHeard : streams[t].at = "open" => Below(screen.shown, streams[t].next, cut)

FeedInv ==
    /\ screen \in ScreenType /\ kitchen \in FeedType
    /\ \A i \in Openings : opening[i].step = "paint" => opening[i].read <= emitted
    /\ \A t \in StreamsHeard : streams[t].at = "open" => streams[t].next <= emitted + 1
    /\ \E cut \in Nat : Fits(cut)

LEMMA LeastOfTwo ==
  ASSUME NEW a \in Nat, NEW b \in Nat
  PROVE  Min({a, b}) \in Nat /\ Min({a, b}) <= b
<1>1. \E x \in {a, b} : \A y \in {a, b} : x <= y
  BY a <= b \/ b <= a
<1>2. Min({a, b}) \in {a, b} /\ \A y \in {a, b} : Min({a, b}) <= y
  BY <1>1 DEF Min
<1> QED BY <1>2

\* The end of a list.
LEMMA EndIsList ==
  ASSUME NEW events \in Seq(Nat), NEW n \in Nat
  PROVE  LastOf(events, n) \in Seq(Nat)
<1>1. PICK len \in Nat : len = Len(events)
  BY LenProperties
<1>2. PICK least \in Nat : least = Min({n, len}) /\ least <= len
  BY LeastOfTwo
<1>3. PICK since \in Nat : since = len - least + 1 /\ since >= 1
  BY <1>2
<1>4. \A i \in since..len : events[i] \in Nat
  <2>1. \A i \in since..len : i \in 1..len
    BY <1>3
  <2> QED BY <1>1, <2>1, ElementOfSeq
<1>5. SubSeq(events, since, len) \in Seq(Nat)
  <2>1. since \in Int /\ len \in Int
    OBVIOUS
  <2> QED BY <1>4, <2>1, SubSeqProperties
<1> QED BY <1>1, <1>2, <1>3, <1>5 DEF LastOf

\* The end of a list that steps back at one place at most steps back at one at most.
LEMMA LastOnes ==
  ASSUME NEW events, NEW bound, NEW cut \in Nat, Ordered(events, bound, cut), NEW n \in Nat,
         NEW top \in Nat, Below(events, top, cut)
  PROVE  \E later \in Nat :
             /\ cut = 0 => later = 0
             /\ Ordered(LastOf(events, n), bound, later) /\ Below(LastOf(events, n), top, later)
<1>1. PICK len \in Nat : len = Len(events)
  BY LenProperties DEF Ordered
<1>2. PICK least \in Nat : least = Min({n, len}) /\ least <= len
  BY LeastOfTwo
<1>3. PICK since \in Nat : since = len - least + 1 /\ since >= 1
  BY <1>2
<1>4. PICK kept : kept = SubSeq(events, since, len)
  OBVIOUS
<1>5. LastOf(events, n) = kept
  BY <1>1, <1>2, <1>3, <1>4 DEF LastOf
<1>6. \A i \in since..len : events[i] \in Nat
  <2>1. \A i \in since..len : i \in 1..len
    BY <1>3
  <2> QED BY <1>1, <2>1, ElementOfSeq DEF Ordered
<1>7. /\ kept \in Seq(Nat)
      /\ Len(kept) = IF since <= len THEN len - since + 1 ELSE 0
      /\ \A i \in 1..(len - since + 1) : kept[i] = events[since + i - 1]
  <2>1. since \in Int /\ len \in Int
    OBVIOUS
  <2> QED BY <1>4, <1>6, <2>1, SubSeqProperties
<1>8. Len(kept) = least
  <2>1. PICK size : size = Len(kept)
    OBVIOUS
  <2>2. size = IF since <= len THEN len - since + 1 ELSE 0
    BY <1>7, <2>1
  <2>3. size = least
    BY <1>2, <1>3, <2>2
  <2> QED BY <2>1, <2>3
<1>12. len - since + 1 = least
  BY <1>2, <1>3
<1>9. \A k \in 1..least : since + k - 1 \in 1..len /\ kept[k] = events[since + k - 1]
  <2>1. \A k \in 1..least : since + k - 1 \in 1..len
    BY <1>2, <1>3
  <2>2. \A k \in 1..least : kept[k] = events[since + k - 1]
    BY <1>7, <1>12
  <2> QED BY <2>1, <2>2
<1>10. \A k \in 1..least : kept[k] <= bound
  BY <1>1, <1>9 DEF Ordered
<1>13. cut <= len
  BY <1>1 DEF Ordered
<1>14. PICK later \in Nat :
          /\ later <= least
          /\ cut = 0 => later = 0
          /\ \A k \in 1..least : k # later => since + k - 1 # cut
          /\ \A k \in 1..least : k > later => since + k - 1 > cut
  <2>1. CASE cut < since
    <3>1. \A k \in 1..least : since + k - 1 > cut /\ since + k - 1 # cut
      BY <2>1
    <3>2. 0 \in Nat /\ 0 <= least
      OBVIOUS
    <3> WITNESS 0 \in Nat
    <3> QED BY <3>1, <3>2
  <2>2. CASE cut >= since
    <3>1. PICK place \in Nat : place = cut - since + 1
      BY <2>2
    <3>2. place <= least
      BY <1>2, <1>3, <1>13, <3>1
    <3>3. cut # 0
      BY <1>3, <2>2
    <3>4. \A k \in 1..least : /\ k # place => since + k - 1 # cut
                              /\ k > place => since + k - 1 > cut
      BY <3>1
    <3> QED BY <3>2, <3>3, <3>4
  <2> QED BY <2>1, <2>2
<1>11. ASSUME NEW k \in 1..(least - 1), k # later
       PROVE  kept[k] < kept[k + 1]
  <2>1. k \in 1..least /\ k + 1 \in 1..least /\ since + (k + 1) - 1 = (since + k - 1) + 1
    BY <1>3
  <2>2. since + k - 1 \in 1..(len - 1)
    BY <1>2, <1>3
  <2>3. events[since + k - 1] < events[(since + k - 1) + 1]
    BY <1>1, <1>11, <1>14, <2>1, <2>2 DEF Ordered
  <2> QED BY <1>9, <2>1, <2>3
<1>15. Ordered(kept, bound, later)
  <2>1. later \in 0..least
    BY <1>14
  <2>2. kept \in Seq(Nat) /\ later \in 0..Len(kept)
    BY <1>7, <1>8, <2>1
  <2> QED BY <1>8, <1>10, <1>11, <2>2 DEF Ordered
<1>16. Below(kept, top, later)
  <2>1. ASSUME NEW k \in 1..least, k > later
        PROVE  kept[k] < top
    BY <1>1, <1>9, <1>14, <2>1 DEF Below
  <2> QED BY <1>8, <2>1 DEF Below
<1> QED BY <1>5, <1>14, <1>15, <1>16

\* One event more, later than all that are shown beyond the place.
LEMMA OneMore ==
  ASSUME NEW shown, NEW bound \in Nat, NEW cut \in Nat, Ordered(shown, bound, cut),
         NEW n \in Nat, n <= bound, Below(shown, n, cut)
  PROVE  Ordered(Append(shown, n), bound, cut) /\ Below(Append(shown, n), n + 1, cut)
<1>1. PICK len \in Nat : len = Len(shown) /\ cut <= len
  BY LenProperties DEF Ordered
<1>2. PICK more : more = Append(shown, n)
  OBVIOUS
<1>3. /\ more \in Seq(Nat) /\ Len(more) = len + 1 /\ more[len + 1] = n
      /\ \A k \in 1..len : more[k] = shown[k] /\ shown[k] \in Nat
  <2>1. shown \in Seq(Nat)
    BY DEF Ordered
  <2> QED BY <1>1, <1>2, <2>1, AppendProperties, ElementOfSeq
<1>4. \A k \in 1..len : /\ shown[k] <= bound
                        /\ k > cut => shown[k] < n
  BY <1>1 DEF Ordered, Below
<1>5. \A k \in 1..(len - 1) : k # cut => shown[k] < shown[k + 1]
  BY <1>1 DEF Ordered
<1>6. ASSUME NEW k \in 1..(len + 1)
      PROVE  /\ more[k] <= bound
             /\ k > cut => more[k] < n + 1
  <2>1. CASE k = len + 1
    <3>1. more[k] = n
      BY <1>3, <2>1
    <3> QED BY <3>1
  <2>2. CASE k # len + 1
    <3>1. k \in 1..len
      BY <2>2
    <3>2. more[k] = shown[k] /\ shown[k] \in Nat
      BY <1>3, <3>1
    <3> QED BY <1>4, <3>1, <3>2
  <2> QED BY <2>1, <2>2
<1>7. ASSUME NEW k \in 1..len, k # cut
      PROVE  more[k] < more[k + 1]
  <2>1. CASE k = len
    <3>1. k > cut
      BY <1>1, <1>7, <2>1
    <3>2. more[k] = shown[k] /\ shown[k] < n
      BY <1>3, <1>4, <3>1
    <3>3. more[k + 1] = n
      BY <1>3, <2>1
    <3> QED BY <3>2, <3>3
  <2>2. CASE k # len
    <3>1. k \in 1..(len - 1) /\ k + 1 \in 1..len
      BY <2>2
    <3>2. more[k] = shown[k] /\ more[k + 1] = shown[k + 1]
      BY <1>3, <3>1
    <3> QED BY <1>5, <1>7, <3>1, <3>2
  <2> QED BY <2>1, <2>2
<1>8. Ordered(more, bound, cut)
  <2>1. cut \in 0..Len(more) /\ Len(more) - 1 = len
    BY <1>1, <1>3
  <2> QED BY <1>3, <1>6, <1>7, <2>1 DEF Ordered
<1>9. Below(more, n + 1, cut)
  BY <1>3, <1>6 DEF Below
<1> QED BY <1>2, <1>8, <1>9

\* The events of a first paint.
LEMMA FirstOnes ==
  ASSUME NEW n \in Nat, NEW all, all = [k \in 1..n |-> k]
  PROVE  Ordered(all, n, 0) /\ Below(all, n + 1, 0)
<1>1. all \in Seq(Nat) /\ Len(all) = n /\ \A k \in 1..n : all[k] = k
  OBVIOUS
<1>2. \A k \in 1..(n - 1) : k + 1 \in 1..n /\ k \in 1..n /\ k < k + 1
  OBVIOUS
<1> QED BY <1>1, <1>2 DEF Ordered, Below

LEMMA LaterBound ==
  ASSUME NEW shown, NEW cut, NEW n \in Nat, NEW m \in Nat, n <= m, Ordered(shown, n, cut)
  PROVE  Ordered(shown, m, cut)
<1>1. \A k \in 1..Len(shown) : shown[k] \in Nat
  BY ElementOfSeq DEF Ordered
<1> QED BY <1>1 DEF Ordered

\* A step that shows nothing, and opens no stream.
LEMMA NothingShown ==
  ASSUME StreamInv, FeedInv, StreamInv',
         screen' \in ScreenType, screen'.shown = screen.shown,
         kitchen' \in FeedType, kitchen'.late = kitchen.late, emitted' >= emitted,
         \A t \in StreamsHeard' : streams'[t].at = "open" =>
             t \in StreamsHeard /\ streams[t].at = "open" /\ streams'[t].next = streams[t].next,
         \A i \in Openings : opening'[i].step = "paint" => opening'[i].read <= emitted'
  PROVE  FeedInv'
<1>1. emitted \in Nat /\ emitted' \in Nat
  BY DEF StreamInv, Typed
<1>2. PICK cut \in Nat : Fits(cut)
  BY DEF FeedInv
<1>3. ASSUME NEW t \in StreamsHeard', streams'[t].at = "open"
      PROVE  streams'[t].next <= emitted' + 1 /\ Below(screen'.shown, streams'[t].next, cut)
  <2>1. t \in StreamsHeard /\ streams[t].at = "open" /\ streams'[t].next = streams[t].next
    BY <1>3
  <2>2. streams[t].next \in Nat
    BY <2>1, StreamIsTyped DEF StreamInv, StreamsHeard, StreamType
  <2>3. streams[t].next <= emitted + 1
    BY <2>1 DEF FeedInv
  <2>4. Below(screen.shown, streams[t].next, cut)
    BY <1>2, <2>1 DEF Fits
  <2>5. streams[t].next <= emitted' + 1
    BY <1>1, <2>2, <2>3
  <2> QED BY <2>1, <2>4, <2>5
<1>4. Ordered(screen'.shown, emitted', cut)
  <2>1. Ordered(screen.shown, emitted, cut)
    BY <1>2 DEF Fits
  <2>2. Ordered(screen.shown, emitted', cut)
    BY <1>1, <2>1, LaterBound
  <2> QED BY <2>2
<1>5. Fits(cut)'
  <2>1. kitchen'.late \/ cut = 0
    BY <1>2 DEF Fits
  <2> QED BY <1>3, <1>4, <2>1 DEF Fits
<1> QED BY <1>3, <1>5 DEF FeedInv

LEMMA FaultIsCounted ==
  ASSUME FeedInv, KitchenFault
  PROVE  kitchen' \in FeedType /\ kitchen'.late = kitchen.late
BY DEF KitchenFault, FeedInv, FeedType

LEMMA EmitsFeed ==
  ASSUME StreamInv, FeedInv, StreamInv', EmitsOnBus
  PROVE  FeedInv'
<1>1. /\ emitted \in Nat /\ emitted' = emitted + 1
      /\ opening' = opening /\ streams' = streams /\ screen' = screen /\ kitchen' = kitchen
  BY DEF EmitsOnBus, StreamInv, Typed
<1>2. emitted' >= emitted
  BY <1>1
<1>3. \A i \in Openings : opening'[i].step = "paint" => opening'[i].read <= emitted'
  <2>1. ASSUME NEW i \in Openings, opening[i].step = "paint"
        PROVE  opening[i].read <= emitted + 1
    <3>1. opening[i].read \in Nat /\ opening[i].read <= emitted
      BY <2>1 DEF StreamInv, Typed, OpeningType, FeedInv
    <3> QED BY <1>1, <3>1
  <2> QED BY <1>1, <2>1
<1>4. screen' \in ScreenType /\ kitchen' \in FeedType
  BY <1>1 DEF FeedInv
<1>5. \A t \in StreamsHeard' : t \in StreamsHeard
  BY <1>1 DEF StreamsHeard
<1>6. \A t \in StreamsHeard' : streams'[t].at = "open" =>
          t \in StreamsHeard /\ streams[t].at = "open" /\ streams'[t].next = streams[t].next
  BY <1>1, <1>5
<1>7. screen'.shown = screen.shown /\ kitchen'.late = kitchen.late
  BY <1>1
<1> QED BY <1>2, <1>3, <1>4, <1>6, <1>7, NothingShown

\* An opening goes on without a paint.
LEMMA OpeningFeed ==
  ASSUME StreamInv, FeedInv, StreamInv', NEW i \in Openings, NEW step, OpeningGoes(i, step),
         step # "paint", screen' = screen, emitted' = emitted,
         kitchen' \in FeedType, kitchen'.late = kitchen.late,
         \A t \in StreamsHeard' : streams'[t].at = "open" =>
             t \in StreamsHeard /\ streams[t].at = "open" /\ streams'[t].next = streams[t].next
  PROVE  FeedInv'
<1>1. \A k \in Openings : opening'[k].step = "paint" => opening'[k].read <= emitted'
  <2>1. opening \in [Openings -> OpeningType]
    BY DEF StreamInv, Typed
  <2>2. opening'[i].step = step /\ \A k \in Openings : k # i => opening'[k] = opening[k]
    BY <2>1 DEF OpeningGoes, OpeningType
  <2> QED BY <2>2 DEF FeedInv
<1>2. screen' \in ScreenType /\ screen'.shown = screen.shown
  BY DEF FeedInv
<1>3. emitted' >= emitted
  BY DEF StreamInv, Typed
<1> QED BY <1>1, <1>2, <1>3, NothingShown

LEMMA ReadFeed ==
  ASSUME StreamInv, FeedInv, StreamInv', NEW i \in Openings, ReadRecent(i)
  PROVE  FeedInv'
<1>1. PICK painting : painting = [opening[i] EXCEPT !.step = "paint", !.read = emitted]
  OBVIOUS
<1>2. /\ opening' = [opening EXCEPT ![i] = painting]
      /\ emitted' = emitted /\ streams' = streams /\ screen' = screen /\ kitchen' = kitchen
  BY <1>1 DEF ReadRecent
<1>3. opening \in [Openings -> OpeningType] /\ emitted \in Nat
  BY DEF StreamInv, Typed
<1>4. painting.read = emitted
  BY <1>1, <1>3 DEF OpeningType
<1>5. \A k \in Openings : opening'[k].step = "paint" => opening'[k].read <= emitted'
  <2>1. opening'[i] = painting /\ \A k \in Openings : k # i => opening'[k] = opening[k]
    BY <1>2, <1>3
  <2> QED BY <1>2, <1>3, <1>4, <2>1 DEF FeedInv
<1>6. screen' \in ScreenType /\ kitchen' \in FeedType
  BY <1>2 DEF FeedInv
<1>7. \A t \in StreamsHeard' : t \in StreamsHeard
  BY <1>2 DEF StreamsHeard
<1>8. \A t \in StreamsHeard' : streams'[t].at = "open" =>
          t \in StreamsHeard /\ streams[t].at = "open" /\ streams'[t].next = streams[t].next
  BY <1>2, <1>7
<1>9. screen'.shown = screen.shown /\ kitchen'.late = kitchen.late /\ emitted' >= emitted
  BY <1>2, <1>3
<1> QED BY <1>5, <1>6, <1>8, <1>9, NothingShown

\* A paint of an opening that was not stopped finds no stream heard.
LEMMA PaintFeed ==
  ASSUME StreamInv, FeedInv, StreamInv', NEW i \in Openings, FirstPaint(i)
  PROVE  FeedInv'
<1>1. /\ opening[i].step = "paint" /\ OpeningGoes(i, "mint")
      /\ emitted' = emitted /\ streams' = streams
  BY DEF FirstPaint
<1>2. opening \in [Openings -> OpeningType] /\ emitted \in Nat
  BY DEF StreamInv, Typed
<1>3. PICK read \in Nat : read = opening[i].read /\ read <= emitted
  BY <1>1, <1>2 DEF OpeningType, FeedInv
<1>4. PICK all : all = [k \in 1..read |-> k]
  OBVIOUS
<1>5. PICK painted : painted = LastOf(all, Painted)
  OBVIOUS
<1>6. Ordered(painted, emitted, 0)
  <2>1. Painted \in Nat /\ 0 \in Nat /\ read + 1 \in Nat
    OBVIOUS
  <2>2. Ordered(all, read, 0) /\ Below(all, read + 1, 0)
    BY <1>4, FirstOnes
  <2>3. Ordered(painted, read, 0)
    BY <1>5, <2>1, <2>2, LastOnes
  <2> QED BY <1>2, <1>3, <2>3, LaterBound
<1>7. \A k \in Openings : opening'[k].step = "paint" => opening'[k].read <= emitted'
  <2>1. opening'[i].step = "mint" /\ \A k \in Openings : k # i => opening'[k] = opening[k]
    BY <1>1, <1>2 DEF OpeningGoes, OpeningType
  <2> QED BY <1>1, <2>1 DEF FeedInv
<1>8. /\ StreamsHeard' = StreamsHeard
      /\ \A t \in StreamsHeard' : streams'[t].at = "open" => streams'[t].next <= emitted' + 1
  <2>1. StreamsHeard' = StreamsHeard
    BY <1>1 DEF StreamsHeard
  <2> QED BY <1>1, <2>1 DEF FeedInv
<1>9. CASE kitchen.left
  <2>1. screen' = screen /\ kitchen' = kitchen
    BY <1>9 DEF FirstPaint
  <2>2. PICK cut \in Nat : Fits(cut)
    BY DEF FeedInv
  <2>3. Fits(cut)'
    BY <1>1, <1>8, <2>1, <2>2 DEF Fits
  <2> QED BY <1>7, <1>8, <2>1, <2>3 DEF FeedInv
<1>10. CASE ~kitchen.left
  <2>1. PICK late \in BOOLEAN : late = opening[i].stopped
    BY <1>2 DEF OpeningType
  <2>2. kitchen' = [kitchen EXCEPT !.late = late] /\ screen' = [screen EXCEPT !.shown = painted]
    BY <1>3, <1>4, <1>5, <1>10, <2>1 DEF FirstPaint
  <2>3. kitchen' \in FeedType /\ kitchen'.late = late
    BY <2>2 DEF FeedInv, FeedType
  <2>4. screen' \in ScreenType /\ screen'.shown = painted
    <3>1. screen \in ScreenType
      BY DEF FeedInv
    <3>2. painted \in Seq(Nat)
      BY <1>6 DEF Ordered
    <3> QED BY <2>2, <3>1, <3>2 DEF ScreenType
  <2>5. CASE late
    <3>1. PICK end \in Nat : end = Len(painted)
      BY <1>6, LenProperties DEF Ordered
    <3>2. Ordered(painted, emitted, end)
      BY <1>6, <3>1 DEF Ordered
    <3>3. \A n : Below(painted, n, end)
      BY <3>1 DEF Below
    <3>4. Fits(end)'
      BY <1>1, <2>3, <2>4, <2>5, <3>2, <3>3 DEF Fits
    <3> QED BY <1>7, <1>8, <2>3, <2>4, <3>4 DEF FeedInv
  <2>6. CASE ~late
    <3>1. StreamsHeard = {}
      <4> SUFFICES ASSUME NEW t \in StreamsHeard
                   PROVE  FALSE
        OBVIOUS
      <4>1. PICK k \in Openings : k = streams[t].by
        BY StreamIsTyped DEF StreamInv, StreamsHeard, StreamType
      <4>2. opening[k].step = "stream" /\ ~opening[k].stopped
        BY <4>1 DEF StreamInv, StreamsAreOwned, OpeningsAreStopped
      <4>3. k # i /\ opening[i].step # "none" /\ opening[k].step # "none"
        BY <1>1, <4>2
      <4>4. opening[1].stopped \/ opening[2].step = "none"
        BY DEF StreamInv, OpeningsAreStopped
      <4> QED BY <2>1, <2>6, <4>2, <4>3, <4>4, TwoOpenings
    <3>2. Fits(0)'
      BY <1>1, <1>6, <1>8, <2>4, <3>1 DEF Fits
    <3> QED BY <1>7, <1>8, <2>3, <2>4, <3>2 DEF FeedInv
  <2> QED BY <2>5, <2>6
<1> QED BY <1>9, <1>10

\* The streams that are open stay as they were.
LEMMA SameStreams ==
  ASSUME streams' = streams
  PROVE  \A t \in StreamsHeard' : streams'[t].at = "open" =>
             t \in StreamsHeard /\ streams[t].at = "open" /\ streams'[t].next = streams[t].next
BY DEF StreamsHeard

LEMMA OpenFeed ==
  ASSUME StreamInv, FeedInv, StreamInv', NEW i \in Openings, OpenStream(i)
  PROVE  FeedInv'
<1>1. screen' = screen /\ emitted' = emitted /\ kitchen' \in FeedType /\ kitchen'.late = kitchen.late
  BY DEF OpenStream, FeedInv
<1>2. CASE ~StillWanted(i)
  <2>1. OpeningGoes(i, "over") /\ streams' = streams
    BY <1>2 DEF OpenStream
  <2> QED BY <1>1, <2>1, SameStreams, OpeningFeed
<1>3. CASE StillWanted(i)
  <2>1. PICK wanted : wanted = [by |-> i, at |-> "asked", next |-> 0, beats |-> FALSE]
    OBVIOUS
  <2>2. wanted \in StreamType /\ wanted.at = "asked"
    BY <2>1 DEF StreamType
  <2>3. streams' = Append(streams, wanted) /\ OpeningGoes(i, "stream")
    BY <1>3, <2>1 DEF OpenStream
  <2>4. /\ Len(streams) \in Nat
        /\ DOMAIN streams = 1..Len(streams) /\ DOMAIN streams' = 1..(Len(streams) + 1)
        /\ streams'[Len(streams) + 1] = wanted
        /\ \A t \in 1..Len(streams) : streams'[t] = streams[t]
    BY <2>2, <2>3, AppendProperties, LenProperties DEF StreamInv, Typed
  <2>5. ASSUME NEW t \in StreamsHeard', streams'[t].at = "open"
        PROVE  t \in StreamsHeard /\ streams[t].at = "open" /\ streams'[t].next = streams[t].next
    <3>1. t \in 1..(Len(streams) + 1)
      BY <2>4 DEF StreamsHeard
    <3>2. t # Len(streams) + 1
      BY <2>2, <2>4, <2>5
    <3>3. t \in 1..Len(streams)
      BY <2>4, <3>1, <3>2
    <3>4. streams'[t] = streams[t]
      BY <2>4, <3>3
    <3> QED BY <2>4, <2>5, <3>3, <3>4 DEF StreamsHeard
  <2> QED BY <1>1, <2>3, <2>5, OpeningFeed
<1> QED BY <1>2, <1>3

LEMMA GoesOnFeed ==
  ASSUME StreamInv, FeedInv, StreamInv', NEW i \in Openings,
         NoPaint(i) \/ NoTicket(i) \/ Reopen(i)
  PROVE  FeedInv'
<1>1. /\ OpeningGoes(i, "mint") \/ OpeningGoes(i, "over") \/ OpeningGoes(i, "recent")
      /\ screen' = screen /\ emitted' = emitted /\ streams' = streams
  BY DEF NoPaint, NoTicket, Reopen
<1>2. kitchen' \in FeedType /\ kitchen'.late = kitchen.late
  <2>1. CASE Reopen(i)
    BY <2>1 DEF Reopen, FeedInv
  <2>2. CASE NoPaint(i) \/ NoTicket(i)
    BY <2>2, FaultIsCounted DEF NoPaint, NoTicket
  <2> QED BY <2>1, <2>2
<1>3. \A t \in StreamsHeard' : streams'[t].at = "open" =>
          t \in StreamsHeard /\ streams[t].at = "open" /\ streams'[t].next = streams[t].next
  BY <1>1, SameStreams
<1> QED BY <1>1, <1>2, <1>3, OpeningFeed

\* The API subscribes the stream to the events to come.
LEMMA ConnectFeed ==
  ASSUME StreamInv, FeedInv, StreamInv', NEW t \in DOMAIN streams, Connect(t)
  PROVE  FeedInv'
<1>1. PICK s : s = [streams[t] EXCEPT !.at = "open", !.next = emitted + 1, !.beats = TRUE]
  OBVIOUS
<1>2. streams[t] \in StreamType /\ emitted \in Nat /\ emitted + 1 \in Nat
  BY StreamIsTyped DEF StreamInv, Typed
<1>3. s \in StreamType /\ s.by = streams[t].by /\ s.next = emitted + 1
  <2> HIDE KitchenAssumption
  <2> QED BY <1>1, <1>2 DEF StreamType
<1>4. /\ streams' = [streams EXCEPT ![t] = s] /\ screen' = [screen EXCEPT !.live = TRUE]
      /\ emitted' = emitted /\ opening' = opening /\ kitchen' = kitchen
  BY <1>1 DEF Connect
<1>5. /\ DOMAIN streams' = DOMAIN streams /\ streams'[t] = s
      /\ \A u \in DOMAIN streams : u # t => streams'[u] = streams[u]
  BY <1>3, <1>4, StreamReplaced DEF StreamInv
<1>6. screen' \in ScreenType /\ screen'.shown = screen.shown /\ kitchen' \in FeedType
  BY <1>4 DEF FeedInv, ScreenType
<1>7. \A i \in Openings : opening'[i].step = "paint" => opening'[i].read <= emitted'
  BY <1>4 DEF FeedInv
<1>8. PICK cut \in Nat : Fits(cut)
  BY DEF FeedInv
<1>9. Ordered(screen'.shown, emitted', cut)
  BY <1>4, <1>6, <1>8 DEF Fits
<1>10. ASSUME NEW u \in StreamsHeard', streams'[u].at = "open"
       PROVE  streams'[u].next <= emitted' + 1 /\ Below(screen'.shown, streams'[u].next, cut)
  <2>1. CASE u = t
    <3>1. streams'[u].next = emitted + 1
      BY <1>3, <1>5, <2>1
    <3>2. ASSUME NEW k \in 1..Len(screen'.shown)
          PROVE  screen'.shown[k] < emitted + 1
      <4>1. screen'.shown[k] \in Nat /\ screen'.shown[k] <= emitted
        BY <1>4, <1>9, ElementOfSeq DEF Ordered
      <4> QED BY <1>2, <4>1
    <3>3. Below(screen'.shown, emitted + 1, cut)
      BY <3>2 DEF Below
    <3>4. emitted + 1 <= emitted' + 1
      BY <1>2, <1>4
    <3> QED BY <3>1, <3>3, <3>4
  <2>2. CASE u # t
    <3>1. u \in DOMAIN streams /\ streams'[u] = streams[u] /\ u \in StreamsHeard
      BY <1>5, <2>2 DEF StreamsHeard
    <3>2. streams[u].next <= emitted + 1
      BY <1>10, <3>1 DEF FeedInv
    <3>3. Below(screen.shown, streams[u].next, cut)
      BY <1>8, <1>10, <3>1 DEF Fits
    <3> QED BY <1>4, <1>6, <3>1, <3>2, <3>3
  <2> QED BY <2>1, <2>2
<1>11. Fits(cut)'
  <2>1. kitchen'.late \/ cut = 0
    BY <1>4, <1>8 DEF Fits
  <2> QED BY <1>9, <1>10, <2>1 DEF Fits
<1> QED BY <1>6, <1>7, <1>10, <1>11 DEF FeedInv

LEMMA ErrorFeed ==
  ASSUME StreamInv, FeedInv, StreamInv', NEW t \in DOMAIN streams, NEW beats \in BOOLEAN,
         Errored(t, beats)
  PROVE  FeedInv'
<1>1. PICK s : s = [streams[t] EXCEPT !.at = "closed", !.beats = beats]
  OBVIOUS
<1>2. streams[t] \in StreamType
  BY StreamIsTyped DEF StreamInv
<1>3. s \in StreamType /\ s.by = streams[t].by /\ s.at = "closed" /\ streams[t].by \in Openings
  BY <1>1, <1>2 DEF StreamType
<1>4. /\ streams' = [streams EXCEPT ![t] = s] /\ screen' = [screen EXCEPT !.live = FALSE]
      /\ emitted' = emitted /\ OpeningGoes(streams[t].by, "pause") /\ KitchenFault
  BY <1>1 DEF Errored
<1>5. /\ DOMAIN streams' = DOMAIN streams /\ streams'[t] = s
      /\ \A u \in DOMAIN streams : u # t => streams'[u] = streams[u]
  BY <1>3, <1>4, StreamReplaced DEF StreamInv
<1>6. screen' \in ScreenType /\ screen'.shown = screen.shown
  BY <1>4 DEF FeedInv, ScreenType
<1>7. ASSUME NEW u \in StreamsHeard', streams'[u].at = "open"
      PROVE  u \in StreamsHeard /\ streams[u].at = "open" /\ streams'[u].next = streams[u].next
  BY <1>3, <1>5, <1>7 DEF StreamsHeard
<1>8. \A k \in Openings : opening'[k].step = "paint" => opening'[k].read <= emitted'
  <2>1. opening \in [Openings -> OpeningType]
    BY DEF StreamInv, Typed
  <2>2. /\ opening'[streams[t].by].step = "pause"
        /\ \A k \in Openings : k # streams[t].by => opening'[k] = opening[k]
    BY <1>3, <1>4, <2>1 DEF OpeningGoes, OpeningType
  <2> QED BY <1>4, <2>2 DEF FeedInv
<1>9. emitted' >= emitted
  BY <1>4 DEF StreamInv, Typed
<1>10. kitchen' \in FeedType /\ kitchen'.late = kitchen.late
  BY <1>4, FaultIsCounted
<1> QED BY <1>6, <1>7, <1>8, <1>9, <1>10, NothingShown

\* The next event of the one stream that is open comes after all those shown.
LEMMA ShowFeed ==
  ASSUME StreamInv, FeedInv, StreamInv', NEW t \in DOMAIN streams, ShowEvent(t)
  PROVE  FeedInv'
<1>1. PICK n : n = streams[t].next
  OBVIOUS
<1>2. streams[t] \in StreamType /\ n \in Nat /\ n + 1 \in Nat /\ emitted \in Nat
  BY <1>1, StreamIsTyped DEF StreamInv, Typed, StreamType
<1>3. t \in StreamsHeard /\ streams[t].at = "open" /\ n <= emitted
  BY <1>1 DEF ShowEvent, StreamsHeard
<1>4. PICK s : s = [streams[t] EXCEPT !.next = n + 1]
  OBVIOUS
<1>5. s \in StreamType /\ s.by = streams[t].by /\ s.next = n + 1
  BY <1>2, <1>4 DEF StreamType
<1>6. PICK shown : shown = LastOf(Append(screen.shown, n), Ticker)
  OBVIOUS
<1>7. PICK working \in BOOLEAN : working = (n % 2 = 1)
  OBVIOUS
<1>8. /\ streams' = [streams EXCEPT ![t] = s]
      /\ screen' = [screen EXCEPT !.shown = shown, !.working = working]
      /\ emitted' = emitted /\ opening' = opening /\ kitchen' = kitchen
  BY <1>1, <1>4, <1>6, <1>7 DEF ShowEvent
<1>9. /\ DOMAIN streams' = DOMAIN streams /\ streams'[t] = s
      /\ \A u \in DOMAIN streams : u # t => streams'[u] = streams[u]
  BY <1>5, <1>8, StreamReplaced DEF StreamInv
<1>10. \A u \in StreamsHeard : u = t
  <2>1. OneStream
    BY OneIsHeard
  <2>2. \A u \in StreamsHeard : streams[u].by \in Openings /\ ~opening[streams[u].by].stopped
                         /\ opening[streams[u].by].step = "stream"
    BY StreamIsTyped DEF StreamInv, StreamsAreOwned, OpeningsAreStopped, StreamsHeard, StreamType
  <2> QED BY <1>3, <2>2, TwoOpenings DEF StreamInv, StreamsAreOwned, OpeningsAreStopped
<1>11. ASSUME NEW u \in StreamsHeard'
       PROVE  u = t
  <2>1. u # t => u \in StreamsHeard
    BY <1>9 DEF StreamsHeard
  <2> QED BY <1>10, <2>1
<1>12. screen.shown \in Seq(Nat) /\ Ticker \in Nat
  BY DEF FeedInv, ScreenType
<1>13. PICK cut \in Nat : Fits(cut)
  BY DEF FeedInv
<1>14. shown \in Seq(Nat)
  <2>1. PICK more : more = Append(screen.shown, n)
    OBVIOUS
  <2>2. more \in Seq(Nat)
    BY <1>2, <1>12, <2>1
  <2> QED BY <1>6, <1>12, <2>1, <2>2, EndIsList
<1>15. screen' \in ScreenType /\ screen'.shown = shown
  BY <1>7, <1>8, <1>14 DEF FeedInv, ScreenType
<1>16. PICK later \in Nat :
           /\ cut = 0 => later = 0
           /\ Ordered(shown, emitted, later) /\ Below(shown, n + 1, later)
  <2>1. Ordered(screen.shown, emitted, cut) /\ Below(screen.shown, n, cut)
    BY <1>1, <1>3, <1>13 DEF Fits
  <2>2. PICK more : more = Append(screen.shown, n)
    OBVIOUS
  <2>3. Ordered(more, emitted, cut) /\ Below(more, n + 1, cut)
    BY <1>2, <1>3, <2>1, <2>2, OneMore
  <2> QED BY <1>2, <1>6, <1>12, <2>2, <2>3, LastOnes
<1>17. \A i \in Openings : opening'[i].step = "paint" => opening'[i].read <= emitted'
  BY <1>8 DEF FeedInv
<1>18. kitchen' \in FeedType
  BY <1>8 DEF FeedInv
<1>19. ASSUME NEW u \in StreamsHeard', streams'[u].at = "open"
       PROVE  streams'[u].next <= emitted' + 1 /\ Below(screen'.shown, streams'[u].next, later)
  <2>1. streams'[u].next = n + 1
    BY <1>5, <1>9, <1>11
  <2> QED BY <1>2, <1>3, <1>8, <1>15, <1>16, <2>1
<1>20. Fits(later)'
  <2>1. kitchen'.late \/ later = 0
    BY <1>8, <1>13, <1>16 DEF Fits
  <2> QED BY <1>8, <1>15, <1>16, <1>19, <2>1 DEF Fits
<1> QED BY <1>15, <1>17, <1>18, <1>19, <1>20 DEF FeedInv

\* The tab's own steps open no stream.
LEMMA TabFeed ==
  ASSUME StreamInv, FeedInv, StreamInv', RosterLands \/ LeaveKitchen
  PROVE  FeedInv'
<1>1. screen' = screen /\ emitted' = emitted
  BY DEF RosterLands, LeaveKitchen
<1>2. PICK open : streams' = Closed(open)
  BY DEF RosterLands, LeaveKitchen
<1>3. ASSUME NEW t \in StreamsHeard', streams'[t].at = "open"
      PROVE  t \in StreamsHeard /\ streams[t].at = "open" /\ streams'[t].next = streams[t].next
  <2>1. t \in DOMAIN streams
    BY <1>2 DEF StreamsHeard, Closed
  <2>2. streams[t] \in StreamType
    BY <2>1, StreamIsTyped DEF StreamInv
  <2>3. streams'[t] = IF streams[t].by \in open THEN [streams[t] EXCEPT !.at = "closed"]
                      ELSE streams[t]
    BY <1>2, <2>1 DEF Closed
  <2>4. [streams[t] EXCEPT !.at = "closed"].at = "closed"
    BY <2>2 DEF StreamType
  <2> QED BY <1>3, <2>1, <2>3, <2>4 DEF StreamsHeard
<1>4. kitchen' \in FeedType /\ kitchen'.late = kitchen.late
  BY DEF RosterLands, LeaveKitchen, FeedInv, FeedType
<1>5. \A k \in Openings : opening'[k].step = "paint" => opening'[k].read <= emitted'
  <2>1. opening \in [Openings -> OpeningType]
    BY DEF StreamInv, Typed
  <2>2. ASSUME NEW i \in Openings
        PROVE  Stopped(i).step = "paint" => opening[i].step = "paint" /\ Stopped(i).read = opening[i].read
    <3>1. opening[i] \in OpeningType
      BY <2>1
    <3> QED BY <3>1 DEF Stopped, OpeningType
  <2>3. CASE LeaveKitchen
    <3>1. opening' = [i \in Openings |-> Stopped(i)]
      BY <2>3 DEF LeaveKitchen
    <3>2. \A i \in Openings : opening'[i] = Stopped(i)
      BY <3>1
    <3> QED BY <1>1, <2>2, <3>2 DEF FeedInv
  <2>4. CASE RosterLands
    <3>1. PICK begun : begun = [opening[2] EXCEPT !.step = "recent"]
      OBVIOUS
    <3>2. begun.step = "recent"
      BY <2>1, <3>1, TwoOpenings DEF OpeningType
    <3>3. opening' = [[opening EXCEPT ![1] = Stopped(1)] EXCEPT ![2] = begun]
      BY <2>1, <2>4, <3>1 DEF RosterLands
    <3>4. opening'[1] = Stopped(1) /\ opening'[2] = begun
      BY <2>1, <3>3, TwoOpenings
    <3>5. 1 \in Openings
      BY TwoOpenings
    <3> QED BY <1>1, <2>2, <3>2, <3>4, <3>5, TwoOpenings DEF FeedInv
  <2> QED BY <2>3, <2>4
<1>6. screen' \in ScreenType /\ screen'.shown = screen.shown /\ emitted' >= emitted
  BY <1>1 DEF FeedInv, StreamInv, Typed
<1> QED BY <1>3, <1>4, <1>5, <1>6, NothingShown

LEMMA FeedStart ==
  ASSUME KitchenInit
  PROVE  FeedInv
<1>1. /\ emitted = 0 /\ streams = <<>>
      /\ screen = [shown |-> <<>>, live |-> FALSE, working |-> FALSE]
      /\ kitchen = [roster |-> FALSE, left |-> FALSE, late |-> FALSE, faults |-> 0]
      /\ opening = [i \in Openings |-> [step |-> IF i = 1 THEN "recent" ELSE "none",
                                        stopped |-> FALSE, read |-> 0]]
  BY DEF KitchenInit
<1>2. StreamsHeard = {}
  BY <1>1 DEF StreamsHeard
<1>3. Fits(0)
  <2>1. Ordered(screen.shown, emitted, 0)
    BY <1>1 DEF Ordered
  <2> QED BY <1>2, <2>1 DEF Fits
<1>4. screen \in ScreenType /\ kitchen \in FeedType
  BY <1>1 DEF ScreenType, FeedType
<1>5. \A i \in Openings : opening[i].read <= emitted
  BY <1>1
<1> QED BY <1>2, <1>3, <1>4, <1>5 DEF FeedInv

LEMMA FeedStep ==
  ASSUME StreamInv /\ FeedInv, [KitchenNext]_kitchenVars
  PROVE  StreamInv' /\ FeedInv'
<1>0. StreamInv'
  BY StreamsStep
<1>1. CASE UNCHANGED kitchenVars
  <2>1. emitted' = emitted /\ opening' = opening /\ streams' = streams /\ screen' = screen
        /\ kitchen' = kitchen
    BY <1>1 DEF kitchenVars
  <2>2. StreamsHeard' = StreamsHeard
    BY <2>1 DEF StreamsHeard
  <2>3. \A cut : Fits(cut) => Fits(cut)'
    BY <2>1, <2>2 DEF Fits
  <2> QED BY <1>0, <2>1, <2>2, <2>3 DEF FeedInv
<1>2. CASE EmitsOnBus
  BY <1>0, <1>2, EmitsFeed
<1>3. CASE RosterLands \/ LeaveKitchen
  BY <1>0, <1>3, TabFeed
<1>4. ASSUME NEW i \in Openings,
             ReadRecent(i) \/ FirstPaint(i) \/ NoPaint(i) \/ OpenStream(i) \/ NoTicket(i) \/ Reopen(i)
      PROVE  FeedInv'
  BY <1>0, <1>4, ReadFeed, PaintFeed, GoesOnFeed, OpenFeed
<1>5. ASSUME NEW t \in DOMAIN streams, Connect(t)
      PROVE  FeedInv'
  BY <1>0, <1>5, ConnectFeed
<1>6. ASSUME NEW t \in DOMAIN streams, RefuseStream(t) \/ BreakStream(t)
      PROVE  FeedInv'
  BY <1>0, <1>6, ErrorFeed DEF RefuseStream, BreakStream
<1>7. ASSUME NEW t \in DOMAIN streams, ShowEvent(t)
      PROVE  FeedInv'
  BY <1>0, <1>7, ShowFeed
<1> QED BY <1>0, <1>1, <1>2, <1>3, <1>4, <1>5, <1>6, <1>7 DEF KitchenNext

\* The tab shows the events in their order, each once, however often the stream
\* breaks and is opened again over a fresh paint; over the paint of a stopped opening
\* that comes late they step back at one place at most (kitchen-tab.tsx): for any
\* number of events and of faults.
THEOREM ShowsInOrder == KitchenSpec => []ShownInOrder
<1>1. KitchenInit => StreamInv /\ FeedInv
  BY StreamsInit, FeedStart
<1>2. (StreamInv /\ FeedInv) /\ [KitchenNext]_kitchenVars => (StreamInv /\ FeedInv)'
  BY FeedStep
<1>3. FeedInv => ShownInOrder
  <2> SUFFICES ASSUME FeedInv PROVE ShownInOrder
    OBVIOUS
  <2>1. PICK cut \in Nat : Fits(cut)
    BY DEF FeedInv
  <2> QED BY <2>1 DEF Fits, Ordered, ShownInOrder
<1> QED BY <1>1, <1>2, <1>3, PTL DEF KitchenSpec

HIDE KitchenAssumption

-----------------------------------------------------------------------------
(* EventBridge.                                                             *)

EventType == [origin : Replicas, n : Nat]
BridgeType == [events : Nat, faults : Nat, heard : [Replicas -> SUBSET EventType],
               twice : {FALSE}, attempt : [Replicas -> Nat \ {0}]]

\* Who has heard what (h), what is arriving (a) and being published (p), n events
\* having been emitted: each was heard where it was emitted; what a replica is to
\* hear of others it has not heard; nothing arrives twice, or while it is still
\* being published.
Once(h, a, p, n) ==
    /\ h \in [Replicas -> SUBSET EventType]
    /\ a \in [Replicas -> Seq(EventType)]
    /\ p \subseteq EventType
    /\ \A r \in Replicas : \A e \in h[r] : e.n <= n /\ e \in h[e.origin]
    /\ \A e \in p :
           /\ e \in h[e.origin]
           /\ \A r \in Replicas : /\ r # e.origin => e \notin h[r]
                                  /\ \A i \in 1..Len(a[r]) : a[r][i] # e
    /\ \A r \in Replicas : \A i \in 1..Len(a[r]) :
           /\ a[r][i] \in h[a[r][i].origin]
           /\ r # a[r][i].origin => a[r][i] \notin h[r]
           /\ \A j \in 1..Len(a[r]) : a[r][i] = a[r][j] => i = j

BridgeInv ==
    /\ bridge \in BridgeType
    /\ Once(bridge.heard, arriving, publishing, bridge.events)
    /\ sub \in [Replicas -> {"none", "connecting", "live", "deaf"}]
    /\ retry \in [Replicas -> Nat]
    /\ \A r \in Replicas : sub[r] = "none" <=> retry[r] # 0

\* emit().
LEMMA EmittedOnce ==
  ASSUME NEW h, NEW a, NEW p, NEW n \in Nat, Once(h, a, p, n), NEW r \in Replicas,
         NEW e, e = [origin |-> r, n |-> n + 1],
         NEW h2, h2 = [h EXCEPT ![r] = @ \cup {e}]
  PROVE  /\ e \notin h[r]
         /\ Once(h2, a, p \cup {e}, n + 1)
<1>1. /\ h \in [Replicas -> SUBSET EventType]
      /\ a \in [Replicas -> Seq(EventType)] /\ p \subseteq EventType
      /\ \A q \in Replicas : \A x \in h[q] : x.n <= n /\ x \in h[x.origin]
  BY DEF Once
<1>2. e \in EventType /\ e.n = n + 1 /\ e.origin = r
  BY DEF EventType
<1>3. \A q \in Replicas : \A x \in h[q] : x \in EventType /\ x.n \in Nat /\ x.origin \in Replicas
  BY <1>1 DEF EventType
<1>4. \A q \in Replicas : e \notin h[q]
  BY <1>1, <1>2, <1>3
<1>5. /\ h2 \in [Replicas -> SUBSET EventType]
      /\ \A q \in Replicas : \A x \in EventType : x \in h2[q] <=> x \in h[q] \/ (q = r /\ x = e)
  BY <1>1, <1>2
<1>6. \A q \in Replicas : \A i \in 1..Len(a[q]) :
          /\ a[q][i] \in EventType /\ a[q][i].origin \in Replicas
          /\ a[q][i] \in h[a[q][i].origin]
          /\ q # a[q][i].origin => a[q][i] \notin h[q]
          /\ \A j \in 1..Len(a[q]) : a[q][i] = a[q][j] => i = j
  <2>1. \A q \in Replicas : \A i \in 1..Len(a[q]) : a[q][i] \in EventType
    BY <1>1, ElementOfSeq
  <2> QED BY <2>1 DEF Once, EventType
<1>7. \A q \in Replicas : \A i \in 1..Len(a[q]) : a[q][i] # e
  BY <1>4, <1>6
<1>8. \A q \in Replicas : \A x \in h2[q] : x.n <= n + 1 /\ x \in h2[x.origin]
  BY <1>1, <1>2, <1>3, <1>5
<1>9. ASSUME NEW x \in p \cup {e}
      PROVE  /\ x \in h2[x.origin]
             /\ \A q \in Replicas : /\ q # x.origin => x \notin h2[q]
                                    /\ \A i \in 1..Len(a[q]) : a[q][i] # x
  <2>1. CASE x = e
    BY <1>2, <1>4, <1>5, <1>7, <2>1
  <2>2. CASE x # e
    <3>1. /\ x \in p /\ x \in EventType /\ x.origin \in Replicas /\ x \in h[x.origin]
          /\ \A q \in Replicas : /\ q # x.origin => x \notin h[q]
                                 /\ \A i \in 1..Len(a[q]) : a[q][i] # x
      BY <1>1, <2>2 DEF Once, EventType
    <3> QED BY <1>5, <2>2, <3>1
  <2> QED BY <2>1, <2>2
<1>10. \A q \in Replicas : \A i \in 1..Len(a[q]) :
          /\ a[q][i] \in h2[a[q][i].origin]
          /\ q # a[q][i].origin => a[q][i] \notin h2[q]
  BY <1>5, <1>6, <1>7
<1>11. p \cup {e} \subseteq EventType
  BY <1>1, <1>2
<1>12. Once(h2, a, p \cup {e}, n + 1)
  BY <1>1, <1>5, <1>6, <1>8, <1>9, <1>10, <1>11 DEF Once
<1> QED BY <1>4, <1>12

\* PUBLISH lands: what it brings to the replicas is new to them.
LEMMA LandedOnce ==
  ASSUME NEW h, NEW a, NEW p, NEW n, Once(h, a, p, n), NEW e \in p,
         NEW Live, NEW a2, a2 = [r \in Replicas |-> IF r \in Live THEN Append(a[r], e) ELSE a[r]]
  PROVE  Once(h, a2, p \ {e}, n)
<1>1. /\ h \in [Replicas -> SUBSET EventType]
      /\ a \in [Replicas -> Seq(EventType)] /\ p \subseteq EventType /\ e \in EventType
      /\ e \in h[e.origin]
      /\ \A q \in Replicas : /\ q # e.origin => e \notin h[q]
                             /\ \A i \in 1..Len(a[q]) : a[q][i] # e
  BY DEF Once
<1>2. \A r \in Replicas : a[r] \in Seq(EventType) /\ Len(a[r]) \in Nat
  BY <1>1, LenProperties
<1>3. ASSUME NEW r \in Replicas
      PROVE  /\ a2[r] \in Seq(EventType)
             /\ \A i \in 1..Len(a2[r]) :
                    \/ i \in 1..Len(a[r]) /\ a2[r][i] = a[r][i]
                    \/ i = Len(a[r]) + 1 /\ a2[r][i] = e
  <2>1. CASE r \in Live
    <3>1. a2[r] = Append(a[r], e)
      BY <2>1
    <3>2. /\ Append(a[r], e) \in Seq(EventType) /\ Len(Append(a[r], e)) = Len(a[r]) + 1
          /\ \A i \in 1..Len(a[r]) : Append(a[r], e)[i] = a[r][i]
          /\ Append(a[r], e)[Len(a[r]) + 1] = e
      BY <1>1, <1>2, AppendProperties
    <3> QED BY <1>2, <3>1, <3>2
  <2>2. CASE r \notin Live
    BY <1>2, <2>2
  <2> QED BY <2>1, <2>2
<1>4. a2 \in [Replicas -> Seq(EventType)]
  BY <1>3
<1>5. \A r \in Replicas : \A i \in 1..Len(a2[r]) :
          /\ a2[r][i] \in h[a2[r][i].origin]
          /\ r # a2[r][i].origin => a2[r][i] \notin h[r]
  BY <1>1, <1>3 DEF Once
<1>6. \A r \in Replicas : \A i, j \in 1..Len(a2[r]) : a2[r][i] = a2[r][j] => i = j
  BY <1>1, <1>3 DEF Once
<1>7. \A x \in p \ {e} :
          /\ x \in h[x.origin]
          /\ \A r \in Replicas : /\ r # x.origin => x \notin h[r]
                                 /\ \A i \in 1..Len(a2[r]) : a2[r][i] # x
  BY <1>3 DEF Once
<1>8. \A r \in Replicas : \A x \in h[r] : x.n <= n /\ x \in h[x.origin]
  BY DEF Once
<1> QED BY <1>1, <1>4, <1>5, <1>6, <1>7, <1>8 DEF Once

\* What was on its way is no more.
LEMMA LostOnce ==
  ASSUME NEW h, NEW a, NEW p, NEW n, Once(h, a, p, n), NEW e, NEW r \in Replicas
  PROVE  /\ Once(h, a, p \ {e}, n)
         /\ Once(h, [a EXCEPT ![r] = <<>>], p, n)
<1>1. Once(h, a, p \ {e}, n)
  BY DEF Once
<1>2. PICK b : b = [a EXCEPT ![r] = <<>>]
  OBVIOUS
<1>3. /\ <<>> \in Seq(EventType) /\ Len(<<>>) = 0 /\ a \in [Replicas -> Seq(EventType)]
  BY EmptySeq DEF Once
<1>4. /\ b \in [Replicas -> Seq(EventType)]
      /\ \A q \in Replicas : \A i \in 1..Len(b[q]) : q # r /\ b[q] = a[q]
  BY <1>2, <1>3
<1>5. Once(h, b, p, n)
  BY <1>4 DEF Once
<1> QED BY <1>1, <1>2, <1>5

\* The first of what arrives is dropped.
LEMMA DroppedOnce ==
  ASSUME NEW h, NEW a, NEW p, NEW n, Once(h, a, p, n), NEW r \in Replicas, a[r] # <<>>,
         NEW e, e = Head(a[r]), NEW rest, rest = Tail(a[r]),
         NEW a2, DOMAIN a2 = Replicas, a2 = [q \in Replicas |-> a2[q]], a2[r] = rest,
         \A q \in Replicas \ {r} : a2[q] = a[q]
  PROVE  /\ e \in EventType
         /\ Once(h, a2, p, n)
         /\ \A i \in 1..Len(a2[r]) : a2[r][i] # e
         /\ r # e.origin => e \notin h[r]
         /\ e \in h[e.origin]
         /\ \A x \in p : x # e
<1>1. /\ a \in [Replicas -> Seq(EventType)] /\ a[r] \in Seq(EventType) /\ Len(a[r]) \in Nat
  BY LenProperties DEF Once
<1>2. /\ Len(a[r]) >= 1 /\ e = a[r][1] /\ a[r][1] \in EventType
      /\ rest \in Seq(EventType) /\ Len(rest) = Len(a[r]) - 1
      /\ \A i \in 1..(Len(a[r]) - 1) : rest[i] = a[r][i + 1]
  BY <1>1
<1>3. /\ a2 \in [Replicas -> Seq(EventType)] /\ Len(a2[r]) = Len(a[r]) - 1
      /\ \A q \in Replicas \ {r} : a2[q] = a[q]
      /\ \A i \in 1..Len(a2[r]) : a2[r][i] = a[r][i + 1] /\ i + 1 \in 1..Len(a[r])
  <2>1. \A q \in Replicas : a2[q] \in Seq(EventType)
    BY <1>1, <1>2
  <2>2. a2 \in [Replicas -> Seq(EventType)]
    BY <2>1
  <2>3. \A i \in 1..Len(rest) : i \in 1..(Len(a[r]) - 1) /\ i + 1 \in 1..Len(a[r])
    BY <1>1, <1>2
  <2> QED BY <1>2, <2>2, <2>3
<1>12. \A i \in 1..Len(a[r]) :
          /\ a[r][i] \in h[a[r][i].origin]
          /\ r # a[r][i].origin => a[r][i] \notin h[r]
          /\ \A j \in 1..Len(a[r]) : a[r][i] = a[r][j] => i = j
          /\ \A x \in p : a[r][i] # x
  BY DEF Once
<1>4. 1 \in 1..Len(a[r])
  BY <1>1, <1>2
<1>5. \A i \in 1..Len(a2[r]) : i + 1 # 1
  OBVIOUS
<1>6. \A i \in 1..Len(a2[r]) : a2[r][i] # e
  BY <1>2, <1>3, <1>4, <1>5, <1>12
<1>7. ASSUME NEW q \in Replicas, NEW i \in 1..Len(a2[q])
      PROVE  /\ a2[q][i] \in h[a2[q][i].origin]
             /\ q # a2[q][i].origin => a2[q][i] \notin h[q]
             /\ \A j \in 1..Len(a2[q]) : a2[q][i] = a2[q][j] => i = j
             /\ \A x \in p : a2[q][i] # x
  <2>1. CASE q = r
    <3>1. a2[r][i] = a[r][i + 1] /\ i + 1 \in 1..Len(a[r])
      BY <1>3, <2>1
    <3>2. \A j \in 1..Len(a2[r]) : a2[r][j] = a[r][j + 1] /\ j + 1 \in 1..Len(a[r])
      BY <1>3
    <3>3. \A j \in 1..Len(a2[r]) : a[r][i + 1] = a[r][j + 1] => i + 1 = j + 1
      BY <3>1, <3>2 DEF Once
    <3>4. \A j \in 1..Len(a2[r]) : i + 1 = j + 1 => i = j
      BY <2>1
    <3> QED BY <2>1, <3>1, <3>2, <3>3, <3>4 DEF Once
  <2>2. CASE q # r
    BY <1>3, <2>2 DEF Once
  <2> QED BY <2>1, <2>2
<1>8. /\ h \in [Replicas -> SUBSET EventType] /\ p \subseteq EventType
      /\ \A q \in Replicas : \A x \in h[q] : x.n <= n /\ x \in h[x.origin]
      /\ \A x \in p : x \in h[x.origin] /\ \A q \in Replicas : q # x.origin => x \notin h[q]
  BY DEF Once
<1>9. Once(h, a2, p, n)
  <2>1. \A x \in p :
          /\ x \in h[x.origin]
          /\ \A q \in Replicas : /\ q # x.origin => x \notin h[q]
                                 /\ \A i \in 1..Len(a2[q]) : a2[q][i] # x
    BY <1>7, <1>8
  <2>2. \A q \in Replicas : \A i \in 1..Len(a2[q]) :
          /\ a2[q][i] \in h[a2[q][i].origin]
          /\ q # a2[q][i].origin => a2[q][i] \notin h[q]
          /\ \A j \in 1..Len(a2[q]) : a2[q][i] = a2[q][j] => i = j
    BY <1>7
  <2> QED BY <1>3, <1>8, <2>1, <2>2 DEF Once
<1>10. /\ r # e.origin => e \notin h[r]
       /\ e \in h[e.origin]
  BY <1>2, <1>4, <1>12
<1>11. \A x \in p : a[r][1] # x
  BY <1>4, <1>12
<1> QED BY <1>2, <1>6, <1>9, <1>10, <1>11

\* It is heard, having come from another replica.
LEMMA HeardOnce ==
  ASSUME NEW h, NEW a, NEW p, NEW n, Once(h, a, p, n), NEW r \in Replicas,
         NEW e \in EventType, e.origin # r, e \in h[e.origin],
         \A i \in 1..Len(a[r]) : a[r][i] # e,
         \A x \in p : x # e,
         NEW h2, h2 = [h EXCEPT ![r] = @ \cup {e}]
  PROVE  Once(h2, a, p, n)
<1>1. h \in [Replicas -> SUBSET EventType] /\ a \in [Replicas -> Seq(EventType)] /\ p \subseteq EventType
  BY DEF Once
<1>2. /\ h2 \in [Replicas -> SUBSET EventType]
      /\ \A q \in Replicas : \A x \in EventType : x \in h2[q] <=> x \in h[q] \/ (q = r /\ x = e)
  BY <1>1
<1>3. e.origin \in Replicas
  BY DEF EventType
<1>4. \A q \in Replicas : \A x \in h2[q] : x.n <= n /\ x \in h2[x.origin]
  <2>1. \A q \in Replicas : \A x \in h2[q] : x \in EventType /\ x.origin \in Replicas
    BY <1>2 DEF EventType
  <2>2. \A q \in Replicas : \A x \in h[q] : x.n <= n /\ x \in h[x.origin]
    BY DEF Once
  <2> QED BY <1>2, <1>3, <2>1, <2>2
<1>5. \A x \in p : x \in EventType /\ x.origin \in Replicas
  BY <1>1 DEF EventType
<1>6. \A x \in p :
          /\ x \in h2[x.origin]
          /\ \A q \in Replicas : /\ q # x.origin => x \notin h2[q]
                                 /\ \A i \in 1..Len(a[q]) : a[q][i] # x
  BY <1>2, <1>5 DEF Once
<1>7. \A q \in Replicas : \A i \in 1..Len(a[q]) : a[q][i] \in EventType /\ a[q][i].origin \in Replicas
  <2>1. \A q \in Replicas : \A i \in 1..Len(a[q]) : a[q][i] \in EventType
    BY <1>1, ElementOfSeq
  <2> QED BY <2>1 DEF EventType
<1>8. \A q \in Replicas : \A i \in 1..Len(a[q]) :
          /\ a[q][i] \in h2[a[q][i].origin]
          /\ q # a[q][i].origin => a[q][i] \notin h2[q]
          /\ \A j \in 1..Len(a[q]) : a[q][i] = a[q][j] => i = j
  BY <1>2, <1>7 DEF Once
<1> QED BY <1>1, <1>2, <1>4, <1>6, <1>8 DEF Once

LEMMA FaultIsBeyond ==
  ASSUME bridge \in BridgeType, BridgeFault
  PROVE  bridge' \in BridgeType /\ bridge'.heard = bridge.heard /\ bridge'.events = bridge.events
<1>1. PICK f, b2 : f = bridge.faults + 1 /\ b2 = bridge'
  OBVIOUS
<1>2. f \in Nat
  BY <1>1 DEF BridgeType
<1>3. b2 = [bridge EXCEPT !.faults = f]
  BY <1>1 DEF BridgeFault
<1>4. b2 \in BridgeType /\ b2.heard = bridge.heard /\ b2.events = bridge.events
  BY <1>2, <1>3 DEF BridgeType
<1> QED BY <1>1, <1>4

LEMMA EmitKeepsBridge ==
  ASSUME BridgeInv, NEW r \in Replicas, Emit(r)
  PROVE  BridgeInv'
<1>1. PICK h, n, e, h2 :
        /\ h = bridge.heard /\ n = bridge.events /\ e = [origin |-> r, n |-> n + 1]
        /\ h2 = [h EXCEPT ![r] = @ \cup {e}]
  OBVIOUS
<1>2. n \in Nat /\ Once(h, arriving, publishing, n) /\ bridge \in BridgeType
  BY <1>1 DEF BridgeInv, BridgeType
<1>3. e \in EventType /\ n + 1 \in Nat
  BY <1>1, <1>2 DEF EventType
<1>4. e \notin h[r] /\ Once(h2, arriving, publishing \cup {e}, n + 1)
  BY <1>1, <1>2, EmittedOnce
<1>5. bridge' = [bridge EXCEPT !.events = n + 1, !.heard[r] = @ \cup {e},
                               !.twice = @ \/ e \in bridge.heard[r]]
  BY <1>1 DEF Emit, Heard
<1>6. bridge' \in BridgeType /\ bridge'.events = n + 1 /\ bridge'.heard = h2
  <2>1. (bridge.twice \/ e \in bridge.heard[r]) = FALSE
    BY <1>1, <1>2, <1>4 DEF BridgeType
  <2>2. bridge' = [bridge EXCEPT !.events = n + 1, !.heard = h2, !.twice = FALSE]
    BY <1>1, <1>5, <2>1
  <2>3. h2 \in [Replicas -> SUBSET EventType]
    BY <1>4 DEF Once
  <2> QED BY <1>2, <1>3, <2>2, <2>3 DEF BridgeType
<1>7. publishing' = publishing \cup {e} /\ arriving' = arriving /\ sub' = sub /\ retry' = retry
  BY <1>1 DEF Emit
<1> QED BY <1>4, <1>6, <1>7 DEF BridgeInv

LEMMA ArrivalKeepsBridge ==
  ASSUME BridgeInv, NEW r \in Replicas, Arrives(r)
  PROVE  BridgeInv'
<1>1. PICK h, n, e, a2 :
        /\ h = bridge.heard /\ n = bridge.events /\ e = Head(arriving[r])
        /\ a2 = [arriving EXCEPT ![r] = Tail(@)]
  OBVIOUS
<1>2. n \in Nat /\ Once(h, arriving, publishing, n) /\ bridge \in BridgeType
  BY <1>1 DEF BridgeInv, BridgeType
<1>3. arriving[r] # <<>> /\ arriving' = a2 /\ publishing' = publishing /\ sub' = sub /\ retry' = retry
  BY <1>1 DEF Arrives
<1>4. /\ e \in EventType /\ Once(h, a2, publishing, n)
      /\ \A i \in 1..Len(a2[r]) : a2[r][i] # e
      /\ r # e.origin => e \notin h[r]
      /\ e \in h[e.origin]
      /\ \A x \in publishing : x # e
  <2>1. PICK rest : rest = Tail(arriving[r])
    OBVIOUS
  <2>2. Once(h, arriving, publishing, n)
    BY <1>2
  <2>3. arriving[r] # <<>> /\ e = Head(arriving[r])
    BY <1>1, <1>3
  <2>4. a2 = [arriving EXCEPT ![r] = rest]
    BY <1>1, <2>1
  <2>5. arriving \in [Replicas -> Seq(EventType)]
    BY <2>2 DEF Once
  <2>6. /\ DOMAIN a2 = Replicas /\ a2 = [q \in Replicas |-> a2[q]] /\ a2[r] = rest
        /\ \A q \in Replicas \ {r} : a2[q] = arriving[q]
    BY <2>4, <2>5
  <2> QED BY <2>1, <2>2, <2>3, <2>6, DroppedOnce
<1>5. CASE Foreign(r, e)
  <2>1. bridge' = [bridge EXCEPT !.events = n, !.heard[r] = @ \cup {e},
                                 !.twice = @ \/ e \in bridge.heard[r]]
    BY <1>1, <1>5 DEF Arrives, Heard
  <2>2. e.origin # r
    BY <1>5 DEF Foreign
  <2>3. PICK h2 : h2 = [h EXCEPT ![r] = @ \cup {e}]
    OBVIOUS
  <2>4. Once(h2, a2, publishing, n)
    BY <1>4, <2>2, <2>3, HeardOnce
  <2>5. bridge' \in BridgeType /\ bridge'.events = n /\ bridge'.heard = h2
    <3>1. (bridge.twice \/ e \in bridge.heard[r]) = FALSE
      BY <1>1, <1>2, <1>4, <2>2 DEF BridgeType
    <3>2. bridge' = [bridge EXCEPT !.events = n, !.heard = h2, !.twice = FALSE]
      BY <1>1, <2>1, <2>3, <3>1
    <3>3. h2 \in [Replicas -> SUBSET EventType]
      BY <2>4 DEF Once
    <3> QED BY <1>2, <3>2, <3>3 DEF BridgeType
  <2> QED BY <1>3, <2>4, <2>5 DEF BridgeInv
<1>6. CASE ~Foreign(r, e)
  <2>1. bridge' = bridge
    BY <1>1, <1>6 DEF Arrives
  <2> QED BY <1>1, <1>3, <1>4, <2>1 DEF BridgeInv
<1> QED BY <1>5, <1>6

LEMMA PublishKeepsBridge ==
  ASSUME BridgeInv, NEW e \in publishing, PublishLands(e) \/ PublishFails(e)
  PROVE  BridgeInv'
<1>1. Once(bridge.heard, arriving, publishing, bridge.events) /\ bridge \in BridgeType
  BY DEF BridgeInv
<1>2. CASE PublishLands(e)
  <2>1. PICK Live : Live = {r \in Replicas : sub[r] = "live"}
    OBVIOUS
  <2>2. arriving' = [r \in Replicas |-> IF r \in Live THEN Append(arriving[r], e) ELSE arriving[r]]
    BY <1>2, <2>1 DEF PublishLands
  <2>3. Once(bridge.heard, arriving', publishing \ {e}, bridge.events)
    BY <1>1, <2>2, LandedOnce
  <2> QED BY <1>2, <2>3 DEF PublishLands, BridgeInv
<1>3. CASE PublishFails(e)
  <2>1. \A r \in Replicas : Once(bridge.heard, arriving, publishing \ {e}, bridge.events)
    BY <1>1, LostOnce
  <2>2. Once(bridge.heard, arriving, publishing \ {e}, bridge.events)
    BY <1>1 DEF Once
  <2>3. bridge' \in BridgeType /\ bridge'.heard = bridge.heard /\ bridge'.events = bridge.events
    BY <1>1, <1>3, FaultIsBeyond DEF PublishFails
  <2> QED BY <1>3, <2>2, <2>3 DEF PublishFails, BridgeInv
<1> QED BY <1>2, <1>3

LEMMA SubscriberKeepsBridge ==
  ASSUME BridgeInv, NEW r \in Replicas,
         Subscribed(r) \/ SubscriberFails(r) \/ ClosedByRedis(r) \/ Retry(r)
  PROVE  BridgeInv'
<1>1. /\ Once(bridge.heard, arriving, publishing, bridge.events) /\ bridge \in BridgeType
      /\ sub \in [Replicas -> {"none", "connecting", "live", "deaf"}]
      /\ retry \in [Replicas -> Nat]
      /\ \A q \in Replicas : sub[q] = "none" <=> retry[q] # 0
      /\ bridge.attempt \in [Replicas -> Nat \ {0}]
  BY DEF BridgeInv, BridgeType
<1>2. CASE Subscribed(r)
  BY <1>1, <1>2 DEF Subscribed, BridgeInv
<1>3. CASE SubscriberFails(r)
  <2>1. bridge' \in BridgeType /\ bridge'.heard = bridge.heard /\ bridge'.events = bridge.events
    BY <1>1, <1>3, FaultIsBeyond DEF SubscriberFails
  <2>2. Once(bridge.heard, [arriving EXCEPT ![r] = <<>>], publishing, bridge.events)
    BY <1>1, LostOnce
  <2>3. /\ sub' \in [Replicas -> {"none", "connecting", "live", "deaf"}]
        /\ retry' \in [Replicas -> Nat]
        /\ \A q \in Replicas : sub'[q] = "none" <=> retry'[q] # 0
    BY <1>1, <1>3 DEF SubscriberFails
  <2> QED BY <1>3, <2>1, <2>2, <2>3 DEF SubscriberFails, BridgeInv
<1>4. CASE ClosedByRedis(r)
  <2>1. bridge' \in BridgeType /\ bridge'.heard = bridge.heard /\ bridge'.events = bridge.events
    BY <1>1, <1>4, FaultIsBeyond DEF ClosedByRedis
  <2>2. /\ sub' \in [Replicas -> {"none", "connecting", "live", "deaf"}]
        /\ \A q \in Replicas : sub'[q] = "none" <=> retry[q] # 0
    BY <1>1, <1>4 DEF ClosedByRedis
  <2> QED BY <1>1, <1>4, <2>1, <2>2 DEF ClosedByRedis, BridgeInv
<1>5. CASE Retry(r)
  <2>1. PICK attempt : attempt = [bridge.attempt EXCEPT ![r] = @ + 1]
    OBVIOUS
  <2>2. attempt \in [Replicas -> Nat \ {0}]
    BY <1>1, <2>1
  <2>3. bridge' = [bridge EXCEPT !.attempt = attempt]
    BY <1>5, <2>1 DEF Retry
  <2>4. bridge' \in BridgeType /\ bridge'.heard = bridge.heard /\ bridge'.events = bridge.events
    BY <1>1, <2>2, <2>3 DEF BridgeType
  <2>5. /\ sub' \in [Replicas -> {"none", "connecting", "live", "deaf"}]
        /\ retry' \in [Replicas -> Nat]
        /\ \A q \in Replicas : sub'[q] = "none" <=> retry'[q] # 0
    BY <1>1, <1>5 DEF Retry
  <2> QED BY <1>1, <1>5, <2>4, <2>5 DEF Retry, BridgeInv
<1> QED BY <1>2, <1>3, <1>4, <1>5

LEMMA BridgeStarts == BridgeInit => BridgeInv
<1> SUFFICES ASSUME BridgeInit PROVE BridgeInv
  OBVIOUS
<1>1. <<>> \in Seq(EventType) /\ Len(<<>>) = 0
  BY EmptySeq
<1>2. bridge \in BridgeType /\ bridge.heard = [r \in Replicas |-> {}]
  BY DEF BridgeInit, BridgeType
<1>3. Once(bridge.heard, arriving, publishing, bridge.events)
  BY <1>1, <1>2 DEF BridgeInit, Once
<1> QED BY <1>2, <1>3 DEF BridgeInit, BridgeInv

LEMMA BridgeSteps ==
  ASSUME BridgeInv, [BridgeNext]_bridgeVars
  PROVE  BridgeInv'
<1>1. CASE UNCHANGED bridgeVars
  BY <1>1 DEF bridgeVars, BridgeInv
<1>2. ASSUME NEW r \in Replicas, Emit(r) PROVE BridgeInv'
  BY <1>2, EmitKeepsBridge
<1>3. ASSUME NEW r \in Replicas, Arrives(r) PROVE BridgeInv'
  BY <1>3, ArrivalKeepsBridge
<1>4. ASSUME NEW r \in Replicas, Subscribed(r) \/ SubscriberFails(r) \/ ClosedByRedis(r) \/ Retry(r)
      PROVE  BridgeInv'
  BY <1>4, SubscriberKeepsBridge
<1>5. ASSUME NEW e \in publishing, PublishLands(e) \/ PublishFails(e) PROVE BridgeInv'
  BY <1>5, PublishKeepsBridge
<1> QED BY <1>1, <1>2, <1>3, <1>4, <1>5 DEF BridgeNext

\* Whatever order publishes land in, and however often a subscriber is replaced
\* (redis-event-bridge.service.ts): no replica hears an event twice, its own
\* coming back included, and a bridge without a subscriber has a retry ahead.
THEOREM EventsAreHeardOnce == BridgeSpec => []EachEventOnce
<1>1. BridgeInit => BridgeInv
  BY BridgeStarts
<1>2. BridgeInv /\ [BridgeNext]_bridgeVars => BridgeInv'
  BY BridgeSteps
<1>3. BridgeInv => EachEventOnce
  BY DEF BridgeInv, BridgeType, Once, EachEventOnce
<1> QED BY <1>1, <1>2, <1>3, PTL DEF BridgeSpec

-----------------------------------------------------------------------------
(* PyWorkers.                                                               *)

JobIds == 1..MaxJobs
PyReplies == {"none", "ok", "failed"}
CallerType == [pc : {"away", "push", "poll", "stuck"}, tools : Seq(STRING), jobs : Seq(JobIds),
               sent : BOOLEAN, late : BOOLEAN, got : Seq(PyReplies)]

\* The jobs a caller has yet to push.
ToPush(caller) ==
    {caller.jobs[k] : k \in (Len(caller.jobs) - Len(caller.tools) + 1)..Len(caller.jobs)}

\* A caller whose answers, so far, are those of its jobs.
Sincere(caller, good) ==
    /\ caller \in CallerType
    /\ Len(caller.tools) <= Len(caller.jobs)
    /\ caller.pc = "push" => Len(caller.tools) >= 1
    /\ caller.pc # "push" => Len(caller.tools) = 0
    /\ caller.pc = "poll" => Len(caller.got) = Len(caller.jobs)
    /\ \A i \in 1..Len(caller.got) :
           i \in 1..Len(caller.jobs) /\ (caller.got[i] = "ok" => caller.jobs[i] \in good)
    /\ \A i, k \in 1..Len(caller.jobs) : caller.jobs[i] = caller.jobs[k] => i = k

\* The list in Redis (lin), how often each job was run, what is to be pushed by
\* whom, n jobs having been made: a job is in one of these places once at most.
JobsOnce(lin, run, todo, n) ==
    /\ lin \in Seq(JobIds) /\ run \in [JobIds -> {0, 1}]
    /\ todo \in [Callers -> SUBSET JobIds]
    /\ \A i \in 1..Len(lin) :
           /\ lin[i] <= n /\ run[lin[i]] = 0
           /\ \A k \in 1..Len(lin) : lin[i] = lin[k] => i = k
    /\ \A j \in JobIds : run[j] = 1 => j <= n
    /\ \A c \in Callers : \A j \in todo[c] :
           /\ j <= n /\ run[j] = 0
           /\ \A i \in 1..Len(lin) : lin[i] # j
           /\ \A d \in Callers \ {c} : j \notin todo[d]

Todo(cs) == [c \in Callers |-> ToPush(cs[c])]

WorkersInv ==
    /\ py \in [jobs : Nat, faults : Nat, run : [JobIds -> {0, 1}], good : SUBSET JobIds,
               told : SUBSET JobIds]
    /\ py.told \subseteq py.good
    /\ answers \in [JobIds -> PyReplies]
    /\ \A j \in JobIds : answers[j] = "ok" => j \in py.good
    /\ hands \in [Hands -> {0} \cup JobIds]
    /\ callers \in [Callers -> CallerType]
    /\ \A c \in Callers : Sincere(callers[c], py.good)
    /\ JobsOnce(line, py.run, Todo(callers), py.jobs)

USE PyAssumption

\* A caller that comes, with the jobs after those made so far.
LEMMA JobsMade ==
  ASSUME NEW lin, NEW run, NEW todo, NEW n \in Nat, JobsOnce(lin, run, todo, n),
         NEW m \in Nat, n + m <= MaxJobs,
         NEW c \in Callers, NEW todo2 \in [Callers -> SUBSET JobIds],
         todo2[c] \subseteq (n + 1)..(n + m), \A d \in Callers \ {c} : todo2[d] = todo[d]
  PROVE  JobsOnce(lin, run, todo2, n + m)
<1>1. /\ lin \in Seq(JobIds) /\ run \in [JobIds -> {0, 1}]
      /\ todo \in [Callers -> SUBSET JobIds]
      /\ \A i \in 1..Len(lin) :
             /\ lin[i] <= n /\ run[lin[i]] = 0
             /\ \A k \in 1..Len(lin) : lin[i] = lin[k] => i = k
      /\ \A j \in JobIds : run[j] = 1 => j <= n
      /\ \A d \in Callers : \A j \in todo[d] :
             /\ j <= n /\ run[j] = 0
             /\ \A i \in 1..Len(lin) : lin[i] # j
             /\ \A x \in Callers \ {d} : j \notin todo[x]
  BY DEF JobsOnce
<1>2. \A i \in 1..Len(lin) : lin[i] \in JobIds
  BY <1>1, ElementOfSeq
<1>3. JobIds \subseteq Nat
  BY DEF JobIds
<1>4. \A j \in JobIds : j <= n => j <= n + m
  BY <1>3
<1>5. \A j \in todo2[c] : j \in JobIds /\ j > n /\ j <= n + m
  BY <1>3
<1>6. \A j \in JobIds : j > n => ~(j <= n)
  BY <1>3
<1>7. \A j \in todo2[c] :
          /\ run[j] = 0
          /\ \A i \in 1..Len(lin) : lin[i] # j
          /\ \A d \in Callers : j \notin todo[d]
  BY <1>1, <1>5, <1>6
<1>8. ASSUME NEW d \in Callers, NEW j \in todo2[d]
      PROVE  /\ j <= n + m /\ run[j] = 0
             /\ \A i \in 1..Len(lin) : lin[i] # j
             /\ \A x \in Callers \ {d} : j \notin todo2[x]
  <2>1. CASE d = c
    BY <1>5, <1>7, <2>1
  <2>2. CASE d # c
    <3>1. j \in todo[d] /\ j \in JobIds
      BY <2>2
    <3>2. j \notin todo2[c]
      BY <1>7, <3>1
    <3> QED BY <1>1, <1>4, <3>1, <3>2
  <2> QED BY <2>1, <2>2
<1>9. \A i \in 1..Len(lin) : lin[i] <= n + m
  BY <1>1, <1>2, <1>4
<1>10. \A j \in JobIds : run[j] = 1 => j <= n + m
  BY <1>1, <1>4
<1> QED BY <1>1, <1>8, <1>9, <1>10 DEF JobsOnce

\* A push ends, and the job is in the list or not.
LEMMA JobsPushed ==
  ASSUME NEW lin, NEW run, NEW todo, NEW n, JobsOnce(lin, run, todo, n),
         NEW c \in Callers, NEW j \in todo[c],
         NEW lin2, lin2 = lin \/ lin2 = <<j>> \o lin,
         NEW todo2 \in [Callers -> SUBSET JobIds],
         todo2[c] \subseteq todo[c] \ {j}, \A d \in Callers \ {c} : todo2[d] = todo[d]
  PROVE  JobsOnce(lin2, run, todo2, n)
<1>1. /\ lin \in Seq(JobIds) /\ run \in [JobIds -> {0, 1}]
      /\ todo \in [Callers -> SUBSET JobIds]
      /\ \A i \in 1..Len(lin) :
             /\ lin[i] <= n /\ run[lin[i]] = 0
             /\ \A k \in 1..Len(lin) : lin[i] = lin[k] => i = k
      /\ \A x \in JobIds : run[x] = 1 => x <= n
      /\ \A d \in Callers : \A y \in todo[d] :
             /\ y <= n /\ run[y] = 0
             /\ \A i \in 1..Len(lin) : lin[i] # y
             /\ \A x \in Callers \ {d} : y \notin todo[x]
  BY DEF JobsOnce
<1>2. \A d \in Callers : todo2[d] \subseteq todo[d] /\ j \notin todo2[d]
  BY <1>1
<1>3. CASE lin2 = lin
  BY <1>1, <1>2, <1>3 DEF JobsOnce
<1>4. CASE lin2 = <<j>> \o lin
  <2>1. j \in JobIds /\ Len(lin) \in Nat
    BY <1>1, LenProperties
  <2>2. /\ lin2 \in Seq(JobIds) /\ Len(lin2) = Len(lin) + 1 /\ lin2[1] = j
        /\ \A i \in 1..Len(lin2) : i # 1 => lin2[i] = lin[i - 1] /\ i - 1 \in 1..Len(lin)
    BY <1>1, <1>4, <2>1
  <2>7. j <= n /\ run[j] = 0 /\ \A i \in 1..Len(lin) : lin[i] # j
    BY <1>1
  <2>3. ASSUME NEW i \in 1..Len(lin2)
        PROVE  lin2[i] <= n /\ run[lin2[i]] = 0
    <3>1. CASE i = 1
      BY <2>2, <2>7, <3>1
    <3>2. CASE i # 1
      <4>1. lin2[i] = lin[i - 1] /\ i - 1 \in 1..Len(lin)
        BY <2>2, <3>2
      <4>2. lin[i - 1] <= n /\ run[lin[i - 1]] = 0
        BY <1>1, <4>1
      <4> QED BY <4>1, <4>2
    <3> QED BY <3>1, <3>2
  <2>4. ASSUME NEW i \in 1..Len(lin2), NEW k \in 1..Len(lin2), lin2[i] = lin2[k]
        PROVE  i = k
    <3>1. CASE i = 1 /\ k = 1
      BY <3>1
    <3>2. CASE i = 1 /\ k # 1
      BY <1>1, <2>2, <2>4, <3>2
    <3>3. CASE i # 1 /\ k = 1
      BY <1>1, <2>2, <2>4, <3>3
    <3>4. CASE i # 1 /\ k # 1
      <4>3. lin2[i] = lin[i - 1] /\ i - 1 \in 1..Len(lin)
        BY <2>2, <3>4
      <4>4. lin2[k] = lin[k - 1] /\ k - 1 \in 1..Len(lin)
        BY <2>2, <3>4
      <4>5. lin[i - 1] = lin[k - 1]
        BY <2>4, <4>3, <4>4
      <4>6. \A x \in 1..Len(lin) : \A y \in 1..Len(lin) : lin[x] = lin[y] => x = y
        BY <1>1
      <4>1. i - 1 = k - 1
        BY <4>3, <4>4, <4>5, <4>6
      <4>2. i \in Nat /\ k \in Nat
        BY <2>1, <2>2
      <4> QED BY <4>1, <4>2
    <3> QED BY <3>1, <3>2, <3>3, <3>4
  <2>5. ASSUME NEW d \in Callers, NEW y \in todo2[d], NEW i \in 1..Len(lin2)
        PROVE  lin2[i] # y
    <3>0. y \in todo[d] /\ y # j
      BY <1>2
    <3>1. CASE i = 1
      BY <2>2, <3>0, <3>1
    <3>2. CASE i # 1
      <4>1. lin2[i] = lin[i - 1] /\ i - 1 \in 1..Len(lin)
        BY <2>2, <3>2
      <4> QED BY <1>1, <3>0, <4>1
    <3> QED BY <3>1, <3>2
  <2> QED BY <1>1, <1>2, <2>2, <2>3, <2>4, <2>5 DEF JobsOnce
<1> QED BY <1>3, <1>4

\* A caller gives up what it has not pushed.
LEMMA JobsLeft ==
  ASSUME NEW lin, NEW run, NEW todo, NEW n, JobsOnce(lin, run, todo, n),
         NEW todo2 \in [Callers -> SUBSET JobIds], \A d \in Callers : todo2[d] \subseteq todo[d]
  PROVE  JobsOnce(lin, run, todo2, n)
BY DEF JobsOnce

\* BLPOP.
LEMMA JobTaken ==
  ASSUME NEW lin, NEW run, NEW todo, NEW n, JobsOnce(lin, run, todo, n),
         NEW rest \in Seq(JobIds), Len(lin) = Len(rest) + 1,
         \A i \in 1..Len(rest) : rest[i] = lin[i + 1], NEW j, j = lin[1],
         NEW run2 \in [JobIds -> {0, 1}], run2[j] = 1,
         \A x \in JobIds \ {j} : run2[x] = run[x]
  PROVE  JobsOnce(rest, run2, todo, n)
<1>1. /\ lin \in Seq(JobIds) /\ run \in [JobIds -> {0, 1}]
      /\ todo \in [Callers -> SUBSET JobIds]
      /\ \A i \in 1..Len(lin) :
             /\ lin[i] <= n /\ run[lin[i]] = 0
             /\ \A k \in 1..Len(lin) : lin[i] = lin[k] => i = k
      /\ \A x \in JobIds : run[x] = 1 => x <= n
      /\ \A d \in Callers : \A y \in todo[d] :
             /\ y <= n /\ run[y] = 0
             /\ \A i \in 1..Len(lin) : lin[i] # y
             /\ \A x \in Callers \ {d} : y \notin todo[x]
  BY DEF JobsOnce
<1>2. /\ Len(lin) \in Nat /\ Len(lin) >= 1 /\ 1 \in 1..Len(lin) /\ j = lin[1] /\ j \in JobIds
      /\ Len(rest) \in Nat
  <2>1. Len(lin) \in Nat /\ Len(rest) \in Nat
    BY <1>1, LenProperties
  <2>2. 1 \in 1..Len(lin)
    BY <2>1
  <2> QED BY <1>1, <2>1, <2>2, ElementOfSeq
<1>3. \A i \in 1..Len(rest) :
          rest[i] = lin[i + 1] /\ i + 1 \in 1..Len(lin) /\ i + 1 # 1 /\ lin[i + 1] \in JobIds
  BY <1>1, <1>2
<1>4. \A i \in 1..Len(rest) : rest[i] # j /\ rest[i] <= n /\ run[rest[i]] = 0 /\ rest[i] \in JobIds
  BY <1>1, <1>2, <1>3
<1>5. ASSUME NEW i \in 1..Len(rest), NEW k \in 1..Len(rest), rest[i] = rest[k]
      PROVE  i = k
  <2>3. i + 1 \in 1..Len(lin) /\ k + 1 \in 1..Len(lin) /\ lin[i + 1] = lin[k + 1]
    BY <1>3, <1>5
  <2>4. \A x \in 1..Len(lin) : \A y \in 1..Len(lin) : lin[x] = lin[y] => x = y
    BY <1>1
  <2>1. i + 1 = k + 1
    BY <2>3, <2>4
  <2>2. i \in Nat /\ k \in Nat
    BY <1>2
  <2> QED BY <2>1, <2>2
<1>6. run[j] = 0 /\ j <= n
  BY <1>1, <1>2
<1>7. \A d \in Callers : \A y \in todo[d] :
          y # j /\ y \in JobIds /\ \A i \in 1..Len(rest) : rest[i] # y
  BY <1>1, <1>2, <1>3
<1>8. \A x \in JobIds : run2[x] = 1 => x <= n
  BY <1>1, <1>6
<1>9. JobsOnce(rest, run2, todo, n)
  BY <1>1, <1>2, <1>4, <1>5, <1>7, <1>8 DEF JobsOnce
<1> QED BY <1>9

\* What a caller has yet to push are jobs.
LEMMA ToPushAreJobs ==
  ASSUME NEW caller, NEW good, Sincere(caller, good)
  PROVE  ToPush(caller) \subseteq JobIds
<1>1. /\ caller.jobs \in Seq(JobIds) /\ caller.tools \in Seq(STRING)
      /\ Len(caller.tools) <= Len(caller.jobs)
  BY DEF Sincere, CallerType
<1>2. Len(caller.jobs) \in Nat /\ Len(caller.tools) \in Nat
  BY <1>1, LenProperties
<1>3. \A k \in 1..Len(caller.jobs) : caller.jobs[k] \in JobIds
  BY <1>1, ElementOfSeq
<1>4. \A k \in (Len(caller.jobs) - Len(caller.tools) + 1)..Len(caller.jobs) :
          k \in 1..Len(caller.jobs)
  BY <1>1, <1>2
<1> QED BY <1>3, <1>4 DEF ToPush

LEMMA TodoTyped ==
  ASSUME NEW cs, NEW good, \A c \in Callers : Sincere(cs[c], good)
  PROVE  Todo(cs) \in [Callers -> SUBSET JobIds] /\ \A c \in Callers : Todo(cs)[c] = ToPush(cs[c])
BY ToPushAreJobs DEF Todo

\* Who has nothing left to push.
LEMMA NothingToPush ==
  ASSUME NEW caller \in CallerType, Len(caller.tools) = 0
  PROVE  ToPush(caller) = {}
<1>1. Len(caller.jobs) \in Nat
  BY LenProperties DEF CallerType
<1>2. (Len(caller.jobs) - Len(caller.tools) + 1)..Len(caller.jobs) = {}
  BY <1>1
<1> QED BY <1>2 DEF ToPush

LEMMA AwaySincere ==
  ASSUME NEW good
  PROVE  /\ Sincere(Away, good) /\ ToPush(Away) = {}
         /\ \A pc \in {"away", "stuck"} :
                Sincere([Away EXCEPT !.pc = pc], good) /\ ToPush([Away EXCEPT !.pc = pc]) = {}
<1>1. Away \in CallerType /\ Away.pc = "away" /\ Len(Away.tools) = 0 /\ Len(Away.jobs) = 0
      /\ Len(Away.got) = 0
  BY DEF Away, CallerType
<1>2. ASSUME NEW pc \in {"away", "stuck"}
      PROVE  Sincere([Away EXCEPT !.pc = pc], good) /\ ToPush([Away EXCEPT !.pc = pc]) = {}
  <2>4. PICK gone : gone = [Away EXCEPT !.pc = pc]
    OBVIOUS
  <2>1. gone \in CallerType /\ gone.pc = pc /\ Len(gone.tools) = 0 /\ Len(gone.jobs) = 0
        /\ Len(gone.got) = 0
    BY <1>1, <2>4 DEF CallerType
  <2>2. Sincere(gone, good)
    BY <2>1 DEF Sincere
  <2>3. ToPush(gone) = {}
    BY <2>1, NothingToPush
  <2> QED BY <2>2, <2>3, <2>4
<1>3. Sincere(Away, good)
  BY <1>1 DEF Sincere
<1>4. ToPush(Away) = {}
  BY <1>1, NothingToPush
<1> QED BY <1>2, <1>3, <1>4

LEMMA StillSincere ==
  ASSUME NEW caller, NEW good, NEW good2, good \subseteq good2, Sincere(caller, good)
  PROVE  Sincere(caller, good2)
BY DEF Sincere

\* A caller whose push is under way, and what it leaves to push.
LEMMA PushUnderWay ==
  ASSUME NEW caller, NEW good, Sincere(caller, good), caller.pc = "push",
         NEW next, next.jobs = caller.jobs, next.tools = Tail(caller.tools)
  PROVE  /\ caller.jobs[Len(caller.jobs) - Len(caller.tools) + 1] \in ToPush(caller)
         /\ ToPush(next) \subseteq
                ToPush(caller) \ {caller.jobs[Len(caller.jobs) - Len(caller.tools) + 1]}
<1>1. /\ caller.jobs \in Seq(JobIds) /\ caller.tools \in Seq(STRING)
      /\ Len(caller.tools) <= Len(caller.jobs) /\ Len(caller.tools) >= 1
      /\ \A i, k \in 1..Len(caller.jobs) : caller.jobs[i] = caller.jobs[k] => i = k
  BY DEF Sincere, CallerType
<1>2. PICK a \in Nat, b \in Nat : a = Len(caller.jobs) /\ b = Len(caller.tools)
  BY <1>1, LenProperties
<1>3. Len(Tail(caller.tools)) = b - 1
  <2>1. caller.tools # <<>>
    BY <1>1
  <2> QED BY <1>1, <1>2, <2>1, HeadTailProperties
<1>9. b <= a /\ b >= 1
  BY <1>1, <1>2
<1>4. a - b + 1 \in (a - b + 1)..a /\ a - b + 1 \in 1..a
  BY <1>9
<1>5. \A k \in (a - (b - 1) + 1)..a : k \in (a - b + 1)..a /\ k \in 1..a /\ k # a - b + 1
  BY <1>9
<1>6. \A k \in (a - (b - 1) + 1)..a : caller.jobs[k] # caller.jobs[a - b + 1]
  BY <1>1, <1>2, <1>4, <1>5
<1>7. ToPush(caller) = {caller.jobs[k] : k \in (a - b + 1)..a}
  BY <1>2 DEF ToPush
<1>8. ToPush(next) = {caller.jobs[k] : k \in (a - (b - 1) + 1)..a}
  BY <1>2, <1>3 DEF ToPush
<1> QED BY <1>2, <1>4, <1>5, <1>6, <1>7, <1>8

\* enqueue() is over.
AfterPush(caller, queued) ==
    IF Len(caller.tools) > 1
    THEN [caller EXCEPT !.tools = Tail(@), !.sent = queued]
    ELSE IF queued
    THEN [caller EXCEPT !.pc = "poll", !.tools = <<>>,
                        !.got = [i \in DOMAIN caller.jobs |-> "none"]]
    ELSE Away

LEMMA PushLeaves ==
  ASSUME NEW caller, NEW good, Sincere(caller, good), caller.pc = "push",
         NEW queued \in BOOLEAN, NEW next, next = AfterPush(caller, queued)
  PROVE  /\ Sincere(next, good)
         /\ caller.jobs[Len(caller.jobs) - Len(caller.tools) + 1] \in ToPush(caller)
         /\ ToPush(next) \subseteq
                ToPush(caller) \ {caller.jobs[Len(caller.jobs) - Len(caller.tools) + 1]}
<1>1. /\ caller \in CallerType
      /\ caller.jobs \in Seq(JobIds) /\ caller.tools \in Seq(STRING) /\ caller.got \in Seq(PyReplies)
      /\ Len(caller.tools) <= Len(caller.jobs) /\ Len(caller.tools) >= 1
      /\ \A i \in 1..Len(caller.got) :
             i \in 1..Len(caller.jobs) /\ (caller.got[i] = "ok" => caller.jobs[i] \in good)
      /\ \A i, k \in 1..Len(caller.jobs) : caller.jobs[i] = caller.jobs[k] => i = k
  BY DEF Sincere, CallerType
<1>2. PICK a \in Nat, b \in Nat : a = Len(caller.jobs) /\ b = Len(caller.tools)
  BY <1>1, LenProperties
<1>3. caller.jobs[Len(caller.jobs) - Len(caller.tools) + 1] \in ToPush(caller)
  <2>1. PICK one : one = [caller EXCEPT !.tools = Tail(caller.tools)]
    OBVIOUS
  <2>2. one.jobs = caller.jobs /\ one.tools = Tail(caller.tools)
    BY <1>1, <2>1 DEF CallerType
  <2> QED BY <2>2, PushUnderWay
<1>4. CASE b > 1
  <2>1. PICK rest \in Seq(STRING) : rest = Tail(caller.tools) /\ Len(rest) = b - 1
    <3>1. caller.tools # <<>>
      BY <1>1
    <3> QED BY <1>1, <1>2, <3>1, HeadTailProperties
  <2>2. next = [caller EXCEPT !.tools = rest, !.sent = queued]
    BY <1>2, <1>4, <2>1 DEF AfterPush
  <2>3. /\ next \in CallerType /\ next.jobs = caller.jobs /\ next.tools = rest
        /\ next.pc = "push" /\ next.got = caller.got
    BY <1>1, <2>1, <2>2 DEF CallerType
  <2>4. Sincere(next, good)
    BY <1>1, <1>2, <1>4, <2>1, <2>3 DEF Sincere
  <2>5. next.tools = Tail(caller.tools)
    BY <2>1, <2>3
  <2> QED BY <1>3, <2>3, <2>4, <2>5, PushUnderWay
<1>5. CASE ~(b > 1) /\ queued
  <2>1. PICK none \in Seq(PyReplies) :
            none = [i \in DOMAIN caller.jobs |-> "none"] /\ Len(none) = a
            /\ \A i \in 1..a : none[i] = "none"
    <3>1. DOMAIN caller.jobs = 1..a
      BY <1>1, <1>2, LenProperties
    <3>2. [i \in 1..a |-> "none"] \in Seq(PyReplies) /\ Len([i \in 1..a |-> "none"]) = a
      BY <1>2 DEF PyReplies
    <3> QED BY <3>1, <3>2
  <2>2. next = [caller EXCEPT !.pc = "poll", !.tools = <<>>, !.got = none]
    BY <1>2, <1>5, <2>1 DEF AfterPush
  <2>3. /\ next.jobs = caller.jobs /\ next.tools = <<>>
        /\ next.pc = "poll" /\ next.got = none /\ next \in CallerType
    <3>1. next.jobs = caller.jobs /\ next.tools = <<>> /\ next.pc = "poll" /\ next.got = none
      BY <1>1, <2>2 DEF CallerType
    <3>2. <<>> \in Seq(STRING)
      OBVIOUS
    <3>3. next \in CallerType
      BY <1>1, <2>1, <2>2, <3>2 DEF CallerType
    <3> QED BY <3>1, <3>3
  <2>4. Sincere(next, good)
    BY <1>1, <1>2, <2>1, <2>3 DEF Sincere
  <2>5. ToPush(next) = {}
    BY <2>3, NothingToPush
  <2> QED BY <1>3, <2>4, <2>5
<1>6. CASE ~(b > 1) /\ ~queued
  <2>1. next = Away
    BY <1>2, <1>6 DEF AfterPush
  <2> QED BY <1>3, <2>1, AwaySincere
<1> QED BY <1>2, <1>4, <1>5, <1>6

\* The parts of the invariant.
LEMMA WorkersParts ==
  ASSUME WorkersInv
  PROVE  /\ py \in [jobs : Nat, faults : Nat, run : [JobIds -> {0, 1}], good : SUBSET JobIds,
                    told : SUBSET JobIds]
         /\ py.told \subseteq py.good
         /\ answers \in [JobIds -> PyReplies]
         /\ \A j \in JobIds : answers[j] = "ok" => j \in py.good
         /\ hands \in [Hands -> {0} \cup JobIds]
         /\ callers \in [Callers -> CallerType]
         /\ \A c \in Callers : Sincere(callers[c], py.good)
         /\ JobsOnce(line, py.run, Todo(callers), py.jobs)
BY DEF WorkersInv

\* A fault is only counted.
LEMMA PyFaultIsCounted ==
  ASSUME WorkersInv, PyFault
  PROVE  /\ py' \in [jobs : Nat, faults : Nat, run : [JobIds -> {0, 1}], good : SUBSET JobIds,
                     told : SUBSET JobIds]
         /\ py'.good = py.good /\ py'.told = py.told /\ py'.run = py.run /\ py'.jobs = py.jobs
BY WorkersParts DEF PyFault

\* Only the callers move, and the list with them.
LEMMA CallersMoveOn ==
  ASSUME WorkersInv,
         \/ UNCHANGED py
         \/ /\ py' \in [jobs : Nat, faults : Nat, run : [JobIds -> {0, 1}], good : SUBSET JobIds,
                        told : SUBSET JobIds]
            /\ py'.good = py.good /\ py'.told = py.told /\ py'.run = py.run /\ py'.jobs = py.jobs,
         UNCHANGED <<answers, hands>>,
         callers' \in [Callers -> CallerType],
         \A c \in Callers : Sincere(callers'[c], py.good),
         JobsOnce(line', py.run, Todo(callers'), py.jobs)
  PROVE  WorkersInv'
<1>1. /\ py' \in [jobs : Nat, faults : Nat, run : [JobIds -> {0, 1}], good : SUBSET JobIds,
                  told : SUBSET JobIds]
      /\ py'.good = py.good /\ py'.told = py.told /\ py'.run = py.run /\ py'.jobs = py.jobs
  BY WorkersParts
<1>2. py'.told \subseteq py'.good /\ answers' \in [JobIds -> PyReplies]
      /\ hands' \in [Hands -> {0} \cup JobIds]
      /\ \A j \in JobIds : answers'[j] = "ok" => j \in py'.good
  BY <1>1, WorkersParts
<1>3. \A c \in Callers : Sincere(callers'[c], py'.good)
  BY <1>1
<1>4. JobsOnce(line', py'.run, Todo(callers'), py'.jobs)
  BY <1>1
<1> QED BY <1>1, <1>2, <1>3, <1>4 DEF WorkersInv

\* One caller moves.
LEMMA CallerMoves ==
  ASSUME WorkersInv, NEW c \in Callers, NEW next, Sincere(next, py.good),
         callers' = [callers EXCEPT ![c] = next]
  PROVE  /\ callers' \in [Callers -> CallerType]
         /\ \A d \in Callers : Sincere(callers'[d], py.good)
         /\ Todo(callers) \in [Callers -> SUBSET JobIds]
         /\ Todo(callers') \in [Callers -> SUBSET JobIds]
         /\ Todo(callers)[c] = ToPush(callers[c]) /\ Todo(callers')[c] = ToPush(next)
         /\ \A d \in Callers \ {c} : Todo(callers')[d] = Todo(callers)[d]
<1>1. callers \in [Callers -> CallerType] /\ \A d \in Callers : Sincere(callers[d], py.good)
  BY WorkersParts
<1>2. next \in CallerType
  BY DEF Sincere
<1>3. /\ callers' \in [Callers -> CallerType] /\ callers'[c] = next
      /\ \A d \in Callers \ {c} : callers'[d] = callers[d]
  BY <1>1, <1>2
<1>4. \A d \in Callers : Sincere(callers'[d], py.good)
  BY <1>1, <1>3
<1>5. /\ Todo(callers) \in [Callers -> SUBSET JobIds]
      /\ \A d \in Callers : Todo(callers)[d] = ToPush(callers[d])
  BY <1>1, TodoTyped
<1>6. /\ Todo(callers') \in [Callers -> SUBSET JobIds]
      /\ \A d \in Callers : Todo(callers')[d] = ToPush(callers'[d])
  BY <1>4, TodoTyped
<1> QED BY <1>3, <1>4, <1>5, <1>6

\* A push of c is over, whoever heard of it.
LEMMA PushedStep ==
  ASSUME WorkersInv, NEW c \in Callers, callers[c].pc = "push", NEW sent \in BOOLEAN,
         Pushed(c, sent), line' = line \/ line' = <<Pushing(c)>> \o line,
         \/ UNCHANGED py
         \/ /\ py' \in [jobs : Nat, faults : Nat, run : [JobIds -> {0, 1}], good : SUBSET JobIds,
                        told : SUBSET JobIds]
            /\ py'.good = py.good /\ py'.told = py.told /\ py'.run = py.run /\ py'.jobs = py.jobs,
         UNCHANGED <<answers, hands>>
  PROVE  WorkersInv'
<1>1. PICK caller : caller = callers[c]
  OBVIOUS
<1>2. Sincere(caller, py.good) /\ caller.pc = "push"
  BY <1>1, WorkersParts
<1>3. PICK queued \in BOOLEAN : queued = (caller.sent /\ sent)
  OBVIOUS
<1>4. PICK next : next = AfterPush(caller, queued)
  OBVIOUS
<1>5. callers' = [callers EXCEPT ![c] = next]
  BY <1>1, <1>3, <1>4 DEF Pushed, AfterPush
<1>6. PICK j : j = caller.jobs[Len(caller.jobs) - Len(caller.tools) + 1]
  OBVIOUS
<1>7. Sincere(next, py.good) /\ j \in ToPush(caller) /\ ToPush(next) \subseteq ToPush(caller) \ {j}
  BY <1>2, <1>4, <1>6, PushLeaves
<1>8. line' = line \/ line' = <<j>> \o line
  BY <1>1, <1>6 DEF Pushing
<1>9. /\ callers' \in [Callers -> CallerType]
      /\ \A d \in Callers : Sincere(callers'[d], py.good)
      /\ Todo(callers') \in [Callers -> SUBSET JobIds]
      /\ Todo(callers)[c] = ToPush(caller) /\ Todo(callers')[c] = ToPush(next)
      /\ \A d \in Callers \ {c} : Todo(callers')[d] = Todo(callers)[d]
  BY <1>1, <1>5, <1>7, CallerMoves
<1>10. JobsOnce(line, py.run, Todo(callers), py.jobs)
  BY WorkersParts
<1>11. j \in Todo(callers)[c] /\ Todo(callers')[c] \subseteq Todo(callers)[c] \ {j}
  BY <1>7, <1>9
<1>12. JobsOnce(line', py.run, Todo(callers'), py.jobs)
  BY <1>8, <1>9, <1>10, <1>11, JobsPushed
<1> QED BY <1>9, <1>12, CallersMoveOn

LEMMA PushStep ==
  ASSUME WorkersInv, NEW c \in Callers, Push(c)
  PROVE  WorkersInv'
BY PushedStep DEF Push

LEMMA PushFailsStep ==
  ASSUME WorkersInv, NEW c \in Callers, PushFails(c)
  PROVE  WorkersInv'
<1>1. callers[c].pc = "push" /\ Pushed(c, FALSE) /\ UNCHANGED <<answers, hands>>
  BY DEF PushFails
<1>2. line' = line \/ line' = <<Pushing(c)>> \o line
  BY DEF PushFails
<1>3. PyFault
  BY DEF PushFails
<1> QED BY <1>1, <1>2, <1>3, PyFaultIsCounted, PushedStep

\* Redis closes the connection of a command under way.
LEMMA ClosedStep ==
  ASSUME WorkersInv, NEW c \in Callers, ClosedUnderCaller(c)
  PROVE  WorkersInv'
<1>1. PICK gone : gone = [Away EXCEPT !.pc = "stuck"]
  OBVIOUS
<1>2. callers' = [callers EXCEPT ![c] = gone] /\ UNCHANGED <<answers, hands>> /\ PyFault
  BY <1>1 DEF ClosedUnderCaller
<1>3. Sincere(gone, py.good) /\ ToPush(gone) = {}
  BY <1>1, AwaySincere
<1>4. /\ callers' \in [Callers -> CallerType]
      /\ \A d \in Callers : Sincere(callers'[d], py.good)
      /\ Todo(callers) \in [Callers -> SUBSET JobIds]
      /\ Todo(callers') \in [Callers -> SUBSET JobIds]
      /\ Todo(callers)[c] = ToPush(callers[c]) /\ Todo(callers')[c] = {}
      /\ \A d \in Callers \ {c} : Todo(callers')[d] = Todo(callers)[d]
  BY <1>2, <1>3, CallerMoves
<1>5. JobsOnce(line, py.run, Todo(callers), py.jobs)
  BY WorkersParts
<1>6. JobsOnce(line', py.run, Todo(callers'), py.jobs)
  <2>1. CASE line' = line
    <3>1. \A d \in Callers : Todo(callers')[d] \subseteq Todo(callers)[d]
      BY <1>4
    <3>2. JobsOnce(line, py.run, Todo(callers'), py.jobs)
      BY <1>4, <1>5, <3>1, JobsLeft
    <3> QED BY <2>1, <3>2
  <2>2. CASE callers[c].pc = "push" /\ line' = <<Pushing(c)>> \o line
    <3>1. PICK j : j = Pushing(c)
      OBVIOUS
    <3>2. Sincere(callers[c], py.good)
      BY WorkersParts
    <3>3. PICK after : after = AfterPush(callers[c], FALSE)
      OBVIOUS
    <3>4. j \in ToPush(callers[c])
      BY <2>2, <3>1, <3>2, <3>3, PushLeaves DEF Pushing
    <3>5. line' = line \/ line' = <<j>> \o line
      BY <2>2, <3>1
    <3>6. j \in Todo(callers)[c] /\ Todo(callers')[c] \subseteq Todo(callers)[c] \ {j}
      BY <1>4, <3>4
    <3> QED BY <1>4, <1>5, <3>5, <3>6, JobsPushed
  <2> QED BY <2>1, <2>2 DEF ClosedUnderCaller
<1> QED BY <1>2, <1>4, <1>6, PyFaultIsCounted, CallersMoveOn

\* A caller moves on without anything to push.
LEMMA CallerStep ==
  ASSUME WorkersInv, NEW c \in Callers, NEW next, Sincere(next, py.good),
         ToPush(next) \subseteq ToPush(callers[c]), callers' = [callers EXCEPT ![c] = next]
  PROVE  /\ callers' \in [Callers -> CallerType]
         /\ \A d \in Callers : Sincere(callers'[d], py.good)
         /\ JobsOnce(line, py.run, Todo(callers'), py.jobs)
<1>1. /\ callers' \in [Callers -> CallerType]
      /\ \A d \in Callers : Sincere(callers'[d], py.good)
      /\ Todo(callers) \in [Callers -> SUBSET JobIds]
      /\ Todo(callers') \in [Callers -> SUBSET JobIds]
      /\ Todo(callers)[c] = ToPush(callers[c]) /\ Todo(callers')[c] = ToPush(next)
      /\ \A d \in Callers \ {c} : Todo(callers')[d] = Todo(callers)[d]
  BY CallerMoves
<1>2. JobsOnce(line, py.run, Todo(callers), py.jobs)
  BY WorkersParts
<1>3. \A d \in Callers : Todo(callers')[d] \subseteq Todo(callers)[d]
  BY <1>1
<1> QED BY <1>1, <1>2, <1>3, JobsLeft

LEMMA ReadStep ==
  ASSUME WorkersInv, NEW c \in Callers, NEW i, i \in DOMAIN callers[c].jobs, Read(c, i)
  PROVE  WorkersInv'
<1>1. PICK caller : caller = callers[c]
  OBVIOUS
<1>2. Sincere(caller, py.good) /\ caller \in CallerType
  BY <1>1, WorkersParts DEF Sincere
<1>3. PICK answer : answer = answers[caller.jobs[i]]
  OBVIOUS
<1>4. caller.pc = "poll" /\ UNCHANGED <<line, answers, hands, py>>
  BY <1>1 DEF Read
<1>5. PICK got : got = [caller.got EXCEPT ![i] = answer]
  OBVIOUS
<1>6. PICK next : next = [caller EXCEPT !.got = got]
  OBVIOUS
<1>7. callers' = [callers EXCEPT ![c] = next]
  BY <1>1, <1>3, <1>5, <1>6 DEF Read
<1>8. /\ caller.jobs \in Seq(JobIds) /\ caller.got \in Seq(PyReplies)
      /\ Len(caller.got) = Len(caller.jobs) /\ i \in 1..Len(caller.jobs)
      /\ \A k \in 1..Len(caller.got) :
             k \in 1..Len(caller.jobs) /\ (caller.got[k] = "ok" => caller.jobs[k] \in py.good)
  BY <1>1, <1>2, <1>4 DEF Sincere, CallerType
<1>9. caller.jobs[i] \in JobIds
  BY <1>8, ElementOfSeq
<1>10. answer \in PyReplies /\ (answer = "ok" => caller.jobs[i] \in py.good)
  BY <1>3, <1>9, WorkersParts
<1>11. /\ got \in Seq(PyReplies) /\ Len(got) = Len(caller.got) /\ got[i] = answer
       /\ \A k \in 1..Len(got) : k # i => got[k] = caller.got[k]
  BY <1>5, <1>8, <1>10, ExceptSeq
<1>12. /\ next \in CallerType /\ next.pc = caller.pc /\ next.tools = caller.tools
       /\ next.jobs = caller.jobs /\ next.got = got
  BY <1>2, <1>6, <1>11 DEF CallerType
<1>13. \A k \in 1..Len(got) :
           k \in 1..Len(caller.jobs) /\ (got[k] = "ok" => caller.jobs[k] \in py.good)
  BY <1>8, <1>10, <1>11
<1>14. Sincere(next, py.good)
  BY <1>2, <1>8, <1>11, <1>12, <1>13 DEF Sincere
<1>15. ToPush(next) \subseteq ToPush(callers[c])
  BY <1>1, <1>12 DEF ToPush
<1>16. /\ callers' \in [Callers -> CallerType]
       /\ \A d \in Callers : Sincere(callers'[d], py.good)
       /\ JobsOnce(line, py.run, Todo(callers'), py.jobs)
  BY <1>7, <1>14, <1>15, CallerStep
<1> QED BY <1>4, <1>16, CallersMoveOn

LEMMA DeadlineStep ==
  ASSUME WorkersInv, NEW c \in Callers, DeadlinePasses(c)
  PROVE  WorkersInv'
<1>1. PICK caller : caller = callers[c]
  OBVIOUS
<1>2. Sincere(caller, py.good) /\ caller \in CallerType
  BY <1>1, WorkersParts DEF Sincere
<1>3. PICK next : next = [caller EXCEPT !.late = TRUE]
  OBVIOUS
<1>4. callers' = [callers EXCEPT ![c] = next] /\ UNCHANGED <<line, answers, hands, py>>
  BY <1>1, <1>3 DEF DeadlinePasses
<1>5. /\ next \in CallerType /\ next.pc = caller.pc /\ next.tools = caller.tools
      /\ next.jobs = caller.jobs /\ next.got = caller.got
  BY <1>2, <1>3 DEF CallerType
<1>6. Sincere(next, py.good)
  BY <1>2, <1>5 DEF Sincere
<1>7. ToPush(next) \subseteq ToPush(callers[c])
  BY <1>1, <1>5 DEF ToPush
<1>8. /\ callers' \in [Callers -> CallerType]
      /\ \A d \in Callers : Sincere(callers'[d], py.good)
      /\ JobsOnce(line, py.run, Todo(callers'), py.jobs)
  BY <1>4, <1>6, <1>7, CallerStep
<1> QED BY <1>4, <1>8, CallersMoveOn

\* The caller goes, told or not.
LEMMA AnsweredStep ==
  ASSUME WorkersInv, NEW c \in Callers, Answered(c)
  PROVE  WorkersInv'
<1>1. PICK caller : caller = callers[c]
  OBVIOUS
<1>2. Sincere(caller, py.good) /\ caller.pc = "poll"
  BY <1>1, WorkersParts DEF Answered
<1>3. callers' = [callers EXCEPT ![c] = Away] /\ UNCHANGED <<line, answers, hands>>
  BY DEF Answered
<1>4. Sincere(Away, py.good) /\ ToPush(Away) = {}
  BY AwaySincere
<1>5. /\ callers' \in [Callers -> CallerType]
      /\ \A d \in Callers : Sincere(callers'[d], py.good)
      /\ JobsOnce(line, py.run, Todo(callers'), py.jobs)
  BY <1>3, <1>4, CallerStep
<1>6. /\ caller.jobs \in Seq(JobIds) /\ caller.got \in Seq(PyReplies)
      /\ Len(caller.got) = Len(caller.jobs)
      /\ \A k \in 1..Len(caller.got) : caller.got[k] = "ok" => caller.jobs[k] \in py.good
  BY <1>2 DEF Sincere, CallerType
<1>7. PICK told : told = IF \A i \in DOMAIN caller.got : caller.got[i] = "ok"
                         THEN py.told \cup Range(caller.jobs) ELSE py.told
  OBVIOUS
<1>8. py' = [py EXCEPT !.told = told]
  BY <1>1, <1>7 DEF Answered
<1>9. told \subseteq py.good
  <2>1. DOMAIN caller.got = 1..Len(caller.got) /\ DOMAIN caller.jobs = 1..Len(caller.jobs)
    BY <1>6
  <2>2. CASE \A i \in DOMAIN caller.got : caller.got[i] = "ok"
    <3>1. \A k \in DOMAIN caller.jobs : caller.jobs[k] \in py.good
      BY <1>6, <2>1, <2>2
    <3>2. Range(caller.jobs) \subseteq py.good
      BY <3>1 DEF Range
    <3> QED BY <1>7, <2>2, <3>2, WorkersParts
  <2>3. CASE ~\A i \in DOMAIN caller.got : caller.got[i] = "ok"
    BY <1>7, <2>3, WorkersParts
  <2> QED BY <2>2, <2>3
<1>10. py.good \in SUBSET JobIds
  BY WorkersParts
<1>11. /\ py' \in [jobs : Nat, faults : Nat, run : [JobIds -> {0, 1}], good : SUBSET JobIds,
                   told : SUBSET JobIds]
       /\ py'.told = told /\ py'.good = py.good /\ py'.run = py.run /\ py'.jobs = py.jobs
  BY <1>8, <1>9, <1>10, WorkersParts
<1>12. \A d \in Callers : Sincere(callers'[d], py'.good)
  BY <1>5, <1>11
<1>13. JobsOnce(line', py'.run, Todo(callers'), py'.jobs)
  BY <1>3, <1>5, <1>11
<1>14. /\ answers' \in [JobIds -> PyReplies] /\ hands' \in [Hands -> {0} \cup JobIds]
       /\ \A j \in JobIds : answers'[j] = "ok" => j \in py'.good
       /\ py'.told \subseteq py'.good
  BY <1>3, <1>9, <1>11, WorkersParts
<1> QED BY <1>5, <1>11, <1>12, <1>13, <1>14 DEF WorkersInv

LEMMA TakeStep ==
  ASSUME WorkersInv, NEW h \in Hands, Take(h)
  PROVE  WorkersInv'
<1>1. PICK j : j = Head(line)
  OBVIOUS
<1>2. /\ line # <<>> /\ line' = Tail(line) /\ hands' = [hands EXCEPT ![h] = j]
      /\ UNCHANGED <<answers, callers>>
  BY <1>1 DEF Take
<1>3. py \in [jobs : Nat, faults : Nat, run : [JobIds -> {0, 1}], good : SUBSET JobIds,
              told : SUBSET JobIds]
  BY WorkersParts
<1>4. PICK run : run = [py.run EXCEPT ![j] = py.run[j] + 1]
  OBVIOUS
<1>5. py' = [py EXCEPT !.run = run]
  BY <1>1, <1>4 DEF Take
<1>6. JobsOnce(line, py.run, Todo(callers), py.jobs)
  BY WorkersParts
<1>7. j \in JobIds /\ py.run[j] = 0
  <2>1. /\ line \in Seq(JobIds) /\ \A i \in 1..Len(line) : py.run[line[i]] = 0
    BY <1>6 DEF JobsOnce
  <2>2. Len(line) >= 1 /\ j = line[1] /\ j \in JobIds /\ 1 \in 1..Len(line)
    BY <1>1, <1>2, <2>1
  <2> QED BY <2>1, <2>2
<1>8. run \in [JobIds -> {0, 1}] /\ run[j] = 1 /\ \A x \in JobIds \ {j} : run[x] = py.run[x]
  BY <1>3, <1>4, <1>7
<1>9. JobsOnce(line', run, Todo(callers), py.jobs)
  <2>0. line \in Seq(JobIds)
    BY <1>6 DEF JobsOnce
  <2>1. /\ line' \in Seq(JobIds) /\ Len(line') = Len(line) - 1
        /\ \A i \in 1..Len(line') : line'[i] = line[i + 1]
    BY <1>2, <2>0, HeadTailProperties
  <2>2. Len(line) = Len(line') + 1 /\ j = line[1]
    BY <1>1, <1>2, <2>0, <2>1
  <2>3. run \in [JobIds -> {0, 1}]
    BY <1>8
  <2>4. run[j] = 1
    BY <1>8
  <2>5. \A x \in JobIds \ {j} : run[x] = py.run[x]
    BY <1>8
  <2>6. PICK lin, old, rest, todo, n :
            lin = line /\ old = py.run /\ rest = line' /\ todo = Todo(callers) /\ n = py.jobs
    OBVIOUS
  <2>7. JobsOnce(lin, old, todo, n)
    BY <1>6, <2>6
  <2>8. rest \in Seq(JobIds)
    BY <2>1, <2>6
  <2>9. Len(lin) = Len(rest) + 1 /\ j = lin[1]
    BY <2>2, <2>6
  <2>10. \A i \in 1..Len(rest) : rest[i] = lin[i + 1]
    BY <2>1, <2>6
  <2>11. \A x \in JobIds \ {j} : run[x] = old[x]
    BY <2>5, <2>6
  <2>12. JobsOnce(rest, run, todo, n)
    BY <2>3, <2>4, <2>7, <2>8, <2>9, <2>10, <2>11, JobTaken
  <2> QED BY <2>6, <2>12
<1>10. /\ py' \in [jobs : Nat, faults : Nat, run : [JobIds -> {0, 1}], good : SUBSET JobIds,
                   told : SUBSET JobIds]
       /\ py'.told = py.told /\ py'.good = py.good /\ py'.run = run /\ py'.jobs = py.jobs
  BY <1>3, <1>5, <1>8
<1>11. callers' = callers
  BY <1>2
<1>12. JobsOnce(line', py'.run, Todo(callers'), py'.jobs)
  BY <1>9, <1>10, <1>11
<1>13. hands' \in [Hands -> {0} \cup JobIds]
  BY <1>2, <1>7, WorkersParts
<1>14. /\ answers' \in [JobIds -> PyReplies] /\ callers' \in [Callers -> CallerType]
       /\ \A k \in JobIds : answers'[k] = "ok" => k \in py'.good
       /\ \A d \in Callers : Sincere(callers'[d], py'.good)
       /\ py'.told \subseteq py'.good
  BY <1>2, <1>10, WorkersParts
<1> QED BY <1>10, <1>12, <1>13, <1>14 DEF WorkersInv

LEMMA PostStep ==
  ASSUME WorkersInv, NEW h \in Hands, NEW ok \in BOOLEAN, Post(h, ok)
  PROVE  WorkersInv'
<1>1. PICK j : j = hands[h]
  OBVIOUS
<1>2. j \in JobIds
  BY <1>1, WorkersParts DEF Post
<1>3. PICK answer \in PyReplies : answer = IF ok THEN "ok" ELSE "failed"
  BY DEF PyReplies
<1>4. PICK good : good = IF ok THEN py.good \cup {j} ELSE py.good
  OBVIOUS
<1>5. /\ answers' = [answers EXCEPT ![j] = answer] /\ py' = [py EXCEPT !.good = good]
      /\ hands' = [hands EXCEPT ![h] = 0] /\ UNCHANGED <<line, callers>>
  BY <1>1, <1>3, <1>4 DEF Post
<1>6. good \in SUBSET JobIds /\ py.good \subseteq good /\ (answer = "ok" => j \in good)
  BY <1>2, <1>3, <1>4, WorkersParts
<1>7. /\ py' \in [jobs : Nat, faults : Nat, run : [JobIds -> {0, 1}], good : SUBSET JobIds,
                  told : SUBSET JobIds]
      /\ py'.told = py.told /\ py'.good = good /\ py'.run = py.run /\ py'.jobs = py.jobs
  BY <1>5, <1>6, WorkersParts
<1>8. /\ answers' \in [JobIds -> PyReplies]
      /\ \A k \in JobIds : answers'[k] = "ok" => k \in good
  BY <1>2, <1>5, <1>6, WorkersParts
<1>9. hands' \in [Hands -> {0} \cup JobIds] /\ callers' = callers /\ line' = line
  BY <1>5, WorkersParts
<1>10. \A d \in Callers : Sincere(callers[d], good)
  BY <1>6, WorkersParts, StillSincere
<1>11. JobsOnce(line', py'.run, Todo(callers'), py'.jobs)
  BY <1>7, <1>9, WorkersParts
<1>12. \A d \in Callers : Sincere(callers'[d], py'.good)
  BY <1>7, <1>9, <1>10
<1>13. callers' \in [Callers -> CallerType] /\ py'.told \subseteq py'.good
  BY <1>6, <1>7, <1>9, WorkersParts
<1>14. \A k \in JobIds : answers'[k] = "ok" => k \in py'.good
  BY <1>7, <1>8
<1> QED BY <1>7, <1>8, <1>9, <1>11, <1>12, <1>13, <1>14 DEF WorkersInv

LEMMA JobLostStep ==
  ASSUME WorkersInv, NEW h \in Hands, JobLost(h)
  PROVE  WorkersInv'
<1>1. /\ hands' = [hands EXCEPT ![h] = 0] /\ UNCHANGED <<line, answers, callers>> /\ PyFault
  BY DEF JobLost
<1>2. hands' \in [Hands -> {0} \cup JobIds] /\ callers' = callers /\ line' = line
      /\ answers' = answers
  BY <1>1, WorkersParts
<1>3. /\ py' \in [jobs : Nat, faults : Nat, run : [JobIds -> {0, 1}], good : SUBSET JobIds,
                  told : SUBSET JobIds]
      /\ py'.good = py.good /\ py'.told = py.told /\ py'.run = py.run /\ py'.jobs = py.jobs
  BY <1>1, PyFaultIsCounted
<1>4. JobsOnce(line', py'.run, Todo(callers'), py'.jobs)
  BY <1>2, <1>3, WorkersParts
<1>5. \A d \in Callers : Sincere(callers'[d], py'.good)
  BY <1>2, <1>3, WorkersParts
<1>6. /\ callers' \in [Callers -> CallerType] /\ answers' \in [JobIds -> PyReplies]
      /\ \A k \in JobIds : answers'[k] = "ok" => k \in py'.good
      /\ py'.told \subseteq py'.good
  BY <1>2, <1>3, WorkersParts
<1> QED BY <1>2, <1>3, <1>4, <1>5, <1>6 DEF WorkersInv

LEMMA PyRestartStep ==
  ASSUME WorkersInv, PyRestart
  PROVE  WorkersInv'
<1>1. callers' = [c \in Callers |-> Away] /\ UNCHANGED <<line, answers, hands>> /\ PyFault
  BY DEF PyRestart
<1>2. Sincere(Away, py.good) /\ ToPush(Away) = {} /\ Away \in CallerType
  BY AwaySincere DEF Sincere
<1>3. callers' \in [Callers -> CallerType] /\ \A d \in Callers : callers'[d] = Away
  BY <1>1, <1>2
<1>4. \A d \in Callers : Sincere(callers'[d], py.good)
  BY <1>2, <1>3
<1>5. /\ Todo(callers') \in [Callers -> SUBSET JobIds]
      /\ \A d \in Callers : Todo(callers')[d] = ToPush(callers'[d])
  BY <1>4, TodoTyped
<1>6. \A d \in Callers : Todo(callers')[d] \subseteq Todo(callers)[d]
  BY <1>2, <1>3, <1>5
<1>7. JobsOnce(line, py.run, Todo(callers), py.jobs)
  BY WorkersParts
<1>8. JobsOnce(line, py.run, Todo(callers'), py.jobs)
  BY <1>5, <1>6, <1>7, JobsLeft
<1>9. JobsOnce(line', py.run, Todo(callers'), py.jobs)
  BY <1>1, <1>8
<1> QED BY <1>1, <1>3, <1>4, <1>9, PyFaultIsCounted, CallersMoveOn

\* A request comes.
LEMMA CallStep ==
  ASSUME WorkersInv, NEW c \in Callers, NEW tools \in Requests, Call(c, tools)
  PROVE  WorkersInv'
<1>1. tools \in Seq(STRING) /\ Len(tools) \in 1..2
  OBVIOUS
<1>2. PICK m \in Nat : m = Len(tools) /\ m >= 1
  <2>1. Len(tools) \in Nat /\ Len(tools) >= 1
    BY <1>1
  <2> QED BY <2>1
<1>3. PICK n \in Nat : n = py.jobs
  BY WorkersParts
<1>4. n + m <= MaxJobs /\ MaxJobs \in Nat
  BY <1>2, <1>3 DEF Call
<1>5. PICK made : made = [i \in DOMAIN tools |-> n + i]
  OBVIOUS
<1>6. /\ made \in Seq(JobIds) /\ Len(made) = m /\ \A i \in 1..m : made[i] = n + i
  <2>1. DOMAIN tools = 1..m
    BY <1>1, <1>2
  <2>2. \A i \in 1..m : n + i \in JobIds
    BY <1>3, <1>4 DEF JobIds
  <2> QED BY <1>5, <2>1, <2>2
<1>7. PICK next : next = [Away EXCEPT !.pc = "push", !.tools = tools, !.jobs = made]
  OBVIOUS
<1>8. callers' = [callers EXCEPT ![c] = next] /\ UNCHANGED <<line, answers, hands>>
      /\ py' = [py EXCEPT !.jobs = n + m]
  BY <1>2, <1>3, <1>5, <1>7 DEF Call
<1>9. /\ next \in CallerType /\ next.pc = "push" /\ next.tools = tools /\ next.jobs = made
      /\ Len(next.got) = 0
  <2>1. Away \in CallerType /\ Len(Away.got) = 0
    BY AwaySincere DEF Sincere, Away
  <2> QED BY <1>1, <1>6, <1>7, <2>1 DEF CallerType
<1>10. \A i, k \in 1..m : made[i] = made[k] => i = k
  BY <1>6
<1>11. Sincere(next, py.good)
  BY <1>2, <1>6, <1>9, <1>10 DEF Sincere
<1>12. ToPush(next) \subseteq (n + 1)..(n + m)
  <2>1. \A k \in (m - m + 1)..m : k \in 1..m /\ n + k \in (n + 1)..(n + m)
    OBVIOUS
  <2>2. ToPush(next) = {made[k] : k \in (m - m + 1)..m}
    BY <1>2, <1>6, <1>9 DEF ToPush
  <2> QED BY <1>6, <2>1, <2>2
<1>13. /\ callers' \in [Callers -> CallerType]
       /\ \A d \in Callers : Sincere(callers'[d], py.good)
       /\ Todo(callers') \in [Callers -> SUBSET JobIds]
       /\ Todo(callers')[c] = ToPush(next)
       /\ \A d \in Callers \ {c} : Todo(callers')[d] = Todo(callers)[d]
  BY <1>8, <1>11, CallerMoves
<1>14. JobsOnce(line, py.run, Todo(callers), n)
  BY <1>3, WorkersParts
<1>15. Todo(callers')[c] \subseteq (n + 1)..(n + m)
  BY <1>12, <1>13
<1>16. JobsOnce(line, py.run, Todo(callers'), n + m)
  BY <1>4, <1>13, <1>14, <1>15, JobsMade
<1>17. /\ py' \in [jobs : Nat, faults : Nat, run : [JobIds -> {0, 1}], good : SUBSET JobIds,
                   told : SUBSET JobIds]
       /\ py'.told = py.told /\ py'.good = py.good /\ py'.run = py.run /\ py'.jobs = n + m
  <2>1. n + m \in Nat
    OBVIOUS
  <2>2. py \in [jobs : Nat, faults : Nat, run : [JobIds -> {0, 1}], good : SUBSET JobIds,
                told : SUBSET JobIds]
    BY WorkersParts
  <2> QED BY <1>8, <2>1, <2>2
<1>18. JobsOnce(line', py'.run, Todo(callers'), py'.jobs)
  BY <1>8, <1>16, <1>17
<1>19. \A d \in Callers : Sincere(callers'[d], py'.good)
  BY <1>13, <1>17
<1>20. /\ answers' \in [JobIds -> PyReplies] /\ hands' \in [Hands -> {0} \cup JobIds]
       /\ \A k \in JobIds : answers'[k] = "ok" => k \in py'.good
       /\ py'.told \subseteq py'.good
  BY <1>8, <1>17, WorkersParts
<1> QED BY <1>13, <1>17, <1>18, <1>19, <1>20 DEF WorkersInv

LEMMA WorkersStart ==
  ASSUME PyInit
  PROVE  WorkersInv
<1>1. /\ line = <<>> /\ answers = [j \in JobIds |-> "none"] /\ hands = [h \in Hands |-> 0]
      /\ callers = [c \in Callers |-> Away]
      /\ py = [jobs |-> 0, faults |-> 0, run |-> [j \in JobIds |-> 0], good |-> {}, told |-> {}]
  BY DEF PyInit, JobIds
<1>2. py \in [jobs : Nat, faults : Nat, run : [JobIds -> {0, 1}], good : SUBSET JobIds,
              told : SUBSET JobIds]
      /\ py.told \subseteq py.good /\ py.jobs = 0 /\ py.run \in [JobIds -> {0, 1}]
      /\ \A j \in JobIds : py.run[j] = 0
  BY <1>1
<1>3. Sincere(Away, py.good) /\ ToPush(Away) = {} /\ Away \in CallerType
  BY AwaySincere DEF Sincere
<1>4. callers \in [Callers -> CallerType] /\ \A c \in Callers : callers[c] = Away
  BY <1>1, <1>3
<1>5. \A c \in Callers : Sincere(callers[c], py.good)
  BY <1>3, <1>4
<1>6. /\ Todo(callers) \in [Callers -> SUBSET JobIds]
      /\ \A c \in Callers : Todo(callers)[c] = {}
  <2>1. /\ Todo(callers) \in [Callers -> SUBSET JobIds]
        /\ \A c \in Callers : Todo(callers)[c] = ToPush(callers[c])
    BY <1>5, TodoTyped
  <2> QED BY <1>3, <1>4, <2>1
<1>7. line \in Seq(JobIds) /\ Len(line) = 0
  BY <1>1
<1>8. JobsOnce(line, py.run, Todo(callers), py.jobs)
  BY <1>2, <1>6, <1>7 DEF JobsOnce
<1>9. /\ answers \in [JobIds -> PyReplies] /\ hands \in [Hands -> {0} \cup JobIds]
      /\ \A j \in JobIds : answers[j] # "ok"
  BY <1>1 DEF PyReplies
<1> QED BY <1>2, <1>4, <1>5, <1>8, <1>9 DEF WorkersInv

LEMMA WorkersStep ==
  ASSUME WorkersInv, [PyNext]_pyVars
  PROVE  WorkersInv'
<1>1. CASE UNCHANGED pyVars
  BY <1>1 DEF pyVars, WorkersInv
<1>2. ASSUME NEW c \in Callers,
             \/ \E tools \in Requests : Call(c, tools)
             \/ Push(c) \/ PushFails(c) \/ ClosedUnderCaller(c) \/ DeadlinePasses(c) \/ Answered(c)
             \/ \E i \in 1..2 : i \in DOMAIN callers[c].jobs /\ Read(c, i)
      PROVE  WorkersInv'
  BY <1>2, CallStep, PushStep, PushFailsStep, ClosedStep, DeadlineStep, AnsweredStep, ReadStep
<1>3. ASSUME NEW h \in Hands, Take(h) \/ JobLost(h) \/ \E ok \in BOOLEAN : Post(h, ok)
      PROVE  WorkersInv'
  BY <1>3, TakeStep, JobLostStep, PostStep
<1>4. CASE PyRestart
  BY <1>4, PyRestartStep
<1> QED BY <1>1, <1>2, <1>3, <1>4 DEF PyNext

\* Told "completed" only on good answers, to every job of its own, and no job is
\* run twice, whatever fails or ends (file-intelligence.service.ts, worker.py).
THEOREM AnswersAreHonest == PySpec => []AnswersHonest
<1>1. WorkersInv => AnswersHonest
  <2>1. ASSUME WorkersInv
        PROVE  py.told \subseteq py.good /\ \A j \in JobIds : py.run[j] <= 1
    <3>1. \A j \in JobIds : py.run[j] \in {0, 1}
      BY <2>1, WorkersParts
    <3> QED BY <2>1, <3>1, WorkersParts
  <2> QED BY <2>1 DEF AnswersHonest, JobIds
<1> QED BY <1>1, WorkersStart, WorkersStep, PTL DEF PySpec

HIDE PyAssumption

-----------------------------------------------------------------------------
(* Posture: no pair of reports without its fire.                             *)

Verdicts == {"pass", "warn", "fail"}

Reports ==
    [id : Nat, source : {"owner", "guardian"}, results : Seq(Verdicts)]

ScanRecords ==
    [pc : {"idle", "probe", "write", "tell"}, id : Nat, source : {"owner", "guardian"},
     results : Seq(Verdicts), history : Seq(Reports)]

PostureRecords ==
    [scans : Nat, slips : Nat, faults : Nat, fires : SUBSET Nat, cut : SUBSET Nat,
     rang : SUBSET Nat]

PostureTypes ==
    /\ reports \in Seq(Reports)
    /\ scans \in [Scans -> ScanRecords]
    /\ posture \in PostureRecords

\* The fire of a report was told, or its scan is about to tell it, or was cut off.
FireTold(id) ==
    \/ id \in posture.fires \cup posture.cut
    \/ \E s \in Scans : scans[s].id = id /\ scans[s].pc = "tell" /\ Fire(scans[s])

\* All fires of a history were.
AllTold(history) ==
    \A i \in DOMAIN history :
        /\ i > 1 /\ i - 1 \in DOMAIN history /\ history[i].source = "owner"
        /\ Regressed(history[i - 1].results, history[i].results) # {}
        => FireTold(history[i].id)

PostureInv ==
    /\ PostureTypes
    /\ AllTold(reports)
    /\ \A s \in Scans : AllTold(scans[s].history)

\* What was told stays told.
LEMMA ToldStays ==
  ASSUME \A id \in Nat : FireTold(id) => FireTold(id)', NEW h \in Seq(Reports), AllTold(h)
  PROVE  AllTold(h)'
<1> SUFFICES ASSUME NEW i \in DOMAIN h, i > 1, i - 1 \in DOMAIN h, h[i].source = "owner",
                    Regressed(h[i - 1].results, h[i].results) # {}
             PROVE  FireTold(h[i].id)'
  BY DEF AllTold
<1>1. h[i] \in Reports
  BY ElementOfSeq, LenProperties
<1>2. h[i].id \in Nat /\ FireTold(h[i].id)
  BY <1>1 DEF AllTold, Reports
<1> QED BY <1>2

\* So a step that tells of all that was told keeps every history it leaves alone.
LEMMA HistoriesStay ==
  ASSUME PostureInv, \A id \in Nat : FireTold(id) => FireTold(id)',
         UNCHANGED reports, scans' \in [Scans -> ScanRecords],
         \A s \in Scans : scans'[s].history \in {scans[s].history, <<>>, reports},
         posture' \in PostureRecords
  PROVE  PostureInv'
<1>1. AllTold(reports)'
  BY ToldStays DEF PostureInv, PostureTypes
<1>2. ASSUME NEW h, h = <<>>
      PROVE  AllTold(h)'
  BY <1>2, EmptySeq DEF AllTold
<1>3. ASSUME NEW s \in Scans
      PROVE  AllTold(scans[s].history)'
  <2> PICK h \in Seq(Reports) : h = scans'[s].history
    BY DEF ScanRecords
  <2>1. CASE h = scans[s].history
    <3>1. AllTold(h)
      BY <2>1 DEF PostureInv
    <3>2. AllTold(h)'
      BY <3>1, ToldStays
    <3> QED BY <3>2
  <2>2. CASE h = <<>>
    BY <1>2, <2>2
  <2>3. CASE h = reports
    <3>1. AllTold(h)'
      BY <1>1, <2>3
    <3> QED BY <3>1
  <2> QED BY <2>1, <2>2, <2>3
<1> QED BY <1>1, <1>3 DEF PostureInv, PostureTypes

LEMMA SlipsInv ==
  ASSUME PostureInv, NEW check, Slips(check)
  PROVE  PostureInv'
<1> PICK old \in PostureRecords, n \in Nat : old = posture /\ n = old.slips + 1
  BY DEF PostureInv, PostureTypes, PostureRecords
<1>1. posture' = [old EXCEPT !.slips = n] /\ UNCHANGED <<reports, scans>>
  BY DEF Slips
<1>2. posture' \in PostureRecords /\ posture'.fires = posture.fires /\ posture'.cut = posture.cut
  BY <1>1 DEF PostureRecords
<1>3. \A id \in Nat : FireTold(id) => FireTold(id)'
  BY <1>1, <1>2 DEF FireTold
<1> QED BY <1>1, <1>2, <1>3, HistoriesStay DEF PostureInv, PostureTypes

\* A scan that does not tell anything changes.
LEMMA ScanMoves ==
  ASSUME PostureInv, NEW s \in Scans, scans[s].pc # "tell", NEW r \in ScanRecords,
         scans' = [scans EXCEPT ![s] = r],
         r.history \in {scans[s].history, <<>>, reports},
         UNCHANGED reports, posture' \in PostureRecords,
         posture'.fires = posture.fires, posture'.cut = posture.cut
  PROVE  PostureInv'
<1>1. /\ scans' \in [Scans -> ScanRecords] /\ scans'[s] = r
      /\ \A t \in Scans \ {s} : scans'[t] = scans[t]
  BY DEF PostureInv, PostureTypes
<1>2. \A id \in Nat : FireTold(id) => FireTold(id)'
  BY <1>1 DEF FireTold
<1>3. \A t \in Scans : scans'[t].history \in {scans[t].history, <<>>, reports}
  BY <1>1
<1> QED BY <1>1, <1>2, <1>3, HistoriesStay

LEMMA NoScanIsOne ==
  NoScan \in ScanRecords /\ NoScan.history = <<>> /\ NoScan.pc = "idle"
BY EmptySeq DEF NoScan, ScanRecords, Reports, Verdicts

LEMMA ScanInv ==
  ASSUME PostureInv, NEW s \in Scans, NEW source \in {"owner", "guardian"}, Scan(s, source)
  PROVE  PostureInv'
<1> PICK old \in PostureRecords, n \in Nat : old = posture /\ n = old.scans + 1
  BY DEF PostureInv, PostureTypes, PostureRecords
<1> DEFINE r == [NoScan EXCEPT !.pc = "probe", !.id = n, !.source = source]
<1>1. /\ posture' = [old EXCEPT !.scans = n] /\ scans' = [scans EXCEPT ![s] = r]
      /\ UNCHANGED reports
  BY DEF Scan
<1>2. posture' \in PostureRecords /\ posture'.fires = posture.fires /\ posture'.cut = posture.cut
  BY <1>1 DEF PostureRecords
<1>3. r \in ScanRecords /\ r.history = <<>>
  BY NoScanIsOne DEF ScanRecords
<1>4. scans[s].pc # "tell"
  BY DEF Scan, NoScan
<1> HIDE DEF r
<1> QED BY <1>1, <1>2, <1>3, <1>4, ScanMoves

LEMMA ProbeInv ==
  ASSUME PostureInv, NEW s \in Scans, Probe(s)
  PROVE  PostureInv'
<1> PICK scan \in ScanRecords : scan = scans[s]
  BY DEF PostureInv, PostureTypes
<1>1. scan.pc = "probe" /\ UNCHANGED <<reports, posture>>
  BY DEF Probe
<1>2. PICK r \in ScanRecords : /\ scans' = [scans EXCEPT ![s] = r]
                               /\ r.history \in {scan.history, reports}
  <2>1. CASE Len(scan.results) < Len(Checks)
    <3> PICK v \in Verdicts : v = Verdict(Checks[Len(scan.results) + 1])
      BY DEF Verdict, Verdicts
    <3>1. Append(scan.results, v) \in Seq(Verdicts)
      BY AppendProperties DEF ScanRecords
    <3> PICK w \in Seq(Verdicts) : w = Append(scan.results, v)
      BY <3>1
    <3> DEFINE r == [scan EXCEPT !.results = w]
    <3>2. scans' = [scans EXCEPT ![s] = r]
      BY <2>1 DEF Probe
    <3>3. r \in ScanRecords /\ r.history = scan.history
      BY DEF ScanRecords
    <3> QED BY <3>2, <3>3
  <2>2. CASE ~(Len(scan.results) < Len(Checks))
    <3> DEFINE r == [scan EXCEPT !.pc = "write", !.history = reports]
    <3>1. scans' = [scans EXCEPT ![s] = r]
      BY <2>2 DEF Probe
    <3>2. r \in ScanRecords /\ r.history = reports
      BY DEF ScanRecords, PostureInv, PostureTypes
    <3> QED BY <3>1, <3>2
  <2> QED BY <2>1, <2>2
<1>3. posture' \in PostureRecords
  BY <1>1 DEF PostureInv, PostureTypes
<1> QED BY <1>1, <1>2, <1>3, ScanMoves

LEMMA WriteRefusedInv ==
  ASSUME PostureInv, NEW s \in Scans, WriteRefused(s)
  PROVE  PostureInv'
<1> PICK old \in PostureRecords, n \in Nat : old = posture /\ n = old.faults + 1
  BY DEF PostureInv, PostureTypes, PostureRecords
<1>1. /\ posture' = [old EXCEPT !.faults = n] /\ scans' = [scans EXCEPT ![s] = NoScan]
      /\ UNCHANGED reports /\ scans[s].pc # "tell"
  BY DEF WriteRefused
<1>2. posture' \in PostureRecords /\ posture'.fires = posture.fires /\ posture'.cut = posture.cut
  BY <1>1 DEF PostureRecords
<1> QED BY <1>1, <1>2, NoScanIsOne, ScanMoves

\* The last pair of what a scan writes is the one its fire is about.
LEMMA WrittenInv ==
  ASSUME PostureInv, NEW s \in Scans, Written(s)
  PROVE  PostureInv'
<1> PICK scan \in ScanRecords : scan = scans[s]
  BY DEF PostureInv, PostureTypes
<1> DEFINE report == [id |-> scan.id, source |-> scan.source, results |-> scan.results]
<1>1. report \in Reports /\ report.id = scan.id /\ report.source = scan.source
      /\ report.results = scan.results
  BY DEF Reports, ScanRecords
<1> HIDE DEF report
<1> PICK rep \in Reports : rep = report
  BY <1>1
<1> PICK h \in Seq(Reports) : h = scan.history
  BY DEF ScanRecords
<1> DEFINE all == Append(h, rep)
           r == [scan EXCEPT !.pc = "tell"]
<1>2. /\ scan.pc = "write"
      /\ reports' = SubSeq(all, IF Len(all) > MaxReports THEN 2 ELSE 1, Len(all))
      /\ scans' = [scans EXCEPT ![s] = r] /\ UNCHANGED posture
  BY DEF Written, report
<1>3. /\ r \in ScanRecords /\ r.pc = "tell" /\ r.id = scan.id /\ r.history = h
      /\ r.source = scan.source /\ r.results = scan.results
  BY DEF ScanRecords
<1> HIDE DEF r
<1>4. /\ scans' \in [Scans -> ScanRecords] /\ scans'[s] = r
      /\ \A t \in Scans \ {s} : scans'[t] = scans[t]
  BY <1>2, <1>3 DEF PostureInv, PostureTypes
<1>5. \A id \in Nat : FireTold(id) => FireTold(id)'
  BY <1>2, <1>4 DEF FireTold
<1>6. Len(h) \in Nat /\ DOMAIN h = 1..Len(h)
  BY LenProperties
<1>7. /\ all \in Seq(Reports) /\ Len(all) = Len(h) + 1 /\ DOMAIN all = 1..(Len(h) + 1)
      /\ \A i \in 1..Len(h) : all[i] = h[i]
      /\ all[Len(h) + 1] = rep
  BY <1>6, AppendProperties, LenProperties
<1> HIDE DEF all
<1>8. AllTold(h)'
  BY <1>5, ToldStays DEF PostureInv
<1>9. rep.source = "owner" /\ Len(h) > 0 /\ Regressed(h[Len(h)].results, rep.results) # {}
      => FireTold(rep.id)'
  <2> HAVE rep.source = "owner" /\ Len(h) > 0 /\ Regressed(h[Len(h)].results, rep.results) # {}
  <2>1. h # <<>>
    BY EmptySeq, <1>6
  <2>2. LastReport(h) = h[Len(h)].results
    BY <2>1 DEF LastReport, Last
  <2>3. r.source # "guardian" /\ Regressed(LastReport(r.history), r.results) # {}
    BY <1>1, <1>3, <2>2
  <2>4. Fire(r)
    BY <2>3 DEF Fire
  <2>5. scans'[s].id = rep.id /\ scans'[s].pc = "tell" /\ Fire(scans'[s])
    BY <1>1, <1>3, <1>4, <2>4
  <2> QED BY <2>5 DEF FireTold
<1>10. AllTold(all)'
  <2> SUFFICES ASSUME NEW i \in DOMAIN all, i > 1, i - 1 \in DOMAIN all,
                      all[i].source = "owner",
                      Regressed(all[i - 1].results, all[i].results) # {}
               PROVE  FireTold(all[i].id)'
    BY DEF AllTold
  <2>1. CASE i \in 1..Len(h)
    <3>1. i \in DOMAIN h /\ i - 1 \in DOMAIN h /\ all[i] = h[i] /\ all[i - 1] = h[i - 1]
      BY <1>6, <1>7, <2>1
    <3> QED BY <1>8, <3>1 DEF AllTold
  <2>2. CASE i = Len(h) + 1
    <3>1. Len(h) > 0 /\ i - 1 = Len(h) /\ all[i - 1] = h[Len(h)] /\ all[i] = rep
      BY <1>6, <1>7, <2>2
    <3> QED BY <1>9, <3>1
  <2>3. i \in 1..Len(h) \/ i = Len(h) + 1
    BY <1>6, <1>7
  <2> QED BY <2>1, <2>2, <2>3
<1>11. reports' \in Seq(Reports) /\ AllTold(reports)'
  <2>1. CASE ~(Len(all) > MaxReports)
    <3>1. reports' = all
      <4>1. reports' = SubSeq(all, 1, Len(all))
        BY <1>2, <2>1
      <4>2. Len(all) \in Nat /\ all \in Seq(Reports)
        BY <1>6, <1>7
      <4>3. reports' = [i \in 1..Len(all) |-> all[i]]
        BY <4>1, <4>2, SubSeqProperties
      <4> QED BY <1>7, <4>2, <4>3, LenProperties
    <3> QED BY <1>7, <1>10, <3>1
  <2>2. CASE Len(all) > MaxReports
    <3>1. reports' = SubSeq(all, 2, Len(all))
      BY <1>2, <2>2
    <3>2. /\ reports' \in Seq(Reports) /\ Len(reports') = Len(h)
          /\ \A i \in 1..Len(h) : reports'[i] = all[i + 1]
      BY <1>6, <1>7, <3>1, SubSeqProperties
    <3>3. DOMAIN reports' = 1..Len(h)
      BY <3>2, LenProperties
    <3> PICK q \in Seq(Reports) : q = reports'
      BY <3>2
    <3>4. AllTold(q)'
      <4> SUFFICES ASSUME NEW i \in DOMAIN q, i > 1, i - 1 \in DOMAIN q,
                          q[i].source = "owner",
                          Regressed(q[i - 1].results, q[i].results) # {}
                   PROVE  FireTold(q[i].id)'
        BY DEF AllTold
      <4>1. /\ i + 1 \in DOMAIN all /\ (i + 1) - 1 \in DOMAIN all /\ i + 1 > 1
            /\ q[i] = all[i + 1] /\ q[i - 1] = all[(i + 1) - 1]
        <5>1. i \in 1..Len(h) /\ i - 1 \in 1..Len(h) /\ Len(h) \in Nat
          BY <1>6, <3>3
        <5>2. /\ i + 1 \in 1..(Len(h) + 1) /\ i \in 1..(Len(h) + 1) /\ i + 1 > 1
              /\ (i + 1) - 1 = i /\ (i - 1) + 1 = i
          BY <5>1
        <5>3. q[i] = all[i + 1] /\ q[i - 1] = all[(i - 1) + 1]
          BY <3>2, <5>1
        <5> QED BY <1>7, <5>2, <5>3
      <4> QED BY <1>10, <4>1 DEF AllTold
    <3> QED BY <3>2, <3>4
  <2> QED BY <2>1, <2>2
<1>12. ASSUME NEW t \in Scans
       PROVE  AllTold(scans[t].history)'
  <2> PICK k \in Seq(Reports) : k = scans'[t].history
    BY <1>4 DEF ScanRecords
  <2>1. k = scans[t].history
    BY <1>3, <1>4
  <2>2. AllTold(k)
    BY <2>1 DEF PostureInv
  <2>3. AllTold(k)'
    BY <1>5, <2>2, ToldStays
  <2> QED BY <2>3
<1> QED BY <1>2, <1>4, <1>11, <1>12 DEF PostureInv, PostureTypes

LEMMA TellsInv ==
  ASSUME PostureInv, NEW s \in Scans, NEW replied \in BOOLEAN, Tells(s, replied)
  PROVE  PostureInv'
<1> PICK old \in PostureRecords, scan \in ScanRecords : old = posture /\ scan = scans[s]
  BY DEF PostureInv, PostureTypes
<1> PICK n \in Nat : n = IF replied THEN old.faults ELSE old.faults + 1
  BY DEF PostureRecords
<1> PICK F \in SUBSET Nat : F = IF Fire(scan) THEN old.fires \cup {scan.id} ELSE old.fires
  BY DEF PostureRecords, ScanRecords
<1> PICK G \in SUBSET Nat : G = IF Fire(scan) /\ replied THEN old.rang \cup {scan.id} ELSE old.rang
  BY DEF PostureRecords, ScanRecords
<1>1. posture' = [old EXCEPT !.faults = n, !.fires = F, !.rang = G]
      /\ scans' = [scans EXCEPT ![s] = NoScan] /\ UNCHANGED reports
  BY DEF Tells
<1>2. posture' \in PostureRecords /\ posture'.fires = F /\ posture'.cut = posture.cut
  BY <1>1 DEF PostureRecords
<1>3. /\ scans' \in [Scans -> ScanRecords] /\ scans'[s] = NoScan
      /\ \A t \in Scans \ {s} : scans'[t] = scans[t]
  BY <1>1, NoScanIsOne DEF PostureInv, PostureTypes
<1>4. ASSUME NEW id \in Nat, FireTold(id)
      PROVE  FireTold(id)'
  <2>1. CASE id \in posture.fires \cup posture.cut
    BY <1>2, <2>1 DEF FireTold
  <2>2. CASE scan.id = id /\ Fire(scan)
    BY <1>2, <2>2 DEF FireTold
  <2>3. CASE \E t \in Scans \ {s} : scans[t].id = id /\ scans[t].pc = "tell" /\ Fire(scans[t])
    BY <1>3, <2>3 DEF FireTold
  <2> QED BY <1>4, <2>1, <2>2, <2>3 DEF FireTold
<1>5. \A t \in Scans : scans'[t].history \in {scans[t].history, <<>>, reports}
  BY <1>3, NoScanIsOne
<1> QED BY <1>1, <1>2, <1>3, <1>4, <1>5, HistoriesStay

LEMMA PostureRestartInv == ASSUME PostureInv, PostureRestart PROVE PostureInv'
<1> PICK old \in PostureRecords, n \in Nat : old = posture /\ n = old.faults + 1
  BY DEF PostureInv, PostureTypes, PostureRecords
<1> DEFINE lost == {scans[s].id : s \in {t \in Scans : scans[t].pc = "tell"}}
<1>1. lost \subseteq Nat
  BY DEF PostureInv, PostureTypes, ScanRecords
<1> PICK C \in SUBSET Nat : C = old.cut \cup lost
  BY <1>1 DEF PostureRecords
<1>2. /\ posture' = [old EXCEPT !.faults = n, !.cut = C]
      /\ scans' = [s \in Scans |-> NoScan] /\ UNCHANGED reports
  BY DEF PostureRestart
<1>3. posture' \in PostureRecords /\ posture'.fires = posture.fires /\ posture'.cut = C
  BY <1>2 DEF PostureRecords
<1>4. ASSUME NEW id \in Nat, FireTold(id)
      PROVE  FireTold(id)'
  <2>1. id \in posture.fires \cup C
    BY <1>4 DEF FireTold
  <2> QED BY <1>3, <2>1 DEF FireTold
<1>5. scans' \in [Scans -> ScanRecords]
      /\ \A t \in Scans : scans'[t].history \in {scans[t].history, <<>>, reports}
  BY <1>2, NoScanIsOne
<1> QED BY <1>2, <1>3, <1>4, <1>5, HistoriesStay

LEMMA PostureStep ==
  ASSUME PostureInv, [PostureNext]_postureVars
  PROVE  PostureInv'
<1>1. CASE UNCHANGED postureVars
  BY <1>1 DEF PostureInv, PostureTypes, AllTold, FireTold, postureVars
<1>2. CASE PostureNext
  BY <1>2, SlipsInv, ScanInv, ProbeInv, WrittenInv, WriteRefusedInv, TellsInv, PostureRestartInv
     DEF PostureNext
<1> QED BY <1>1, <1>2

LEMMA PostureBegins == PostureInit => PostureInv
<1> SUFFICES ASSUME PostureInit PROVE PostureInv
  OBVIOUS
<1>1. PostureTypes
  BY NoScanIsOne, EmptySeq DEF PostureInit, PostureTypes, PostureRecords
<1>2. ASSUME NEW h, h = <<>>
      PROVE  AllTold(h)
  BY <1>2, EmptySeq DEF AllTold
<1> QED BY <1>1, <1>2, NoScanIsOne DEF PostureInv, PostureInit

\* Of two stored reports that follow each other, the second one the timer's or the
\* owner's, no check of the second is worse without a fire that told of it, is about
\* to, or was cut off by the end of the process (security-audit.service.ts,
\* runAndPersist(), security-scheduler.service.ts, runNow()): whichever history is
\* written last is one scan's, and before that scan's report is the one it was
\* compared with.
THEOREM NoFireForgotten == PostureSpec => []FiresAreTold
<1>1. PostureInv /\ [PostureNext]_postureVars => PostureInv'
  BY PostureStep
<1>2. PostureInv => FiresAreTold
  <2> SUFFICES ASSUME PostureInv, NEW i \in DOMAIN reports, Worse(i), reports[i].source = "owner"
               PROVE  ToldOf(i)
    BY DEF FiresAreTold
  <2>1. DOMAIN reports = 1..Len(reports) /\ Len(reports) \in Nat
    BY LenProperties DEF PostureInv, PostureTypes
  <2>2. i > 1 /\ i - 1 \in DOMAIN reports
    BY <2>1 DEF Worse
  <2>3. FireTold(reports[i].id)
    BY <2>2 DEF PostureInv, AllTold, Worse
  <2> QED BY <2>3 DEF FireTold, ToldOf
<1> QED BY <1>1, <1>2, PostureBegins, PTL DEF PostureSpec

-----------------------------------------------------------------------------
(* Inbox: what a message says was done was done.                             *)

MessageFields == [id : Nat, read : BOOLEAN, sms : BOOLEAN, call : BOOLEAN]

\* The messages that pretend nothing, and the inboxes made of them.
Truthful(called, texted) ==
    {m \in MessageFields : (m.call => m.id \in called) /\ (m.sms => m.id \in texted)}

TrueInboxes(called, texted) ==
    {doc \in Seq(Truthful(called, texted)) : Len(doc) <= Cap}

Writers == Pushes \cup {"reader"}

PushRecords ==
    [pc : {"idle", "put", "dial", "sms"}, id : Nat, boot : Nat, call : BOOLEAN, phone : BOOLEAN]

DeskRecords ==
    [messages : Nat, marks : Nat, faults : Nat, reads : Nat,
     dialled : SUBSET Nat, sent : SUBSET Nat]

\* Every inbox, in memory, stored or on its way.
InboxInv ==
    /\ desk \in DeskRecords
    /\ pushes \in [Pushes -> PushRecords]
    /\ inbox \in StoreType(TrueInboxes(desk.dialled, desk.sent), Writers)

\* A store of some documents is a store of more.
LEMMA StoreGrows ==
  ASSUME NEW docs, NEW more, docs \subseteq more, NEW facts, NEW st \in StoreType(docs, facts)
  PROVE  st \in StoreType(more, facts)
<1>1. Puts(docs, facts) \subseteq Puts(more, facts)
  BY DEF Puts
<1>2. Seq(Puts(docs, facts)) \subseteq Seq(Puts(more, facts))
  BY <1>1, SeqMonotonic
<1> PICK P, Q : P = Seq(Puts(docs, facts)) /\ Q = Seq(Puts(more, facts))
  OBVIOUS
<1>3. st \in [mem : docs, loaded : BOOLEAN, disk : docs, puts : P, acked : SUBSET facts]
  BY DEF StoreType, Puts
<1>4. st \in [mem : more, loaded : BOOLEAN, disk : more, puts : Q, acked : SUBSET facts]
  BY <1>2, <1>3
<1> QED BY <1>4 DEF StoreType, Puts

LEMMA InboxesGrow ==
  ASSUME NEW called, NEW called2, called \subseteq called2,
         NEW texted, NEW texted2, texted \subseteq texted2
  PROVE  TrueInboxes(called, texted) \subseteq TrueInboxes(called2, texted2)
<1>1. Truthful(called, texted) \subseteq Truthful(called2, texted2)
  BY DEF Truthful
<1>2. Seq(Truthful(called, texted)) \subseteq Seq(Truthful(called2, texted2))
  BY <1>1, SeqMonotonic
<1> QED BY <1>2 DEF TrueInboxes

\* One message more, and no more than the cap.
LEMMA CappedIsTrue ==
  ASSUME NEW called, NEW texted, NEW doc \in TrueInboxes(called, texted),
         NEW m \in Truthful(called, texted)
  PROVE  Capped(Append(doc, m)) \in TrueInboxes(called, texted)
<1> DEFINE T == Truthful(called, texted)
           all == Append(doc, m)
<1>0. Cap \in Nat /\ Cap > 0
  BY InboxAssumption
<1>1. doc \in Seq(T) /\ Len(doc) <= Cap /\ Len(doc) \in Nat
  BY LenProperties DEF TrueInboxes
<1>2. all \in Seq(T) /\ Len(all) = Len(doc) + 1
  BY <1>1, AppendProperties
<1> HIDE DEF all
<1>3. Len(all) \in Nat /\ \A i \in 1..Len(all) : all[i] \in T
  BY <1>2, ElementOfSeq, LenProperties
<1> PICK n \in Nat : n = Len(all)
  BY <1>3
<1>4. n <= Cap + 1 /\ n > 0
  BY <1>0, <1>1, <1>2
<1>5. CASE n > Cap
  <2>1. n = Cap + 1 /\ n - Cap + 1 = 2
    BY <1>0, <1>4, <1>5
  <2>2. Capped(all) = SubSeq(all, 2, n)
    BY <1>5, <2>1 DEF Capped
  <2>3. SubSeq(all, 2, n) \in Seq(T) /\ Len(SubSeq(all, 2, n)) = Cap
    <3>1. \A i \in 2..n : all[i] \in T
      BY <1>3
    <3>2. /\ SubSeq(all, 2, n) \in Seq(T)
          /\ Len(SubSeq(all, 2, n)) = IF 2 <= n THEN n - 2 + 1 ELSE 0
      BY <1>2, <3>1, SubSeqProperties
    <3> QED BY <1>0, <2>1, <3>2
  <2>4. Len(SubSeq(all, 2, n)) <= Cap
    BY <1>0, <2>3
  <2> QED BY <2>2, <2>3, <2>4 DEF TrueInboxes, all
<1>6. CASE ~(n > Cap)
  <2>1. Capped(all) = SubSeq(all, 1, n)
    BY <1>6 DEF Capped
  <2>2. SubSeq(all, 1, n) \in Seq(T) /\ Len(SubSeq(all, 1, n)) = n
    <3>1. \A i \in 1..n : all[i] \in T
      BY <1>3
    <3>2. /\ SubSeq(all, 1, n) \in Seq(T)
          /\ Len(SubSeq(all, 1, n)) = IF 1 <= n THEN n - 1 + 1 ELSE 0
      BY <1>2, <3>1, SubSeqProperties
    <3> QED BY <1>4, <3>2
  <2>3. Len(SubSeq(all, 1, n)) <= Cap
    BY <1>0, <1>6, <2>2
  <2> QED BY <2>1, <2>2, <2>3 DEF TrueInboxes, all
<1> QED BY <1>5, <1>6

\* Messages changed one by one stay an inbox.
LEMMA ChangedIsTrue ==
  ASSUME NEW called, NEW texted, NEW doc \in TrueInboxes(called, texted),
         NEW more, NEW new, new = [i \in DOMAIN doc |-> new[i]],
         \A i \in DOMAIN doc : new[i] \in Truthful(called, more)
  PROVE  new \in TrueInboxes(called, more)
<1>1. doc \in Seq(Truthful(called, texted)) /\ Len(doc) <= Cap
      /\ DOMAIN doc = 1..Len(doc) /\ Len(doc) \in Nat
  BY LenProperties DEF TrueInboxes
<1> PICK n \in Nat : n = Len(doc)
  BY <1>1
<1>2. new \in [1..n -> Truthful(called, more)]
  BY <1>1
<1>3. new \in Seq(Truthful(called, more))
  BY <1>2, IsASeq
<1>4. Len(new) = n
  BY <1>2, <1>3, LenProperties
<1> QED BY <1>1, <1>3, <1>4 DEF TrueInboxes

LEMMA InboxTypes ==
  ASSUME InboxInv
  PROVE  /\ desk.messages + 1 \in Nat /\ desk.marks + 1 \in Nat
         /\ desk.faults + 1 \in Nat /\ desk.reads + 1 \in Nat
         /\ inbox.mem \in TrueInboxes(desk.dialled, desk.sent)
         /\ \A p \in Pushes : pushes[p].id \in Nat /\ pushes[p].boot \in Nat
BY StoreFields DEF InboxInv, DeskRecords, PushRecords

\* A desk that dialled and sent no less keeps the inbox it has.
LEMMA DeskGrows ==
  ASSUME InboxInv, desk' \in DeskRecords,
         desk.dialled \subseteq desk'.dialled, desk.sent \subseteq desk'.sent
  PROVE  inbox \in StoreType(TrueInboxes(desk'.dialled, desk'.sent), Writers)
BY InboxesGrow, StoreGrows DEF InboxInv

\* push() of a message that speaks of a call only if one was dialled.
LEMMA PushedIsTrue ==
  ASSUME InboxInv, NEW p \in Pushes, NEW id \in Nat, NEW call \in BOOLEAN, NEW phone \in BOOLEAN,
         MessagePushed(p, id, call, phone),
         desk' \in DeskRecords, desk.dialled \subseteq desk'.dialled, desk'.sent = desk.sent,
         call => id \in desk'.dialled
  PROVE  InboxInv'
<1> DEFINE m == [id |-> id, read |-> FALSE, sms |-> FALSE, call |-> call]
           docs == TrueInboxes(desk'.dialled, desk'.sent)
<1>1. m \in Truthful(desk'.dialled, desk'.sent)
  BY DEF Truthful, MessageFields
<1>2. inbox \in StoreType(docs, Writers)
  BY DeskGrows
<1> HIDE DEF m
<1>3. inbox.mem \in docs
  BY <1>2, StoreFields
<1> PICK new : new = Capped(Append(inbox.mem, m))
  OBVIOUS
<1>4. new \in docs
  BY <1>1, <1>3, CappedIsTrue
<1>5. inbox' = Save(inbox, new, p)
  BY DEF MessagePushed, m
<1> HIDE DEF docs
<1>6. inbox' \in StoreType(docs, Writers)
  BY <1>2, <1>4, <1>5, SavedStore DEF Writers
<1> PICK r : r = [pc |-> "put", id |-> id, boot |-> desk.reads, call |-> call, phone |-> phone]
  OBVIOUS
<1>7. r \in PushRecords
  BY DEF PushRecords, InboxInv, DeskRecords
<1>8. pushes' \in [Pushes -> PushRecords]
  BY <1>7 DEF MessagePushed, InboxInv
<1> QED BY <1>6, <1>8 DEF InboxInv, docs

\* What changes the desk by its counts only.
LEMMA DeskCounts ==
  ASSUME InboxInv, NEW old \in DeskRecords, NEW n \in Nat, old = desk
  PROVE  /\ [old EXCEPT !.messages = n] \in DeskRecords
         /\ [old EXCEPT !.messages = n].dialled = desk.dialled
         /\ [old EXCEPT !.messages = n].sent = desk.sent
         /\ [old EXCEPT !.marks = n] \in DeskRecords
         /\ [old EXCEPT !.marks = n].dialled = desk.dialled
         /\ [old EXCEPT !.marks = n].sent = desk.sent
         /\ [old EXCEPT !.faults = n] \in DeskRecords
         /\ [old EXCEPT !.faults = n].dialled = desk.dialled
         /\ [old EXCEPT !.faults = n].sent = desk.sent
         /\ [old EXCEPT !.reads = n] \in DeskRecords
         /\ [old EXCEPT !.reads = n].dialled = desk.dialled
         /\ [old EXCEPT !.reads = n].sent = desk.sent
BY DEF DeskRecords

LEMMA NoPushIsOne == NoPush \in PushRecords
BY DEF NoPush, PushRecords

LEMMA InboxTellInv ==
  ASSUME InboxInv, NEW p \in Pushes, NEW phone \in BOOLEAN, Tell(p, phone)
  PROVE  InboxInv'
<1> PICK old \in DeskRecords, n \in Nat : old = desk /\ n = old.messages + 1
  BY InboxTypes DEF InboxInv
<1>1. desk' = [old EXCEPT !.messages = n] /\ MessagePushed(p, n, FALSE, phone)
  BY DEF Tell
<1>2. desk' \in DeskRecords /\ desk'.dialled = desk.dialled /\ desk'.sent = desk.sent
  BY <1>1, DeskCounts
<1> QED BY <1>1, <1>2, PushedIsTrue

LEMMA UpNextInv ==
  ASSUME InboxInv, NEW p \in Pushes, UpNext(p)
  PROVE  InboxInv'
<1> PICK old \in DeskRecords, n \in Nat : old = desk /\ n = old.messages + 1
  BY InboxTypes DEF InboxInv
<1>1. desk' = [old EXCEPT !.messages = n]
  BY DEF UpNext
<1>2. desk' \in DeskRecords /\ desk'.dialled = desk.dialled /\ desk'.sent = desk.sent
  BY <1>1, DeskCounts
<1>3. CASE MessagePushed(p, n, FALSE, TRUE)
  BY <1>2, <1>3, PushedIsTrue
<1>4. CASE /\ pushes' = [pushes EXCEPT ![p] = [NoPush EXCEPT !.pc = "dial", !.id = n]]
           /\ UNCHANGED inbox
  <2> DEFINE r == [NoPush EXCEPT !.pc = "dial", !.id = n]
  <2>1. r \in PushRecords
    BY NoPushIsOne DEF PushRecords
  <2> HIDE DEF r
  <2>2. pushes' \in [Pushes -> PushRecords]
    BY <1>4, <2>1 DEF InboxInv, r
  <2>3. inbox \in StoreType(TrueInboxes(desk'.dialled, desk'.sent), Writers)
    BY <1>2, DeskGrows
  <2> QED BY <1>2, <1>4, <2>2, <2>3 DEF InboxInv
<1> QED BY <1>3, <1>4 DEF UpNext

LEMMA DialledInv ==
  ASSUME InboxInv, NEW p \in Pushes, NEW replied \in BOOLEAN, Dialled(p, replied)
  PROVE  InboxInv'
<1> PICK old \in DeskRecords : old = desk
  BY DEF InboxInv
<1> PICK id \in Nat : id = pushes[p].id
  BY InboxTypes
<1>1. /\ desk' = IF replied THEN [old EXCEPT !.dialled = @ \cup {id}] ELSE old
      /\ MessagePushed(p, id, replied, TRUE)
  BY DEF Dialled, CallPlaced
<1>2. /\ desk' \in DeskRecords /\ desk.dialled \subseteq desk'.dialled /\ desk'.sent = desk.sent
      /\ replied => id \in desk'.dialled
  BY <1>1 DEF DeskRecords
<1> QED BY <1>1, <1>2, PushedIsTrue

LEMMA SentInv ==
  ASSUME InboxInv, NEW p \in Pushes, NEW ok \in BOOLEAN, Sent(p, ok)
  PROVE  InboxInv'
<1> PICK old \in DeskRecords : old = desk
  BY DEF InboxInv
<1> PICK id \in Nat : id = pushes[p].id
  BY InboxTypes
<1> PICK held \in BOOLEAN : held = (pushes[p].boot = desk.reads)
  OBVIOUS
<1> DEFINE new == [i \in DOMAIN inbox.mem |-> IF held /\ inbox.mem[i].id = id
                                    THEN [inbox.mem[i] EXCEPT !.sms = ok] ELSE inbox.mem[i]]
           r == [pushes[p] EXCEPT !.pc = "put", !.phone = FALSE]
           docs == TrueInboxes(desk'.dialled, desk'.sent)
<1>1. /\ desk' = IF ok THEN [old EXCEPT !.sent = @ \cup {id}] ELSE old
      /\ inbox' = Save(inbox, new, p) /\ pushes' = [pushes EXCEPT ![p] = r]
  BY DEF Sent, InboxInv
<1>2. /\ desk' \in DeskRecords /\ desk'.dialled = desk.dialled /\ desk.sent \subseteq desk'.sent
      /\ ok => id \in desk'.sent
  BY <1>1 DEF DeskRecords
<1>3. inbox \in StoreType(docs, Writers)
  BY <1>2, DeskGrows
<1>4. inbox.mem \in docs
  <2> HIDE DEF docs
  <2> QED BY <1>3, StoreFields
<1>5. DOMAIN inbox.mem = 1..Len(inbox.mem)
      /\ \A i \in DOMAIN inbox.mem : inbox.mem[i] \in Truthful(desk'.dialled, desk'.sent)
  BY <1>4, ElementOfSeq, LenProperties DEF TrueInboxes
<1>6. ASSUME NEW i \in DOMAIN inbox.mem
      PROVE  new[i] \in Truthful(desk'.dialled, desk'.sent)
  <2> PICK m \in Truthful(desk'.dialled, desk'.sent) : m = inbox.mem[i]
    BY <1>5
  <2>1. new[i] = IF held /\ m.id = id THEN [m EXCEPT !.sms = ok] ELSE m
    OBVIOUS
  <2>2. m.id = id => [m EXCEPT !.sms = ok] \in Truthful(desk'.dialled, desk'.sent)
    BY <1>2 DEF Truthful, MessageFields
  <2> HIDE DEF new
  <2> QED BY <2>1, <2>2
<1>7. new = [i \in DOMAIN inbox.mem |-> new[i]]
  OBVIOUS
<1> HIDE DEF new
<1>8. new \in docs
  BY <1>4, <1>6, <1>7, ChangedIsTrue
<1> HIDE DEF docs
<1>9. inbox' \in StoreType(docs, Writers)
  BY <1>1, <1>3, <1>8, SavedStore DEF Writers
<1>10. r \in PushRecords
  BY DEF PushRecords, InboxInv
<1> HIDE DEF r
<1>11. pushes' \in [Pushes -> PushRecords]
  BY <1>1, <1>10 DEF InboxInv
<1> QED BY <1>2, <1>9, <1>11 DEF InboxInv, docs

LEMMA InboxSettlesInv ==
  ASSUME InboxInv, NEW p \in Pushes, InboxSettles(p) \/ PushEnds(p)
  PROVE  InboxInv'
<1> DEFINE docs == TrueInboxes(desk.dialled, desk.sent)
<1>1. UNCHANGED desk
  BY DEF InboxSettles, PushEnds
<1>2. pushes' \in [Pushes -> PushRecords]
  <2>1. [pushes[p] EXCEPT !.pc = "sms"] \in PushRecords
    BY DEF InboxInv, PushRecords
  <2> PICK q \in PushRecords : q = [pushes[p] EXCEPT !.pc = "sms"]
    BY <2>1
  <2>2. pushes' \in {[pushes EXCEPT ![p] = q], [pushes EXCEPT ![p] = NoPush]}
    BY DEF InboxSettles, PushEnds, InboxInv
  <2> QED BY <2>2, NoPushIsOne DEF InboxInv
<1>3. inbox' \in StoreType(docs, Writers)
  <2>1. CASE UNCHANGED inbox
    BY <2>1 DEF InboxInv
  <2>2. CASE inbox' = [inbox EXCEPT !.acked = @ \ {p}]
    <3> HIDE DEF docs
    <3>1. inbox \in StoreType(docs, Writers)
      BY DEF InboxInv, docs
    <3> PICK P : P = Seq([doc : docs, fact : Writers])
      OBVIOUS
    <3>2. inbox \in [mem : docs, loaded : BOOLEAN, disk : docs, puts : P, acked : SUBSET Writers]
      BY <3>1 DEF StoreType
    <3>3. inbox' \in [mem : docs, loaded : BOOLEAN, disk : docs, puts : P, acked : SUBSET Writers]
      BY <2>2, <3>2
    <3> QED BY <3>3 DEF StoreType
  <2> QED BY <2>1, <2>2 DEF InboxSettles, PushEnds
<1> QED BY <1>1, <1>2, <1>3 DEF InboxInv

\* A read of what is stored.
LEMMA ReadIsTrue ==
  ASSUME NEW docs, NEW st \in StoreType(docs, Writers), NEW loaded \in BOOLEAN
  PROVE  (IF loaded THEN st ELSE Load(st)) \in StoreType(docs, Writers)
BY LoadedStore

LEMMA ListInv == ASSUME InboxInv, List PROVE InboxInv'
<1> PICK old \in DeskRecords, n \in Nat : old = desk /\ n = old.reads + 1
  BY InboxTypes DEF InboxInv
<1>1. desk' = [old EXCEPT !.reads = n] /\ inbox' = Load(inbox) /\ UNCHANGED pushes
  BY DEF List
<1>2. desk' \in DeskRecords /\ desk'.dialled = desk.dialled /\ desk'.sent = desk.sent
  BY <1>1, DeskCounts
<1>3. inbox' \in StoreType(TrueInboxes(desk.dialled, desk.sent), Writers)
  BY <1>1, LoadedStore DEF InboxInv
<1> QED BY <1>1, <1>2, <1>3 DEF InboxInv

LEMMA MarkReadInv == ASSUME InboxInv, MarkRead PROVE InboxInv'
<1> DEFINE read == IF inbox.loaded THEN inbox ELSE Load(inbox)
           new == [i \in DOMAIN read.mem |-> [read.mem[i] EXCEPT !.read = TRUE]]
           docs == TrueInboxes(desk.dialled, desk.sent)
<1> PICK old \in DeskRecords, n \in Nat, k \in Nat :
       /\ old = desk /\ n = old.marks + 1
       /\ k = IF inbox.loaded THEN old.reads ELSE old.reads + 1
  BY InboxTypes DEF InboxInv, DeskRecords
<1>1. /\ inbox' = Save(read, new, "reader") /\ UNCHANGED pushes
      /\ desk' = [old EXCEPT !.marks = n, !.reads = k]
  BY DEF MarkRead
<1>2. desk' \in DeskRecords /\ desk'.dialled = desk.dialled /\ desk'.sent = desk.sent
  BY <1>1 DEF DeskRecords
<1>3. read \in StoreType(docs, Writers) /\ read.mem \in docs
  <2> HIDE DEF docs
  <2>1. inbox \in StoreType(docs, Writers)
    BY DEF InboxInv, docs
  <2>2. read \in StoreType(docs, Writers)
    BY <2>1, LoadedStore
  <2> HIDE DEF read
  <2> QED BY <2>2, StoreFields
<1> HIDE DEF read
<1>4. \A i \in DOMAIN read.mem : read.mem[i] \in Truthful(desk.dialled, desk.sent)
  BY <1>3, ElementOfSeq, LenProperties DEF TrueInboxes
<1>5. ASSUME NEW i \in DOMAIN read.mem
      PROVE  new[i] \in Truthful(desk.dialled, desk.sent)
  <2> PICK m \in Truthful(desk.dialled, desk.sent) : m = read.mem[i]
    BY <1>4
  <2>1. new[i] = [m EXCEPT !.read = TRUE]
    OBVIOUS
  <2>2. [m EXCEPT !.read = TRUE] \in Truthful(desk.dialled, desk.sent)
    BY DEF Truthful, MessageFields
  <2> HIDE DEF new
  <2> QED BY <2>1, <2>2
<1>6. new = [i \in DOMAIN read.mem |-> new[i]]
  OBVIOUS
<1> HIDE DEF new
<1>7. new \in docs
  BY <1>3, <1>5, <1>6, ChangedIsTrue
<1> HIDE DEF docs
<1>8. inbox' \in StoreType(docs, Writers)
  BY <1>1, <1>3, <1>7, SavedStore DEF Writers
<1> QED BY <1>1, <1>2, <1>8 DEF InboxInv, docs

LEMMA PanelInv ==
  ASSUME InboxInv, ViewPanel \/ WirePanel
  PROVE  InboxInv'
<1> PICK old \in DeskRecords, n \in Nat : old = desk /\ n = old.marks + 1
  BY InboxTypes DEF InboxInv
<1>1. desk' \in {old, [old EXCEPT !.marks = n]} /\ UNCHANGED <<inbox, pushes>>
  BY DEF ViewPanel, WirePanel
<1>2. desk' \in DeskRecords /\ desk'.dialled = desk.dialled /\ desk'.sent = desk.sent
  BY <1>1 DEF DeskRecords
<1> QED BY <1>1, <1>2 DEF InboxInv

LEMMA InboxPutsInv ==
  ASSUME InboxInv, InboxPutLands \/ InboxPutFails
  PROVE  InboxInv'
<1> DEFINE docs == TrueInboxes(desk.dialled, desk.sent)
<1> PICK old \in DeskRecords, n \in Nat : old = desk /\ n = old.faults + 1
  BY InboxTypes DEF InboxInv
<1>1. desk' \in {old, [old EXCEPT !.faults = n]} /\ UNCHANGED pushes
  BY DEF InboxPutLands, InboxPutFails, InboxFault
<1>2. desk' \in DeskRecords /\ desk'.dialled = desk.dialled /\ desk'.sent = desk.sent
  BY <1>1 DEF DeskRecords
<1>3. inbox' \in Settles(inbox, TRUE) \/ inbox' = inbox
  BY DEF InboxPutLands, InboxPutFails, Settles
<1>4. inbox \in StoreType(docs, Writers)
  BY DEF InboxInv
<1> HIDE DEF docs
<1>5. inbox' \in StoreType(docs, Writers)
  BY <1>3, <1>4, SettlingType
<1> QED BY <1>1, <1>2, <1>5 DEF InboxInv, docs

LEMMA NoMessages ==
  ASSUME NEW called, NEW texted
  PROVE  <<>> \in TrueInboxes(called, texted)
BY EmptySeq, InboxAssumption DEF TrueInboxes

LEMMA InboxRestartInv == ASSUME InboxInv, InboxRestart PROVE InboxInv'
<1> DEFINE docs == TrueInboxes(desk.dialled, desk.sent)
           gone == Crash(inbox, <<>>)
<1> PICK old \in DeskRecords, n \in Nat : old = desk /\ n = old.faults + 1
  BY InboxTypes DEF InboxInv
<1>1. /\ desk' = [old EXCEPT !.faults = n, !.reads = 0]
      /\ inbox' = [gone EXCEPT !.acked = {}]
      /\ pushes' = [p \in Pushes |-> NoPush]
  BY DEF InboxRestart
<1>2. desk' \in DeskRecords /\ desk'.dialled = desk.dialled /\ desk'.sent = desk.sent
  BY <1>1 DEF DeskRecords
<1>3. inbox \in StoreType(docs, Writers) /\ <<>> \in docs
  BY NoMessages DEF InboxInv
<1> HIDE DEF docs
<1>4. gone \in StoreType(docs, Writers)
  BY <1>3, CrashedStore
<1> HIDE DEF gone
<1>5. inbox' \in StoreType(docs, Writers)
  <2> PICK P : P = Seq([doc : docs, fact : Writers])
    OBVIOUS
  <2>1. gone \in [mem : docs, loaded : BOOLEAN, disk : docs, puts : P, acked : SUBSET Writers]
    BY <1>4 DEF StoreType
  <2>2. inbox' \in [mem : docs, loaded : BOOLEAN, disk : docs, puts : P, acked : SUBSET Writers]
    BY <1>1, <2>1
  <2> QED BY <2>2 DEF StoreType
<1>6. pushes' \in [Pushes -> PushRecords]
  BY <1>1, NoPushIsOne
<1> QED BY <1>2, <1>5, <1>6 DEF InboxInv, docs

LEMMA InboxStep ==
  ASSUME InboxInv, [InboxNext]_inboxVars
  PROVE  InboxInv'
<1>1. CASE UNCHANGED inboxVars
  BY <1>1 DEF InboxInv, inboxVars
<1>2. CASE InboxNext
  BY <1>2, InboxTellInv, UpNextInv, DialledInv, SentInv, InboxSettlesInv, ListInv, MarkReadInv,
     PanelInv, InboxPutsInv, InboxRestartInv DEF InboxNext
<1> QED BY <1>1, <1>2

LEMMA InboxBegins == InboxInit => InboxInv
<1> SUFFICES ASSUME InboxInit PROVE InboxInv
  OBVIOUS
<1>1. desk \in DeskRecords /\ pushes \in [Pushes -> PushRecords]
  BY NoPushIsOne DEF InboxInit, DeskRecords
<1>2. inbox \in StoreType(TrueInboxes(desk.dialled, desk.sent), Writers)
  BY NoMessages, NewStoreType DEF InboxInit
<1> QED BY <1>1, <1>2 DEF InboxInv

\* No message, in memory or stored, speaks of a call that was not dialled or is marked
\* as sent by an SMS that was not, and no inbox is longer than its cap, however pushes
\* and reads overlap, puts fail and processes end (notification.service.ts, push()).
THEOREM TheInboxPretendsNothing == InboxSpec => []NeverPretends
<1>1. InboxInv /\ [InboxNext]_inboxVars => InboxInv'
  BY InboxStep
<1>2. InboxInv => NeverPretends
  <2> SUFFICES ASSUME InboxInv, NEW doc \in TrueInboxes(desk.dialled, desk.sent)
               PROVE  /\ Len(doc) <= Cap
                      /\ \A i \in DOMAIN doc :
                           /\ doc[i].call => doc[i].id \in desk.dialled
                           /\ doc[i].sms => doc[i].id \in desk.sent
    BY StoreFields DEF InboxInv, NeverPretends
  <2>1. \A i \in DOMAIN doc : doc[i] \in Truthful(desk.dialled, desk.sent)
    BY ElementOfSeq, LenProperties DEF TrueInboxes
  <2> QED BY <2>1 DEF TrueInboxes, Truthful
<1> QED BY <1>1, <1>2, InboxBegins, PTL DEF InboxSpec

-----------------------------------------------------------------------------
(* Monitor: the counters.                                                    *)

\* Whatever adds up a finite set ends at its total.
LEMMA AddsUpOnce ==
  ASSUME NEW f, NEW S, IsFiniteSet(S), NEW h, AddsUp(f, S, h)
  PROVE  h[S] = SumOver(f, S)
<1> DEFINE Good == {t \in SUBSET S : h[t] = Iter(f, S)[t]}
<1>1. \A s \in SUBSET S : h[s] = IF s = {} THEN 0 ELSE f[Picked(s)] + h[s \ {Picked(s)}]
  BY DEF AddsUp
<1>2. ASSUME NEW t \in SUBSET S, \A x \in t : t \ {x} \in Good
      PROVE  t \in Good
  <2> DEFINE i == Iter(f, S)
  <2>1. i[t] = IF t = {} THEN 0 ELSE f[Picked(t)] + i[t \ {Picked(t)}]
    BY IterAddsUp DEF AddedUp
  <2>2. h[t] = IF t = {} THEN 0 ELSE f[Picked(t)] + h[t \ {Picked(t)}]
    BY <1>1
  <2> HIDE DEF i
  <2>3. t # {} => h[t \ {Picked(t)}] = i[t \ {Picked(t)}]
    BY <1>2, PickedIsThere DEF i
  <2> QED BY <2>1, <2>2, <2>3 DEF i
<1> HIDE DEF Good
<1>3. \A t \in SUBSET S : t \in Good
  BY <1>2, FinitePartsIn DEF Good
<1>4. S \in Good
  BY <1>3
<1> QED BY <1>4 DEF Good, SumOver

\* What SumOf adds are the third components.
LEMMA SumOfIsTotal ==
  ASSUME NEW name, NEW lines, IsFiniteSet({l \in lines : l[1] = name})
  PROVE  SumOf(name, lines) = SumOver([l \in {k \in lines : k[1] = name} |-> l[3]],
                                    {k \in lines : k[1] = name})
<1> DEFINE L == {l \in lines : l[1] = name}
           g == [l \in L |-> l[3]]
           Adds(h) == h = [s \in SUBSET L |-> IF s = {} THEN 0
                                              ELSE Picked(s)[3] + h[s \ {Picked(s)}]]
<1>1. SumOf(name, lines) = (CHOOSE h : Adds(h))[L]
  BY Zenon DEF SumOf, MapThenSumSet, MapThenFoldSet, Picked
<1>2. \A s \in SUBSET L : s # {} => g[Picked(s)] = Picked(s)[3]
  BY PickedIsThere
<1>3. ASSUME NEW h
      PROVE  [s \in SUBSET L |-> IF s = {} THEN 0 ELSE Picked(s)[3] + h[s \ {Picked(s)}]]
             = [s \in SUBSET L |-> IF s = {} THEN 0 ELSE g[Picked(s)] + h[s \ {Picked(s)}]]
  <2> HIDE DEF g, L
  <2> QED BY <1>2
<1>4. \A h : Adds(h) <=> AddsUp(g, L, h)
  BY <1>3 DEF AddsUp
<1> HIDE DEF Adds, g, L
<1>5. \E h : Adds(h)
  BY <1>4, AddsUpExists DEF L
<1>6. AddsUp(g, L, CHOOSE h : Adds(h))
  BY <1>4, <1>5
<1>7. (CHOOSE h : Adds(h))[L] = SumOver(g, L)
  BY <1>6, AddsUpOnce DEF L
<1> QED BY <1>1, <1>7 DEF g, L

\* The lines of the elements with something to show show all there is.
LEMMA LinesShowAll ==
  ASSUME NEW S, IsFiniteSet(S), NEW f, \A s \in S : f[s] \in Nat,
         NEW V \in SUBSET S, \A s \in S \ V : f[s] = 0,
         NEW name, NEW lines,
         {l \in lines : l[1] = name} = {<<name, r, f[r]>> : r \in V}
  PROVE  SumOf(name, lines) = SumOver(f, S)
<1> DEFINE L == {l \in lines : l[1] = name}
           g == [l \in L |-> l[3]]
           Im(t) == {<<name, r, f[r]>> : r \in t \cap V}
           Good == {t \in SUBSET S : IsFiniteSet(Im(t)) /\ SumOver(g, Im(t)) = SumOver(f, t)}
<1>1. ASSUME NEW t \in SUBSET S, \A x \in t : t \ {x} \in Good
      PROVE  t \in Good
  <2>1. IsFiniteSet(t)
    BY FS_Subset
  <2>2. CASE t = {}
    <3>1. Im(t) = {}
      BY <2>2
    <3> HIDE DEF Im, g
    <3> QED BY <2>2, <3>1, FS_EmptySet, TotalOf
  <2>3. CASE t # {}
    <3> DEFINE x == Picked(t)
               u == t \ {x}
    <3>1. x \in t /\ u \in Good
      BY <1>1, <2>3, PickedIsThere
    <3>2. SumOver(f, t) = f[x] + SumOver(f, u)
      BY <2>1, <2>3, TotalOf
    <3>3. IsFiniteSet(Im(u)) /\ SumOver(g, Im(u)) = SumOver(f, u)
      BY <3>1
    <3>4. SumOver(f, u) \in Int
      <4>1. u \in SUBSET S /\ \A s \in S : f[s] \in Int
        OBVIOUS
      <4> HIDE DEF u
      <4> QED BY <4>1, TotalIsInt
    <3>5. CASE x \notin V
      <4>1. Im(t) = Im(u)
        BY <3>5
      <4>2. f[x] = 0
        BY <3>1, <3>5
      <4> HIDE DEF Im, u, x, g
      <4>3. SumOver(f, t) = SumOver(f, u)
        BY <3>2, <3>4, <4>2
      <4> QED BY <3>3, <4>1, <4>3
    <3>6. CASE x \in V
      <4> DEFINE e == <<name, x, f[x]>>
      <4>1. Im(t) = Im(u) \cup {e} /\ Im(t) \ {e} = Im(u) /\ e \in Im(t)
        BY <3>1, <3>6
      <4>2. Im(t) \subseteq L
        OBVIOUS
      <4>3. \A l \in L : l[3] \in Int
        OBVIOUS
      <4>4. \A l \in Im(t) : g[l] \in Int
        <5> HIDE DEF L, Im
        <5> QED BY <4>2, <4>3
      <4>5. g[e] = f[x]
        <5>1. e \in L /\ e[3] = f[x]
          BY <4>1, <4>2
        <5> HIDE DEF L, e
        <5> QED BY <5>1
      <4> HIDE DEF Im, e, g, u, x
      <4>6. IsFiniteSet(Im(t))
        BY <3>3, <4>1, FS_AddElement
      <4>7. SumOver(g, Im(t)) = g[e] + SumOver(g, Im(t) \ {e})
        <5> PICK T : T = Im(t)
          OBVIOUS
        <5>1. IsFiniteSet(T) /\ e \in T /\ \A l \in T : g[l] \in Int
          BY <4>1, <4>4, <4>6
        <5>2. SumOver(g, T) = g[e] + SumOver(g, T \ {e})
          BY <5>1, TakeAny
        <5> QED BY <5>2
      <4> QED BY <3>2, <3>3, <4>1, <4>5, <4>6, <4>7
    <3> QED BY <3>5, <3>6
  <2> QED BY <2>2, <2>3
<1>2. L = Im(S)
  OBVIOUS
<1> HIDE DEF Good, Im, g
<1>3. \A t \in SUBSET S : t \in Good
  BY <1>1, FinitePartsIn DEF Good
<1>4. S \in Good
  BY <1>3
<1>5. IsFiniteSet(L) /\ SumOver(g, L) = SumOver(f, S)
  BY <1>2, <1>4 DEF Good
<1>6. SumOf(name, lines) = SumOver(g, L)
  BY <1>5, SumOfIsTotal DEF g
<1> QED BY <1>5, <1>6

\* These lines show what the elements of V, the ones that count, have to show.
Shows(S, f, V, name, lines) ==
  /\ IsFiniteSet(S) /\ V \subseteq S
  /\ \A s \in S : f[s] \in Nat
  /\ \A s \in S \ V : f[s] = 0
  /\ {l \in lines : l[1] = name} = {<<name, r, f[r]>> : r \in V}

LEMMA ShownIsAll ==
  ASSUME NEW S, NEW f, NEW V, NEW name, NEW lines, Shows(S, f, V, name, lines)
  PROVE  SumOf(name, lines) = SumOver(f, S)
<1>1. /\ IsFiniteSet(S) /\ V \in SUBSET S
      /\ \A s \in S : f[s] \in Nat
      /\ \A s \in S \ V : f[s] = 0
      /\ {l \in lines : l[1] = name} = {<<name, r, f[r]>> : r \in V}
  BY DEF Shows
<1> QED BY <1>1, LinesShowAll

CounterRecords ==
    [requests : Nat, errors : Nat, queries : Nat, queryFailures : Nat,
     redisOps : Nat, redisFailures : Nat,
     endpoint : [AllRoutes -> [total : Nat, errors : Nat]]]

ProbeRecords ==
    [kind : ProbeKinds \cup {"none"}, left : SUBSET Checked,
     seen : [Checked -> {"up", "down", "skipped"}], wasUp : BOOLEAN]

AnsweredRecords ==
    [all : Nat, failed : Nat, refused : Nat, scraped : Nat, missed : Nat, turns : Nat,
     shown : SUBSET [requests : Nat, errors : Nat, errorRate : Nat, queries : Nat,
                     queryFailures : Nat, redisOps : Nat, redisFailures : Nat],
     misled : BOOLEAN]

MonitorTypes ==
    /\ services \in [Services -> BOOLEAN]
    /\ counters \in CounterRecords
    /\ probes \in [Probers -> ProbeRecords]
    /\ answered \in AnsweredRecords

\* What the endpoints count.
Answers(c) == [r \in AllRoutes |-> c.endpoint[r].total]
Failures(c) == [r \in AllRoutes |-> c.endpoint[r].errors]

\* A counter set adds up in itself.
Fair(c) ==
    /\ c.errors <= c.requests /\ c.queryFailures <= c.queries
    /\ \A r \in AllRoutes : c.endpoint[r].errors <= c.endpoint[r].total
    /\ SumOver(Answers(c), AllRoutes) = c.requests
    /\ SumOver(Failures(c), AllRoutes) = c.errors

CountsInv ==
    /\ Fair(counters)
    /\ counters.requests + answered.refused + answered.scraped = answered.all
    /\ counters.errors + answered.refused + answered.missed = answered.failed
    /\ \A s \in answered.shown : s.queries > 0 /\ s.queryFailures <= s.queries /\ s.errorRate <= 100

\* What a probe has checked it has counted, and what it saw there was.
ProbesInv ==
    /\ \A p \in Probers : probes[p].kind = "none" => probes[p] = NoProbe
    /\ \A p \in Probers : probes[p].kind # "none" /\ "database" \notin probes[p].left =>
                              counters.queries > 0
    /\ \A p \in Probers : probes[p].seen["database"] = "up" => probes[p].wasUp
    /\ \A p \in Probers : probes[p].kind # "none" /\ services["database"] => probes[p].wasUp
    /\ ~answered.misled

LEMMA RoutesFinite ==
  IsFiniteSet(AllRoutes) /\ ProbeKinds \subseteq AllRoutes /\ Routes \subseteq AllRoutes
<1>1. IsFiniteSet(ProbeKinds)
  <2>1. IsFiniteSet({"health"}) /\ IsFiniteSet({"ready"}) /\ IsFiniteSet({"dashboard"})
    BY FS_Singleton
  <2>2. ProbeKinds = {"health"} \cup ({"ready"} \cup {"dashboard"})
    BY DEF ProbeKinds
  <2>3. IsFiniteSet({"ready"} \cup {"dashboard"})
    BY <2>1, FS_Union
  <2> QED BY <2>1, <2>2, <2>3, FS_Union
<1> QED BY <1>1, MonitorAssumption, FS_Union DEF AllRoutes

LEMMA OneRange ==
  ASSUME NEW fact \in BOOLEAN
  PROVE  One(fact) \in {0, 1}
BY DEF One

\* A request counted.
LEMMA HttpCounts ==
  ASSUME NEW c \in CounterRecords, Fair(c), NEW route \in AllRoutes, NEW failed \in BOOLEAN
  PROVE  LET d == RecordHttpRequest(c, route, failed)
         IN  /\ d \in CounterRecords /\ Fair(d)
             /\ d.requests = c.requests + 1 /\ d.errors = c.errors + One(failed)
             /\ d.queries = c.queries
<1> PICK one \in {0, 1} : one = One(failed)
  BY OneRange
<1> PICK w \in [total : Nat, errors : Nat] : w = c.endpoint[route]
  BY DEF CounterRecords
<1> DEFINE v == [total |-> w.total + 1, errors |-> w.errors + one]
           ends == [c.endpoint EXCEPT ![route] = v]
<1> PICK m \in Nat, n \in Nat : m = c.requests + 1 /\ n = c.errors + one
  BY DEF CounterRecords
<1> DEFINE d == [c EXCEPT !.requests = m, !.errors = n, !.endpoint = ends]
<1>1. RecordHttpRequest(c, route, failed) = d
  BY DEF RecordHttpRequest, CounterRecords
<1>2. /\ v \in [total : Nat, errors : Nat]
      /\ v.total = w.total + 1 /\ v.errors = w.errors + one
  OBVIOUS
<1> HIDE DEF v
<1>3. /\ ends \in [AllRoutes -> [total : Nat, errors : Nat]]
      /\ ends[route] = v
      /\ \A r \in AllRoutes \ {route} : ends[r] = c.endpoint[r]
  BY <1>2 DEF CounterRecords
<1> HIDE DEF ends
<1>4. /\ d \in CounterRecords /\ d.endpoint = ends
      /\ d.requests = c.requests + 1 /\ d.errors = c.errors + one
      /\ d.queries = c.queries /\ d.queryFailures = c.queryFailures
  BY <1>3 DEF CounterRecords
<1> HIDE DEF d
<1>5. /\ \A r \in AllRoutes : /\ Answers(c)[r] = c.endpoint[r].total /\ Answers(c)[r] \in Nat
                              /\ Failures(c)[r] = c.endpoint[r].errors /\ Failures(c)[r] \in Nat
      /\ \A r \in AllRoutes : /\ Answers(d)[r] = ends[r].total /\ Answers(d)[r] \in Nat
                              /\ Failures(d)[r] = ends[r].errors /\ Failures(d)[r] \in Nat
  BY <1>3, <1>4 DEF Answers, Failures, CounterRecords
<1>6. SumOver(Answers(d), AllRoutes) = SumOver(Answers(c), AllRoutes) + 1
  <2> PICK f, g : f = Answers(c) /\ g = Answers(d)
    OBVIOUS
  <2>1. \A r \in AllRoutes : f[r] \in Int /\ g[r] \in Int
    BY <1>5
  <2>2. \A r \in AllRoutes \ {route} : g[r] = f[r]
    BY <1>3, <1>5
  <2>3. g[route] - f[route] = 1
    BY <1>2, <1>3, <1>5
  <2>4. SumOver(g, AllRoutes) = SumOver(f, AllRoutes) + (g[route] - f[route])
    BY <2>1, <2>2, RoutesFinite, TotalChanges
  <2> QED BY <2>3, <2>4
<1>7. SumOver(Failures(d), AllRoutes) = SumOver(Failures(c), AllRoutes) + one
  <2> PICK f, g : f = Failures(c) /\ g = Failures(d)
    OBVIOUS
  <2>1. \A r \in AllRoutes : f[r] \in Int /\ g[r] \in Int
    BY <1>5
  <2>2. \A r \in AllRoutes \ {route} : g[r] = f[r]
    BY <1>3, <1>5
  <2>3. g[route] - f[route] = one
    BY <1>2, <1>3, <1>5
  <2>4. SumOver(g, AllRoutes) = SumOver(f, AllRoutes) + (g[route] - f[route])
    BY <2>1, <2>2, RoutesFinite, TotalChanges
  <2> QED BY <2>3, <2>4
<1>8. \A r \in AllRoutes : d.endpoint[r].errors <= d.endpoint[r].total
  <2>1. v.errors <= v.total
    BY <1>2 DEF Fair
  <2>2. \A r \in AllRoutes \ {route} : d.endpoint[r].errors <= d.endpoint[r].total
    BY <1>3, <1>4 DEF Fair
  <2> QED BY <1>3, <1>4, <2>1, <2>2
<1>9. d.errors <= d.requests /\ d.queryFailures <= d.queries
  BY <1>4 DEF Fair, CounterRecords
<1>10. Fair(d)
  BY <1>4, <1>6, <1>7, <1>8, <1>9 DEF Fair
<1> QED BY <1>1, <1>4, <1>10

LEMMA QueryCounts ==
  ASSUME NEW c \in CounterRecords, Fair(c), NEW failed \in BOOLEAN
  PROVE  LET d == RecordDbQuery(c, failed)
         IN  /\ d \in CounterRecords /\ Fair(d)
             /\ d.requests = c.requests /\ d.errors = c.errors /\ d.queries = c.queries + 1
<1> PICK one \in {0, 1} : one = One(failed)
  BY OneRange
<1> PICK m \in Nat, n \in Nat : m = c.queries + 1 /\ n = c.queryFailures + one
  BY DEF CounterRecords
<1> DEFINE d == [c EXCEPT !.queries = m, !.queryFailures = n]
<1>1. RecordDbQuery(c, failed) = d
  BY DEF RecordDbQuery, CounterRecords
<1>2. /\ d \in CounterRecords /\ d.endpoint = c.endpoint
      /\ d.requests = c.requests /\ d.errors = c.errors
      /\ d.queries = c.queries + 1 /\ d.queryFailures = c.queryFailures + one
  BY DEF CounterRecords
<1> HIDE DEF d
<1>3. Answers(d) = Answers(c) /\ Failures(d) = Failures(c)
  BY <1>2 DEF Answers, Failures
<1>4. d.queryFailures <= d.queries
  BY <1>2 DEF Fair, CounterRecords
<1>5. Fair(d)
  BY <1>2, <1>3, <1>4 DEF Fair
<1> QED BY <1>1, <1>2, <1>5

LEMMA RedisCounts ==
  ASSUME NEW c \in CounterRecords, Fair(c), NEW failed \in BOOLEAN
  PROVE  LET d == RecordRedisOperation(c, failed)
         IN  /\ d \in CounterRecords /\ Fair(d)
             /\ d.requests = c.requests /\ d.errors = c.errors /\ d.queries = c.queries
<1> PICK one \in {0, 1} : one = One(failed)
  BY OneRange
<1> PICK m \in Nat, n \in Nat : m = c.redisOps + 1 /\ n = c.redisFailures + one
  BY DEF CounterRecords
<1> DEFINE d == [c EXCEPT !.redisOps = m, !.redisFailures = n]
<1>1. RecordRedisOperation(c, failed) = d
  BY DEF RecordRedisOperation, CounterRecords
<1>2. /\ d \in CounterRecords /\ d.endpoint = c.endpoint
      /\ d.requests = c.requests /\ d.errors = c.errors
      /\ d.queries = c.queries /\ d.queryFailures = c.queryFailures
  BY DEF CounterRecords
<1> HIDE DEF d
<1>3. Answers(d) = Answers(c) /\ Failures(d) = Failures(c)
  BY <1>2 DEF Answers, Failures
<1>5. Fair(d)
  BY <1>2, <1>3 DEF Fair
<1> QED BY <1>1, <1>2, <1>5

\* A check comes back.
LEMMA SawStep ==
  ASSUME MonitorTypes, ProbesInv, NEW p \in Probers, NEW check \in probes[p].left,
         NEW status \in {"up", "down", "skipped"}, Saw(p, check, status)
  PROVE  /\ probes' \in [Probers -> ProbeRecords]
         /\ probes[p].kind # "none" /\ probes'[p].kind = probes[p].kind
         /\ probes'[p].left = probes[p].left \ {check}
         /\ probes'[p].seen["database"]
              = IF check = "database" THEN status ELSE probes[p].seen["database"]
         /\ probes'[p].wasUp = probes[p].wasUp
         /\ \A q \in Probers \ {p} : probes'[q] = probes[q]
<1> PICK old \in ProbeRecords : old = probes[p]
  BY DEF MonitorTypes
<1>1. old.kind # "none"
  BY DEF ProbesInv, NoProbe
<1> DEFINE looks == [old.seen EXCEPT ![check] = status]
           left == old.left \ {check}
           r == [old EXCEPT !.left = left, !.seen = looks]
<1>2. probes' = [probes EXCEPT ![p] = r]
  BY DEF Saw, MonitorTypes, ProbeRecords
<1>3. check \in Checked /\ "database" \in Checked
  BY DEF ProbeRecords, Checked, Services
<1>4. /\ looks \in [Checked -> {"up", "down", "skipped"}]
      /\ looks["database"] = IF check = "database" THEN status ELSE old.seen["database"]
  BY <1>3 DEF ProbeRecords
<1>5. left \in SUBSET Checked
  BY DEF ProbeRecords
<1> HIDE DEF looks, left
<1>6. r \in ProbeRecords /\ r.kind = old.kind /\ r.left = left /\ r.seen = looks /\ r.wasUp = old.wasUp
  BY <1>4, <1>5 DEF ProbeRecords
<1> HIDE DEF r
<1>7. /\ probes' \in [Probers -> ProbeRecords] /\ probes'[p] = r
      /\ \A q \in Probers \ {p} : probes'[q] = probes[q]
  BY <1>2, <1>6 DEF MonitorTypes
<1> QED BY <1>1, <1>4, <1>6, <1>7 DEF left

\* So what the probes hold stays true, if the database that was seen is up.
LEMMA SawInv ==
  ASSUME MonitorTypes, ProbesInv, NEW p \in Probers, NEW check \in probes[p].left,
         NEW status \in {"up", "down", "skipped"}, Saw(p, check, status),
         check = "database" /\ status = "up" => probes[p].wasUp,
         check = "database" => counters'.queries > 0,
         counters.queries > 0 => counters'.queries > 0,
         UNCHANGED <<services, answered>>
  PROVE  probes' \in [Probers -> ProbeRecords] /\ ProbesInv'
<1>1. /\ probes' \in [Probers -> ProbeRecords]
      /\ probes[p].kind # "none" /\ probes'[p].kind = probes[p].kind
      /\ probes'[p].left = probes[p].left \ {check}
      /\ probes'[p].seen["database"]
              = IF check = "database" THEN status ELSE probes[p].seen["database"]
      /\ probes'[p].wasUp = probes[p].wasUp
      /\ \A q \in Probers \ {p} : probes'[q] = probes[q]
  BY SawStep
<1>2. \A q \in Probers : probes'[q].kind = "none" => probes'[q] = NoProbe
  BY <1>1 DEF ProbesInv
<1>3. \A q \in Probers : probes'[q].kind # "none" /\ "database" \notin probes'[q].left =>
                              counters'.queries > 0
  BY <1>1 DEF ProbesInv
<1>4. \A q \in Probers : probes'[q].seen["database"] = "up" => probes'[q].wasUp
  BY <1>1 DEF ProbesInv
<1>5. \A q \in Probers : probes'[q].kind # "none" /\ services'["database"] => probes'[q].wasUp
  BY <1>1 DEF ProbesInv
<1> QED BY <1>1, <1>2, <1>3, <1>4, <1>5 DEF ProbesInv

LEMMA Untouched ==
  ASSUME MonitorTypes, CountsInv, UNCHANGED answered,
         counters' \in CounterRecords, Fair(counters'),
         counters'.requests = counters.requests, counters'.errors = counters.errors
  PROVE  CountsInv'
BY DEF CountsInv

LEMMA CountersStay ==
  ASSUME MonitorTypes, CountsInv, UNCHANGED <<counters, answered>>
  PROVE  CountsInv' /\ counters' \in CounterRecords /\ answered' \in AnsweredRecords
BY DEF CountsInv, Fair, Answers, Failures, MonitorTypes

MonitorInv == MonitorTypes /\ CountsInv /\ ProbesInv

LEMMA TurnOfLuckInv ==
  ASSUME MonitorInv, NEW s \in Services, TurnOfLuck(s)
  PROVE  MonitorInv'
<1> USE DEF MonitorInv
<1> PICK old \in AnsweredRecords, n \in Nat : old = answered /\ n = old.turns + 1
  BY DEF MonitorTypes, AnsweredRecords
<1>1. answered' = [old EXCEPT !.turns = n]
  BY DEF TurnOfLuck
<1>2. /\ answered' \in AnsweredRecords
      /\ answered'.all = answered.all /\ answered'.failed = answered.failed
      /\ answered'.refused = answered.refused
      /\ answered'.scraped = answered.scraped /\ answered'.missed = answered.missed
      /\ answered'.shown = answered.shown /\ answered'.misled = answered.misled
  BY <1>1 DEF AnsweredRecords
<1>3. services' \in [Services -> BOOLEAN]
  BY DEF TurnOfLuck, MonitorTypes
<1>4. services'["database"] \in BOOLEAN
  BY <1>3 DEF Services
<1>5. ASSUME NEW p \in Probers
      PROVE  /\ probes'[p] \in ProbeRecords
             /\ probes'[p].kind = probes[p].kind /\ probes'[p].left = probes[p].left
             /\ probes'[p].seen = probes[p].seen
             /\ probes[p].wasUp => probes'[p].wasUp
             /\ probes[p].kind # "none" /\ services'["database"] => probes'[p].wasUp
             /\ probes[p].kind = "none" => probes'[p] = probes[p]
  <2> PICK r \in ProbeRecords : r = probes[p]
    BY DEF MonitorTypes
  <2> PICK up \in BOOLEAN : up = (r.wasUp \/ (r.kind # "none" /\ services'["database"]))
    BY <1>4 DEF ProbeRecords
  <2> DEFINE new == [r EXCEPT !.wasUp = up]
  <2>1. probes'[p] = new
    BY DEF TurnOfLuck
  <2>2. new \in ProbeRecords /\ new.kind = r.kind /\ new.left = r.left /\ new.seen = r.seen /\ new.wasUp = up
    BY DEF ProbeRecords
  <2>3. r.kind = "none" => up = r.wasUp
    BY DEF ProbeRecords
  <2>4. up = r.wasUp => new = r
    BY DEF ProbeRecords
  <2>5. (r.wasUp => up) /\ (r.kind # "none" /\ services'["database"] => up)
    OBVIOUS
  <2> QED BY <2>1, <2>2, <2>3, <2>4, <2>5
<1>6. DOMAIN probes' = Probers /\ probes' = [p \in Probers |-> probes'[p]]
  BY DEF TurnOfLuck
<1>7. probes' \in [Probers -> ProbeRecords]
  BY <1>5, <1>6
<1>8. UNCHANGED counters
  BY DEF TurnOfLuck
<1>9. ProbesInv'
  BY <1>2, <1>5, <1>8 DEF ProbesInv
<1>10. CountsInv'
  BY <1>2, <1>8 DEF CountsInv, Fair, Answers, Failures
<1> QED BY <1>2, <1>3, <1>7, <1>8, <1>9, <1>10 DEF MonitorTypes

LEMMA ReplyCounts ==
  ASSUME MonitorTypes, NEW failed \in BOOLEAN
  PROVE  /\ Replied(failed) \in AnsweredRecords
         /\ Replied(failed).all = answered.all + 1
         /\ Replied(failed).failed = answered.failed + One(failed)
         /\ Replied(failed).refused = answered.refused
         /\ Replied(failed).scraped = answered.scraped /\ Replied(failed).missed = answered.missed
         /\ Replied(failed).turns = answered.turns
         /\ Replied(failed).shown = answered.shown
         /\ Replied(failed).misled = answered.misled
<1> PICK one \in {0, 1} : one = One(failed)
  BY OneRange
<1> PICK old \in AnsweredRecords : old = answered
  BY DEF MonitorTypes
<1> PICK m \in Nat, n \in Nat : m = old.all + 1 /\ n = old.failed + one
  BY DEF AnsweredRecords
<1>1. Replied(failed) = [old EXCEPT !.all = m, !.failed = n]
  BY DEF Replied, AnsweredRecords
<1> QED BY <1>1 DEF AnsweredRecords

LEMMA ServeRouteInv ==
  ASSUME MonitorInv, NEW route \in Routes, NEW failed \in BOOLEAN, ServeRoute(route, failed)
  PROVE  MonitorInv'
<1> USE DEF MonitorInv
<1>1. counters' = RecordHttpRequest(counters, route, failed) /\ answered' = Replied(failed)
      /\ UNCHANGED <<services, probes>>
  BY DEF ServeRoute, ResponseEnds
<1>2. /\ counters' \in CounterRecords /\ Fair(counters')
      /\ counters'.requests = counters.requests + 1
      /\ counters'.errors = counters.errors + One(failed)
      /\ counters'.queries = counters.queries
  BY <1>1, HttpCounts, RoutesFinite DEF MonitorTypes, CountsInv
<1>3. /\ answered' \in AnsweredRecords
      /\ answered'.all = answered.all + 1
      /\ answered'.failed = answered.failed + One(failed)
      /\ answered'.refused = answered.refused /\ answered'.shown = answered.shown
      /\ answered'.scraped = answered.scraped /\ answered'.missed = answered.missed
      /\ answered'.misled = answered.misled
  BY <1>1, ReplyCounts
<1>4. CountsInv'
  <2>1. One(failed) \in {0, 1}
    BY OneRange
  <2>2. /\ counters.requests \in Nat /\ counters.errors \in Nat
        /\ answered.refused \in Nat /\ answered.all \in Nat /\ answered.failed \in Nat
        /\ answered.scraped \in Nat /\ answered.missed \in Nat
    BY DEF MonitorTypes, CounterRecords, AnsweredRecords
  <2> QED BY <1>2, <1>3, <2>1, <2>2 DEF CountsInv
<1>5. ProbesInv'
  BY <1>1, <1>2, <1>3 DEF ProbesInv
<1> QED BY <1>1, <1>2, <1>3, <1>4, <1>5 DEF MonitorTypes

LEMMA RefusedInv == ASSUME MonitorInv, RefusedAtTheFloor PROVE MonitorInv'
<1> USE DEF MonitorInv
<1> PICK old \in AnsweredRecords : old = answered
  BY DEF MonitorTypes
<1> PICK l \in Nat, m \in Nat, n \in Nat : l = old.all + 1 /\ m = old.failed + 1 /\ n = old.refused + 1
  BY DEF AnsweredRecords
<1>1. answered' = [old EXCEPT !.all = l, !.failed = m, !.refused = n]
      /\ UNCHANGED <<services, counters, probes>>
  BY DEF RefusedAtTheFloor, AnsweredRecords
<1>2. /\ answered' \in AnsweredRecords
      /\ answered'.all = l /\ answered'.failed = m /\ answered'.refused = n
      /\ answered'.scraped = old.scraped /\ answered'.missed = old.missed
      /\ answered'.shown = answered.shown /\ answered'.misled = answered.misled
  BY <1>1 DEF AnsweredRecords
<1>3. counters.requests \in Nat /\ counters.errors \in Nat /\ old.refused \in Nat
      /\ old.scraped \in Nat /\ old.missed \in Nat
  BY DEF MonitorTypes, CounterRecords, AnsweredRecords
<1>4. counters'.requests + n + old.scraped = l /\ counters'.errors + n + old.missed = m
  BY <1>1, <1>3 DEF CountsInv, AnsweredRecords
<1>5. CountsInv'
  BY <1>1, <1>2, <1>4 DEF CountsInv, Fair, Answers, Failures
<1>6. ProbesInv'
  BY <1>1, <1>2 DEF ProbesInv
<1> QED BY <1>1, <1>2, <1>5, <1>6 DEF MonitorTypes

LEMMA ScrapedInv ==
  ASSUME MonitorInv, NEW found \in BOOLEAN, Scraped(found)
  PROVE  MonitorInv'
<1> USE DEF MonitorInv
<1> PICK failed \in BOOLEAN : failed = ~found
  OBVIOUS
<1> PICK one \in {0, 1} : one = One(failed)
  BY OneRange
<1>1. PICK old \in AnsweredRecords :
         /\ old = Replied(failed)
         /\ old.all = answered.all + 1 /\ old.failed = answered.failed + one
         /\ old.refused = answered.refused
         /\ old.scraped = answered.scraped /\ old.missed = answered.missed
         /\ old.shown = answered.shown /\ old.misled = answered.misled
  BY ReplyCounts
<1> PICK m \in Nat, n \in Nat : m = old.scraped + 1 /\ n = old.missed + one
  BY DEF AnsweredRecords
<1>2. answered' = [old EXCEPT !.scraped = m, !.missed = n]
      /\ UNCHANGED <<services, counters, probes>>
  BY <1>1 DEF Scraped, AnsweredRecords
<1>3. /\ answered' \in AnsweredRecords
      /\ answered'.all = old.all /\ answered'.failed = old.failed
      /\ answered'.refused = old.refused
      /\ answered'.scraped = m /\ answered'.missed = n
      /\ answered'.shown = answered.shown /\ answered'.misled = answered.misled
  <2> PICK new : new = [old EXCEPT !.scraped = m, !.missed = n]
    OBVIOUS
  <2>1. /\ new \in AnsweredRecords
        /\ new.all = old.all /\ new.failed = old.failed /\ new.refused = old.refused
        /\ new.scraped = m /\ new.missed = n
        /\ new.shown = old.shown /\ new.misled = old.misled
    BY DEF AnsweredRecords
  <2> QED BY <1>1, <1>2, <2>1
<1>4. /\ counters.requests \in Nat /\ counters.errors \in Nat
      /\ answered.refused \in Nat /\ answered.all \in Nat /\ answered.failed \in Nat
      /\ answered.scraped \in Nat /\ answered.missed \in Nat
  BY DEF MonitorTypes, CounterRecords, AnsweredRecords
<1>5. /\ counters'.requests + answered'.refused + answered'.scraped = answered'.all
      /\ counters'.errors + answered'.refused + answered'.missed = answered'.failed
  BY <1>1, <1>2, <1>3, <1>4 DEF CountsInv
<1>6. CountsInv'
  BY <1>2, <1>3, <1>5 DEF CountsInv, Fair, Answers, Failures
<1>7. ProbesInv'
  BY <1>2, <1>3 DEF ProbesInv
<1> QED BY <1>2, <1>3, <1>6, <1>7 DEF MonitorTypes

LEMMA ProbeArrivesInv ==
  ASSUME MonitorInv, NEW p \in Probers, NEW kind \in ProbeKinds, ProbeArrives(p, kind)
  PROVE  MonitorInv'
<1> USE DEF MonitorInv
<1> PICK up \in BOOLEAN : up = services["database"]
  BY DEF MonitorTypes, Services
<1> DEFINE r == [NoProbe EXCEPT !.kind = kind, !.left = ChecksOf(kind), !.wasUp = up]
<1>1. probes' = [probes EXCEPT ![p] = r] /\ UNCHANGED <<services, counters, answered>>
  BY DEF ProbeArrives
<1>2. ChecksOf(kind) \in SUBSET Checked /\ "database" \in ChecksOf(kind)
  BY DEF ChecksOf, Checked, Services
<1>3. /\ r \in ProbeRecords /\ r.kind = kind /\ kind # "none"
      /\ r.left = ChecksOf(kind) /\ r.seen["database"] = "skipped" /\ r.wasUp = up
  BY <1>2 DEF ProbeRecords, NoProbe, ProbeKinds, Checked, Services
<1> HIDE DEF r
<1>4. /\ probes' \in [Probers -> ProbeRecords] /\ probes'[p] = r
      /\ \A q \in Probers \ {p} : probes'[q] = probes[q]
  BY <1>1, <1>3 DEF MonitorTypes
<1>5. ProbesInv'
  BY <1>1, <1>2, <1>3, <1>4 DEF ProbesInv
<1> QED BY <1>1, <1>4, <1>5, CountersStay DEF MonitorTypes

LEMMA CheckDatabaseInv ==
  ASSUME MonitorInv, NEW p \in Probers, CheckDatabase(p)
  PROVE  MonitorInv'
<1> USE DEF MonitorInv
<1> PICK up \in BOOLEAN : up = services["database"]
  BY DEF MonitorTypes, Services
<1>1. /\ counters' = RecordDbQuery(counters, ~up) /\ UNCHANGED <<services, answered>>
      /\ Saw(p, "database", IF up THEN "up" ELSE "down") /\ "database" \in probes[p].left
  BY DEF CheckDatabase
<1>2. /\ counters' \in CounterRecords /\ Fair(counters')
      /\ counters'.requests = counters.requests /\ counters'.errors = counters.errors
      /\ counters'.queries = counters.queries + 1
  <2>1. (~up) \in BOOLEAN
    OBVIOUS
  <2> PICK failed \in BOOLEAN : failed = ~up
    BY <2>1
  <2> QED BY <1>1, QueryCounts DEF MonitorTypes, CountsInv
<1>3. CountsInv'
  BY <1>1, <1>2, Untouched
<1>4. counters'.queries > 0
  BY <1>2 DEF MonitorTypes, CounterRecords
<1>5. up => probes[p].wasUp
  <2>1. probes[p].kind # "none"
    BY <1>1 DEF ProbesInv, NoProbe
  <2> QED BY <2>1 DEF ProbesInv
<1>6. probes' \in [Probers -> ProbeRecords] /\ ProbesInv'
  <2> PICK status \in {"up", "down"} : status = IF up THEN "up" ELSE "down"
    OBVIOUS
  <2> QED BY <1>1, <1>4, <1>5, SawInv
<1> QED BY <1>1, <1>2, <1>3, <1>6 DEF MonitorTypes

LEMMA CheckRedisInv ==
  ASSUME MonitorInv, NEW p \in Probers, CheckRedis(p)
  PROVE  MonitorInv'
<1> USE DEF MonitorInv
<1> PICK up \in BOOLEAN : up = services["redis"]
  BY DEF MonitorTypes, Services
<1> PICK failed \in BOOLEAN : failed = ~up
  OBVIOUS
<1> PICK status \in {"up", "down", "skipped"} :
       status = IF ~RedisWanted THEN "skipped" ELSE IF up THEN "up" ELSE "down"
  OBVIOUS
<1>1. /\ counters' = IF RedisWanted THEN RecordRedisOperation(counters, failed) ELSE counters
      /\ UNCHANGED <<services, answered>>
      /\ Saw(p, "redis", status) /\ "redis" \in probes[p].left
  BY DEF CheckRedis
<1>2. /\ counters' \in CounterRecords /\ Fair(counters')
      /\ counters'.requests = counters.requests /\ counters'.errors = counters.errors
      /\ counters'.queries = counters.queries
  <2>1. CASE RedisWanted
    BY <1>1, <2>1, RedisCounts DEF MonitorTypes, CountsInv
  <2>2. CASE ~RedisWanted
    BY <1>1, <2>2 DEF MonitorTypes, CountsInv
  <2> QED BY <2>1, <2>2
<1>3. CountsInv'
  BY <1>1, <1>2, Untouched
<1>4. probes' \in [Probers -> ProbeRecords] /\ ProbesInv'
  BY <1>1, <1>2, SawInv
<1> QED BY <1>1, <1>2, <1>3, <1>4 DEF MonitorTypes

\* The checks that count nothing.
LEMMA OtherChecksInv ==
  ASSUME MonitorInv, NEW p \in Probers, CheckStorage(p) \/ CheckDisk(p) \/ CheckMigrations(p)
  PROVE  MonitorInv'
<1> USE DEF MonitorInv
<1>1. PICK check \in probes[p].left, status \in {"up", "down", "skipped"} :
         Saw(p, check, status) /\ check # "database"
  <2>1. CASE CheckStorage(p)
    <3> PICK status \in {"up", "down", "skipped"} :
           status = IF services["storage"] THEN "up" ELSE "down"
      OBVIOUS
    <3> QED BY <2>1 DEF CheckStorage
  <2>2. CASE CheckDisk(p)
    <3> PICK status \in {"up", "down", "skipped"} :
           status = IF services["disk"] THEN "up" ELSE "down"
      OBVIOUS
    <3>1. "disk" \in probes[p].left /\ (Saw(p, "disk", status) \/ Saw(p, "disk", "skipped"))
      BY <2>2 DEF CheckDisk
    <3> QED BY <3>1
  <2>3. CASE CheckMigrations(p)
    BY <2>3 DEF CheckMigrations
  <2> QED BY <2>1, <2>2, <2>3
<1>2. UNCHANGED <<services, counters, answered>>
  BY DEF CheckStorage, CheckDisk, CheckMigrations
<1>3. probes' \in [Probers -> ProbeRecords] /\ ProbesInv'
  BY <1>1, <1>2, SawInv
<1> QED BY <1>2, <1>3, CountersStay DEF MonitorTypes

\* What a dashboard is shown.
LEMMA StatsAreFair ==
  ASSUME NEW c \in CounterRecords, Fair(c)
  PROVE  /\ Stats(c) \in [requests : Nat, errors : Nat, errorRate : Nat, queries : Nat,
                          queryFailures : Nat, redisOps : Nat, redisFailures : Nat]
         /\ Stats(c).queries = c.queries
         /\ Stats(c).queryFailures <= Stats(c).queries /\ Stats(c).errorRate <= 100
<1> PICK e \in Nat, r \in Nat : e = c.errors /\ r = c.requests
  BY DEF CounterRecords
<1>1. e <= r
  BY DEF Fair
<1>2. ErrorRate(c) \in Nat /\ ErrorRate(c) <= 100
  <2>1. CASE r = 0
    BY <2>1 DEF ErrorRate
  <2>2. CASE r # 0
    <3>1. ErrorRate(c) = (100 * e) \div r
      BY <2>2 DEF ErrorRate
    <3>2. 100 * e \in Nat /\ 100 * e <= 100 * r /\ r > 0
      BY <1>1, <2>2
    <3> PICK x \in Nat : x = 100 * e
      BY <3>2
    <3>3. x \div r \in Nat /\ x \div r <= 100
      BY <3>2
    <3> QED BY <3>1, <3>3
  <2> QED BY <2>1, <2>2
<1> HIDE DEF Fair
<1> QED BY <1>2 DEF Stats, CounterRecords, Fair

\* Whatever answers a request counts it on both sides.
LEMMA ReplyKeepsCounts ==
  ASSUME MonitorTypes, CountsInv, NEW failed \in BOOLEAN,
         Fair(counters'),
         counters'.requests = counters.requests + 1,
         counters'.errors = counters.errors + One(failed),
         answered'.all = answered.all + 1,
         answered'.failed = answered.failed + One(failed),
         answered'.refused = answered.refused,
         answered'.scraped = answered.scraped, answered'.missed = answered.missed,
         \A s \in answered'.shown :
            s.queries > 0 /\ s.queryFailures <= s.queries /\ s.errorRate <= 100
  PROVE  CountsInv'
<1>1. One(failed) \in {0, 1}
  BY OneRange
<1>2. /\ counters.requests \in Nat /\ counters.errors \in Nat
      /\ answered.refused \in Nat /\ answered.all \in Nat /\ answered.failed \in Nat
      /\ answered.scraped \in Nat /\ answered.missed \in Nat
  BY DEF MonitorTypes, CounterRecords, AnsweredRecords
<1>3. /\ counters'.requests + answered'.refused + answered'.scraped = answered'.all
      /\ counters'.errors + answered'.refused + answered'.missed = answered'.failed
  BY <1>1, <1>2 DEF CountsInv
<1> QED BY <1>3 DEF CountsInv

LEMMA ProbeAnsweredInv ==
  ASSUME MonitorInv, NEW p \in Probers, ProbeAnswered(p)
  PROVE  MonitorInv'
<1> USE DEF MonitorInv
<1> PICK probe \in ProbeRecords : probe = probes[p]
  BY DEF MonitorTypes
<1>0. probe.kind \in ProbeKinds /\ probe.left = {}
  BY DEF ProbeAnswered, ProbesInv, ProbeRecords
<1> PICK failed \in BOOLEAN :
        /\ failed = CASE probe.kind = "health" -> HealthStatus(probe.seen) = "error"
                       [] probe.kind = "ready" -> ~IsReady(probe.seen)
                       [] OTHER -> FALSE
  BY <1>0 DEF ProbeKinds, IsReady
<1>1. /\ counters' = RecordHttpRequest(counters, probe.kind, failed)
      /\ answered' = [Replied(failed) EXCEPT
               !.shown = IF probe.kind = "dashboard" THEN {Stats(counters)} ELSE @,
               !.misled = @ \/ (probe.kind # "dashboard" /\ ~failed /\ ~probe.wasUp)]
      /\ probes' = [probes EXCEPT ![p] = NoProbe]
      /\ UNCHANGED services
  BY DEF ProbeAnswered, ResponseEnds
<1>2. /\ counters' \in CounterRecords /\ Fair(counters')
      /\ counters'.requests = counters.requests + 1
      /\ counters'.errors = counters.errors + One(failed)
      /\ counters'.queries = counters.queries
  BY <1>0, <1>1, HttpCounts, RoutesFinite DEF MonitorTypes, CountsInv
<1>3. counters.queries > 0
  BY <1>0 DEF ProbesInv, ProbeKinds
<1>4. probe.kind # "dashboard" /\ ~failed => probe.wasUp
  <2>1. probe.kind # "dashboard" /\ ~failed => probe.seen["database"] = "up"
    BY <1>0 DEF ProbeKinds, HealthStatus, IsReady
  <2> QED BY <2>1 DEF ProbesInv
<1>5. PICK old \in AnsweredRecords :
         /\ old = Replied(failed)
         /\ old.all = answered.all + 1 /\ old.failed = answered.failed + One(failed)
         /\ old.refused = answered.refused /\ old.shown = answered.shown
         /\ old.scraped = answered.scraped /\ old.missed = answered.missed
         /\ old.misled = FALSE
  BY ReplyCounts DEF ProbesInv, AnsweredRecords
<1>6. PICK shown : /\ shown = IF probe.kind = "dashboard" THEN {Stats(counters)} ELSE old.shown
                   /\ shown \in SUBSET [requests : Nat, errors : Nat, errorRate : Nat, queries : Nat,
                          queryFailures : Nat, redisOps : Nat, redisFailures : Nat]
                   /\ \A s \in shown : s.queries > 0 /\ s.queryFailures <= s.queries /\ s.errorRate <= 100
  <2> DEFINE shown == IF probe.kind = "dashboard" THEN {Stats(counters)} ELSE old.shown
  <2>1. CASE probe.kind = "dashboard"
    <3> PICK stats : stats = Stats(counters)
      OBVIOUS
    <3>1. /\ stats \in [requests : Nat, errors : Nat, errorRate : Nat, queries : Nat,
                          queryFailures : Nat, redisOps : Nat, redisFailures : Nat]
          /\ stats.queries > 0 /\ stats.queryFailures <= stats.queries /\ stats.errorRate <= 100
      BY <1>3, StatsAreFair DEF MonitorTypes, CountsInv
    <3>2. shown = {stats}
      BY <2>1
    <3> HIDE DEF shown
    <3> QED BY <3>1, <3>2 DEF shown
  <2>2. CASE probe.kind # "dashboard"
    BY <1>5, <2>2 DEF CountsInv, AnsweredRecords
  <2> QED BY <2>1, <2>2
<1>7. answered' = [old EXCEPT !.shown = shown, !.misled = FALSE]
  BY <1>1, <1>4, <1>5, <1>6
<1>8. /\ answered' \in AnsweredRecords
      /\ answered'.all = old.all /\ answered'.failed = old.failed
      /\ answered'.refused = old.refused /\ answered'.shown = shown
      /\ answered'.scraped = old.scraped /\ answered'.missed = old.missed
      /\ answered'.misled = FALSE
  BY <1>6, <1>7 DEF AnsweredRecords
<1>9. CountsInv'
  <2>1. \A s \in answered'.shown :
            s.queries > 0 /\ s.queryFailures <= s.queries /\ s.errorRate <= 100
    BY <1>6, <1>8
  <2> QED BY <1>2, <1>5, <1>8, <2>1, ReplyKeepsCounts
<1>10. NoProbe \in ProbeRecords /\ NoProbe.kind = "none" /\ NoProbe.seen["database"] = "skipped"
  BY DEF NoProbe, ProbeRecords, Checked, Services
<1>11. /\ probes' \in [Probers -> ProbeRecords] /\ probes'[p] = NoProbe
       /\ \A q \in Probers \ {p} : probes'[q] = probes[q]
  BY <1>1, <1>10 DEF MonitorTypes
<1>12. ProbesInv'
  BY <1>1, <1>2, <1>8, <1>10, <1>11 DEF ProbesInv
<1> QED BY <1>1, <1>2, <1>8, <1>9, <1>11, <1>12 DEF MonitorTypes

LEMMA MonitorStep ==
  ASSUME MonitorInv, [MonitorNext]_monitorVars
  PROVE  MonitorInv'
<1>1. CASE UNCHANGED monitorVars
  BY <1>1, CountersStay DEF MonitorInv, MonitorTypes, ProbesInv, monitorVars
<1>2. CASE MonitorNext
  BY <1>2, TurnOfLuckInv, ServeRouteInv, ScrapedInv, RefusedInv, ProbeArrivesInv, CheckDatabaseInv,
     CheckRedisInv, OtherChecksInv, ProbeAnsweredInv DEF MonitorNext
<1> QED BY <1>1, <1>2

LEMMA MonitorBegins == MonitorInit => MonitorInv
<1> SUFFICES ASSUME MonitorInit PROVE MonitorInv
  OBVIOUS
<1>1. NoProbe \in ProbeRecords /\ NoProbe.kind = "none" /\ NoProbe.seen["database"] = "skipped"
  BY DEF NoProbe, ProbeRecords, Checked, Services
<1>2. MonitorTypes
  BY <1>1 DEF MonitorInit, MonitorTypes, CounterRecords, AnsweredRecords
<1>3. ProbesInv
  BY <1>1 DEF MonitorInit, ProbesInv
<1>4. SumOver(Answers(counters), AllRoutes) = 0 /\ SumOver(Failures(counters), AllRoutes) = 0
  <2> PICK f, g : f = Answers(counters) /\ g = Failures(counters)
    OBVIOUS
  <2>1. \A r \in AllRoutes : f[r] = 0 /\ g[r] = 0
    BY DEF MonitorInit, Answers, Failures
  <2>2. SumOver(f, AllRoutes) = 0 /\ SumOver(g, AllRoutes) = 0
    BY <2>1, RoutesFinite, TotalOfZeros
  <2> QED BY <2>2
<1>5. CountsInv
  BY <1>4 DEF MonitorInit, CountsInv, Fair
<1> QED BY <1>2, <1>3, <1>5 DEF MonitorInv

\* An exposition has the totals, and a line for each endpoint that was asked for.
LEMMA LinesAddUp ==
  ASSUME MonitorInv
  PROVE  CountsAddUp
<1> USE DEF MonitorInv
<1> PICK c \in CounterRecords : c = counters
  BY DEF MonitorTypes
<1> DEFINE lines == Exposition(c)
           V == {s \in AllRoutes : c.endpoint[s].total > 0}
           f == Answers(c)
           g == Failures(c)
<1>1. \A r \in AllRoutes : /\ f[r] = c.endpoint[r].total /\ f[r] \in Nat
                           /\ g[r] = c.endpoint[r].errors /\ g[r] \in Nat /\ g[r] <= f[r]
  BY DEF Answers, Failures, CounterRecords, CountsInv, Fair
<1>2. \A r \in AllRoutes \ V : f[r] = 0 /\ g[r] = 0
  BY <1>1
<1>3. DOMAIN Stats(c) = {"requests", "errors", "errorRate", "queries", "queryFailures",
                         "redisOps", "redisFailures"}
  BY DEF Stats
<1> DEFINE simple == {<<name, Stats(c)[name]>> : name \in DOMAIN Stats(c) \ {"queries"}}
           totals == {<<"endpoint_total", r, c.endpoint[r].total>> : r \in V}
           fails == {<<"endpoint_errors", r, c.endpoint[r].errors>> : r \in V}
<1>4. lines = simple \cup totals \cup fails
  BY DEF Exposition
<1>5. \A l \in simple : l[1] # "endpoint_total" /\ l[1] # "endpoint_errors"
  BY <1>3
<1>6. (\A l \in totals : l[1] = "endpoint_total") /\ (\A l \in fails : l[1] = "endpoint_errors")
  OBVIOUS
<1> HIDE DEF simple
<1>7. {l \in lines : l[1] = "endpoint_total"} = {<<"endpoint_total", r, f[r]>> : r \in V}
  <2>1. totals = {<<"endpoint_total", r, f[r]>> : r \in V}
    BY <1>1
  <2> HIDE DEF totals, fails, lines
  <2> QED BY <1>4, <1>5, <1>6, <2>1
<1>8. {l \in lines : l[1] = "endpoint_errors"} = {<<"endpoint_errors", r, g[r]>> : r \in V}
  <2>1. fails = {<<"endpoint_errors", r, g[r]>> : r \in V}
    BY <1>1
  <2> HIDE DEF totals, fails, lines
  <2> QED BY <1>4, <1>5, <1>6, <2>1
<1>9. SumOf("endpoint_total", lines) = SumOver(f, AllRoutes)
  <2> HIDE DEF lines, f
  <2>1. V \subseteq AllRoutes /\ \A s \in AllRoutes : f[s] \in Nat
    BY <1>1
  <2> HIDE DEF V
  <2>2. \A s \in AllRoutes \ V : f[s] = 0
    BY <1>2
  <2>3. Shows(AllRoutes, f, V, "endpoint_total", lines)
    BY <1>7, <2>1, <2>2, RoutesFinite DEF Shows
  <2> QED BY <2>3, ShownIsAll
<1>10. SumOf("endpoint_errors", lines) = SumOver(g, AllRoutes)
  <2> HIDE DEF lines, g
  <2>1. V \subseteq AllRoutes /\ \A s \in AllRoutes : g[s] \in Nat
    BY <1>1
  <2> HIDE DEF V
  <2>2. \A s \in AllRoutes \ V : g[s] = 0
    BY <1>2
  <2>3. Shows(AllRoutes, g, V, "endpoint_errors", lines)
    BY <1>8, <2>1, <2>2, RoutesFinite DEF Shows
  <2> QED BY <2>3, ShownIsAll
<1>11. <<"requests", c.requests>> \in simple /\ <<"errors", c.errors>> \in simple
  <2>1. Stats(c)["requests"] = c.requests /\ Stats(c)["errors"] = c.errors
    BY DEF Stats
  <2> QED BY <1>3, <2>1 DEF simple
<1>12. /\ <<"requests", SumOf("endpoint_total", lines)>> \in lines
       /\ <<"errors", SumOf("endpoint_errors", lines)>> \in lines
  BY <1>4, <1>9, <1>10, <1>11 DEF CountsInv, Fair
<1> HIDE DEF lines, f, g
<1> QED BY <1>12 DEF CountsAddUp, CountsInv, lines

\* The lines of /metrics add up to the counters and those, with what the floor refused
\* and what asked for the metrics themselves, to every request answered; and a probe
\* that says ok or ready found the database up at some moment while it ran, for any
\* routes and probes that overlap (metrics.service.ts, health.controller.ts).
THEOREM TheMonitorIsHonest == MonitorSpec => []MonitorHolds
<1>1. MonitorInv /\ [MonitorNext]_monitorVars => MonitorInv'
  BY MonitorStep
<1>2. MonitorInv => MonitorHolds
  BY LinesAddUp DEF MonitorInv, ProbesInv, NoFalseComfort, MonitorHolds
<1> QED BY <1>1, <1>2, MonitorBegins, PTL DEF MonitorSpec

-----------------------------------------------------------------------------
(* The office: each part's own behaviour, and so what the wires keep.       *)

\* The behaviour of the office is, for each of these parts, one of its own.
LEMMA WiresStart == MCInit => BridgeInit /\ MailerInit /\ PyInit /\ KitchenInit
BY DEF MCInit

LEMMA WiresSteps ==
  ASSUME [MCNext]_officeVars
  PROVE  /\ [BridgeNext]_bridgeVars /\ [MailerNext]_mailVars
         /\ [PyNext]_pyVars /\ [KitchenNext]_kitchenVars
<1>1. CASE UNCHANGED officeVars
  BY <1>1 DEF officeVars
<1>2. ASSUME MCNext
      PROVE  /\ BridgeNext \/ UNCHANGED bridgeVars
             /\ MailerNext \/ UNCHANGED mailVars
             /\ PyNext \/ UNCHANGED pyVars
             /\ KitchenNext \/ UNCHANGED kitchenVars
  BY <1>2 DEF MCNext, Only
<1> QED BY <1>1, <1>2

\* No event is heard twice, a mail called sent was taken, an answer of the workers
\* is theirs, and the kitchen shows one stream, in its order (events.bridge.ts,
\* smtp.adapter.ts, file-intelligence.service.ts, kitchen-tab.tsx).
THEOREM TheWiresHold == MCSpec => []WiresHold
<1>1. MCSpec => BridgeSpec
  BY WiresStart, WiresSteps, PTL DEF MCSpec, BridgeSpec
<1>2. MCSpec => MailerSpec
  BY WiresStart, WiresSteps, PTL DEF MCSpec, MailerSpec
<1>3. MCSpec => PySpec
  BY WiresStart, WiresSteps, PTL DEF MCSpec, PySpec
<1>4. MCSpec => KitchenSpec
  BY WiresStart, WiresSteps, PTL DEF MCSpec, KitchenSpec
<1>5. EachEventOnce /\ SuccessMeansAccepted /\ AnswersHonest /\ OneStream /\ ShownInOrder
        => WiresHold
  BY DEF WiresHold, KitchenHolds
<1> QED BY <1>1, <1>2, <1>3, <1>4, <1>5, EventsAreHeardOnce, NoFalseSuccess, AnswersAreHonest,
           ListensToOne, ShowsInOrder, PTL

LEMMA WatchStarts == MCInit => PostureInit /\ InboxInit /\ MonitorInit
BY DEF MCInit

LEMMA WatchSteps ==
  ASSUME [MCNext]_officeVars
  PROVE  /\ [PostureNext]_postureVars /\ [InboxNext]_inboxVars
         /\ [MonitorNext]_monitorVars
<1>1. CASE UNCHANGED officeVars
  BY <1>1 DEF officeVars
<1>2. ASSUME MCNext
      PROVE  /\ PostureNext \/ UNCHANGED postureVars
             /\ InboxNext \/ UNCHANGED inboxVars
             /\ MonitorNext \/ UNCHANGED monitorVars
  BY <1>2 DEF MCNext, Only
<1> QED BY <1>1, <1>2

\* No regression of the sweep goes without its fire, no bell says of a call what it
\* was not, and the counters and the probes say what there was (posture.service.ts,
\* owner-inbox.service.ts, metrics.service.ts, health.service.ts).
THEOREM TheWatchHolds == MCSpec => []WatchHolds
<1>1. MCSpec => PostureSpec
  BY WatchStarts, WatchSteps, PTL DEF MCSpec, PostureSpec
<1>2. MCSpec => InboxSpec
  BY WatchStarts, WatchSteps, PTL DEF MCSpec, InboxSpec
<1>3. MCSpec => MonitorSpec
  BY WatchStarts, WatchSteps, PTL DEF MCSpec, MonitorSpec
<1>4. FiresAreTold /\ NeverPretends /\ MonitorHolds => WatchHolds
  BY DEF WatchHolds
<1> QED BY <1>1, <1>2, <1>3, <1>4, NoFireForgotten, TheInboxPretendsNothing,
           TheMonitorIsHonest, PTL
=================================================================================
