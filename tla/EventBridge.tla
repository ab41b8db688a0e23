------------------------------- MODULE EventBridge -------------------------------
(***************************************************************************)
(* Agent events across replicas: orchestrator/agent-event-bus.ts (the ring *)
(* and its wire tap), redis-event-bridge.service.ts (what one replica      *)
(* emits is published, what others published is re-emitted, its own is     *)
(* dropped) and the subscriber's socket (providers/queue/redis-resp.client *)
(* .ts, RespSubscriber).                                                   *)
(*                                                                         *)
(* A publish is a command on a socket of its own, so two of them land in   *)
(* any order; Redis hands what lands to the subscribers it has then.  A    *)
(* socket that reports an error, or sends what cannot be parsed, is closed *)
(* and replaced after a pause.  A socket Redis closes in an orderly way    *)
(* reports no error: nobody listens for its end, and the subscriber stays  *)
(* as it is, deaf.                                                         *)
(***************************************************************************)
EXTENDS Naturals, SequencesExt

CONSTANTS Replicas,
          RingLimit,        \* RING_LIMIT
          MaxEvents,        \* bound: events emitted
          MaxBridgeFaults   \* bound: publishes and sockets that fail

ASSUME BridgeAssumption ==
    /\ {RingLimit, MaxEvents, MaxBridgeFaults} \subseteq Nat
    /\ RingLimit > 0

VARIABLES ring,             \* the last events of each replica's bus
          publishing,       \* envelopes on their way to Redis
          sub,              \* the subscriber: none, connecting, live or deaf
          retry,            \* the attempt a retry timer is set for, 0 if none is
          arriving,         \* what Redis has sent each subscriber
          bridge            \* ghosts and bounds

bridgeVars == <<ring, publishing, sub, retry, arriving, bridge>>

BridgeInit ==
    /\ ring = [r \in Replicas |-> <<>>]
    /\ publishing = {}
    /\ sub = [r \in Replicas |-> "connecting"]
    /\ retry = [r \in Replicas |-> 0]
    /\ arriving = [r \in Replicas |-> <<>>]
    /\ bridge = [events |-> 0, faults |-> 0, heard |-> [r \in Replicas |-> {}],
                 twice |-> FALSE, attempt |-> [r \in Replicas |-> 1]]

BridgeFault ==
    /\ bridge.faults < MaxBridgeFaults
    /\ bridge' = [bridge EXCEPT !.faults = @ + 1]

\* The event is the last of the ring; a full ring loses its first.
Ringed(r, event) ==
    ring' = [ring EXCEPT ![r] = IF Len(@) = RingLimit THEN Append(Tail(@), event)
                                ELSE Append(@, event)]

\* A ghost: who heard what, and whether somebody heard something twice.
Heard(r, event, events) ==
    bridge' = [bridge EXCEPT !.events = events, !.heard[r] = @ \cup {event},
                             !.twice = @ \/ event \in bridge.heard[r]]

\* emit(): the ring, the listeners, the wire tap, which starts a publish.
Emit(r) ==
    LET event == [origin |-> r, n |-> bridge.events + 1] IN
    /\ bridge.events < MaxEvents
    /\ Ringed(r, event)
    /\ Heard(r, event, bridge.events + 1)
    /\ publishing' = publishing \cup {event}
    /\ UNCHANGED <<sub, retry, arriving>>

\* PUBLISH: every subscriber Redis has, the publisher's own included.
PublishLands(event) ==
    /\ publishing' = publishing \ {event}
    /\ arriving' = [r \in Replicas |-> IF sub[r] = "live" THEN Append(arriving[r], event)
                                       ELSE arriving[r]]
    /\ UNCHANGED <<ring, sub, retry, bridge>>

PublishFails(event) ==
    /\ BridgeFault
    /\ publishing' = publishing \ {event}
    /\ UNCHANGED <<ring, sub, retry, arriving>>

\* The loop guard: envelopes of this origin are dropped.
Foreign(r, event) ==
    event.origin # r

\* onMessage(): emitRemote(), which has no wire tap.
Arrives(r) ==
    /\ arriving[r] # <<>>
    /\ LET event == Head(arriving[r]) IN
       IF Foreign(r, event)
       THEN Ringed(r, event) /\ Heard(r, event, bridge.events)
       ELSE UNCHANGED <<ring, bridge>>
    /\ arriving' = [arriving EXCEPT ![r] = Tail(@)]
    /\ UNCHANGED <<publishing, sub, retry>>

\* SUBSCRIBE is acknowledged.
Subscribed(r) ==
    /\ sub[r] = "connecting"
    /\ sub' = [sub EXCEPT ![r] = "live"]
    /\ UNCHANGED <<ring, publishing, retry, arriving, bridge>>

\* onError(): close, forget the subscriber, try again later.
SubscriberFails(r) ==
    /\ sub[r] \in {"connecting", "live"}
    /\ BridgeFault
    /\ sub' = [sub EXCEPT ![r] = "none"]
    /\ arriving' = [arriving EXCEPT ![r] = <<>>]
    /\ retry' = [retry EXCEPT ![r] = bridge.attempt[r]]
    /\ UNCHANGED <<ring, publishing>>

\* An end nobody listens for.
ClosedByRedis(r) ==
    /\ sub[r] \in {"connecting", "live"}
    /\ BridgeFault
    /\ sub' = [sub EXCEPT ![r] = "deaf"]
    /\ UNCHANGED <<ring, publishing, retry, arriving>>

\* The timer: startSubscriber() with the next attempt.
Retry(r) ==
    /\ retry[r] # 0
    /\ sub' = [sub EXCEPT ![r] = "connecting"]
    /\ retry' = [retry EXCEPT ![r] = 0]
    /\ bridge' = [bridge EXCEPT !.attempt[r] = @ + 1]
    /\ UNCHANGED <<ring, publishing, arriving>>

BridgeNext ==
    \/ \E r \in Replicas :
           \/ Emit(r) \/ Arrives(r)
           \/ Subscribed(r) \/ SubscriberFails(r) \/ ClosedByRedis(r) \/ Retry(r)
    \/ \E event \in publishing : PublishLands(event) \/ PublishFails(event)

BridgeSpec == BridgeInit /\ [][BridgeNext]_bridgeVars

-----------------------------------------------------------------------------

\* No replica hears an event twice, its own coming back included, whatever order
\* publishes land in and however often the subscriber is replaced; an event that
\* is heard was emitted, and once; and a bridge without a subscriber has a retry
\* ahead of it, one with a subscriber has none.
EachEventOnce ==
    /\ ~bridge.twice
    /\ \A r \in Replicas :
           /\ \A event \in bridge.heard[r] : event \in bridge.heard[event.origin]
           /\ sub[r] = "none" <=> retry[r] # 0
=================================================================================
