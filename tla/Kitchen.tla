--------------------------------- MODULE Kitchen ---------------------------------
(***************************************************************************)
(* The kitchen, where the owner watches the agents work: the dashboard's   *)
(* tab (web/src/features/kitchen-tab.tsx), the same-origin tunnel of its   *)
(* event stream (web/src/app/stream/events/route.ts) and what the API      *)
(* gives it: the last events, a ticket, the stream (orchestrator           *)
(* .controller.ts).                                                        *)
(*                                                                         *)
(* The tab opens its stream when it is shown and once more when the roster *)
(* of agents lands, because the positions the events are drawn at have     *)
(* changed by then.  Each opening is a coroutine that its successor stops: *)
(* it may be waiting for the API just then, and goes on when that answers. *)
(* Events are their numbers; odd ones start a skill, even ones complete it *)
(* (one agent).  A ticket belongs to one stream; whether it is good is     *)
(* Sessions' concern: here a stream is refused or not.                     *)
(***************************************************************************)
EXTENDS Naturals, FiniteSets, SequencesExt

CONSTANTS Painted,          \* events of the first paint: eight of them
          Ticker,           \* events on display: thirty
          MaxEmits,         \* bound: events
          MaxStreams,       \* bound: streams
          MaxKitchenFaults  \* bound: requests that fail and streams that break

ASSUME KitchenAssumption ==
    {Painted, Ticker} \subseteq Nat \ {0} /\ {MaxEmits, MaxStreams, MaxKitchenFaults} \subseteq Nat

VARIABLES emitted,          \* events the bus has had
          opening,          \* [Openings -> [step, stopped, read]]
          streams,          \* in the order of their tickets: [by, at, next, beats]
          screen,           \* [shown, live, working]
          kitchen           \* [roster, left, late, faults]; late is a ghost: whether what
                            \* was painted last came from an opening stopped before

kitchenVars == <<emitted, opening, streams, screen, kitchen>>

\* Before the roster, and after it.
Openings == 1..2

KitchenInit ==
    /\ emitted = 0
    /\ opening = [i \in Openings |-> [step |-> IF i = 1 THEN "recent" ELSE "none",
                                      stopped |-> FALSE, read |-> 0]]
    /\ streams = <<>>
    /\ screen = [shown |-> <<>>, live |-> FALSE, working |-> FALSE]
    /\ kitchen = [roster |-> FALSE, left |-> FALSE, late |-> FALSE, faults |-> 0]

KitchenFault ==
    /\ kitchen.faults < MaxKitchenFaults
    /\ kitchen' = [kitchen EXCEPT !.faults = @ + 1]

OpeningGoes(i, step) == opening' = [opening EXCEPT ![i].step = step]
LastOf(events, n) == SubSeq(events, Len(events) - Min({n, Len(events)}) + 1, Len(events))

EmitsOnBus ==
    /\ emitted < MaxEmits
    /\ emitted' = emitted + 1
    /\ UNCHANGED <<opening, streams, screen, kitchen>>

-----------------------------------------------------------------------------
(* An opening.                                                             *)

\* GET events/recent: the API reads its ring.
ReadRecent(i) ==
    /\ opening[i].step = "recent"
    /\ opening' = [opening EXCEPT ![i] = [@ EXCEPT !.step = "paint", !.read = emitted]]
    /\ UNCHANGED <<emitted, streams, screen, kitchen>>

\* The answer replaces what is shown, be the opening stopped meanwhile or not.
FirstPaint(i) ==
    /\ opening[i].step = "paint"
    /\ screen' = IF kitchen.left THEN screen
                 ELSE [screen EXCEPT !.shown = LastOf([k \in 1..opening[i].read |-> k], Painted)]
    /\ kitchen' = IF kitchen.left THEN kitchen ELSE [kitchen EXCEPT !.late = opening[i].stopped]
    /\ OpeningGoes(i, "mint")
    /\ UNCHANGED <<emitted, streams>>

NoPaint(i) ==
    /\ opening[i].step \in {"recent", "paint"}
    /\ OpeningGoes(i, "mint")
    /\ KitchenFault
    /\ UNCHANGED <<emitted, streams, screen>>

\* if (!ticket || stopped) return.
StillWanted(i) ==
    ~opening[i].stopped

\* POST events/stream-ticket, and the stream it is for.
OpenStream(i) ==
    /\ opening[i].step = "mint" /\ Len(streams) < MaxStreams
    /\ IF StillWanted(i)
       THEN /\ streams' = Append(streams, [by |-> i, at |-> "asked", next |-> 0, beats |-> FALSE])
            /\ OpeningGoes(i, "stream")
       ELSE OpeningGoes(i, "over") /\ UNCHANGED streams
    /\ UNCHANGED <<emitted, screen, kitchen>>

\* Without a ticket the opening is over: what would try again is the error of a
\* stream, and there is none.
NoTicket(i) ==
    /\ opening[i].step = "mint"
    /\ OpeningGoes(i, "over")
    /\ KitchenFault
    /\ UNCHANGED <<emitted, streams, screen>>

\* The timer of four seconds.
Reopen(i) ==
    /\ opening[i].step = "pause"
    /\ OpeningGoes(i, "recent")
    /\ UNCHANGED <<emitted, streams, screen, kitchen>>

-----------------------------------------------------------------------------
(* A stream.                                                               *)

\* The API takes the ticket and subscribes; the tunnel answers and starts its
\* heartbeat; the tab is told.
Connect(t) ==
    /\ streams[t].at = "asked"
    /\ streams' = [streams EXCEPT ![t] = [@ EXCEPT !.at = "open", !.next = emitted + 1,
                                                  !.beats = TRUE]]
    /\ screen' = [screen EXCEPT !.live = TRUE]
    /\ UNCHANGED <<emitted, opening, kitchen>>

\* onerror: the stream is closed, lest the browser open it again with the ticket
\* it has used, and the opening tries again later.
Errored(t, beats) ==
    /\ streams' = [streams EXCEPT ![t] = [@ EXCEPT !.at = "closed", !.beats = beats]]
    /\ screen' = [screen EXCEPT !.live = FALSE]
    /\ OpeningGoes(streams[t].by, "pause")
    /\ KitchenFault
    /\ UNCHANGED emitted

\* The ticket is refused, or the API is away.
RefuseStream(t) ==
    /\ streams[t].at = "asked"
    /\ Errored(t, FALSE)

\* The API's end of the stream ends, and the tunnel closes with its heartbeat; or
\* the browser's end does, and the tunnel drops the API's and beats on.
BreakStream(t) ==
    /\ streams[t].at = "open"
    /\ \E beats \in BOOLEAN : Errored(t, beats)

\* onmessage: the list, and the orb of the agent at work.
ShowEvent(t) ==
    /\ streams[t].at = "open" /\ streams[t].next <= emitted
    /\ screen' = [screen EXCEPT !.shown = LastOf(Append(@, streams[t].next), Ticker),
                                !.working = streams[t].next % 2 = 1]
    /\ streams' = [streams EXCEPT ![t].next = @ + 1]
    /\ UNCHANGED <<emitted, opening, kitchen>>

-----------------------------------------------------------------------------
(* The tab.                                                                *)

\* The clean-up of an effect: its stream is closed and the timers are cleared; a
\* request on its way is left to land.
Stopped(i) ==
    [opening[i] EXCEPT !.stopped = TRUE, !.step = IF @ \in {"stream", "pause"} THEN "over" ELSE @]

Closed(open) ==
    [t \in DOMAIN streams |->
        IF streams[t].by \in open THEN [streams[t] EXCEPT !.at = "closed"] ELSE streams[t]]

\* The positions change, and the effect runs again.
RosterLands ==
    /\ ~kitchen.roster /\ ~kitchen.left
    /\ opening' = [opening EXCEPT ![1] = Stopped(1), ![2].step = "recent"]
    /\ streams' = Closed({1})
    /\ kitchen' = [kitchen EXCEPT !.roster = TRUE]
    /\ UNCHANGED <<emitted, screen>>

\* Another tab is chosen; what lands from now on is shown nowhere.
LeaveKitchen ==
    /\ ~kitchen.left
    /\ opening' = [i \in Openings |-> Stopped(i)]
    /\ streams' = Closed(Openings)
    /\ kitchen' = [kitchen EXCEPT !.left = TRUE]
    /\ UNCHANGED <<emitted, screen>>

KitchenNext ==
    \/ EmitsOnBus \/ RosterLands \/ LeaveKitchen
    \/ \E i \in Openings :
          ReadRecent(i) \/ FirstPaint(i) \/ NoPaint(i) \/ OpenStream(i) \/ NoTicket(i) \/ Reopen(i)
    \/ \E t \in DOMAIN streams : Connect(t) \/ RefuseStream(t) \/ BreakStream(t) \/ ShowEvent(t)

KitchenSpec ==
    KitchenInit /\ [][KitchenNext]_kitchenVars

-----------------------------------------------------------------------------

\* However the answers to two openings land, the tab listens to one stream at most,
\* and to none when it has been left, so that nothing is shown twice because two
\* streams carry it.
OneStream ==
    LET heard == {t \in DOMAIN streams : streams[t].at # "closed"}
    IN  /\ Cardinality(heard) <= 1
        /\ kitchen.left => heard = {}

\* The events shown are in order and none is there twice, however often the stream
\* broke and was opened again over a fresh paint.  The paint of an opening that was
\* stopped before (late) may come over what its successor has shown by then: then one
\* place, and one only, may step back, where the successor's stream goes on over that
\* paint; so no event is there three times, and the next paint mends it.
ShownInOrder ==
    \E cut \in 0..Len(screen.shown) :
        /\ kitchen.late \/ cut = 0
        /\ \A k \in 1..(Len(screen.shown) - 1) :
               k # cut => screen.shown[k] < screen.shown[k + 1]

\* The kitchen's feed is one, and tells what happened in its order.
KitchenHolds == OneStream /\ ShownInOrder
=================================================================================
