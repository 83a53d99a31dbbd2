------------------------------ MODULE EventBus ------------------------------
(***************************************************************************)
(* SharedDataEventService: emit, on and removeHandler, called from anywhere, *)
(* a running handler included.                                              *)
(*                                                                         *)
(* emit walks the array of an event's handlers with forEach, which fixes    *)
(* the number of steps at the start and looks up each handler when its turn *)
(* comes, in an array that the handlers change.  An event without handlers  *)
(* is kept for the next one to register.                                    *)
(*                                                                         *)
(* The program has one thread; what runs is a stack of walks and of calls    *)
(* with a kept event, each with the handler that it is calling.  A handler   *)
(* is the number of the call of on that registers it; an event is its kind,  *)
(* and an emission its number.                                              *)
(***************************************************************************)
EXTENDS Naturals, Sequences, SequencesExt

CONSTANTS Events,       \* the kinds, which are numbers from 0 as in SharedEventId
          MaxHandlers,  \* bound on the calls of on
          MaxEmissions, \* bound on the calls of emit
          MaxDepth      \* bound on the stack

None == 0

ASSUME EventsAssumption == Events \subseteq Nat
ASSUME BoundsAssumption == MaxHandlers \in Nat /\ MaxEmissions \in Nat /\ MaxDepth \in Nat

VARIABLES eventHandlers,  \* per event, the array of its handlers
          pendingEvents,  \* per event, the emission kept for the next handler
          handlerId,      \* the last id given out
          stack,          \* what runs, innermost last
          \* history
          idOf,           \* the id that on returned, None while it runs
          nestedIn,       \* the handlers that on was giving a kept event meanwhile
          emitted,        \* per emission, its event, and whether it was emitted while
                          \* a handler was given a kept event of that kind
          delivered,      \* emissions that some handler was called with
          removed         \* handlers that removeHandler was asked to remove

bus == <<eventHandlers, pendingEvents, handlerId>>
history == <<idOf, nestedIn, emitted, delivered, removed>>
vars == <<bus, stack, history>>

Calls == 1 .. MaxHandlers
Emissions == 1 .. MaxEmissions
Handler == [name : Calls, id : Calls, once : BOOLEAN]

Init ==
    /\ eventHandlers = [e \in Events |-> << >>]
    /\ pendingEvents = [e \in Events |-> None]
    /\ handlerId = 0
    /\ stack = << >>
    /\ idOf = << >> /\ nestedIn = << >> /\ emitted = << >>
    /\ delivered = {} /\ removed = {}

Top == Last(stack)

\* The calls of on that are giving their handler a kept event.
Giving == {i \in DOMAIN stack : stack[i].kind = "on"}

\* A removal at index i of e's array shifts what the walks of that array have yet to visit.
Shift(frames, e, i) ==
    [j \in DOMAIN frames |->
        [frames[j] EXCEPT !.shifted =
            @ \/ (frames[j].event = e /\ frames[j].attached /\ i <= frames[j].index)]]

\* The array leaves the map; the walks of it find nothing more.
Detach(frames, e) ==
    [j \in DOMAIN frames |->
        [frames[j] EXCEPT !.attached = @ /\ frames[j].event # e]]

-----------------------------------------------------------------------------
Walk(e, length) ==
    [kind |-> "emit", event |-> e, emission |-> Len(emitted) + 1,
     handler |-> eventHandlers[e][1], index |-> 1, length |-> length, attached |-> TRUE,
     start |-> {h.name : h \in ToSet(eventHandlers[e])},
     called |-> <<eventHandlers[e][1].name>>, shifted |-> FALSE]

Deliver(e, length) ==
    /\ stack' = Append(stack, Walk(e, length))
    /\ delivered' = delivered \cup {Len(emitted) + 1}
    /\ UNCHANGED pendingEvents

Keep(e) ==
    /\ pendingEvents' = [pendingEvents EXCEPT ![e] = Len(emitted) + 1]
    /\ UNCHANGED <<stack, delivered>>

LogEmission(e) ==
    /\ Len(emitted) < MaxEmissions /\ Len(stack) < MaxDepth
    /\ emitted' = Append(emitted, [event |-> e,
                                   inner |-> \E i \in Giving : stack[i].event = e])

Emit_keepsNothing(e) ==
    /\ LogEmission(e)
    /\ IF eventHandlers[e] # << >> THEN Deliver(e, Len(eventHandlers[e]))
       ELSE UNCHANGED <<stack, delivered, pendingEvents>>
    /\ UNCHANGED <<eventHandlers, handlerId, idOf, nestedIn, removed>>

Emit_offByOne(e) ==
    /\ LogEmission(e)
    /\ IF eventHandlers[e] # << >> THEN Deliver(e, Len(eventHandlers[e]) - 1) ELSE Keep(e)
    /\ UNCHANGED <<eventHandlers, handlerId, idOf, nestedIn, removed>>

Emit(e) ==
    /\ LogEmission(e)
    /\ IF eventHandlers[e] # << >> THEN Deliver(e, Len(eventHandlers[e])) ELSE Keep(e)
    /\ UNCHANGED <<eventHandlers, handlerId, idOf, nestedIn, removed>>

Register_atFront(e, handler) ==
    eventHandlers' = [eventHandlers EXCEPT ![e] = <<handler>> \o @]

Register(e, handler) == eventHandlers' = [eventHandlers EXCEPT ![e] = Append(@, handler)]

\* A handler that is given the event kept for it.
Give(e, handler) ==
    /\ stack' = Append(stack,
           [kind |-> "on", event |-> e, emission |-> pendingEvents[e], handler |-> handler,
            index |-> 0, length |-> 0, attached |-> FALSE,
            start |-> {}, called |-> <<handler.name>>, shifted |-> FALSE])
    /\ delivered' = delivered \cup {pendingEvents[e]}
    /\ idOf' = Append(idOf, None)
    /\ UNCHANGED eventHandlers

OnAs(e, once, id) ==
    /\ Len(idOf) < MaxHandlers /\ Len(stack) < MaxDepth
    /\ handlerId' = id
    /\ nestedIn' = Append(nestedIn, {stack[i].handler.name : i \in Giving})
    /\ LET handler == [name |-> Len(idOf) + 1, id |-> id, once |-> once] IN
       IF pendingEvents[e] # None THEN Give(e, handler)
       ELSE Register(e, handler) /\ idOf' = Append(idOf, id) /\ UNCHANGED <<stack, delivered>>
    /\ UNCHANGED <<pendingEvents, emitted, removed>>

On_countsHandlers(e, once) == OnAs(e, once, Len(eventHandlers[e]) + 1)

\* on: a handler is first given the event that was kept, if any, and what is left to do
\* is ReturnToOn.
On(e, once) == OnAs(e, once, handlerId + 1)

-----------------------------------------------------------------------------
\* The callback of a kept event returns: the kept event is deleted, and the handler
\* registered, under the id that was given out last by then.
ReturnToOn ==
    /\ stack # << >> /\ Top.kind = "on"
    /\ pendingEvents' = [pendingEvents EXCEPT ![Top.event] = None]
    /\ idOf' = [idOf EXCEPT ![Top.handler.name] = handlerId]
    /\ IF Top.handler.once THEN UNCHANGED eventHandlers
       ELSE Register(Top.event, [Top.handler EXCEPT !.id = handlerId])
    /\ stack' = Front(stack)
    /\ UNCHANGED <<handlerId, nestedIn, emitted, delivered, removed>>

\* The walk whose array is now arr goes on, or ends.
NextHandler(arr, frames) ==
    LET k == Top.index + 1 IN
    IF Top.attached /\ k <= Top.length /\ k <= Len(arr)
    THEN [frames EXCEPT ![Len(stack)].index = k, ![Len(stack)].handler = arr[k],
                        ![Len(stack)].called = Append(@, arr[k].name)]
    ELSE Front(frames)

\* A handler returns to emit: what stands at its index is removed if it is there once.
ReturnToEmit ==
    /\ stack # << >> /\ Top.kind = "emit"
    /\ LET e == Top.event
           splices == Top.handler.once /\ Top.attached /\ Top.index <= Len(eventHandlers[e])
           arr == IF splices THEN RemoveAt(eventHandlers[e], Top.index) ELSE eventHandlers[e]
       IN /\ eventHandlers' = [eventHandlers EXCEPT ![e] = arr]
          /\ stack' = NextHandler(arr, IF splices THEN Shift(stack, e, Top.index) ELSE stack)
    /\ UNCHANGED <<pendingEvents, handlerId, history>>

Splice_last(e, i) ==
    eventHandlers' = [eventHandlers EXCEPT ![e] = Front(@)]

Splice(e, i) == eventHandlers' = [eventHandlers EXCEPT ![e] = RemoveAt(@, i)]

\* The event whose array has to be deleted from the map; the test takes 0 for none.
Emptied(e) == Len(eventHandlers[e]) = 1 /\ e # 0

\* removeHandler, asked once for each handler as the components' ngOnDestroy does.
\* Should two events have a handler of that id, the order in the map decides.
RemoveHandler(n) ==
    /\ n \in DOMAIN idOf /\ idOf[n] # None /\ n \notin removed
    /\ removed' = removed \cup {n}
    /\ LET Found(e) == {i \in DOMAIN eventHandlers[e] : eventHandlers[e][i].id = idOf[n]}
       IN \/ /\ \A e \in Events : Found(e) = {}
             /\ UNCHANGED <<eventHandlers, stack>>
          \/ \E e \in Events : \E i \in Found(e) :
                /\ \A j \in Found(e) : i <= j
                /\ Splice(e, i)
                /\ stack' = IF Emptied(e) THEN Detach(Shift(stack, e, i), e)
                            ELSE Shift(stack, e, i)
    /\ UNCHANGED <<pendingEvents, handlerId, idOf, nestedIn, emitted, delivered>>

-----------------------------------------------------------------------------
Next ==
    \/ \E e \in Events : Emit(e) \/ \E once \in BOOLEAN : On(e, once)
    \/ \E n \in Calls : RemoveHandler(n)
    \/ ReturnToOn \/ ReturnToEmit

Spec == Init /\ [][Next]_vars

-----------------------------------------------------------------------------
(* Properties *)

TypeOK ==
    /\ eventHandlers \in [Events -> Seq(Handler)]
    /\ pendingEvents \in [Events -> {None} \cup Emissions]
    /\ handlerId \in 0 .. MaxHandlers
    /\ Len(stack) <= MaxDepth
    /\ \A i \in DOMAIN stack :
          /\ stack[i].kind \in {"emit", "on"} /\ stack[i].event \in Events
          /\ stack[i].handler \in Handler /\ stack[i].emission \in Emissions
          /\ stack[i].index <= stack[i].length
    /\ idOf \in Seq({None} \cup Calls) /\ delivered \subseteq Emissions
    /\ removed \subseteq DOMAIN idOf

\* No emission calls a handler twice, whatever its handlers add to and remove from
\* the array that it walks.
CalledAtMostOnce ==
    \A i \in DOMAIN stack : IsInjective(stack[i].called)

\* An emission that ends has called every handler that was registered before it and
\* still is, unless a handler was removed that stood at or before the one it was
\* calling: then the next one is passed over.
SkipsOnlyAfterRemoval ==
    [][stack # << >> /\ Top.kind = "emit" /\ Len(stack') < Len(stack) =>
          \/ Top.shifted \/ Top.handler.once
          \/ \A h \in ToSet(eventHandlers[Top.event]) :
                h.name \in Top.start => h.name \in ToSet(Top.called)]_vars

\* A handler is called in this step.
IsCalled(n) ==
    /\ stack' # << >> /\ Last(stack').handler.name = n
    /\ \/ Len(stack') > Len(stack)
       \/ (Len(stack') = Len(stack) /\ Last(stack').index # Top.index)

\* Once removeHandler was asked to remove a handler, that is never called again, not
\* even by an emission under way; only one that shares its id may be.
RemovedNeverCalled ==
    [][\A n \in removed :
          IsCalled(n) => \E m \in DOMAIN idOf \ {n} : idOf[m] = idOf[n]]_vars

\* Two handlers have one id only if one of them was registered by code that ran while
\* on gave the other a kept event.
IdsUniqueUnlessNested ==
    \A m, n \in DOMAIN idOf :
        m < n /\ idOf[m] = idOf[n] /\ idOf[m] # None => m \in nestedIn[n]

\* An event that no handler was called with is kept, unless a later one of its kind
\* has taken its place, or it was emitted while a handler was given a kept event of
\* that kind.
NoEventForgotten ==
    \A i \in DOMAIN emitted :
        \/ i \in delivered \/ emitted[i].inner
        \/ pendingEvents[emitted[i].event] = i
        \/ \E j \in i + 1 .. Len(emitted) : emitted[j].event = emitted[i].event
=============================================================================
