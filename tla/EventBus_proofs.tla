---------------------------- MODULE EventBus_proofs ----------------------------
(***************************************************************************)
(* SharedDataEventService for any events and any number of handlers and     *)
(* emissions, nested to any depth: whom an emission calls and passes over,  *)
(* which ids are shared, and that no event is forgotten.                    *)
(***************************************************************************)
EXTENDS EventBus, SequenceLemmas

Frame == [kind : {"emit", "on"}, event : Events, emission : Emissions, handler : Handler,
          index : Nat, length : Nat, attached : BOOLEAN, start : SUBSET Calls,
          called : Seq(Calls), shifted : BOOLEAN]

Types ==
    /\ eventHandlers \in [Events -> Seq(Handler)]
    /\ pendingEvents \in [Events -> Nat]
    /\ stack \in Seq(Frame) /\ Len(stack) <= MaxDepth
    /\ idOf \in Seq(Nat) /\ nestedIn \in Seq(SUBSET Calls)
    /\ emitted \in Seq([event : Events, inner : BOOLEAN])
    /\ delivered \subseteq Emissions /\ removed \subseteq Calls

\* Every call of on has given out one id; an emission that is kept was made.
Counted ==
    /\ handlerId = Len(idOf) /\ Len(nestedIn) = Len(idOf) /\ Len(idOf) <= MaxHandlers
    /\ Len(emitted) <= MaxEmissions
    /\ \A n \in 1 .. Len(idOf) : idOf[n] <= handlerId
    /\ \A e \in Events : pendingEvents[e] <= Len(emitted)

\* n was registered, if only for a while.
Returned(n, ids) == n \in 1 .. Len(ids) /\ ids[n] # None

\* No handler is registered twice.
Distinct(arrays) ==
    \A e, g \in Events : \A i \in 1 .. Len(arrays[e]), j \in 1 .. Len(arrays[g]) :
        arrays[e][i].name = arrays[g][j].name => e = g /\ i = j

\* The arrays hold handlers under the ids that on returned for them.
IdsMatch(arrays, ids) ==
    \A e \in Events : \A i \in 1 .. Len(arrays[e]) :
        Returned(arrays[e][i].name, ids) /\ ids[arrays[e][i].name] = arrays[e][i].id

\* What walk f of array arr has yet to visit, it has not called.
Ahead(f, arr) ==
    \A k \in 1 .. Len(arr) : k > f.index => arr[k].name \notin ToSet(f.called)

\* What walk f of array arr found at its start it will visit or has called.
Behind(f, arr) ==
    \A k \in 1 .. Len(arr) :
        arr[k].name \in f.start =>
            k <= f.length /\ (k <= f.index => arr[k].name \in ToSet(f.called))

WalkOK(f, arr, ids) ==
    /\ f.index >= 1
    /\ \A n \in f.start \cup ToSet(f.called) : Returned(n, ids)
    /\ f.attached => Ahead(f, arr)
    /\ f.shifted \/ (f.attached /\ Behind(f, arr))

\* The handler that on gives a kept event has no id yet; all handlers of before have
\* smaller ids, all later ones came while it was given the event.
GivingOK(f, ids, nested) ==
    LET n == f.handler.name IN
    /\ ~f.attached
    /\ n \in 1 .. Len(ids) /\ ids[n] = None
    /\ f.handler.id <= Len(ids)
    /\ \A p \in 1 .. n - 1 : ids[p] < f.handler.id
    /\ \A p \in n + 1 .. Len(ids) : n \in nested[p]

FrameOK(f, arrays, ids, nested) ==
    /\ IF f.kind = "emit" THEN WalkOK(f, arrays[f.event], ids) ELSE GivingOK(f, ids, nested)
    /\ f.index <= f.length
    /\ IsInjective(f.called)

FramesOK == \A i \in 1 .. Len(stack) : FrameOK(stack[i], eventHandlers, idOf, nestedIn)

\* What is kept while a handler is given a kept event of its kind may be deleted.
KeptMayGo ==
    \A i \in 1 .. Len(stack) :
        LET kept == pendingEvents[stack[i].event] IN
        stack[i].kind = "on" /\ kept # None => kept \in delivered \/ emitted[kept].inner

\* The calls of on return in the reverse order.
GivingInOrder ==
    \A i, j \in 1 .. Len(stack) :
        i < j /\ stack[i].kind = "on" /\ stack[j].kind = "on" =>
            stack[i].handler.name < stack[j].handler.name

Registered(n, arrays) ==
    \E e \in Events : \E i \in 1 .. Len(arrays[e]) : arrays[e][i].name = n

\* What was to be removed is registered only if another handler of its id was removed
\* in its place.
RemovedShares ==
    \A n \in removed :
        /\ Returned(n, idOf)
        /\ Registered(n, eventHandlers) =>
              \E m \in 1 .. Len(idOf) : m # n /\ idOf[m] = idOf[n]

IInv ==
    /\ Types /\ Counted
    /\ Distinct(eventHandlers) /\ IdsMatch(eventHandlers, idOf)
    /\ FramesOK /\ KeptMayGo /\ GivingInOrder
    /\ RemovedShares /\ IdsUniqueUnlessNested /\ NoEventForgotten

-----------------------------------------------------------------------------
(* Arrays *)

LEMMA RegisterIs ==
  ASSUME NEW arrays \in [Events -> Seq(Handler)], NEW e \in Events, NEW h \in Handler,
         NEW ids, NEW ids2,
         Distinct(arrays), IdsMatch(arrays, ids),
         ~Returned(h.name, ids), Returned(h.name, ids2), ids2[h.name] = h.id,
         \A n : Returned(n, ids) => Returned(n, ids2) /\ ids2[n] = ids[n]
  PROVE  LET new == [arrays EXCEPT ![e] = Append(@, h)] IN
         /\ new \in [Events -> Seq(Handler)]
         /\ Distinct(new) /\ IdsMatch(new, ids2)
         /\ \A n : Registered(n, new) => n = h.name \/ Registered(n, arrays)
<1> DEFINE new == [arrays EXCEPT ![e] = Append(@, h)]
<1>1. \A g \in Events : Len(arrays[g]) \in Nat  BY LenProperties
<1>2. new \in [Events -> Seq(Handler)] /\ \A g \in Events : g # e => new[g] = arrays[g]
  BY AppendProperties
<1>3. /\ Len(new[e]) = Len(arrays[e]) + 1 /\ new[e][Len(arrays[e]) + 1] = h
      /\ \A i \in 1 .. Len(arrays[e]) : new[e][i] = arrays[e][i]
  BY AppendProperties
<1> HIDE DEF new
<1>4. ASSUME NEW g \in Events, NEW i \in 1 .. Len(new[g])
      PROVE  \/ i \in 1 .. Len(arrays[g]) /\ new[g][i] = arrays[g][i]
             \/ g = e /\ i = Len(arrays[e]) + 1 /\ new[g][i] = h
  BY <1>1, <1>2, <1>3
<1>5. \A g \in Events : \A i \in 1 .. Len(arrays[g]) : arrays[g][i].name # h.name
  BY DEF IdsMatch
<1>6. Distinct(new)
  <2> SUFFICES ASSUME NEW g \in Events, NEW f \in Events,
                      NEW i \in 1 .. Len(new[g]), NEW j \in 1 .. Len(new[f]),
                      new[g][i].name = new[f][j].name
               PROVE  g = f /\ i = j
    BY DEF Distinct
  <2>1. \/ i \in 1 .. Len(arrays[g]) /\ new[g][i] = arrays[g][i]
        \/ g = e /\ i = Len(arrays[e]) + 1 /\ new[g][i] = h
    BY <1>4
  <2>2. \/ j \in 1 .. Len(arrays[f]) /\ new[f][j] = arrays[f][j]
        \/ f = e /\ j = Len(arrays[e]) + 1 /\ new[f][j] = h
    BY <1>4
  <2>3. CASE i \in 1 .. Len(arrays[g]) /\ new[g][i] = arrays[g][i]
             /\ j \in 1 .. Len(arrays[f]) /\ new[f][j] = arrays[f][j]
    BY <2>3 DEF Distinct
  <2> QED  BY <1>5, <2>1, <2>2, <2>3
<1>7. IdsMatch(new, ids2)
  <2> SUFFICES ASSUME NEW g \in Events, NEW i \in 1 .. Len(new[g])
               PROVE  Returned(new[g][i].name, ids2) /\ ids2[new[g][i].name] = new[g][i].id
    BY DEF IdsMatch
  <2>1. CASE i \in 1 .. Len(arrays[g]) /\ new[g][i] = arrays[g][i]  BY <2>1 DEF IdsMatch
  <2>2. CASE new[g][i] = h  BY <2>2
  <2> QED  BY <1>4, <2>1, <2>2
<1>8. \A n : Registered(n, new) => n = h.name \/ Registered(n, arrays)
  BY <1>4 DEF Registered
<1> QED  BY <1>2, <1>6, <1>7, <1>8 DEF new

LEMMA RemovalIs ==
  ASSUME NEW arrays \in [Events -> Seq(Handler)], NEW e \in Events,
         NEW p \in 1 .. Len(arrays[e]), NEW ids,
         Distinct(arrays), IdsMatch(arrays, ids)
  PROVE  LET new == [arrays EXCEPT ![e] = RemoveAt(@, p)] IN
         /\ new \in [Events -> Seq(Handler)]
         /\ Distinct(new) /\ IdsMatch(new, ids)
         /\ \A n : Registered(n, new) => Registered(n, arrays) /\ n # arrays[e][p].name
<1> DEFINE new == [arrays EXCEPT ![e] = RemoveAt(@, p)]
<1>1. \A g \in Events : Len(arrays[g]) \in Nat  BY LenProperties
<1>2. /\ RemoveAt(arrays[e], p) \in Seq(Handler)
      /\ Len(RemoveAt(arrays[e], p)) = Len(arrays[e]) - 1
      /\ \A k \in 1 .. Len(arrays[e]) - 1 :
            RemoveAt(arrays[e], p)[k] = IF k < p THEN arrays[e][k] ELSE arrays[e][k + 1]
  BY RemoveAtIs
<1>3. /\ new \in [Events -> Seq(Handler)] /\ new[e] = RemoveAt(arrays[e], p)
      /\ \A g \in Events : g # e => new[g] = arrays[g]
  BY <1>2
<1> HIDE DEF new
<1> DEFINE old(g, i) == IF g = e /\ i >= p THEN i + 1 ELSE i
<1>4. ASSUME NEW g \in Events, NEW i \in 1 .. Len(new[g])
      PROVE  /\ old(g, i) \in 1 .. Len(arrays[g]) /\ new[g][i] = arrays[g][old(g, i)]
             /\ g = e => old(g, i) # p
  BY <1>1, <1>2, <1>3
<1>5. Distinct(new)
  <2> SUFFICES ASSUME NEW g \in Events, NEW f \in Events,
                      NEW i \in 1 .. Len(new[g]), NEW j \in 1 .. Len(new[f]),
                      new[g][i].name = new[f][j].name
               PROVE  g = f /\ i = j
    BY DEF Distinct
  <2>1. g = f /\ old(g, i) = old(f, j)
    <3>1. old(g, i) \in 1 .. Len(arrays[g]) /\ new[g][i] = arrays[g][old(g, i)]  BY <1>4
    <3>2. old(f, j) \in 1 .. Len(arrays[f]) /\ new[f][j] = arrays[f][old(f, j)]  BY <1>4
    <3> HIDE DEF old
    <3> QED  BY <3>1, <3>2 DEF Distinct
  <2>2. i \in Int /\ j \in Int  BY <1>1
  <2> QED  BY <2>1, <2>2
<1>6. IdsMatch(new, ids)  BY <1>4 DEF IdsMatch
<1>7. \A n : Registered(n, new) => Registered(n, arrays) /\ n # arrays[e][p].name
  BY <1>4 DEF Registered, Distinct
<1> QED  BY <1>3, <1>5, <1>6, <1>7 DEF new

-----------------------------------------------------------------------------
(* Walks *)

\* g is walk f after a removal elsewhere, or of a handler it has yet to visit.
SameWalk(f, g) ==
    /\ g.kind = f.kind /\ g.event = f.event /\ g.handler = f.handler
    /\ g.index = f.index /\ g.length = f.length /\ g.start = f.start /\ g.called = f.called

LEMMA WalkOfSame ==
  ASSUME NEW f, NEW g, SameWalk(f, g), NEW arr, NEW ids,
         g.attached => f.attached, f.shifted => g.shifted,
         g.attached \/ g.shifted \/ ~f.attached,
         WalkOK(f, arr, ids)
  PROVE  WalkOK(g, arr, ids)
BY DEF SameWalk, WalkOK, Ahead, Behind

\* A removal leaves a walk right, if it is remembered to have shifted what it shifts.
LEMMA WalkOfRemoval ==
  ASSUME NEW f \in Frame, NEW g, SameWalk(f, g), NEW arr \in Seq(Handler), NEW ids,
         NEW p \in 1 .. Len(arr),
         g.attached => f.attached,
         f.shifted \/ (f.attached /\ p <= f.index) => g.shifted,
         f.attached => g.attached \/ g.shifted,
         WalkOK(f, arr, ids)
  PROVE  WalkOK(g, RemoveAt(arr, p), ids)
<1> DEFINE r == RemoveAt(arr, p)
<1>1. /\ Len(r) = Len(arr) - 1 /\ Len(arr) \in Nat /\ f.index \in Nat /\ f.length \in Nat
      /\ \A k \in 1 .. Len(arr) - 1 : r[k] = IF k < p THEN arr[k] ELSE arr[k + 1]
  <2>1. f.index \in Nat /\ f.length \in Nat  BY DEF Frame
  <2> QED  BY <2>1, RemoveAtIs, LenProperties
<1> HIDE DEF r
<1>2. Ahead(f, arr) => Ahead(g, r)
  <2> SUFFICES ASSUME Ahead(f, arr), NEW k \in 1 .. Len(r), k > f.index
               PROVE  r[k].name \notin ToSet(f.called)
    BY DEF Ahead, SameWalk
  <2>1. CASE k < p  BY <1>1, <2>1 DEF Ahead
  <2>2. CASE ~(k < p)
    <3>1. k + 1 \in 1 .. Len(arr) /\ k + 1 > f.index /\ r[k] = arr[k + 1]  BY <1>1, <2>2
    <3> QED  BY <3>1 DEF Ahead
  <2> QED  BY <2>1, <2>2
<1>3. Behind(f, arr) /\ f.index < p => Behind(g, r)
  <2> SUFFICES ASSUME Behind(f, arr), f.index < p, NEW k \in 1 .. Len(r), r[k].name \in f.start
               PROVE  k <= f.length /\ (k <= f.index => r[k].name \in ToSet(f.called))
    BY DEF Behind, SameWalk
  <2>1. CASE k < p  BY <1>1, <2>1 DEF Behind
  <2>2. CASE ~(k < p)
    <3>1. k + 1 \in 1 .. Len(arr) /\ r[k] = arr[k + 1]  BY <1>1, <2>2
    <3>2. k + 1 <= f.length  BY <3>1 DEF Behind
    <3> QED  BY <1>1, <2>2, <3>2
  <2> QED  BY <2>1, <2>2
<1>4. g.shifted \/ (g.attached /\ Behind(g, r))
  <2>1. f.shifted \/ (f.attached /\ Behind(f, arr))  BY DEF WalkOK
  <2>2. f.index < p \/ p <= f.index  BY <1>1
  <2> QED  BY <1>3, <2>1, <2>2
<1>5. WalkOK(g, r, ids)  BY <1>2, <1>4 DEF WalkOK, SameWalk
<1> QED  BY <1>5 DEF r

\* Nor does a new handler: no walk knows it.
LEMMA WalkOfRegister ==
  ASSUME NEW f \in Frame, NEW arr \in Seq(Handler), NEW ids, NEW ids2, NEW h \in Handler,
         ~Returned(h.name, ids), \A n : Returned(n, ids) => Returned(n, ids2),
         WalkOK(f, arr, ids)
  PROVE  WalkOK(f, arr, ids2) /\ WalkOK(f, Append(arr, h), ids2)
<1> DEFINE t == Append(arr, h)
<1>1. /\ Len(t) = Len(arr) + 1 /\ Len(arr) \in Nat
      /\ \A k \in 1 .. Len(arr) : t[k] = arr[k]
      /\ t[Len(arr) + 1] = h
  BY AppendProperties, LenProperties
<1> HIDE DEF t
<1>2. h.name \notin f.start \cup ToSet(f.called)  BY DEF WalkOK
<1>3. \A k \in 1 .. Len(t) : (k \in 1 .. Len(arr) /\ t[k] = arr[k]) \/ t[k].name = h.name
  BY <1>1
<1>4. Ahead(f, arr) => Ahead(f, t)  BY <1>2, <1>3 DEF Ahead
<1>5. Behind(f, arr) => Behind(f, t)  BY <1>2, <1>3 DEF Behind
<1>6. WalkOK(f, arr, ids2) /\ WalkOK(f, t, ids2)  BY <1>4, <1>5 DEF WalkOK
<1> QED  BY <1>6 DEF t

LEMMA ShiftIs ==
  ASSUME NEW frames \in Seq(Frame), NEW e \in Events, NEW i \in Nat
  PROVE  /\ Shift(frames, e, i) \in Seq(Frame) /\ Len(Shift(frames, e, i)) = Len(frames)
         /\ \A j \in 1 .. Len(frames) :
               LET f == frames[j]
                   g == Shift(frames, e, i)[j]
               IN /\ f \in Frame /\ g \in Frame
                  /\ SameWalk(f, g) /\ g.attached = f.attached
                  /\ g.shifted = (f.shifted \/ (f.event = e /\ f.attached /\ i <= f.index))
<1> DEFINE n == Len(frames)
           g(j) == [frames[j] EXCEPT !.shifted =
                       @ \/ (frames[j].event = e /\ frames[j].attached /\ i <= frames[j].index)]
           new == [j \in 1 .. n |-> g(j)]
<1>1. n \in Nat /\ DOMAIN frames = 1 .. n /\ \A j \in 1 .. n : frames[j] \in Frame
  BY LenProperties, ElementOfSeq
<1>2. ASSUME NEW j \in 1 .. n
      PROVE  /\ g(j) \in Frame /\ SameWalk(frames[j], g(j)) /\ g(j).attached = frames[j].attached
             /\ g(j).shifted = (frames[j].shifted
                   \/ (frames[j].event = e /\ frames[j].attached /\ i <= frames[j].index))
  BY <1>1 DEF Frame, SameWalk
<1>3. Shift(frames, e, i) = new  BY <1>1 DEF Shift
<1> HIDE DEF g
<1>4. new \in Seq(Frame) /\ Len(new) = n /\ \A j \in 1 .. n : new[j] = g(j)
  <2>1. new \in [1 .. n -> Frame]  BY <1>2
  <2>2. new \in Seq(Frame)  BY <1>1, <2>1, SeqDef
  <2>3. DOMAIN new = 1 .. n /\ DOMAIN new = 1 .. Len(new) /\ Len(new) \in Nat
    BY <2>2, LenProperties
  <2> QED  BY <1>1, <2>2, <2>3
<1> HIDE DEF new
<1> QED  BY <1>1, <1>2, <1>3, <1>4

LEMMA DetachIs ==
  ASSUME NEW frames \in Seq(Frame), NEW e \in Events
  PROVE  /\ Detach(frames, e) \in Seq(Frame) /\ Len(Detach(frames, e)) = Len(frames)
         /\ \A j \in 1 .. Len(frames) :
               LET f == frames[j]
                   g == Detach(frames, e)[j]
               IN /\ f \in Frame /\ g \in Frame
                  /\ SameWalk(f, g) /\ g.shifted = f.shifted
                  /\ g.attached = (f.attached /\ f.event # e)
<1> DEFINE n == Len(frames)
           g(j) == [frames[j] EXCEPT !.attached = @ /\ frames[j].event # e]
           new == [j \in 1 .. n |-> g(j)]
<1>1. n \in Nat /\ DOMAIN frames = 1 .. n /\ \A j \in 1 .. n : frames[j] \in Frame
  BY LenProperties, ElementOfSeq
<1>2. ASSUME NEW j \in 1 .. n
      PROVE  /\ g(j) \in Frame /\ SameWalk(frames[j], g(j)) /\ g(j).shifted = frames[j].shifted
             /\ g(j).attached = (frames[j].attached /\ frames[j].event # e)
  BY <1>1 DEF Frame, SameWalk
<1>3. Detach(frames, e) = new  BY <1>1 DEF Detach
<1> HIDE DEF g
<1>4. new \in Seq(Frame) /\ Len(new) = n /\ \A j \in 1 .. n : new[j] = g(j)
  <2>1. new \in [1 .. n -> Frame]  BY <1>2
  <2>2. new \in Seq(Frame)  BY <1>1, <2>1, SeqDef
  <2>3. DOMAIN new = 1 .. n /\ DOMAIN new = 1 .. Len(new) /\ Len(new) \in Nat
    BY <2>2, LenProperties
  <2> QED  BY <1>1, <2>2, <2>3
<1> HIDE DEF new
<1> QED  BY <1>1, <1>2, <1>3, <1>4

-----------------------------------------------------------------------------
(* emit *)

LEMMA TypesAre ==
  ASSUME Types, Counted
  PROVE  /\ Len(stack) \in Nat /\ Len(idOf) \in Nat /\ Len(emitted) \in Nat
         /\ Len(nestedIn) \in Nat
         /\ \A e \in Events : Len(eventHandlers[e]) \in Nat /\ pendingEvents[e] \in Nat
         /\ \A i \in 1 .. Len(stack) : stack[i] \in Frame
         /\ \A n \in 1 .. Len(idOf) : idOf[n] \in Nat
         /\ \A i \in 1 .. Len(emitted) : emitted[i] \in [event : Events, inner : BOOLEAN]
         /\ DOMAIN stack = 1 .. Len(stack) /\ DOMAIN idOf = 1 .. Len(idOf)
         /\ DOMAIN emitted = 1 .. Len(emitted)
BY LenProperties, ElementOfSeq DEF Types

\* The start of a walk.
LEMMA WalkIs ==
  ASSUME IInv, NEW e \in Events, eventHandlers[e] # << >>, Len(emitted) < MaxEmissions
  PROVE  LET w == Walk(e, Len(eventHandlers[e])) IN
         w \in Frame /\ w.kind = "emit" /\ FrameOK(w, eventHandlers, idOf, nestedIn)
<1> DEFINE arr == eventHandlers[e]
           w == Walk(e, Len(arr))
           name == arr[1].name
<1>0. Types /\ Counted  BY DEF IInv
<1>1. /\ arr \in Seq(Handler) /\ Len(arr) \in Nat \ {0} /\ arr[1] \in Handler
      /\ \A k \in 1 .. Len(arr) : arr[k] \in Handler
      /\ ToSet(arr) = {arr[k] : k \in 1 .. Len(arr)}
  <2>1. arr \in Seq(Handler)  BY <1>0 DEF Types
  <2>2. Len(arr) \in Nat \ {0}  BY <2>1, EmptySeq, LenProperties
  <2> QED  BY <2>1, <2>2, ElementOfSeq, ToSetIs
<1>2. name \in Calls /\ \A k \in 1 .. Len(arr) : arr[k].name \in Calls  BY <1>1 DEF Handler
<1>3. <<name>> \in Seq(Calls) /\ ToSet(<<name>>) = {name} /\ IsInjective(<<name>>)
  BY <1>2, Singleton
<1> DEFINE start == {h.name : h \in ToSet(arr)}
<1>4. start \subseteq Calls /\ start = {arr[k].name : k \in 1 .. Len(arr)}
  BY <1>1, <1>2
<1>5. Len(emitted) + 1 \in Emissions
  BY <1>0, TypesAre, BoundsAssumption DEF Emissions
<1>6. w = [kind |-> "emit", event |-> e, emission |-> Len(emitted) + 1,
           handler |-> arr[1], index |-> 1, length |-> Len(arr), attached |-> TRUE,
           start |-> start, called |-> <<name>>, shifted |-> FALSE]
  BY DEF Walk
<1> HIDE DEF w, start
<1>7. /\ w.kind = "emit" /\ w.event = e /\ w.index = 1 /\ w.length = Len(arr) /\ w.attached
      /\ w.start = start /\ w.called = <<name>>
  BY <1>6
<1>8. w \in Frame  BY <1>1, <1>3, <1>4, <1>5, <1>6 DEF Frame
<1>9. \A k \in 1 .. Len(arr) : Returned(arr[k].name, idOf)  BY DEF IInv, IdsMatch
<1>10. \A k \in 1 .. Len(arr) : k > 1 => arr[k].name # name
  BY <1>1 DEF IInv, Distinct
<1>11. Ahead(w, arr)  BY <1>3, <1>7, <1>10 DEF Ahead
<1>12. Behind(w, arr)  BY <1>1, <1>3, <1>7 DEF Behind
<1>13. WalkOK(w, arr, idOf)
  <2>1. \A n \in w.start \cup ToSet(w.called) : Returned(n, idOf)
    BY <1>1, <1>3, <1>4, <1>7, <1>9
  <2> QED  BY <1>7, <1>11, <1>12, <2>1 DEF WalkOK
<1> QED  BY <1>3, <1>7, <1>8, <1>13 DEF FrameOK, w

LEMMA EmitInd ==
  ASSUME IInv, NEW e \in Events, Emit(e)
  PROVE  IInv'
<1> DEFINE n == Len(emitted) + 1
           entry == [event |-> e, inner |-> \E i \in Giving : stack[i].event = e]
<1>0. Types /\ Counted  BY DEF IInv
<1>1. /\ emitted' = Append(emitted, entry) /\ entry \in [event : Events, inner : BOOLEAN]
      /\ Len(emitted) < MaxEmissions /\ n \in Emissions /\ n \in Nat /\ n # None
      /\ Len(stack) < MaxDepth
      /\ UNCHANGED <<eventHandlers, handlerId, idOf, nestedIn, removed>>
  BY <1>0, TypesAre, BoundsAssumption DEF Emit, LogEmission, Emissions, None
<1>2. /\ emitted' \in Seq([event : Events, inner : BOOLEAN]) /\ Len(emitted') = n
      /\ \A k \in 1 .. Len(emitted) : emitted'[k] = emitted[k]
      /\ emitted'[n] = entry
  BY <1>0, <1>1, AppendProperties DEF Types
<1> HIDE DEF entry
<1>3. \/ /\ stack' = stack /\ delivered' = delivered
         /\ pendingEvents' = [pendingEvents EXCEPT ![e] = n]
      \/ \E w \in Frame :
            /\ stack' = Append(stack, w) /\ w.kind = "emit"
            /\ FrameOK(w, eventHandlers, idOf, nestedIn)
            /\ delivered' = delivered \cup {n} /\ pendingEvents' = pendingEvents
  <2>1. CASE eventHandlers[e] # << >>
    <3>1. Deliver(e, Len(eventHandlers[e]))  BY <2>1 DEF Emit
    <3> QED  BY <1>1, <2>1, <3>1, WalkIs DEF Deliver
  <2>2. CASE eventHandlers[e] = << >>  BY <2>2 DEF Emit, Keep
  <2> QED  BY <2>1, <2>2
<1>4. /\ delivered \subseteq delivered' /\ delivered' \subseteq Emissions
      /\ pendingEvents' \in [Events -> Nat]
      /\ \A g \in Events : pendingEvents'[g] = pendingEvents[g] \/ (g = e /\ pendingEvents'[g] = n)
      /\ n \in delivered' \/ pendingEvents'[e] = n
  BY <1>0, <1>1, <1>3 DEF Types
<1>5. /\ stack' \in Seq(Frame) /\ Len(stack') \in Nat
      /\ Len(stack) \in Nat /\ Len(stack') <= MaxDepth
      /\ \A i \in 1 .. Len(stack') :
            \/ i \in 1 .. Len(stack) /\ stack'[i] = stack[i]
            \/ stack'[i].kind = "emit" /\ FrameOK(stack'[i], eventHandlers, idOf, nestedIn)
  <2>1. CASE stack' = stack  BY <1>0, <2>1, TypesAre DEF Types
  <2>2. CASE \E w \in Frame : /\ stack' = Append(stack, w) /\ w.kind = "emit"
                              /\ FrameOK(w, eventHandlers, idOf, nestedIn)
    <3>1. PICK w \in Frame : /\ stack' = Append(stack, w) /\ w.kind = "emit"
                             /\ FrameOK(w, eventHandlers, idOf, nestedIn)
      BY <2>2
    <3>2. stack \in Seq(Frame) /\ Len(stack) \in Nat  BY <1>0, TypesAre DEF Types
    <3>3. /\ stack' \in Seq(Frame) /\ Len(stack') = Len(stack) + 1
          /\ \A i \in 1 .. Len(stack) : stack'[i] = stack[i]
          /\ stack'[Len(stack) + 1] = w
      BY <3>1, <3>2, AppendProperties
    <3>4. Len(stack) + 1 <= MaxDepth  BY <1>1, <3>2, BoundsAssumption
    <3> QED  BY <3>1, <3>2, <3>3, <3>4
  <2> QED  BY <1>3, <2>1, <2>2
<1>6. Types'  BY <1>0, <1>1, <1>2, <1>4, <1>5 DEF Types
<1>7. Counted'
  <2>1. \A g \in Events : pendingEvents'[g] <= n
    BY <1>0, <1>4, TypesAre DEF Counted
  <2>2. n <= MaxEmissions  BY <1>0, <1>1, TypesAre, BoundsAssumption
  <2> QED  BY <1>0, <1>1, <1>2, <2>1, <2>2 DEF Counted
<1>8. FramesOK'
  <2> SUFFICES ASSUME NEW i \in 1 .. Len(stack')
               PROVE  FrameOK(stack'[i], eventHandlers, idOf, nestedIn)
    BY <1>1 DEF FramesOK
  <2> QED  BY <1>5 DEF IInv, FramesOK
<1>9. KeptMayGo'
  <2> SUFFICES ASSUME NEW i \in 1 .. Len(stack'), stack'[i].kind = "on",
                      pendingEvents'[stack'[i].event] # None
               PROVE  \/ pendingEvents'[stack'[i].event] \in delivered'
                      \/ emitted'[pendingEvents'[stack'[i].event]].inner
    BY DEF KeptMayGo
  <2>1. i \in 1 .. Len(stack) /\ stack'[i] = stack[i]  BY <1>5
  <2>2. stack[i].event \in Events  BY <1>0, <2>1, TypesAre DEF Frame
  <2>3. CASE pendingEvents'[stack[i].event] = pendingEvents[stack[i].event]
    <3>1. pendingEvents[stack[i].event] \in 1 .. Len(emitted)
      BY <1>0, <2>1, <2>2, <2>3, TypesAre DEF Counted, None
    <3>2. \/ pendingEvents[stack[i].event] \in delivered
          \/ emitted[pendingEvents[stack[i].event]].inner
      BY <2>1, <2>3 DEF IInv, KeptMayGo
    <3> QED  BY <1>2, <1>4, <2>1, <2>3, <3>1, <3>2
  <2>4. CASE stack[i].event = e /\ pendingEvents'[e] = n
    <3>1. i \in Giving  BY <1>0, <2>1, TypesAre DEF Giving
    <3>2. entry.inner  BY <2>4, <3>1 DEF entry
    <3> QED  BY <1>2, <2>1, <2>4, <3>2
  <2> QED  BY <1>4, <2>2, <2>3, <2>4
<1>10. GivingInOrder'
  <2>1. \A i \in 1 .. Len(stack') :
            stack'[i].kind = "on" => i \in 1 .. Len(stack) /\ stack'[i] = stack[i]
    BY <1>5
  <2> QED  BY <2>1 DEF IInv, GivingInOrder
<1>11. RemovedShares' /\ IdsUniqueUnlessNested' /\ Distinct(eventHandlers')
       /\ IdsMatch(eventHandlers', idOf')
  BY <1>1 DEF IInv, RemovedShares, IdsUniqueUnlessNested
<1>12. NoEventForgotten'
  <2>0. DOMAIN emitted' = 1 .. n /\ DOMAIN emitted = 1 .. Len(emitted) /\ Len(emitted) \in Nat
    BY <1>0, <1>2, TypesAre, LenProperties
  <2> SUFFICES ASSUME NEW i \in 1 .. n
               PROVE  \/ i \in delivered' \/ emitted'[i].inner
                      \/ pendingEvents'[emitted'[i].event] = i
                      \/ \E j \in i + 1 .. n : emitted'[j].event = emitted'[i].event
    BY <1>2, <2>0 DEF NoEventForgotten
  <2>1. CASE i = n  BY <1>2, <1>4, <2>1 DEF entry
  <2>2. CASE i \in 1 .. Len(emitted)
    <3>1. emitted'[i] = emitted[i] /\ emitted[i].event \in Events
      BY <1>0, <1>2, <2>2, TypesAre
    <3>2. CASE emitted[i].event = e
      <4>1. n \in i + 1 .. n  BY <2>0, <2>2
      <4>2. emitted'[n].event = e  BY <1>2 DEF entry
      <4> QED  BY <3>1, <3>2, <4>1, <4>2
    <3>3. CASE emitted[i].event # e
      <4>1. \/ i \in delivered \/ emitted[i].inner \/ pendingEvents[emitted[i].event] = i
            \/ \E j \in i + 1 .. Len(emitted) : emitted[j].event = emitted[i].event
        BY <2>0, <2>2 DEF IInv, NoEventForgotten
      <4>2. pendingEvents'[emitted[i].event] = pendingEvents[emitted[i].event]
        BY <1>4, <3>1, <3>3
      <4>3. \A j \in i + 1 .. Len(emitted) : j \in i + 1 .. n /\ emitted'[j] = emitted[j]
        BY <1>2, <2>0, <2>2
      <4> QED  BY <1>4, <3>1, <4>1, <4>2, <4>3
    <3> QED  BY <3>2, <3>3
  <2> QED  BY <2>0, <2>1, <2>2
<1> QED  BY <1>6, <1>7, <1>8, <1>9, <1>10, <1>11, <1>12 DEF IInv


-----------------------------------------------------------------------------
(* on *)

\* A frame stays right when ids are added, if on was giving its handler a kept event
\* meanwhile, and when one of an older handler, or of none that it knows, is set.
LEMMA FrameOfIds ==
  ASSUME NEW f \in Frame, NEW arrays \in [Events -> Seq(Handler)],
         NEW ids \in Seq(Nat), NEW ids2 \in Seq(Nat), NEW nested, NEW nested2,
         FrameOK(f, arrays, ids, nested),
         Len(ids) <= Len(ids2),
         \A n : Returned(n, ids) => Returned(n, ids2),
         f.kind = "on" =>
            /\ \A p \in 1 .. f.handler.name : ids2[p] = ids[p]
            /\ \A p \in 1 .. Len(ids) : nested2[p] = nested[p]
            /\ \A p \in Len(ids) + 1 .. Len(ids2) : f.handler.name \in nested2[p]
  PROVE  FrameOK(f, arrays, ids2, nested2)
<1>0. Len(ids) \in Nat /\ Len(ids2) \in Nat  BY LenProperties
<1>1. CASE f.kind = "emit"
  <2>1. WalkOK(f, arrays[f.event], ids2)  BY <1>1 DEF FrameOK, WalkOK
  <2> QED  BY <1>1, <2>1 DEF FrameOK
<1>2. CASE f.kind = "on"
  <2> DEFINE n == f.handler.name
  <2>1. /\ ~f.attached /\ n \in 1 .. Len(ids) /\ ids[n] = None /\ f.handler.id <= Len(ids)
        /\ \A p \in 1 .. n - 1 : ids[p] < f.handler.id
        /\ \A p \in n + 1 .. Len(ids) : n \in nested[p]
    BY <1>2 DEF FrameOK, GivingOK
  <2> DEFINE id == f.handler.id
  <2>2. id \in Nat /\ id <= Len(ids) /\ n \in 1 .. Len(ids) /\ ids[n] = None
    BY <2>1 DEF Frame, Handler, Calls
  <2>3. /\ \A p \in 1 .. n - 1 : ids[p] < id
        /\ \A p \in n + 1 .. Len(ids) : n \in nested[p]
        /\ \A p \in 1 .. n : ids2[p] = ids[p]
        /\ \A p \in 1 .. Len(ids) : nested2[p] = nested[p]
        /\ \A p \in Len(ids) + 1 .. Len(ids2) : n \in nested2[p]
    BY <1>2, <2>1
  <2> HIDE DEF n, id
  <2>4. \A p \in n + 1 .. Len(ids2) : n \in nested2[p]
    <3> TAKE p \in n + 1 .. Len(ids2)
    <3>1. CASE p <= Len(ids)
      <4>1. p \in 1 .. Len(ids) /\ p \in n + 1 .. Len(ids)  BY <1>0, <2>2, <3>1
      <4> QED  BY <2>3, <4>1
    <3>2. CASE ~(p <= Len(ids))
      <4>1. p \in Len(ids) + 1 .. Len(ids2)  BY <1>0, <2>2, <3>2
      <4> QED  BY <2>3, <4>1
    <3> QED  BY <3>1, <3>2
  <2>5. /\ \A p \in 1 .. n - 1 : ids2[p] < id
        /\ n \in 1 .. Len(ids2) /\ ids2[n] = None /\ id <= Len(ids2)
    <3>1. n \in Nat /\ n \in 1 .. n /\ n \in 1 .. Len(ids2) /\ id <= Len(ids2)
      BY <1>0, <2>2
    <3>2. \A p \in 1 .. n - 1 : p \in 1 .. n  BY <3>1
    <3> QED  BY <2>2, <2>3, <3>1, <3>2
  <2>6. GivingOK(f, ids2, nested2)  BY <2>1, <2>4, <2>5 DEF GivingOK, n, id
  <2> QED  BY <1>2, <2>6 DEF FrameOK
<1> QED  BY <1>1, <1>2 DEF Frame

\* A frame stays right when a handler is registered that it does not know.
LEMMA FrameOfRegister ==
  ASSUME NEW f \in Frame, NEW arrays \in [Events -> Seq(Handler)], NEW e \in Events,
         NEW h \in Handler, NEW ids, NEW ids2, NEW nested,
         FrameOK(f, arrays, ids, nested),
         ~Returned(h.name, ids), \A n : Returned(n, ids) => Returned(n, ids2),
         FrameOK(f, arrays, ids2, nested)
  PROVE  FrameOK(f, [arrays EXCEPT ![e] = Append(@, h)], ids2, nested)
<1> DEFINE new == [arrays EXCEPT ![e] = Append(@, h)]
<1>0. f.event \in Events /\ arrays[f.event] \in Seq(Handler)  BY DEF Frame
<1>1. CASE f.kind = "emit"
  <2>1. WalkOK(f, arrays[f.event], ids)  BY <1>1 DEF FrameOK
  <2>2. WalkOK(f, arrays[f.event], ids2) /\ WalkOK(f, Append(arrays[f.event], h), ids2)
    BY <1>0, <2>1, WalkOfRegister
  <2>3. new[f.event] = IF f.event = e THEN Append(arrays[f.event], h) ELSE arrays[f.event]
    BY <1>0
  <2>4. WalkOK(f, new[f.event], ids2)  BY <2>2, <2>3
  <2> QED  BY <1>1, <2>4 DEF FrameOK
<1>2. CASE f.kind # "emit"  BY <1>2 DEF FrameOK
<1> QED  BY <1>1, <1>2

LEMMA OnInd ==
  ASSUME IInv, NEW e \in Events, NEW once \in BOOLEAN, On(e, once)
  PROVE  IInv'
<1> DEFINE n == Len(idOf) + 1
           h == [name |-> n, id |-> n, once |-> once]
           givingTo == {stack[i].handler.name : i \in Giving}
           w == [kind |-> "on", event |-> e, emission |-> pendingEvents[e], handler |-> h,
                 index |-> 0, length |-> 0, attached |-> FALSE,
                 start |-> {}, called |-> <<n>>, shifted |-> FALSE]
<1>0. Types /\ Counted /\ handlerId = Len(idOf)  BY DEF IInv, Counted
<1>1. /\ Len(idOf) \in Nat /\ Len(idOf) < MaxHandlers /\ Len(stack) < MaxDepth
      /\ Len(stack) \in Nat /\ n \in Calls /\ h \in Handler
      /\ handlerId' = n
      /\ nestedIn' = Append(nestedIn, givingTo) /\ givingTo \in SUBSET Calls
      /\ UNCHANGED <<pendingEvents, emitted, removed>>
  <2>1. Len(idOf) \in Nat /\ Len(idOf) < MaxHandlers /\ Len(stack) < MaxDepth
        /\ Len(stack) \in Nat
    BY <1>0, TypesAre DEF On, OnAs
  <2>2. n \in Calls  BY <2>1, BoundsAssumption DEF Calls
  <2>3. givingTo \in SUBSET Calls  BY <1>0, TypesAre DEF Giving, Frame, Handler
  <2>4. h \in Handler  BY <2>2 DEF Handler
  <2> QED  BY <1>0, <2>1, <2>2, <2>3, <2>4 DEF On, OnAs
<1>2. \/ /\ pendingEvents[e] # None
         /\ stack' = Append(stack, w) /\ delivered' = delivered \cup {pendingEvents[e]}
         /\ idOf' = Append(idOf, None) /\ eventHandlers' = eventHandlers
      \/ /\ eventHandlers' = [eventHandlers EXCEPT ![e] = Append(@, h)]
         /\ idOf' = Append(idOf, n) /\ stack' = stack /\ delivered' = delivered
  BY <1>0 DEF On, OnAs, Give, Register
<1>3. PICK x \in {None, n} : idOf' = Append(idOf, x)  BY <1>2
<1>4. /\ idOf' \in Seq(Nat) /\ Len(idOf') = n /\ idOf'[n] = x
      /\ \A p \in 1 .. Len(idOf) : idOf'[p] = idOf[p]
  <2>1. x \in Nat  BY <1>1 DEF None
  <2> QED  BY <1>0, <1>3, <2>1, AppendProperties DEF Types
<1>5. /\ nestedIn' \in Seq(SUBSET Calls) /\ Len(nestedIn') = n /\ nestedIn'[n] = givingTo
      /\ \A p \in 1 .. Len(idOf) : nestedIn'[p] = nestedIn[p]
  <2> HIDE DEF givingTo
  <2>1. nestedIn \in Seq(SUBSET Calls) /\ Len(nestedIn) = Len(idOf)
    BY <1>0 DEF Types, Counted
  <2> QED  BY <1>1, <2>1, AppendProperties
<1>6. /\ ~Returned(n, idOf)
      /\ \A p : Returned(p, idOf) => Returned(p, idOf') /\ idOf'[p] = idOf[p]
  BY <1>1, <1>4 DEF Returned
<1>7. /\ eventHandlers' \in [Events -> Seq(Handler)]
      /\ Distinct(eventHandlers') /\ IdsMatch(eventHandlers', idOf')
      /\ \A m : Registered(m, eventHandlers') => m = n \/ Registered(m, eventHandlers)
  <2>1. eventHandlers \in [Events -> Seq(Handler)] /\ Distinct(eventHandlers)
        /\ IdsMatch(eventHandlers, idOf)
    BY <1>0 DEF IInv, Types
  <2>2. CASE eventHandlers' = eventHandlers  BY <1>6, <2>1, <2>2 DEF IdsMatch
  <2>3. CASE eventHandlers' = [eventHandlers EXCEPT ![e] = Append(@, h)] /\ idOf' = Append(idOf, n)
    <3>1. /\ ~Returned(h.name, idOf) /\ Returned(h.name, idOf') /\ idOf'[h.name] = h.id
          /\ h.name = n
      <4>1. idOf'[n] = n  BY <1>0, <1>1, <2>3, AppendProperties DEF Types
      <4> QED  BY <1>1, <1>4, <1>6, <4>1 DEF Returned, None
    <3> HIDE DEF h
    <3> QED  BY <1>1, <1>6, <2>1, <2>3, <3>1, RegisterIs, ZenonT(60)
  <2> QED  BY <1>2, <2>2, <2>3
<1>8. ASSUME NEW i \in 1 .. Len(stack)
      PROVE  FrameOK(stack[i], eventHandlers', idOf', nestedIn')
  <2> DEFINE f == stack[i]
  <2>1. f \in Frame /\ FrameOK(f, eventHandlers, idOf, nestedIn)
    BY <1>0, TypesAre DEF IInv, FramesOK
  <2>2. /\ eventHandlers \in [Events -> Seq(Handler)] /\ idOf \in Seq(Nat)
        /\ Len(idOf) <= Len(idOf')
    BY <1>0, <1>1, <1>4 DEF Types
  <2>3. f.kind = "on" =>
            /\ \A p \in 1 .. f.handler.name : idOf'[p] = idOf[p]
            /\ \A p \in 1 .. Len(idOf) : nestedIn'[p] = nestedIn[p]
            /\ \A p \in Len(idOf) + 1 .. Len(idOf') : f.handler.name \in nestedIn'[p]
    <3> SUFFICES ASSUME f.kind = "on"
                 PROVE  /\ \A p \in 1 .. f.handler.name : idOf'[p] = idOf[p]
                        /\ \A p \in Len(idOf) + 1 .. Len(idOf') : f.handler.name \in nestedIn'[p]
      BY <1>5
    <3>1. f.handler.name \in 1 .. Len(idOf)  BY <2>1 DEF FrameOK, GivingOK
    <3>2. i \in Giving  BY <1>0, TypesAre DEF Giving
    <3>3. f.handler.name \in givingTo  BY <3>2
    <3>4. \A p \in 1 .. f.handler.name : p \in 1 .. Len(idOf)  BY <1>1, <3>1
    <3>5. \A p \in Len(idOf) + 1 .. Len(idOf') : p = n  BY <1>1, <1>4
    <3> QED  BY <1>4, <1>5, <3>3, <3>4, <3>5
  <2> HIDE DEF f
  <2>4. FrameOK(f, eventHandlers, idOf', nestedIn')
    BY <1>4, <1>6, <2>1, <2>2, <2>3, FrameOfIds
  <2>5. CASE eventHandlers' = [eventHandlers EXCEPT ![e] = Append(@, h)]
    <3>1. h.name = n  OBVIOUS
    <3>2. FrameOK(f, eventHandlers, idOf, nestedIn) /\ ~Returned(h.name, idOf)
      BY <1>6, <2>1, <3>1
    <3> HIDE DEF h
    <3> DEFINE new == [eventHandlers EXCEPT ![e] = Append(@, h)]
    <3>3. FrameOK(f, new, idOf', nestedIn')
      <4>1. f.kind = "emit" => FrameOK(f, eventHandlers, idOf, nestedIn')
        BY <2>1 DEF FrameOK
      <4>2. CASE f.kind = "emit"  BY <1>1, <1>6, <2>1, <2>2, <2>4, <3>2, <4>1, <4>2, FrameOfRegister
      <4>3. CASE f.kind # "emit"  BY <2>4, <4>3 DEF FrameOK
      <4> QED  BY <4>2, <4>3
    <3>4. eventHandlers' = new  BY <2>5
    <3> HIDE DEF new
    <3> QED  BY <3>3, <3>4 DEF f
  <2> QED  BY <1>2, <2>4, <2>5 DEF f
<1>9. w \in Frame \/ pendingEvents[e] = None
  <2>1. <<n>> \in Seq(Calls)  BY <1>1
  <2>2. pendingEvents[e] = None \/ pendingEvents[e] \in Emissions
    BY <1>0, TypesAre, BoundsAssumption DEF Counted, Emissions, None
  <2> QED  BY <1>1, <2>1, <2>2 DEF Frame
<1>10. w.kind = "on" /\ w.handler.name = n /\ w.handler.id = n /\ ~w.attached /\ w.called = <<n>>
       /\ w.event = e /\ w.index <= w.length
  OBVIOUS
<1> HIDE DEF w, h
<1>11. /\ stack' \in Seq(Frame) /\ Len(stack') \in Nat /\ Len(stack') <= MaxDepth
       /\ \A i \in 1 .. Len(stack') :
             \/ i \in 1 .. Len(stack) /\ stack'[i] = stack[i]
             \/ /\ i = Len(stack) + 1 /\ stack'[i] = w
                /\ x = None /\ pendingEvents[e] \in delivered'
  <2>1. CASE stack' = stack  BY <1>0, <1>1, <2>1 DEF Types
  <2>2. CASE stack' = Append(stack, w) /\ w \in Frame /\ idOf' = Append(idOf, None)
             /\ pendingEvents[e] \in delivered'
    <3>1. /\ stack' \in Seq(Frame) /\ Len(stack') = Len(stack) + 1
          /\ \A i \in 1 .. Len(stack) : stack'[i] = stack[i]
          /\ stack'[Len(stack) + 1] = w
      BY <1>0, <2>2, AppendProperties DEF Types
    <3>2. idOf'[n] = None  BY <1>0, <2>2, AppendProperties DEF Types, None
    <3>3. Len(stack') <= MaxDepth  BY <1>1, <3>1, BoundsAssumption
    <3> QED  BY <1>1, <1>4, <2>2, <3>1, <3>2, <3>3
  <2> QED  BY <1>2, <1>9, <2>1, <2>2
<1>12. delivered \subseteq delivered' /\ delivered' \subseteq Emissions
  <2>1. pendingEvents[e] = None \/ pendingEvents[e] \in Emissions
    BY <1>0, TypesAre, BoundsAssumption DEF Counted, Emissions, None
  <2> QED  BY <1>0, <1>2, <2>1 DEF Types
<1>13. Types'
  BY <1>0, <1>1, <1>4, <1>5, <1>7, <1>11, <1>12 DEF Types
<1>14. Counted'
  <2>1. \A p \in 1 .. Len(idOf') : idOf'[p] <= n
    <3> TAKE p \in 1 .. Len(idOf')
    <3>1. CASE p \in 1 .. Len(idOf)
      <4>1. idOf[p] \in Nat /\ idOf[p] <= Len(idOf)  BY <1>0, <3>1, TypesAre DEF Counted
      <4> QED  BY <1>1, <1>4, <3>1, <4>1
    <3>2. CASE p = n  BY <1>1, <1>4, <3>2 DEF None
    <3> QED  BY <1>1, <1>4, <3>1, <3>2
  <2>2. n <= MaxHandlers  BY <1>1, BoundsAssumption
  <2> QED  BY <1>0, <1>1, <1>4, <1>5, <2>1, <2>2 DEF Counted
<1>15. x = None => FrameOK(w, eventHandlers', idOf', nestedIn')
  <2> SUFFICES ASSUME x = None PROVE FrameOK(w, eventHandlers', idOf', nestedIn')
    OBVIOUS
  <2>1. \A p \in 1 .. n - 1 : idOf'[p] < n  BY <1>0, <1>1, <1>4, TypesAre DEF Counted
  <2>2. GivingOK(w, idOf', nestedIn')  BY <1>1, <1>4, <1>10, <2>1 DEF GivingOK
  <2>3. IsInjective(w.called)  BY <1>1, <1>10, Singleton
  <2> QED  BY <1>10, <2>2, <2>3 DEF FrameOK
<1>16. FramesOK'
  <2> SUFFICES ASSUME NEW i \in 1 .. Len(stack')
               PROVE  FrameOK(stack'[i], eventHandlers', idOf', nestedIn')
    BY DEF FramesOK
  <2> QED  BY <1>8, <1>11, <1>15
<1>17. KeptMayGo'
  <2> SUFFICES ASSUME NEW i \in 1 .. Len(stack'), stack'[i].kind = "on",
                      pendingEvents[stack'[i].event] # None
               PROVE  \/ pendingEvents[stack'[i].event] \in delivered'
                      \/ emitted[pendingEvents[stack'[i].event]].inner
    BY <1>1 DEF KeptMayGo
  <2> QED  BY <1>10, <1>11, <1>12 DEF IInv, KeptMayGo
<1>18. GivingInOrder'
  <2> SUFFICES ASSUME NEW i \in 1 .. Len(stack'), NEW j \in 1 .. Len(stack'), i < j,
                      stack'[i].kind = "on", stack'[j].kind = "on"
               PROVE  stack'[i].handler.name < stack'[j].handler.name
    BY DEF GivingInOrder
  <2>1. i \in 1 .. Len(stack) /\ stack'[i] = stack[i]  BY <1>1, <1>11
  <2>2. CASE j \in 1 .. Len(stack) /\ stack'[j] = stack[j]
    BY <2>1, <2>2 DEF IInv, GivingInOrder
  <2>3. CASE stack'[j] = w
    <3>1. stack[i].handler.name \in 1 .. Len(idOf)
      BY <2>1 DEF IInv, FramesOK, FrameOK, GivingOK
    <3> QED  BY <1>1, <1>10, <2>1, <2>3, <3>1
  <2> QED  BY <1>11, <2>2, <2>3
<1>19. RemovedShares'
  <2> SUFFICES ASSUME NEW m \in removed
               PROVE  /\ Returned(m, idOf')
                      /\ Registered(m, eventHandlers') =>
                            \E k \in 1 .. Len(idOf') : k # m /\ idOf'[k] = idOf'[m]
    BY <1>1 DEF RemovedShares
  <2>1. Returned(m, idOf) /\ m # n  BY <1>6 DEF IInv, RemovedShares
  <2>2. Returned(m, idOf') /\ idOf'[m] = idOf[m]  BY <1>6, <2>1
  <2>3. ASSUME Registered(m, eventHandlers')
        PROVE  \E k \in 1 .. Len(idOf') : k # m /\ idOf'[k] = idOf'[m]
    <3>1. Registered(m, eventHandlers)  BY <1>7, <2>1, <2>3
    <3>2. PICK k \in 1 .. Len(idOf) : k # m /\ idOf[k] = idOf[m]
      BY <3>1 DEF IInv, RemovedShares
    <3>3. k \in 1 .. Len(idOf')  BY <1>1, <1>4
    <3> QED  BY <1>4, <2>2, <3>2, <3>3
  <2> QED  BY <2>2, <2>3
<1>20. IdsUniqueUnlessNested'
  <2>1. DOMAIN idOf' = 1 .. n /\ DOMAIN idOf = 1 .. Len(idOf)
    BY <1>0, <1>4, TypesAre, LenProperties
  <2> SUFFICES ASSUME NEW m \in 1 .. n, NEW k \in 1 .. n,
                      m < k, idOf'[m] = idOf'[k], idOf'[m] # None
               PROVE  m \in nestedIn'[k]
    BY <2>1 DEF IdsUniqueUnlessNested
  <2>2. m \in 1 .. Len(idOf) /\ idOf'[m] = idOf[m]  BY <1>1, <1>4
  <2>3. CASE k \in 1 .. Len(idOf)
    BY <1>4, <1>5, <2>1, <2>2, <2>3 DEF IInv, IdsUniqueUnlessNested
  <2>4. CASE k = n
    <3>1. idOf[m] \in Nat /\ idOf[m] <= Len(idOf)  BY <1>0, <2>2, TypesAre DEF Counted
    <3>2. x = n  BY <1>4, <2>4 DEF None
    <3>3. idOf[m] = n  BY <1>4, <2>2, <2>4, <3>2
    <3> QED  BY <1>1, <3>1, <3>3
  <2>5. k \in 1 .. Len(idOf) \/ k = n  BY <1>1
  <2> QED  BY <2>3, <2>4, <2>5
<1>21. NoEventForgotten'
  BY <1>1, <1>12 DEF IInv, NoEventForgotten
<1> QED
  BY <1>7, <1>13, <1>14, <1>16, <1>17, <1>18, <1>19, <1>20, <1>21 DEF IInv


LEMMA TopIs ==
  ASSUME Types, Counted, stack # << >>
  PROVE  /\ Len(stack) \in Nat \ {0} /\ Len(stack) \in 1 .. Len(stack)
         /\ Top = stack[Len(stack)] /\ Top \in Frame
         /\ Front(stack) \in Seq(Frame) /\ Len(Front(stack)) = Len(stack) - 1
         /\ \A i \in 1 .. Len(stack) - 1 : i \in 1 .. Len(stack) /\ Front(stack)[i] = stack[i]
<1>1. stack \in Seq(Frame)  BY DEF Types
<1>2. /\ Len(stack) \in Nat \ {0} /\ Top = stack[Len(stack)] /\ Top \in Frame
      /\ Front(stack) \in Seq(Frame) /\ Len(Front(stack)) = Len(stack) - 1
      /\ \A i \in 1 .. Len(stack) - 1 : Front(stack)[i] = stack[i]
  BY <1>1, FrontIs DEF Top
<1> QED  BY <1>2

LEMMA ReturnToOnInd ==
  ASSUME IInv, ReturnToOn
  PROVE  IInv'
<1> DEFINE top == stack[Len(stack)]
           e == top.event
           n == top.handler.name
           h == [top.handler EXCEPT !.id = handlerId]
<1>0. Types /\ Counted /\ handlerId = Len(idOf) /\ Len(idOf) \in Nat
  BY TypesAre DEF IInv, Counted
<1>1. /\ stack # << >> /\ top \in Frame /\ top.kind = "on" /\ Len(stack) \in 1 .. Len(stack)
      /\ Len(stack) \in Nat \ {0}
      /\ e \in Events /\ n \in Calls /\ top.handler \in Handler
      /\ pendingEvents' = [pendingEvents EXCEPT ![e] = None]
      /\ idOf' = [idOf EXCEPT ![n] = handlerId]
      /\ eventHandlers' = eventHandlers
            \/ eventHandlers' = [eventHandlers EXCEPT ![e] = Append(@, h)]
      /\ stack' = Front(stack)
      /\ UNCHANGED <<handlerId, nestedIn, emitted, delivered, removed>>
  <2>1. stack # << >>  BY DEF ReturnToOn
  <2>2. Top = top /\ top \in Frame /\ Len(stack) \in 1 .. Len(stack) /\ Len(stack) \in Nat \ {0}
    BY <1>0, <2>1, TopIs
  <2>3. e \in Events /\ n \in Calls /\ top.handler \in Handler  BY <2>2 DEF Frame, Handler
  <2> HIDE DEF top
  <2> QED  BY <2>1, <2>2, <2>3 DEF ReturnToOn, Register
<1>2. /\ n \in 1 .. Len(idOf) /\ idOf[n] = None
      /\ \A p \in 1 .. n - 1 : idOf[p] < Len(idOf)
      /\ \A p \in n + 1 .. Len(idOf) : n \in nestedIn[p]
  <2>1. GivingOK(top, idOf, nestedIn)  BY <1>1 DEF IInv, FramesOK, FrameOK
  <2> DEFINE id == top.handler.id
  <2>2. /\ n \in 1 .. Len(idOf) /\ idOf[n] = None /\ id <= Len(idOf)
        /\ \A p \in 1 .. n - 1 : idOf[p] < id
        /\ \A p \in n + 1 .. Len(idOf) : n \in nestedIn[p]
    BY <2>1 DEF GivingOK
  <2>3. id \in Nat  BY <1>1 DEF Handler, Calls
  <2> HIDE DEF n, id
  <2>4. ASSUME NEW p \in 1 .. n - 1 PROVE idOf[p] < Len(idOf)
    <3>1. p \in 1 .. Len(idOf)  BY <1>0, <2>2
    <3>2. idOf[p] \in Nat /\ idOf[p] < id  BY <1>0, <2>2, <3>1, TypesAre
    <3> QED  BY <1>0, <2>2, <2>3, <3>2
  <2> QED  BY <2>2, <2>4
<1>3. h \in Handler /\ h.name = n /\ h.id = handlerId
  <2>1. handlerId \in Calls  BY <1>0, <1>2, BoundsAssumption DEF Calls, Counted
  <2> QED  BY <1>1, <2>1 DEF Handler
<1> HIDE DEF h
<1>4. /\ idOf' \in Seq(Nat) /\ Len(idOf') = Len(idOf) /\ idOf'[n] = Len(idOf)
      /\ \A p \in 1 .. Len(idOf) : p # n => idOf'[p] = idOf[p]
  <2>1. idOf \in Seq(Nat)  BY <1>0 DEF Types
  <2> HIDE DEF n
  <2> QED  BY <1>0, <1>1, <1>2, <2>1, ExceptSeq
<1>5. /\ ~Returned(n, idOf) /\ Returned(n, idOf') /\ idOf'[n] = handlerId
      /\ \A p : Returned(p, idOf) => p # n /\ Returned(p, idOf') /\ idOf'[p] = idOf[p]
  BY <1>0, <1>2, <1>4 DEF Returned, None
<1>6. /\ eventHandlers' \in [Events -> Seq(Handler)]
      /\ Distinct(eventHandlers') /\ IdsMatch(eventHandlers', idOf')
      /\ \A m : Registered(m, eventHandlers') => m = n \/ Registered(m, eventHandlers)
  <2>1. eventHandlers \in [Events -> Seq(Handler)] /\ Distinct(eventHandlers)
        /\ IdsMatch(eventHandlers, idOf)
    BY <1>0 DEF IInv, Types
  <2>2. CASE eventHandlers' = eventHandlers  BY <1>5, <2>1, <2>2 DEF IdsMatch
  <2>3. CASE eventHandlers' = [eventHandlers EXCEPT ![e] = Append(@, h)]
    <3> HIDE DEF n, e
    <3> QED  BY <1>1, <1>3, <1>5, <2>1, <2>3, RegisterIs, ZenonT(60)
  <2> QED  BY <1>1, <2>2, <2>3
<1>7. /\ stack' \in Seq(Frame) /\ Len(stack') = Len(stack) - 1
      /\ \A i \in 1 .. Len(stack') : i \in 1 .. Len(stack) /\ i < Len(stack) /\ stack'[i] = stack[i]
  BY <1>0, <1>1, TopIs
<1>8. ASSUME NEW i \in 1 .. Len(stack')
      PROVE  FrameOK(stack'[i], eventHandlers', idOf', nestedIn')
  <2> DEFINE f == stack[i]
  <2>1. f \in Frame /\ FrameOK(f, eventHandlers, idOf, nestedIn) /\ stack'[i] = f
    BY <1>0, <1>7, TypesAre DEF IInv, FramesOK
  <2>2. /\ eventHandlers \in [Events -> Seq(Handler)] /\ idOf \in Seq(Nat)
        /\ Len(idOf) <= Len(idOf')
    BY <1>0, <1>4 DEF Types
  <2>3. f.kind = "on" =>
            /\ \A p \in 1 .. f.handler.name : idOf'[p] = idOf[p]
            /\ \A p \in Len(idOf) + 1 .. Len(idOf') : f.handler.name \in nestedIn[p]
    <3> SUFFICES ASSUME f.kind = "on"
                 PROVE  /\ \A p \in 1 .. f.handler.name : idOf'[p] = idOf[p]
                        /\ \A p \in Len(idOf) + 1 .. Len(idOf') : f.handler.name \in nestedIn[p]
      OBVIOUS
    <3>1. f.handler.name < n  BY <1>1, <1>7 DEF IInv, GivingInOrder
    <3>2. f.handler.name \in 1 .. Len(idOf)  BY <2>1 DEF FrameOK, GivingOK
    <3>3. ASSUME NEW p \in 1 .. f.handler.name PROVE p \in 1 .. Len(idOf) /\ p # n
      BY <1>0, <1>2, <3>1, <3>2
    <3>4. \A p \in Len(idOf) + 1 .. Len(idOf') : FALSE  BY <1>0, <1>4
    <3> QED  BY <1>4, <3>3, <3>4
  <2> HIDE DEF f
  <2>4. FrameOK(f, eventHandlers, idOf', nestedIn)
    BY <1>4, <1>5, <2>1, <2>2, <2>3, FrameOfIds
  <2>5. CASE eventHandlers' = [eventHandlers EXCEPT ![e] = Append(@, h)]
    <3> DEFINE new == [eventHandlers EXCEPT ![e] = Append(@, h)]
    <3>1. ~Returned(h.name, idOf)  BY <1>3, <1>5
    <3>2. FrameOK(f, new, idOf', nestedIn)
      <4> HIDE DEF e
      <4> QED  BY <1>1, <1>3, <1>5, <2>1, <2>2, <2>4, <3>1, FrameOfRegister
    <3>3. eventHandlers' = new  BY <2>5
    <3> HIDE DEF new
    <3> QED  BY <1>1, <2>1, <3>2, <3>3
  <2> QED  BY <1>1, <2>1, <2>4, <2>5
<1>9. FramesOK'  BY <1>8 DEF FramesOK
<1>10. pendingEvents' \in [Events -> Nat] /\ pendingEvents'[e] = None
       /\ \A g \in Events : g # e => pendingEvents'[g] = pendingEvents[g]
  BY <1>0, <1>1 DEF Types, None
<1>11. Types'
  <2>1. Len(stack') <= MaxDepth  BY <1>0, <1>1, <1>7, BoundsAssumption DEF Types
  <2> QED  BY <1>0, <1>1, <1>4, <1>6, <1>7, <1>10, <2>1 DEF Types
<1>12. Counted'
  <2>1. ASSUME NEW p \in 1 .. Len(idOf) PROVE idOf'[p] <= Len(idOf)
    <3>1. CASE p = n  BY <1>0, <1>4, <3>1
    <3>2. CASE p # n  BY <1>0, <1>4, <3>2 DEF Counted
    <3> QED  BY <3>1, <3>2
  <2>2. \A g \in Events : pendingEvents'[g] <= Len(emitted)
    BY <1>0, <1>10, TypesAre DEF Counted, None
  <2> QED  BY <1>0, <1>1, <1>4, <2>1, <2>2 DEF Counted
<1>13. KeptMayGo'
  <2> SUFFICES ASSUME NEW i \in 1 .. Len(stack'), stack'[i].kind = "on",
                      pendingEvents'[stack'[i].event] # None
               PROVE  \/ pendingEvents'[stack'[i].event] \in delivered
                      \/ emitted[pendingEvents'[stack'[i].event]].inner
    BY <1>1 DEF KeptMayGo
  <2>1. i \in 1 .. Len(stack) /\ stack'[i] = stack[i]  BY <1>7
  <2>2. stack[i].event \in Events /\ stack[i].event # e
    BY <1>0, <1>10, <2>1, TypesAre DEF Frame
  <2>3. pendingEvents'[stack[i].event] = pendingEvents[stack[i].event]  BY <1>10, <2>2
  <2> QED  BY <2>1, <2>3 DEF IInv, KeptMayGo
<1>14. GivingInOrder'  BY <1>7 DEF IInv, GivingInOrder
<1>15. RemovedShares'
  <2> SUFFICES ASSUME NEW m \in removed
               PROVE  /\ Returned(m, idOf')
                      /\ Registered(m, eventHandlers') =>
                            \E k \in 1 .. Len(idOf') : k # m /\ idOf'[k] = idOf'[m]
    BY <1>1 DEF RemovedShares
  <2>1. Returned(m, idOf) /\ m # n  BY <1>5 DEF IInv, RemovedShares
  <2>2. Returned(m, idOf') /\ idOf'[m] = idOf[m]  BY <1>5, <2>1
  <2>3. ASSUME Registered(m, eventHandlers')
        PROVE  \E k \in 1 .. Len(idOf') : k # m /\ idOf'[k] = idOf'[m]
    <3>1. Registered(m, eventHandlers)  BY <1>6, <2>1, <2>3
    <3>2. PICK k \in 1 .. Len(idOf) : k # m /\ idOf[k] = idOf[m]
      BY <3>1 DEF IInv, RemovedShares
    <3>3. k # n  BY <1>2, <2>1, <3>2 DEF Returned
    <3> QED  BY <1>4, <2>2, <3>2, <3>3
  <2> QED  BY <2>2, <2>3
<1>16. IdsUniqueUnlessNested'
  <2>1. DOMAIN idOf' = 1 .. Len(idOf) /\ DOMAIN idOf = 1 .. Len(idOf)
    BY <1>0, <1>4, TypesAre, LenProperties
  <2> SUFFICES ASSUME NEW m \in 1 .. Len(idOf), NEW k \in 1 .. Len(idOf),
                      m < k, idOf'[m] = idOf'[k], idOf'[m] # None
               PROVE  m \in nestedIn[k]
    BY <1>1, <2>1 DEF IdsUniqueUnlessNested
  <2>2. CASE m = n
    <3>1. k \in n + 1 .. Len(idOf)  BY <1>0, <1>2, <2>2
    <3> QED  BY <1>2, <2>2, <3>1
  <2>3. CASE k = n
    <3>1. m \in 1 .. n - 1 /\ m # n  BY <1>0, <1>2, <2>3
    <3>2. idOf[m] < Len(idOf) /\ idOf[m] = Len(idOf)  BY <1>2, <1>4, <2>3, <3>1
    <3> QED  BY <1>0, <3>2
  <2>4. CASE m # n /\ k # n
    BY <1>4, <2>1, <2>4 DEF IInv, IdsUniqueUnlessNested
  <2> QED  BY <2>2, <2>3, <2>4
<1>17. NoEventForgotten'
  <2> SUFFICES ASSUME NEW i \in DOMAIN emitted
               PROVE  \/ i \in delivered \/ emitted[i].inner
                      \/ pendingEvents'[emitted[i].event] = i
                      \/ \E j \in i + 1 .. Len(emitted) : emitted[j].event = emitted[i].event
    BY <1>1 DEF NoEventForgotten
  <2>1. i \in 1 .. Len(emitted) /\ emitted[i].event \in Events /\ i # None
    BY <1>0, TypesAre DEF None
  <2>2. CASE pendingEvents[emitted[i].event] # i  BY <2>2 DEF IInv, NoEventForgotten
  <2>3. CASE emitted[i].event # e  BY <1>10, <2>1, <2>3 DEF IInv, NoEventForgotten
  <2>4. CASE pendingEvents[emitted[i].event] = i /\ emitted[i].event = e
    BY <1>1, <2>1, <2>4 DEF IInv, KeptMayGo
  <2> QED  BY <2>2, <2>3, <2>4
<1> QED
  BY <1>6, <1>9, <1>11, <1>12, <1>13, <1>14, <1>15, <1>16, <1>17 DEF IInv


-----------------------------------------------------------------------------
(* Removal *)

LEMMA FrameOfRemoval ==
  ASSUME NEW f \in Frame, NEW g, SameWalk(f, g),
         NEW arrays \in [Events -> Seq(Handler)], NEW e \in Events, NEW p \in 1 .. Len(arrays[e]),
         NEW ids, NEW nested,
         FrameOK(f, arrays, ids, nested),
         g.attached => f.attached,
         f.shifted \/ (f.event = e /\ f.attached /\ p <= f.index) => g.shifted,
         f.attached => g.attached \/ g.shifted
  PROVE  FrameOK(g, [arrays EXCEPT ![e] = RemoveAt(@, p)], ids, nested)
<1> DEFINE new == [arrays EXCEPT ![e] = RemoveAt(@, p)]
<1>0. f.event \in Events /\ arrays[f.event] \in Seq(Handler)  BY DEF Frame
<1>1. /\ g.kind = f.kind /\ g.event = f.event /\ g.handler = f.handler /\ g.called = f.called
      /\ g.index = f.index /\ g.length = f.length
  BY DEF SameWalk
<1>2. new[f.event] = IF f.event = e THEN RemoveAt(arrays[f.event], p) ELSE arrays[f.event]
  BY <1>0
<1> HIDE DEF new
<1>3. CASE f.kind = "emit"
  <2>1. WalkOK(f, arrays[f.event], ids)  BY <1>3 DEF FrameOK
  <2>2. CASE f.event = e
    <3>1. p \in 1 .. Len(arrays[f.event])  BY <2>2
    <3>2. WalkOK(g, RemoveAt(arrays[f.event], p), ids)  BY <1>0, <2>1, <2>2, <3>1, WalkOfRemoval
    <3> QED  BY <1>1, <1>2, <1>3, <2>2, <3>2 DEF FrameOK
  <2>3. CASE f.event # e
    <3>1. g.attached \/ g.shifted \/ ~f.attached  OBVIOUS
    <3>2. WalkOK(g, arrays[f.event], ids)  BY <2>1, <3>1, WalkOfSame
    <3> QED  BY <1>1, <1>2, <1>3, <2>3, <3>2 DEF FrameOK
  <2> QED  BY <2>2, <2>3
<1>4. CASE f.kind # "emit"
  <2>1. GivingOK(g, ids, nested)  BY <1>1, <1>4 DEF FrameOK, GivingOK
  <2> QED  BY <1>1, <1>4, <2>1 DEF FrameOK
<1> QED  BY <1>3, <1>4 DEF new

\* What is left when frames keep all but their marks and the calls of emit move on.
LEMMA NewFrames ==
  ASSUME IInv, stack' \in Seq(Frame), Len(stack') <= Len(stack), FramesOK',
         \A i \in 1 .. Len(stack') :
            /\ stack'[i].kind = stack[i].kind
            /\ stack[i].kind = "on" =>
                  stack'[i].event = stack[i].event /\ stack'[i].handler = stack[i].handler,
         eventHandlers' \in [Events -> Seq(Handler)],
         Distinct(eventHandlers'), IdsMatch(eventHandlers', idOf),
         removed' \subseteq Calls, RemovedShares',
         UNCHANGED <<pendingEvents, handlerId, idOf, nestedIn, emitted, delivered>>
  PROVE  IInv'
<1>0. Types /\ Counted  BY DEF IInv
<1>1. Len(stack') \in Nat /\ Len(stack) \in Nat /\ Len(stack') <= MaxDepth
  <2>1. Len(stack') \in Nat  BY LenProperties
  <2> QED  BY <1>0, <2>1, TypesAre, BoundsAssumption DEF Types
<1>2. Types' /\ Counted'  BY <1>0, <1>1 DEF Types, Counted
<1>3. \A i \in 1 .. Len(stack') : i \in 1 .. Len(stack)  BY <1>1
<1>4. KeptMayGo'
  <2> SUFFICES ASSUME NEW i \in 1 .. Len(stack'), stack'[i].kind = "on",
                      pendingEvents[stack'[i].event] # None
               PROVE  \/ pendingEvents[stack'[i].event] \in delivered
                      \/ emitted[pendingEvents[stack'[i].event]].inner
    BY DEF KeptMayGo
  <2> QED  BY <1>3 DEF IInv, KeptMayGo
<1>5. GivingInOrder'  BY <1>3 DEF IInv, GivingInOrder
<1>6. IdsUniqueUnlessNested' /\ NoEventForgotten'
  BY DEF IInv, IdsUniqueUnlessNested, NoEventForgotten
<1> QED  BY <1>2, <1>4, <1>5, <1>6 DEF IInv

LEMMA RemoveHandlerInd ==
  ASSUME IInv, NEW n \in Calls, RemoveHandler(n)
  PROVE  IInv'
<1>0. /\ Types /\ Counted /\ eventHandlers \in [Events -> Seq(Handler)] /\ stack \in Seq(Frame)
      /\ Distinct(eventHandlers) /\ IdsMatch(eventHandlers, idOf)
  BY DEF IInv, Types
<1>1. /\ Returned(n, idOf) /\ n \notin removed /\ removed' = removed \cup {n}
      /\ removed' \subseteq Calls
      /\ UNCHANGED <<pendingEvents, handlerId, idOf, nestedIn, emitted, delivered>>
  BY <1>0, TypesAre DEF RemoveHandler, Returned, Types
<1>2. CASE /\ \A e \in Events : {i \in DOMAIN eventHandlers[e] : eventHandlers[e][i].id = idOf[n]} = {}
           /\ UNCHANGED <<eventHandlers, stack>>
  <2>1. ~Registered(n, eventHandlers)
    <3> SUFFICES ASSUME NEW e \in Events, NEW i \in 1 .. Len(eventHandlers[e]),
                        eventHandlers[e][i].name = n
                 PROVE  FALSE
      BY DEF Registered
    <3>1. eventHandlers[e][i].id = idOf[n]  BY <1>0 DEF IdsMatch
    <3>2. i \in DOMAIN eventHandlers[e]  BY <1>0, LenProperties
    <3> QED  BY <1>2, <3>1, <3>2
  <2>2. RemovedShares'  BY <1>1, <1>2, <2>1 DEF IInv, RemovedShares
  <2>3. FramesOK'  BY <1>1, <1>2 DEF IInv, FramesOK
  <2>4. Len(stack') <= Len(stack)  BY <1>0, <1>2, TypesAre
  <2> QED  BY <1>0, <1>1, <1>2, <2>2, <2>3, <2>4, NewFrames
<1>3. ASSUME NEW e \in Events, NEW i \in 1 .. Len(eventHandlers[e]),
             eventHandlers[e][i].id = idOf[n], Splice(e, i),
             stack' = IF Emptied(e) THEN Detach(Shift(stack, e, i), e) ELSE Shift(stack, e, i)
      PROVE  IInv'
  <2> DEFINE new == [eventHandlers EXCEPT ![e] = RemoveAt(@, i)]
  <2>1. /\ new \in [Events -> Seq(Handler)] /\ Distinct(new) /\ IdsMatch(new, idOf)
        /\ \A m : Registered(m, new) =>
               Registered(m, eventHandlers) /\ m # eventHandlers[e][i].name
    BY <1>0, RemovalIs
  <2>2. eventHandlers' = new  BY <1>3 DEF Splice
  <2>3. Len(eventHandlers[e]) \in Nat /\ i \in Nat /\ (Emptied(e) => i = 1)
    <3> DEFINE length == Len(eventHandlers[e])
    <3>1. length \in Nat /\ i \in 1 .. length  BY <1>0, TypesAre
    <3>2. Emptied(e) => length = 1  BY DEF Emptied
    <3> HIDE DEF length, new
    <3>3. i \in Nat /\ (length = 1 => i = 1)  BY <3>1
    <3> QED  BY <3>1, <3>2, <3>3 DEF length
  <2>4. /\ stack' \in Seq(Frame) /\ Len(stack') = Len(stack)
        /\ \A j \in 1 .. Len(stack) :
              LET f == stack[j]
                  g == stack'[j]
              IN /\ f \in Frame /\ SameWalk(f, g)
                 /\ g.shifted = (f.shifted \/ (f.event = e /\ f.attached /\ i <= f.index))
                 /\ g.attached = (f.attached /\ ~(Emptied(e) /\ f.event = e))
    <3> DEFINE shifted == Shift(stack, e, i)
    <3>1. /\ shifted \in Seq(Frame) /\ Len(shifted) = Len(stack)
          /\ \A j \in 1 .. Len(stack) :
                LET f == stack[j]
                    g == shifted[j]
                IN /\ f \in Frame /\ g \in Frame
                   /\ SameWalk(f, g) /\ g.attached = f.attached
                   /\ g.shifted = (f.shifted \/ (f.event = e /\ f.attached /\ i <= f.index))
      BY <1>0, <2>3, ShiftIs
    <3> HIDE DEF shifted
    <3>2. CASE ~Emptied(e)
      <4>1. stack' = shifted  BY <1>3, <3>2 DEF shifted
      <4> QED  BY <3>1, <3>2, <4>1 DEF Frame
    <3>3. CASE Emptied(e)
      <4>1. stack' = Detach(shifted, e)  BY <1>3, <3>3 DEF shifted
      <4>2. /\ stack' \in Seq(Frame) /\ Len(stack') = Len(shifted)
            /\ \A j \in 1 .. Len(shifted) :
                  LET f == shifted[j]
                      g == stack'[j]
                  IN /\ SameWalk(f, g) /\ g.shifted = f.shifted
                     /\ g.attached = (f.attached /\ f.event # e)
        BY <3>1, <4>1, DetachIs
      <4> QED  BY <3>1, <3>3, <4>2 DEF SameWalk
    <3> QED  BY <3>2, <3>3
  <2>5. ASSUME NEW j \in 1 .. Len(stack')
        PROVE  FrameOK(stack'[j], new, idOf, nestedIn)
    <3> DEFINE f == stack[j]
               g == stack'[j]
    <3>1. /\ f \in Frame /\ FrameOK(f, eventHandlers, idOf, nestedIn) /\ SameWalk(f, g)
          /\ g.shifted = (f.shifted \/ (f.event = e /\ f.attached /\ i <= f.index))
          /\ g.attached = (f.attached /\ ~(Emptied(e) /\ f.event = e))
      BY <2>4 DEF IInv, FramesOK
    <3>2. f.attached => f.index >= 1
      BY <3>1 DEF FrameOK, WalkOK, GivingOK
    <3> HIDE DEF f, g
    <3>3. f.attached => g.attached \/ g.shifted  BY <2>3, <3>1, <3>2
    <3>4. FrameOK(g, [eventHandlers EXCEPT ![e] = RemoveAt(@, i)], idOf, nestedIn)
      BY <1>0, <3>1, <3>3, FrameOfRemoval
    <3> QED  BY <3>4 DEF g
  <2>6. FramesOK'  BY <1>1, <2>2, <2>5 DEF FramesOK
  <2>7. RemovedShares'
    <3> SUFFICES ASSUME NEW m \in removed'
                 PROVE  /\ Returned(m, idOf)
                        /\ Registered(m, new) => \E k \in 1 .. Len(idOf) : k # m /\ idOf[k] = idOf[m]
      BY <1>1, <2>2 DEF RemovedShares
    <3>1. CASE m \in removed  BY <2>1, <3>1 DEF IInv, RemovedShares
    <3>2. CASE m = n
      <4> DEFINE q == eventHandlers[e][i].name
      <4>1. q \in 1 .. Len(idOf) /\ idOf[q] = idOf[n]  BY <1>0, <1>3 DEF IdsMatch, Returned
      <4>2. Registered(n, new) => n # q  BY <2>1
      <4> QED  BY <1>1, <3>2, <4>1, <4>2
    <3> QED  BY <1>1, <3>1, <3>2
  <2>8. Len(stack') <= Len(stack)  BY <1>0, <2>4, TypesAre
  <2>9. \A j \in 1 .. Len(stack') :
            /\ stack'[j].kind = stack[j].kind
            /\ stack'[j].event = stack[j].event /\ stack'[j].handler = stack[j].handler
    BY <2>4 DEF SameWalk
  <2> HIDE DEF new
  <2> QED  BY <1>1, <2>1, <2>2, <2>4, <2>6, <2>7, <2>8, <2>9, NewFrames
<1>4. \A e \in Events : DOMAIN eventHandlers[e] = 1 .. Len(eventHandlers[e])
  BY <1>0, LenProperties
<1> QED  BY <1>2, <1>3, <1>4 DEF RemoveHandler

-----------------------------------------------------------------------------
(* The end of a call of emit *)

LEMMA WalkAdvances ==
  ASSUME NEW f \in Frame, f.kind = "emit", f.attached,
         NEW arrays \in [Events -> Seq(Handler)], NEW ids, NEW nested,
         Distinct(arrays), IdsMatch(arrays, ids), FrameOK(f, arrays, ids, nested),
         f.index + 1 <= f.length, f.index + 1 <= Len(arrays[f.event])
  PROVE  LET next == arrays[f.event][f.index + 1]
             w == [f EXCEPT !.index = f.index + 1, !.handler = next,
                            !.called = Append(@, next.name)]
         IN w \in Frame /\ w.kind = "emit" /\ FrameOK(w, arrays, ids, nested)
<1> DEFINE arr == arrays[f.event]
           k == f.index + 1
           next == arr[k]
           w == [f EXCEPT !.index = k, !.handler = next, !.called = Append(@, next.name)]
<1>1. f.event \in Events /\ f.index \in Nat /\ f.called \in Seq(Calls)  BY DEF Frame
<1>2. arr \in Seq(Handler) /\ Len(arr) \in Nat  BY <1>1, LenProperties
<1>3. k \in 1 .. Len(arr) /\ next \in Handler /\ next.name \in Calls
  <2>1. k \in 1 .. Len(arr)  BY <1>1, <1>2
  <2>2. next \in Handler  BY <1>2, <2>1, ElementOfSeq
  <2> QED  BY <2>1, <2>2 DEF Handler
<1>4. WalkOK(f, arr, ids) /\ IsInjective(f.called)  BY DEF FrameOK
<1>5. next.name \notin ToSet(f.called)  BY <1>1, <1>3, <1>4 DEF WalkOK, Ahead
<1>6. /\ Append(f.called, next.name) \in Seq(Calls)
      /\ ToSet(Append(f.called, next.name)) = ToSet(f.called) \cup {next.name}
      /\ IsInjective(Append(f.called, next.name))
  <2> DEFINE name == next.name
  <2>1. name \in Calls /\ name \notin ToSet(f.called)  BY <1>3, <1>5
  <2> HIDE DEF name
  <2>2. /\ Append(f.called, name) \in Seq(Calls)
        /\ ToSet(Append(f.called, name)) = ToSet(f.called) \cup {name}
        /\ IsInjective(Append(f.called, name))
    BY <1>1, <1>4, <2>1, AppendNew, AppendProperties
  <2> QED  BY <2>2 DEF name
<1>7. /\ w \in Frame /\ w.kind = "emit" /\ w.event = f.event /\ w.index = k
      /\ w.length = f.length /\ w.attached /\ w.start = f.start /\ w.shifted = f.shifted
      /\ w.called = Append(f.called, next.name)
  <2> DEFINE calls == Append(f.called, next.name)
  <2>1. calls \in Seq(Calls) /\ next \in Handler /\ k \in Nat  BY <1>1, <1>3, <1>6
  <2>2. w = [f EXCEPT !.index = k, !.handler = next, !.called = calls]  OBVIOUS
  <2> HIDE DEF calls, next, k, w
  <2>3. /\ w \in Frame /\ w.kind = "emit" /\ w.event = f.event /\ w.index = k
        /\ w.length = f.length /\ w.attached /\ w.start = f.start /\ w.shifted = f.shifted
        /\ w.called = calls
    BY <2>1, <2>2 DEF Frame
  <2> QED  BY <2>3 DEF calls
<1> HIDE DEF w
<1>8. Ahead(w, arr)
  <2> SUFFICES ASSUME NEW l \in 1 .. Len(arr), l > k
               PROVE  arr[l].name \notin ToSet(f.called) \cup {next.name}
    BY <1>6, <1>7 DEF Ahead
  <2>1. arr[l].name \notin ToSet(f.called)  BY <1>1, <1>2, <1>4 DEF WalkOK, Ahead
  <2>2. arr[l].name # next.name  BY <1>1, <1>2, <1>3 DEF Distinct
  <2> QED  BY <2>1, <2>2
<1>9. Behind(f, arr) => Behind(w, arr)
  <2> SUFFICES ASSUME Behind(f, arr), NEW l \in 1 .. Len(arr), arr[l].name \in f.start
               PROVE  l <= f.length
                      /\ (l <= k => arr[l].name \in ToSet(f.called) \cup {next.name})
    BY <1>6, <1>7 DEF Behind
  <2>1. l <= f.length /\ (l <= f.index => arr[l].name \in ToSet(f.called))  BY DEF Behind
  <2>2. l <= k => l <= f.index \/ l = k  BY <1>1, <1>2
  <2> QED  BY <2>1, <2>2
<1>10. Returned(next.name, ids)  BY <1>1, <1>3 DEF IdsMatch
<1>11. WalkOK(w, arr, ids)
  <2>1. \A m \in w.start \cup ToSet(w.called) : Returned(m, ids)
    BY <1>4, <1>6, <1>7, <1>10 DEF WalkOK
  <2>2. w.index >= 1 /\ (w.shifted \/ Behind(w, arr))  BY <1>1, <1>4, <1>7, <1>9 DEF WalkOK
  <2> QED  BY <1>7, <1>8, <2>1, <2>2 DEF WalkOK
<1> QED  BY <1>6, <1>7, <1>11 DEF FrameOK, w


\* The array and the frames after a handler has returned, and before the next is called.
SplicedFrames(once, frames, arrays) ==
    /\ frames \in Seq(Frame) /\ Len(frames) = Len(stack)
    /\ \A j \in 1 .. Len(stack) :
          /\ SameWalk(stack[j], frames[j]) /\ frames[j].attached = stack[j].attached
          /\ FrameOK(frames[j], arrays, idOf, nestedIn)
    /\ arrays \in [Events -> Seq(Handler)] /\ Distinct(arrays) /\ IdsMatch(arrays, idOf)
    /\ \A m : Registered(m, arrays) => Registered(m, eventHandlers)
    /\ once \/ (frames = stack /\ arrays = eventHandlers)

LEMMA ReturnToEmitIs ==
  ASSUME IInv, ReturnToEmit
  PROVE  LET top == stack[Len(stack)] IN
         /\ Len(stack) \in Nat \ {0} /\ Top = top /\ top \in Frame /\ top.kind = "emit"
         /\ UNCHANGED <<pendingEvents, handlerId, history>>
         /\ \E frames : /\ SplicedFrames(top.handler.once, frames, eventHandlers')
                        /\ stack' = NextHandler(eventHandlers'[top.event], frames)
<1> DEFINE top == stack[Len(stack)]
           e == top.event
           splices == top.handler.once /\ top.attached /\ top.index <= Len(eventHandlers[e])
           arr == IF splices THEN RemoveAt(eventHandlers[e], top.index) ELSE eventHandlers[e]
           new == [eventHandlers EXCEPT ![e] = RemoveAt(@, top.index)]
           frames == IF splices THEN Shift(stack, e, top.index) ELSE stack
<1>0. /\ Types /\ Counted /\ eventHandlers \in [Events -> Seq(Handler)] /\ stack \in Seq(Frame)
      /\ Distinct(eventHandlers) /\ IdsMatch(eventHandlers, idOf)
      /\ \A i \in 1 .. Len(stack) :
            stack[i] \in Frame /\ FrameOK(stack[i], eventHandlers, idOf, nestedIn)
  BY TypesAre DEF IInv, Types, FramesOK
<1>1. /\ Len(stack) \in Nat \ {0} /\ Len(stack) \in 1 .. Len(stack) /\ Top = top
      /\ top \in Frame /\ top.kind = "emit"
      /\ e \in Events /\ Len(eventHandlers[e]) \in Nat /\ eventHandlers[e] \in Seq(Handler)
      /\ top.index \in Nat /\ top.index >= 1
  <2>1. stack # << >> /\ Top.kind = "emit"  BY DEF ReturnToEmit
  <2>2. Len(stack) \in Nat \ {0} /\ Len(stack) \in 1 .. Len(stack) /\ Top = top /\ top \in Frame
    BY <1>0, <2>1, TopIs
  <2>3. top.index >= 1  BY <1>0, <2>1, <2>2 DEF FrameOK, WalkOK
  <2> HIDE DEF top
  <2>4. e \in Events /\ top.index \in Nat  BY <2>2 DEF Frame
  <2> QED  BY <1>0, <2>1, <2>2, <2>3, <2>4, TypesAre
<1>2. /\ eventHandlers' = [eventHandlers EXCEPT ![e] = arr]
      /\ stack' = NextHandler(arr, frames)
      /\ UNCHANGED <<pendingEvents, handlerId, history>>
  <2> HIDE DEF top
  <2> QED  BY <1>1 DEF ReturnToEmit
<1>3. eventHandlers' = IF splices THEN new ELSE eventHandlers
  <2> HIDE DEF top
  <2> QED  BY <1>0, <1>1, <1>2
<1>4. eventHandlers'[e] = arr  BY <1>0, <1>1, <1>2
<1> HIDE DEF top
<1>5. CASE ~splices
  <2>1. \A j \in 1 .. Len(stack) : SameWalk(stack[j], stack[j])  BY DEF SameWalk
  <2>2. SplicedFrames(top.handler.once, frames, eventHandlers')
    BY <1>0, <1>3, <1>5, <2>1 DEF SplicedFrames
  <2> QED  BY <1>1, <1>2, <1>4, <2>2 DEF top
<1>6. CASE splices
  <2>1. top.index \in 1 .. Len(eventHandlers[e])  BY <1>1, <1>6
  <2> DEFINE p == top.index
  <2>2. /\ new \in [Events -> Seq(Handler)] /\ Distinct(new) /\ IdsMatch(new, idOf)
        /\ \A m : Registered(m, new) => Registered(m, eventHandlers)
    <3> HIDE DEF p
    <3> QED  BY <1>0, <1>1, <2>1, RemovalIs DEF p
  <2>3. frames = Shift(stack, e, p)  BY <1>6
  <2>4. /\ frames \in Seq(Frame) /\ Len(frames) = Len(stack)
        /\ \A j \in 1 .. Len(stack) :
              LET f == stack[j]
                  g == frames[j]
              IN /\ SameWalk(f, g) /\ g.attached = f.attached
                 /\ g.shifted = (f.shifted \/ (f.event = e /\ f.attached /\ p <= f.index))
    BY <1>0, <1>1, <2>3, ShiftIs
  <2> HIDE DEF p, e, frames
  <2>5. ASSUME NEW j \in 1 .. Len(stack)
        PROVE  FrameOK(frames[j], [eventHandlers EXCEPT ![e] = RemoveAt(@, p)], idOf, nestedIn)
    <3> DEFINE f == stack[j]
               g == frames[j]
    <3>1. /\ f \in Frame /\ FrameOK(f, eventHandlers, idOf, nestedIn) /\ SameWalk(f, g)
          /\ g.shifted = (f.shifted \/ (f.event = e /\ f.attached /\ p <= f.index))
          /\ g.attached = f.attached
      BY <1>0, <2>4
    <3> HIDE DEF f, g
    <3>2. p \in 1 .. Len(eventHandlers[e])  BY <2>1 DEF p
    <3>3. FrameOK(g, [eventHandlers EXCEPT ![e] = RemoveAt(@, p)], idOf, nestedIn)
      BY <1>0, <1>1, <3>1, <3>2, FrameOfRemoval
    <3> QED  BY <3>3 DEF g
  <2>6. eventHandlers' = [eventHandlers EXCEPT ![e] = RemoveAt(@, p)]  BY <1>3, <1>6 DEF p
  <2>7. SplicedFrames(top.handler.once, frames, eventHandlers')
    BY <1>3, <1>6, <2>2, <2>4, <2>5, <2>6 DEF SplicedFrames
  <2> QED  BY <1>1, <1>2, <1>4, <2>7 DEF top, frames, e
<1> QED  BY <1>5, <1>6

LEMMA ReturnToEmitInd ==
  ASSUME IInv, ReturnToEmit
  PROVE  IInv'
<1> DEFINE top == stack[Len(stack)]
           last == Len(stack)
           arr == eventHandlers'[top.event]
           k == top.index + 1
<1>0. /\ Len(stack) \in Nat \ {0} /\ Top = top /\ top \in Frame /\ top.kind = "emit"
      /\ UNCHANGED <<pendingEvents, handlerId, history>>
  BY ReturnToEmitIs
<1>1. PICK frames : /\ SplicedFrames(top.handler.once, frames, eventHandlers')
                    /\ stack' = NextHandler(arr, frames)
  BY ReturnToEmitIs
<1>2. /\ frames \in Seq(Frame) /\ Len(frames) = last /\ last \in 1 .. last
      /\ frames[last] \in Frame /\ \A j \in 1 .. last : frames[j] \in Frame
      /\ \A j \in 1 .. last :
            /\ SameWalk(stack[j], frames[j]) /\ frames[j].attached = stack[j].attached
            /\ FrameOK(frames[j], eventHandlers', idOf, nestedIn)
      /\ eventHandlers' \in [Events -> Seq(Handler)] /\ Distinct(eventHandlers')
      /\ IdsMatch(eventHandlers', idOf)
      /\ \A m : Registered(m, eventHandlers') => Registered(m, eventHandlers)
  BY <1>0, <1>1, ElementOfSeq DEF SplicedFrames
<1>3. /\ stack' \in Seq(Frame) /\ Len(stack') <= last /\ Len(stack') \in Nat
      /\ \A j \in 1 .. Len(stack') :
            /\ j \in 1 .. last
            /\ stack'[j].kind = stack[j].kind
            /\ stack[j].kind = "on" =>
                  stack'[j].event = stack[j].event /\ stack'[j].handler = stack[j].handler
            /\ FrameOK(stack'[j], eventHandlers', idOf, nestedIn)
  <2>1. CASE top.attached /\ k <= top.length /\ k <= Len(arr)
    <3> DEFINE f == frames[last]
               w == [f EXCEPT !.index = k, !.handler = arr[k], !.called = Append(@, arr[k].name)]
    <3>1. /\ f \in Frame /\ f.kind = "emit" /\ f.attached /\ f.event = top.event
          /\ f.index = top.index /\ f.length = top.length
          /\ FrameOK(f, eventHandlers', idOf, nestedIn)
      BY <1>0, <1>2, <2>1 DEF SameWalk
    <3>2. w \in Frame /\ w.kind = "emit" /\ FrameOK(w, eventHandlers', idOf, nestedIn)
      <4> HIDE DEF f, top
      <4>1. f.index + 1 <= f.length /\ f.index + 1 <= Len(eventHandlers'[f.event])
        BY <2>1, <3>1
      <4> DEFINE next == eventHandlers'[f.event][f.index + 1]
                 v == [f EXCEPT !.index = f.index + 1, !.handler = next,
                                !.called = Append(@, next.name)]
      <4>2. v \in Frame /\ v.kind = "emit" /\ FrameOK(v, eventHandlers', idOf, nestedIn)
        BY <1>2, <3>1, <4>1, WalkAdvances
      <4>3. w = v  BY <3>1
      <4> QED  BY <4>2, <4>3
    <3>3. stack' = [frames EXCEPT ![last] = w]
      <4>1. stack' = [frames EXCEPT ![last].index = k, ![last].handler = arr[k],
                                    ![last].called = Append(@, arr[k].name)]
        <5> HIDE DEF top
        <5> QED  BY <1>0, <1>1, <2>1 DEF NextHandler
      <4>2. last \in DOMAIN frames  BY <1>2, LenProperties
      <4> HIDE DEF top, k, arr
      <4> QED  BY <1>2, <4>1, <4>2 DEF Frame
    <3> HIDE DEF w
    <3>4. /\ stack' \in Seq(Frame) /\ Len(stack') = last
          /\ \A j \in 1 .. last : stack'[j] = IF j = last THEN w ELSE frames[j]
      BY <1>2, <3>2, <3>3, ExceptSeq
    <3> QED  BY <1>0, <1>2, <3>2, <3>4 DEF SameWalk
  <2>2. CASE ~(top.attached /\ k <= top.length /\ k <= Len(arr))
    <3>1. stack' = Front(frames)
      <4> HIDE DEF top
      <4> QED  BY <1>0, <1>1, <2>2 DEF NextHandler
    <3>2. frames # << >>  BY <1>0, <1>2, EmptySeq
    <3>3. /\ stack' \in Seq(Frame) /\ Len(stack') = last - 1
          /\ \A j \in 1 .. last - 1 : stack'[j] = frames[j]
      BY <1>2, <3>1, <3>2, FrontIs
    <3>4. last \in Nat /\ \A j \in 1 .. last - 1 : j \in 1 .. last /\ j # last
      <4>1. last \in Nat  BY <1>0
      <4> HIDE DEF last
      <4> QED  BY <4>1
    <3>5. \A j \in 1 .. last : SameWalk(stack[j], frames[j]) /\ frames[j].attached = stack[j].attached
                               /\ FrameOK(frames[j], eventHandlers', idOf, nestedIn)
      BY <1>2
    <3>6. Len(stack') <= last /\ Len(stack') \in Nat  BY <3>3, <3>4
    <3>7. ASSUME NEW j \in 1 .. Len(stack')
          PROVE  /\ j \in 1 .. last
                 /\ stack'[j].kind = stack[j].kind
                 /\ stack'[j].event = stack[j].event /\ stack'[j].handler = stack[j].handler
                 /\ FrameOK(stack'[j], eventHandlers', idOf, nestedIn)
      <4>1. j \in 1 .. last - 1  BY <3>3
      <4>2. j \in 1 .. last /\ stack'[j] = frames[j]  BY <3>3, <3>4, <4>1
      <4> QED  BY <3>5, <4>2 DEF SameWalk
    <3> QED  BY <3>3, <3>6, <3>7
  <2> QED  BY <2>1, <2>2
<1>4. UNCHANGED <<idOf, nestedIn, emitted, delivered, removed>>  BY <1>0 DEF history
<1>5. FramesOK'  BY <1>3, <1>4 DEF FramesOK
<1>6. RemovedShares'  BY <1>2, <1>4 DEF IInv, RemovedShares
<1>7. removed \subseteq Calls  BY DEF IInv, Types
<1> HIDE DEF top
<1> QED  BY <1>0, <1>2, <1>3, <1>4, <1>5, <1>6, <1>7, NewFrames

-----------------------------------------------------------------------------
(* The invariant *)

LEMMA InitIInv == Init => IInv
<1> SUFFICES ASSUME Init PROVE IInv  OBVIOUS
<1>1. /\ Len(stack) = 0 /\ Len(idOf) = 0 /\ Len(nestedIn) = 0 /\ Len(emitted) = 0
      /\ stack = << >> /\ idOf = << >> /\ nestedIn = << >> /\ emitted = << >>
      /\ handlerId = 0 /\ removed = {} /\ delivered = {}
      /\ DOMAIN idOf = {} /\ DOMAIN emitted = {}
      /\ eventHandlers \in [Events -> Seq(Handler)]
      /\ \A e \in Events : Len(eventHandlers[e]) = 0
      /\ pendingEvents \in [Events -> Nat] /\ \A e \in Events : pendingEvents[e] = 0
  BY DEF Init, None
<1>2. Types /\ Counted
  <2>1. Types  BY <1>1, BoundsAssumption DEF Types
  <2>2. Counted  BY <1>1, BoundsAssumption DEF Counted
  <2> QED  BY <2>1, <2>2
<1>3. Distinct(eventHandlers) /\ IdsMatch(eventHandlers, idOf)
  BY <1>1 DEF Distinct, IdsMatch
<1>4. FramesOK /\ KeptMayGo /\ GivingInOrder
  BY <1>1 DEF FramesOK, KeptMayGo, GivingInOrder
<1>5. RemovedShares /\ IdsUniqueUnlessNested /\ NoEventForgotten
  BY <1>1 DEF RemovedShares, IdsUniqueUnlessNested, NoEventForgotten
<1> QED  BY <1>2, <1>3, <1>4, <1>5 DEF IInv

LEMMA NextIInv == IInv /\ [Next]_vars => IInv'
<1> SUFFICES ASSUME IInv, [Next]_vars PROVE IInv'  OBVIOUS
<1>1. CASE \E e \in Events : Emit(e)  BY <1>1, EmitInd
<1>2. CASE \E e \in Events : \E once \in BOOLEAN : On(e, once)  BY <1>2, OnInd
<1>3. CASE \E n \in Calls : RemoveHandler(n)  BY <1>3, RemoveHandlerInd
<1>4. CASE ReturnToOn  BY <1>4, ReturnToOnInd
<1>5. CASE ReturnToEmit  BY <1>5, ReturnToEmitInd
<1>6. CASE UNCHANGED vars
  <2>1. UNCHANGED <<eventHandlers, pendingEvents, handlerId, stack, idOf, nestedIn, emitted,
                    delivered, removed>>
    BY <1>6 DEF vars, bus, history
  <2>2. FramesOK' /\ RemovedShares'  BY <2>1 DEF IInv, FramesOK, RemovedShares
  <2>3. stack \in Seq(Frame) /\ Len(stack) \in Nat /\ removed \subseteq Calls
        /\ eventHandlers \in [Events -> Seq(Handler)]
        /\ Distinct(eventHandlers) /\ IdsMatch(eventHandlers, idOf)
    BY TypesAre DEF IInv, Types
  <2> QED  BY <2>1, <2>2, <2>3, NewFrames
<1> QED  BY <1>1, <1>2, <1>3, <1>4, <1>5, <1>6 DEF Next

\* The invariant of the bus, for every number of events, handlers and emissions.
THEOREM Inductive == Spec => []IInv
BY InitIInv, NextIInv, PTL DEF Spec

\* Ids, emissions and indices stay in their ranges.
THEOREM TypeCorrect == Spec => []TypeOK
<1>1. IInv => TypeOK
  <2> SUFFICES ASSUME IInv PROVE TypeOK  OBVIOUS
  <2>0. Types /\ Counted  BY DEF IInv
  <2>1. pendingEvents \in [Events -> {None} \cup Emissions] /\ handlerId \in 0 .. MaxHandlers
    BY <2>0, TypesAre, BoundsAssumption DEF Types, Counted, Emissions, None
  <2>2. idOf \in Seq({None} \cup Calls)
    <3>1. \A n \in 1 .. Len(idOf) : idOf[n] \in {None} \cup Calls
      BY <2>0, TypesAre, BoundsAssumption DEF Counted, Calls, None
    <3>2. idOf \in [1 .. Len(idOf) -> Nat]  BY <2>0, LenProperties DEF Types
    <3>3. idOf \in [1 .. Len(idOf) -> {None} \cup Calls]  BY <3>1, <3>2
    <3> QED  BY <2>0, <3>3, TypesAre, SeqDef
  <2>3. removed \subseteq DOMAIN idOf
    BY <2>0, TypesAre DEF IInv, RemovedShares, Returned
  <2>4. ASSUME NEW i \in DOMAIN stack
        PROVE  /\ stack[i].kind \in {"emit", "on"} /\ stack[i].event \in Events
               /\ stack[i].handler \in Handler /\ stack[i].emission \in Emissions
               /\ stack[i].index <= stack[i].length
    <3>1. stack[i] \in Frame /\ stack[i].index <= stack[i].length
      BY <2>0, TypesAre DEF IInv, FramesOK, FrameOK
    <3> QED  BY <3>1 DEF Frame
  <2> QED  BY <2>0, <2>1, <2>2, <2>3, <2>4 DEF Types, TypeOK
<1> QED  BY <1>1, Inductive, PTL

\* No emission calls a handler twice, whatever its handlers do to the array: forEach
\* goes on at the index after the last, and a removal only moves handlers forward.
THEOREM AtMostOnce == Spec => []CalledAtMostOnce
<1>1. IInv => CalledAtMostOnce
  BY TypesAre DEF IInv, FramesOK, FrameOK, CalledAtMostOnce
<1> QED  BY <1>1, Inductive, PTL

\* Two handlers have one id only if one of them was registered by code that ran while
\* on gave the other a kept event.
THEOREM IdsAreUnique == Spec => []IdsUniqueUnlessNested
<1>1. IInv => IdsUniqueUnlessNested  BY DEF IInv
<1> QED  BY <1>1, Inductive, PTL

\* emit and on together forget no event, but for those emitted while a handler is given
\* a kept event of the kind, and those that a later one replaces.
THEOREM NothingForgotten == Spec => []NoEventForgotten
<1>1. IInv => NoEventForgotten  BY DEF IInv
<1> QED  BY <1>1, Inductive, PTL

-----------------------------------------------------------------------------
(* What a step may not do *)

LEMMA RemoveHandlerKeeps ==
  ASSUME IInv, NEW n \in Calls, RemoveHandler(n)
  PROVE  Len(stack') = Len(stack) /\ \A j \in 1 .. Len(stack) : SameWalk(stack[j], stack'[j])
<1>0. /\ Types /\ Counted /\ stack \in Seq(Frame) /\ eventHandlers \in [Events -> Seq(Handler)]
  BY DEF IInv, Types
<1>1. CASE UNCHANGED stack  BY <1>1 DEF SameWalk
<1>2. CASE \E e \in Events : \E i \in DOMAIN eventHandlers[e] :
              stack' = IF Emptied(e) THEN Detach(Shift(stack, e, i), e) ELSE Shift(stack, e, i)
  <2>0. PICK e \in Events : \E i \in DOMAIN eventHandlers[e] :
              stack' = IF Emptied(e) THEN Detach(Shift(stack, e, i), e) ELSE Shift(stack, e, i)
    BY <1>2
  <2>1. PICK i \in DOMAIN eventHandlers[e] :
              stack' = IF Emptied(e) THEN Detach(Shift(stack, e, i), e) ELSE Shift(stack, e, i)
    BY <2>0
  <2>2. i \in Nat
    <3>1. eventHandlers[e] \in Seq(Handler)  BY <1>0
    <3>2. DOMAIN eventHandlers[e] = 1 .. Len(eventHandlers[e])  BY <3>1, LenProperties
    <3> QED  BY <2>1, <3>2
  <2> DEFINE shifted == Shift(stack, e, i)
  <2>3. /\ shifted \in Seq(Frame) /\ Len(shifted) = Len(stack)
        /\ \A j \in 1 .. Len(stack) : SameWalk(stack[j], shifted[j])
    BY <1>0, <2>2, ShiftIs
  <2>4. stack' = IF Emptied(e) THEN Detach(shifted, e) ELSE shifted  BY <2>1
  <2> HIDE DEF shifted
  <2>5. /\ Len(Detach(shifted, e)) = Len(shifted)
        /\ \A j \in 1 .. Len(shifted) : SameWalk(shifted[j], Detach(shifted, e)[j])
    BY <2>3, DetachIs
  <2> QED  BY <2>3, <2>4, <2>5 DEF SameWalk
<1> QED  BY <1>1, <1>2 DEF RemoveHandler

\* A handler that returns to emit: the frames that are left, and who is called next.
LEMMA ReturnToEmitStep ==
  ASSUME IInv, ReturnToEmit
  PROVE  LET top == stack[Len(stack)]
             arr == eventHandlers'[top.event]
             k == top.index + 1
         IN IF top.attached /\ k <= top.length /\ k <= Len(arr)
            THEN /\ Len(stack') = Len(stack) /\ stack'[Len(stack)].handler = arr[k]
                 /\ k \in 1 .. Len(arr)
            ELSE Len(stack') = Len(stack) - 1
<1> DEFINE top == stack[Len(stack)]
           last == Len(stack)
           arr == eventHandlers'[top.event]
           k == top.index + 1
<1>0. Len(stack) \in Nat \ {0} /\ Top = top /\ top \in Frame
  BY ReturnToEmitIs
<1>1. PICK frames : /\ SplicedFrames(top.handler.once, frames, eventHandlers')
                    /\ stack' = NextHandler(arr, frames)
  BY ReturnToEmitIs
<1>2. /\ frames \in Seq(Frame) /\ Len(frames) = last /\ last \in 1 .. last
      /\ frames[last] \in Frame /\ DOMAIN frames = 1 .. last
      /\ eventHandlers' \in [Events -> Seq(Handler)]
  BY <1>0, <1>1, ElementOfSeq, LenProperties DEF SplicedFrames
<1>3. CASE top.attached /\ k <= top.length /\ k <= Len(arr)
  <2>1. stack' = [frames EXCEPT ![last].index = k, ![last].handler = arr[k],
                                ![last].called = Append(@, arr[k].name)]
    <3> HIDE DEF top
    <3> QED  BY <1>0, <1>1, <1>3 DEF NextHandler
  <2>2. top.index \in Nat  BY <1>0 DEF Frame
  <2> HIDE DEF top, k, arr
  <2>3. stack'[last].handler = arr[k]  BY <1>2, <2>1 DEF Frame
  <2>4. Len(stack') = last
    <3>1. DOMAIN stack' = DOMAIN frames  BY <2>1
    <3> DEFINE w == [frames[last] EXCEPT !.index = k, !.handler = arr[k],
                                         !.called = Append(@, arr[k].name)]
    <3>2. stack' = [frames EXCEPT ![last] = w]  BY <1>2, <2>1 DEF Frame
    <3> HIDE DEF w
    <3> QED  BY <1>2, <3>2
  <2>5. k \in 1 .. Len(arr)
    <3>1. top.event \in Events  BY <1>0 DEF top, Frame
    <3>2. Len(arr) \in Nat  BY <1>2, <3>1, LenProperties DEF arr
    <3> QED  BY <1>3, <2>2, <3>2 DEF k
  <2> QED  BY <1>3, <2>3, <2>4, <2>5 DEF top, k, arr
<1>4. CASE ~(top.attached /\ k <= top.length /\ k <= Len(arr))
  <2>1. stack' = Front(frames)
    <3> HIDE DEF top
    <3> QED  BY <1>0, <1>1, <1>4 DEF NextHandler
  <2>2. frames # << >>  BY <1>0, <1>2, EmptySeq
  <2> QED  BY <1>2, <1>4, <2>1, <2>2, FrontIs
<1> QED  BY <1>3, <1>4

LEMMA NextSkips ==
  IInv /\ [Next]_vars =>
    [stack # << >> /\ Top.kind = "emit" /\ Len(stack') < Len(stack) =>
        \/ Top.shifted \/ Top.handler.once
        \/ \A h \in ToSet(eventHandlers[Top.event]) :
              h.name \in Top.start => h.name \in ToSet(Top.called)]_vars
<1> SUFFICES ASSUME IInv, [Next]_vars, stack # << >>, Top.kind = "emit",
                    Len(stack') < Len(stack), ~Top.shifted, ~Top.handler.once,
                    NEW h \in ToSet(eventHandlers[Top.event]), h.name \in Top.start
             PROVE  h.name \in ToSet(Top.called)
  OBVIOUS
<1> DEFINE top == stack[Len(stack)]
           arr == eventHandlers[top.event]
           k == top.index + 1
<1>0. /\ Types /\ Counted /\ stack \in Seq(Frame) /\ eventHandlers \in [Events -> Seq(Handler)]
      /\ Len(stack) \in Nat \ {0} /\ Top = top /\ top \in Frame
      /\ FrameOK(top, eventHandlers, idOf, nestedIn)
  BY TopIs DEF IInv, Types, FramesOK
<1>1. ReturnToEmit
  <2>1. ASSUME NEW e \in Events, Emit(e) PROVE Len(stack') >= Len(stack)
    BY <1>0, <2>1, AppendProperties DEF Emit, Deliver, Keep
  <2>2. ASSUME NEW e \in Events, NEW once \in BOOLEAN, On(e, once)
        PROVE  Len(stack') >= Len(stack)
    BY <1>0, <2>2, AppendProperties DEF On, OnAs, Give
  <2>3. ASSUME NEW n \in Calls, RemoveHandler(n) PROVE Len(stack') >= Len(stack)
    BY <1>0, <2>3, RemoveHandlerKeeps
  <2>4. ~ReturnToOn  BY DEF ReturnToOn
  <2>5. ~UNCHANGED vars  BY <1>0 DEF vars
  <2> QED  BY <1>0, <2>1, <2>2, <2>3, <2>4, <2>5 DEF Next
<1>2. PICK frames : SplicedFrames(top.handler.once, frames, eventHandlers')
  BY <1>1, ReturnToEmitIs
<1>3. eventHandlers' = eventHandlers  BY <1>0, <1>2 DEF SplicedFrames
<1>4. top.attached /\ Behind(top, arr)  BY <1>0 DEF FrameOK, WalkOK
<1>5. ~(k <= top.length /\ k <= Len(arr))
  <2>1. Len(stack') # Len(stack)  BY <1>0
  <2>2. IF top.attached /\ k <= top.length /\ k <= Len(arr)
        THEN Len(stack') = Len(stack) ELSE Len(stack') = Len(stack) - 1
    BY <1>1, <1>3, ReturnToEmitStep
  <2> QED  BY <1>4, <2>1, <2>2
<1>6. top.event \in Events /\ top.index \in Nat /\ top.length \in Nat  BY <1>0 DEF Frame
<1>7. arr \in Seq(Handler) /\ Len(arr) \in Nat  BY <1>0, <1>6, LenProperties
<1>8. PICK j \in 1 .. Len(arr) : h = arr[j]  BY <1>0, <1>7, ToSetIs
<1>9. j <= top.length /\ (j <= top.index => arr[j].name \in ToSet(top.called))
  BY <1>0, <1>4, <1>8 DEF Behind
<1> HIDE DEF top, arr
<1>10. j <= top.index  BY <1>5, <1>6, <1>7, <1>9
<1> QED  BY <1>0, <1>8, <1>9, <1>10

\* An emission passes over a handler only after one at or before the handler that it
\* was calling was removed: a long walk of nested calls removes none unseen.
THEOREM SkipsFollowRemovals == Spec => SkipsOnlyAfterRemoval
<1>1. IInv /\ [Next]_vars =>
        [stack # << >> /\ Top.kind = "emit" /\ Len(stack') < Len(stack) =>
            \/ Top.shifted \/ Top.handler.once
            \/ \A h \in ToSet(eventHandlers[Top.event]) :
                  h.name \in Top.start => h.name \in ToSet(Top.called)]_vars
  BY NextSkips
<1> QED  BY <1>1, Inductive, PTL DEF Spec, SkipsOnlyAfterRemoval

\* Who is called is registered, or is the handler that on registers.
LEMMA CalledIsRegistered ==
  ASSUME IInv, [Next]_vars, NEW n \in 1 .. Len(idOf), IsCalled(n)
  PROVE  Registered(n, eventHandlers)
<1>0. /\ Types /\ Counted /\ stack \in Seq(Frame) /\ Len(stack) \in Nat /\ Len(idOf) \in Nat
      /\ eventHandlers \in [Events -> Seq(Handler)]
      /\ \A e \in Events : Len(eventHandlers[e]) \in Nat
      /\ \A j \in 1 .. Len(stack) : stack[j] \in Frame
  BY TypesAre DEF IInv, Types
<1>1. CASE \E e \in Events : Emit(e)
  <2>1. PICK e \in Events : Emit(e)  BY <1>1
  <2>2. CASE eventHandlers[e] # << >>
    <3> DEFINE w == Walk(e, Len(eventHandlers[e]))
    <3>1. stack' = Append(stack, w)  BY <2>1, <2>2 DEF Emit, Deliver
    <3>2. w.handler = eventHandlers[e][1]  BY DEF Walk
    <3> HIDE DEF w
    <3>3. Last(stack') = w  BY <1>0, <3>1 DEF Last
    <3>4. eventHandlers[e] \in Seq(Handler)  BY <1>0
    <3>5. 1 \in 1 .. Len(eventHandlers[e])  BY <1>0, <2>2, <3>4, EmptySeq
    <3> QED  BY <3>2, <3>3, <3>5 DEF IsCalled, Registered
  <2>3. CASE eventHandlers[e] = << >>
    <3>1. stack' = stack  BY <2>1, <2>3 DEF Emit, Keep
    <3> QED  BY <1>0, <3>1 DEF IsCalled, Top
  <2> QED  BY <2>2, <2>3
<1>2. CASE \E e \in Events : \E once \in BOOLEAN : On(e, once)
  <2>1. PICK e \in Events : \E once \in BOOLEAN : On(e, once)  BY <1>2
  <2>2. PICK once \in BOOLEAN : On(e, once)  BY <2>1
  <2> DEFINE handler == [name |-> Len(idOf) + 1, id |-> handlerId + 1, once |-> once]
  <2>3. CASE pendingEvents[e] # None
    <3> DEFINE w == [kind |-> "on", event |-> e, emission |-> pendingEvents[e],
                     handler |-> handler, index |-> 0, length |-> 0, attached |-> FALSE,
                     start |-> {}, called |-> <<handler.name>>, shifted |-> FALSE]
    <3>1. stack' = Append(stack, w)  BY <2>2, <2>3 DEF On, OnAs, Give
    <3>2. w.handler.name = Len(idOf) + 1  OBVIOUS
    <3> HIDE DEF w
    <3>3. Last(stack') = w  BY <1>0, <3>1 DEF Last
    <3> QED  BY <1>0, <3>2, <3>3 DEF IsCalled
  <2>4. CASE pendingEvents[e] = None
    <3>1. stack' = stack  BY <2>2, <2>4 DEF On, OnAs
    <3> QED  BY <1>0, <3>1 DEF IsCalled, Top
  <2> QED  BY <2>3, <2>4
<1>3. CASE \E m \in Calls : RemoveHandler(m)
  <2>1. PICK m \in Calls : RemoveHandler(m)  BY <1>3
  <2>2. Len(stack') = Len(stack) /\ \A j \in 1 .. Len(stack) : SameWalk(stack[j], stack'[j])
    BY <2>1, RemoveHandlerKeeps
  <2>3. Len(stack) \in 1 .. Len(stack) \/ Len(stack) = 0  BY <1>0
  <2>4. stack' \in Seq(Frame)  BY <2>1, RemoveHandlerInd DEF IInv, Types
  <2>5. stack' # << >> => Len(stack) # 0  BY <2>2, <2>4, EmptySeq
  <2> QED  BY <1>0, <2>2, <2>3, <2>5 DEF IsCalled, Top, Last, SameWalk
<1>4. CASE ReturnToOn
  <2>1. stack # << >> /\ stack' = Front(stack)  BY <1>4 DEF ReturnToOn
  <2>2. Len(stack') = Len(stack) - 1  BY <1>0, <2>1, TopIs
  <2> QED  BY <1>0, <2>2 DEF IsCalled
<1>5. CASE ReturnToEmit
  <2> DEFINE top == stack[Len(stack)]
             arr == eventHandlers'[top.event]
             k == top.index + 1
  <2>1. /\ Len(stack) \in Nat \ {0} /\ Top = top /\ top \in Frame
        /\ \A m : Registered(m, eventHandlers') => Registered(m, eventHandlers)
    BY <1>5, ReturnToEmitIs DEF SplicedFrames
  <2>2. IF top.attached /\ k <= top.length /\ k <= Len(arr)
        THEN /\ Len(stack') = Len(stack) /\ stack'[Len(stack)].handler = arr[k]
             /\ k \in 1 .. Len(arr)
        ELSE Len(stack') = Len(stack) - 1
    BY <1>5, ReturnToEmitStep
  <2>3. Len(stack') >= Len(stack)  BY <1>0 DEF IsCalled
  <2>4. Len(stack') = Len(stack) /\ stack'[Len(stack)].handler = arr[k] /\ k \in 1 .. Len(arr)
    BY <2>1, <2>2, <2>3
  <2>5. arr[k].name = n  BY <2>4 DEF IsCalled, Last
  <2>6. top.event \in Events  BY <2>1 DEF Frame
  <2>7. Registered(n, eventHandlers')  BY <2>4, <2>5, <2>6 DEF Registered
  <2> QED  BY <2>1, <2>7
<1>6. CASE UNCHANGED vars  BY <1>0, <1>6 DEF IsCalled, Top, vars
<1> QED  BY <1>1, <1>2, <1>3, <1>4, <1>5, <1>6 DEF Next

LEMMA NextRemoved ==
  IInv /\ [Next]_vars =>
    [\A n \in removed :
        IsCalled(n) => \E m \in DOMAIN idOf \ {n} : idOf[m] = idOf[n]]_vars
<1> SUFFICES ASSUME IInv, [Next]_vars, NEW n \in removed, IsCalled(n)
             PROVE  \E m \in DOMAIN idOf \ {n} : idOf[m] = idOf[n]
  OBVIOUS
<1>1. DOMAIN idOf = 1 .. Len(idOf)  BY TypesAre DEF IInv
<1>2. /\ n \in 1 .. Len(idOf)
      /\ Registered(n, eventHandlers) =>
            \E m \in 1 .. Len(idOf) : m # n /\ idOf[m] = idOf[n]
  BY DEF IInv, RemovedShares, Returned
<1>3. Registered(n, eventHandlers)  BY <1>2, CalledIsRegistered
<1> QED  BY <1>1, <1>2, <1>3

\* A handler that was asked to be removed is never called again, unless another has its
\* id: removeHandler then took that one away.
THEOREM RemovedStaysSilent == Spec => RemovedNeverCalled
<1>1. IInv /\ [Next]_vars =>
        [\A n \in removed :
            IsCalled(n) => \E m \in DOMAIN idOf \ {n} : idOf[m] = idOf[n]]_vars
  BY NextRemoved
<1> QED  BY <1>1, Inductive, PTL DEF Spec, RemovedNeverCalled

=============================================================================
