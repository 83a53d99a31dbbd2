--------------------------- MODULE SolveRelay_proofs ---------------------------
(***************************************************************************)
(* Safety of the relay of answers for any number of users, models and       *)
(* restarts, any sizes of the sink and the streams, and any models and      *)
(* answers that cannot be read.                                             *)
(***************************************************************************)
EXTENDS SolveRelay, SequenceLemmas

\* What is between the solver's queue and the streams, oldest first.
Flow == buffer \o (solutions \o models)

\* Each model is posted once and has an owner from then on.
PostedOnce ==
    /\ \A m \in Models : owner[m] \in Users <=> m <= lastModel
    /\ \A m \in posting : m <= lastModel
    /\ \A i \in 1 .. Len(sent) : sent[i] <= lastModel /\ sent[i] \notin posting

\* A stream begins with nothing shown and nothing to write, and holds answers to its
\* user only.
StreamsBeginEmpty ==
    \A u \in Users :
        /\ stream[u] \in {"none", "connecting"} => u \notin subscribed /\ shown[u] = << >>
        /\ u \notin subscribed => pipe[u] = << >>
        /\ \A i \in 1 .. Len(pipe[u]) : owner[pipe[u][i]] = u

\* What an open stream has brought and all that may still come to it are in the order
\* in which the models were sent; so is what the broker would deliver again.
InOrder ==
    /\ Follows(Flow, sent)
    /\ Follows(unacked \o (solutions \o models), sent)
    /\ \A u \in Users : u \in subscribed /\ stream[u] = "open" =>
          Follows((shown[u] \o pipe[u]) \o Flow, sent)

IInv == TypeOK /\ PostedOnce /\ StreamsBeginEmpty /\ InOrder

-----------------------------------------------------------------------------
(* The type *)

LEMMA InitTypeOK == Init => TypeOK
BY MaxModelsAssumption, SizesAssumption DEF Init, TypeOK, Models

LEMMA NextTypeOK == TypeOK /\ [Next]_vars => TypeOK'
<1> SUFFICES ASSUME TypeOK, [Next]_vars PROVE TypeOK'  OBVIOUS
<1> USE MaxModelsAssumption, SizesAssumption
    DEF TypeOK, browserVars, sinkVars, queueVars
<1>1. ASSUME NEW u \in Users, PostModel(u) PROVE TypeOK'
  <2>1. lastModel' \in Models  BY <1>1 DEF PostModel, Models
  <2>2. lastModel' \in 0 .. MaxModels  BY <1>1 DEF PostModel
  <2>3. owner' \in [Models -> Users \cup {NoUser}] /\ posting' \subseteq Models
    BY <1>1, <2>1 DEF PostModel
  <2>4. stream' \in [Users -> {"none", "connecting", "open", "ended"}]
    BY <1>1 DEF PostModel, RequestSolutionStream
  <2> QED  BY <1>1, <2>2, <2>3, <2>4 DEF PostModel
<1>2. ASSUME NEW m \in Models, LosePost(m) PROVE TypeOK'
  BY <1>2 DEF LosePost
<1>3. ASSUME NEW u \in Users, OnError(u) PROVE TypeOK'
  BY <1>3 DEF OnError
<1>4. ASSUME NEW m \in Models, HandlePost(m) PROVE TypeOK'
  <2>1. Append(models, m) \in Seq(Models) /\ Append(sent, m) \in Seq(Models)
    BY AppendProperties
  <2> QED  BY <1>4, <2>1 DEF HandlePost, Send
<1>5. ASSUME NEW u \in Users, SendSolutions(u) PROVE TypeOK'
  BY <1>5 DEF SendSolutions
<1>6. CASE ReceiveMessage
  <2>1. Head(solutions) \in Models /\ Tail(solutions) \in Seq(Models)
    BY <1>6, HeadTailProperties DEF ReceiveMessage
  <2>2. /\ Append(buffer, Head(solutions)) \in Seq(Models)
        /\ Len(Append(buffer, Head(solutions))) = Len(buffer) + 1
    BY <2>1, AppendProperties
  <2>3. <<Head(solutions)>> \in Seq(Models) /\ Len(<<Head(solutions)>>) = 1
    BY <2>1
  <2>4. Len(buffer) \in Nat  BY LenProperties
  <2>5. unacked' \in Seq(Models) /\ Len(unacked') <= 1  BY <1>6, <2>3 DEF ReceiveMessage
  <2>6. buffer' \in Seq(Models) /\ Len(buffer') <= SinkSize
    <3>1. \/ buffer' = buffer
          \/ Len(buffer) < SinkSize /\ buffer' = Append(buffer, Head(solutions))
      BY <1>6, Zenon DEF ReceiveMessage
    <3>2. CASE buffer' = buffer  BY <3>2
    <3>3. CASE Len(buffer) < SinkSize /\ buffer' = Append(buffer, Head(solutions))
      <4>1. Len(buffer') = Len(buffer) + 1  BY <2>2, <3>3
      <4>2. Len(buffer') <= SinkSize  BY <2>4, <3>3, <4>1
      <4> QED  BY <2>2, <3>3, <4>2
    <3> QED  BY <3>1, <3>2, <3>3
  <2>7. refused' \subseteq Models  BY <1>6, <2>1 DEF ReceiveMessage
  <2>8. relaying' \in BOOLEAN  BY <1>6, Zenon DEF ReceiveMessage, ParseSolution
  <2>9. solutions' \in Seq(Models)  BY <1>6, <2>1 DEF ReceiveMessage
  <2> QED  BY <1>6, <2>5, <2>6, <2>7, <2>8, <2>9 DEF ReceiveMessage
<1>7. CASE Deliver
  <2>1. Head(buffer) \in Models /\ Tail(buffer) \in Seq(Models)
        /\ Len(Tail(buffer)) = Len(buffer) - 1 /\ Len(buffer) \in Nat
    BY <1>7, HeadTailProperties, LenProperties DEF Deliver, Deliverable
  <2>2. ASSUME NEW u \in Users
        PROVE  pipe'[u] \in Seq(Models) /\ Len(pipe'[u]) <= Prefetch
    <3>1. pipe[u] \in Seq(Models) /\ Len(pipe[u]) \in Nat /\ Len(pipe[u]) <= Prefetch
      BY LenProperties
    <3>2. /\ Append(pipe[u], Head(buffer)) \in Seq(Models)
          /\ Len(Append(pipe[u], Head(buffer))) = Len(pipe[u]) + 1
      BY <2>1, <3>1, AppendProperties
    <3>3. u \in subscribed => Len(pipe[u]) < Prefetch
      BY <1>7 DEF Deliver, Deliverable
    <3> QED  BY <1>7, <3>1, <3>2, <3>3 DEF Deliver
  <2>3. pipe' \in [Users -> Seq(Models)]  BY <1>7, <2>2 DEF Deliver
  <2> QED  BY <1>7, <2>1, <2>2, <2>3 DEF Deliver
<1>8. ASSUME NEW u \in Users, OnMessage(u) PROVE TypeOK'
  <2>1. /\ Head(pipe[u]) \in Models /\ Tail(pipe[u]) \in Seq(Models)
        /\ Len(Tail(pipe[u])) = Len(pipe[u]) - 1 /\ Len(pipe[u]) \in Nat
    BY <1>8, HeadTailProperties, LenProperties DEF OnMessage
  <2>2. Append(shown[u], Head(pipe[u])) \in Seq(Models)
    BY <2>1, AppendProperties
  <2> QED  BY <1>8, <2>1, <2>2 DEF OnMessage
<1>9. ASSUME NEW u \in Users, Cancel(u) PROVE TypeOK'
  BY <1>9 DEF Cancel
<1>10. CASE LoseConnection  BY <1>10 DEF LoseConnection
<1>11. CASE Restart
  <2>1. unacked \o solutions \in Seq(Models)  BY ConcatProperties
  <2>2. << >> \in Seq(Models) /\ Len(<< >>) = 0  BY EmptySeq
  <2>3. /\ buffer' \in Seq(Models) /\ Len(buffer') <= SinkSize
        /\ unacked' \in Seq(Models) /\ Len(unacked') <= 1
    BY <1>11, <2>2 DEF Restart
  <2>4. pipe' \in [Users -> Seq(Models)] /\ \A u \in Users : Len(pipe'[u]) <= Prefetch
    BY <1>11, <2>2 DEF Restart
  <2>5. restarts' \in 0 .. MaxRestarts  BY <1>11 DEF Restart
  <2>6. solutions' = solutions \/ solutions' = unacked \o solutions
    BY <1>11, Zenon DEF Restart
  <2>7. solutions' \in Seq(Models)  BY <2>1, <2>6
  <2> QED  BY <1>11, <2>3, <2>4, <2>5, <2>7 DEF Restart
<1>12. CASE Answer
  <2>1. Head(models) \in Models /\ Tail(models) \in Seq(Models)
    BY <1>12, HeadTailProperties DEF Answer
  <2>2. Append(solutions, Head(models)) \in Seq(Models)  BY <2>1, AppendProperties
  <2> QED  BY <1>12, <2>1, <2>2 DEF Answer
<1>13. CASE UNCHANGED vars  BY <1>13 DEF vars
<1> QED
  BY <1>1, <1>2, <1>3, <1>4, <1>5, <1>6, <1>7, <1>8, <1>9, <1>10, <1>11, <1>12, <1>13
  DEF Next

-----------------------------------------------------------------------------
(* The order *)

LEMMA InitIInv == Init => IInv
<1> SUFFICES ASSUME Init PROVE IInv  OBVIOUS
<1>1. Len(<< >>) = 0 /\ << >> \in Seq(Models)  BY EmptySeq
<1>2. << >> \o << >> = << >>  BY <1>1, ConcatEmptySeq
<1>3. Follows(<< >>, << >>)  BY <1>1 DEF Follows
<1>4. TypeOK  BY InitTypeOK
<1>5. PostedOnce
  BY <1>1, MaxModelsAssumption, UsersAssumption DEF Init, PostedOnce, Models
<1>6. StreamsBeginEmpty  BY <1>1 DEF Init, StreamsBeginEmpty
<1>7. InOrder
  <2>1. Flow = << >> /\ unacked \o (solutions \o models) = << >>
    BY <1>2 DEF Init, Flow
  <2> QED  BY <1>3, <2>1 DEF Init, InOrder
<1> QED  BY <1>4, <1>5, <1>6, <1>7 DEF IInv

LEMMA NextPostedOnce == TypeOK /\ PostedOnce /\ [Next]_vars => PostedOnce'
<1> SUFFICES ASSUME TypeOK, PostedOnce, [Next]_vars PROVE PostedOnce'  OBVIOUS
<1>0. lastModel \in Nat /\ Models \subseteq Nat /\ posting \subseteq Models
      /\ owner \in [Models -> Users \cup {NoUser}] /\ sent \in Seq(Models)
      /\ \A i \in 1 .. Len(sent) : sent[i] \in Models
  BY MaxModelsAssumption, ElementOfSeq DEF TypeOK, Models
<1> USE DEF PostedOnce
<1>1. ASSUME NEW u \in Users, PostModel(u) PROVE PostedOnce'
  <2>1. /\ lastModel' = lastModel + 1
        /\ owner' = [owner EXCEPT ![lastModel + 1] = u]
        /\ posting' = posting \cup {lastModel + 1}
        /\ sent' = sent
    BY <1>1 DEF PostModel
  <2>2. \A m \in Models : owner'[m] \in Users <=> m <= lastModel'
    BY <1>0, <2>1
  <2>3. \A m \in posting' : m <= lastModel'  BY <1>0, <2>1
  <2>4. ASSUME NEW i \in 1 .. Len(sent)
        PROVE  sent[i] <= lastModel + 1 /\ sent[i] \notin posting \cup {lastModel + 1}
    <3>1. sent[i] \in Nat /\ sent[i] <= lastModel /\ sent[i] \notin posting  BY <1>0
    <3> QED  BY <1>0, <3>1
  <2> QED  BY <2>1, <2>2, <2>3, <2>4
<1>2. ASSUME NEW m \in Models, HandlePost(m) PROVE PostedOnce'
  <2>1. m \in posting /\ posting' = posting \ {m} /\ UNCHANGED <<lastModel, owner>>
    BY <1>2 DEF HandlePost
  <2>2. sent' = sent \/ sent' = Append(sent, m)
    BY <1>2, Zenon DEF HandlePost, Send
  <2>3. /\ Len(sent) \in Nat /\ Len(Append(sent, m)) = Len(sent) + 1
        /\ Append(sent, m)[Len(sent) + 1] = m
        /\ \A i \in 1 .. Len(sent) : Append(sent, m)[i] = sent[i]
    BY <1>0, AppendProperties, LenProperties
  <2>4. ASSUME NEW i \in 1 .. Len(sent')
        PROVE  sent'[i] <= lastModel /\ sent'[i] \notin posting'
    <3>1. CASE sent' = sent  BY <2>1, <3>1
    <3>2. CASE sent' = Append(sent, m)
      <4>1. CASE i \in 1 .. Len(sent)  BY <2>1, <2>3, <3>2, <4>1
      <4>2. CASE i = Len(sent) + 1  BY <2>1, <2>3, <3>2, <4>2
      <4> QED  BY <2>3, <3>2, <4>1, <4>2
    <3> QED  BY <2>2, <3>1, <3>2
  <2> QED  BY <2>1, <2>4
<1>3. ASSUME NEW m \in Models, LosePost(m) PROVE PostedOnce'
  BY <1>3 DEF LosePost
<1>4. ASSUME UNCHANGED <<lastModel, owner, posting, sent>> PROVE PostedOnce'
  BY <1>4
<1> HIDE DEF PostedOnce
<1>5. ASSUME NEW u \in Users,
             OnError(u) \/ SendSolutions(u) \/ OnMessage(u) \/ Cancel(u)
      PROVE  PostedOnce'
  BY <1>4, <1>5 DEF OnError, SendSolutions, OnMessage, Cancel, browserVars
<1>6. CASE ReceiveMessage \/ Deliver \/ LoseConnection \/ Restart \/ Answer
  BY <1>4, <1>6 DEF ReceiveMessage, Deliver, LoseConnection, Restart, Answer, browserVars
<1>7. CASE UNCHANGED vars  BY <1>4, <1>7 DEF vars, browserVars
<1> QED  BY <1>1, <1>2, <1>3, <1>5, <1>6, <1>7 DEF Next

LEMMA NextStreamsBeginEmpty ==
  TypeOK /\ PostedOnce /\ StreamsBeginEmpty /\ [Next]_vars => StreamsBeginEmpty'
<1> SUFFICES ASSUME TypeOK, PostedOnce, StreamsBeginEmpty, [Next]_vars
             PROVE  StreamsBeginEmpty'
  OBVIOUS
<1>0. /\ stream \in [Users -> {"none", "connecting", "open", "ended"}]
      /\ shown \in [Users -> Seq(Models)] /\ pipe \in [Users -> Seq(Models)]
      /\ subscribed \subseteq Users
      /\ \A u \in Users : \A i \in 1 .. Len(pipe[u]) : pipe[u][i] \in Models
  BY ElementOfSeq DEF TypeOK
<1>e. Len(<< >>) = 0  BY EmptySeq
<1> USE DEF StreamsBeginEmpty
<1>1. ASSUME NEW u \in Users, PostModel(u) PROVE StreamsBeginEmpty'
  <2>1. UNCHANGED <<shown, pipe, subscribed>>  BY <1>1 DEF PostModel, sinkVars
  <2>2. \A v \in Users : stream'[v] \in {"none", "connecting"} =>
                              stream[v] \in {"none", "connecting"}
    BY <1>0, <1>1 DEF PostModel, RequestSolutionStream
  <2>3. ASSUME NEW v \in Users, NEW i \in 1 .. Len(pipe[v])
        PROVE  owner'[pipe[v][i]] = v
    <3>1. pipe[v][i] \in Models /\ owner[pipe[v][i]] = v  BY <1>0
    <3>2. pipe[v][i] <= lastModel  BY <3>1 DEF PostedOnce
    <3>3. owner' = [owner EXCEPT ![lastModel + 1] = u]  BY <1>1 DEF PostModel
    <3>4. lastModel \in Nat /\ owner \in [Models -> Users \cup {NoUser}]
      BY MaxModelsAssumption DEF TypeOK
    <3>5. pipe[v][i] # lastModel + 1  BY <3>1, <3>2, <3>4 DEF Models
    <3> QED  BY <3>1, <3>3, <3>4, <3>5
  <2> QED  BY <2>1, <2>2, <2>3
<1>2. ASSUME NEW u \in Users, OnError(u) PROVE StreamsBeginEmpty'
  BY <1>0, <1>2 DEF OnError, sinkVars
<1>3. ASSUME NEW u \in Users, SendSolutions(u) PROVE StreamsBeginEmpty'
  BY <1>0, <1>3 DEF SendSolutions
<1>4. CASE Deliver
  <2>1. UNCHANGED <<stream, subscribed, shown, owner>>  BY <1>4 DEF Deliver, browserVars
  <2>2. ASSUME NEW u \in Users
        PROVE  /\ u \notin subscribed => pipe'[u] = << >>
               /\ \A i \in 1 .. Len(pipe'[u]) : owner[pipe'[u][i]] = u
    <3>1. CASE u \in subscribed /\ owner[Head(buffer)] = u
      <4>1. pipe'[u] = Append(pipe[u], Head(buffer))
        BY <1>4, <3>1 DEF Deliver
      <4>2. Head(buffer) \in Models
        BY <1>4, HeadTailProperties DEF Deliver, Deliverable, TypeOK
      <4>3. /\ Len(pipe[u]) \in Nat /\ Len(pipe'[u]) = Len(pipe[u]) + 1
            /\ pipe'[u][Len(pipe[u]) + 1] = Head(buffer)
            /\ \A i \in 1 .. Len(pipe[u]) : pipe'[u][i] = pipe[u][i]
        BY <1>0, <4>1, <4>2, AppendProperties, LenProperties
      <4>4. ASSUME NEW i \in 1 .. Len(pipe'[u]) PROVE owner[pipe'[u][i]] = u
        <5>1. CASE i \in 1 .. Len(pipe[u])  BY <4>3, <5>1
        <5>2. CASE i = Len(pipe[u]) + 1  BY <3>1, <4>3, <5>2
        <5> QED  BY <4>3, <5>1, <5>2
      <4> QED  BY <3>1, <4>4
    <3>2. CASE ~(u \in subscribed /\ owner[Head(buffer)] = u)
      <4>1. pipe'[u] = pipe[u]  BY <1>4, <3>2 DEF Deliver
      <4> QED  BY <4>1
    <3> QED  BY <3>1, <3>2
  <2> QED  BY <2>1, <2>2
<1>5. ASSUME NEW u \in Users, OnMessage(u) PROVE StreamsBeginEmpty'
  <2>1. /\ UNCHANGED <<stream, subscribed, owner>> /\ u \in subscribed
        /\ pipe[u] # << >> /\ pipe' = [pipe EXCEPT ![u] = Tail(@)]
        /\ shown' = [shown EXCEPT ![u] = Append(@, Head(pipe[u]))]
    BY <1>5 DEF OnMessage
  <2>2. \A i \in 1 .. Len(pipe'[u]) : owner[pipe'[u][i]] = u
    <3>1. /\ Len(pipe[u]) \in Nat \ {0} /\ Len(Tail(pipe[u])) = Len(pipe[u]) - 1
          /\ \A i \in 1 .. Len(Tail(pipe[u])) : Tail(pipe[u])[i] = pipe[u][i + 1]
      BY <1>0, <2>1, HeadTailProperties, EmptySeq
    <3>2. pipe'[u] = Tail(pipe[u])  BY <1>0, <2>1
    <3>3. ASSUME NEW i \in 1 .. Len(Tail(pipe[u])) PROVE owner[Tail(pipe[u])[i]] = u
      <4>1. i + 1 \in 1 .. Len(pipe[u])  BY <3>1
      <4> QED  BY <3>1, <4>1
    <3> QED  BY <3>2, <3>3
  <2>3. \A v \in Users \ {u} : pipe'[v] = pipe[v] /\ shown'[v] = shown[v]
    BY <1>0, <2>1
  <2> QED  BY <2>1, <2>2, <2>3
<1>6. ASSUME NEW u \in Users, Cancel(u) PROVE StreamsBeginEmpty'
  BY <1>0, <1>e, <1>6 DEF Cancel, browserVars
<1>7. CASE Restart
  BY <1>0, <1>e, <1>7 DEF Restart, browserVars
<1>8. ASSUME UNCHANGED <<owner, stream, shown, subscribed, pipe>>
      PROVE  StreamsBeginEmpty'
  BY <1>8
<1> HIDE DEF StreamsBeginEmpty
<1>9. ASSUME NEW m \in Models, LosePost(m) \/ HandlePost(m) PROVE StreamsBeginEmpty'
  BY <1>8, <1>9 DEF LosePost, HandlePost, sinkVars
<1>10. CASE ReceiveMessage \/ LoseConnection \/ Answer \/ UNCHANGED vars
  BY <1>8, <1>10 DEF ReceiveMessage, LoseConnection, Answer, vars, browserVars, sinkVars
<1> QED
  BY <1>1, <1>2, <1>3, <1>4, <1>5, <1>6, <1>7, <1>9, <1>10 DEF Next

\* Every queue on the way, and those joined that stay together.
LEMMA Pieces ==
  ASSUME TypeOK
  PROVE  /\ solutions \o models \in Seq(Models)
         /\ Flow \in Seq(Models)
         /\ unacked \o (solutions \o models) \in Seq(Models)
         /\ \A u \in Users : shown[u] \o pipe[u] \in Seq(Models)
<1>1. solutions \o models \in Seq(Models)  BY ConcatProperties DEF TypeOK
<1>2. ASSUME NEW u \in Users PROVE shown[u] \o pipe[u] \in Seq(Models)
  <2>1. shown[u] \in Seq(Models) /\ pipe[u] \in Seq(Models)  BY DEF TypeOK
  <2> QED  BY <2>1, ConcatProperties
<1> QED  BY <1>1, <1>2, ConcatProperties DEF TypeOK, Flow

\* A model that is sent is the last of all.
LEMMA SendInOrder ==
  ASSUME TypeOK, PostedOnce, InOrder, NEW m \in Models, m \in posting,
         sent' = Append(sent, m), models' = Append(models, m),
         UNCHANGED <<unacked, solutions, buffer, shown, pipe, subscribed, stream>>
  PROVE  InOrder'
<1>0. /\ sent \in Seq(Models) /\ models \in Seq(Models) /\ solutions \in Seq(Models)
      /\ buffer \in Seq(Models) /\ unacked \in Seq(Models)
      /\ solutions \o models \in Seq(Models) /\ Flow \in Seq(Models)
      /\ unacked \o (solutions \o models) \in Seq(Models)
      /\ \A u \in Users : shown[u] \o pipe[u] \in Seq(Models)
  BY Pieces DEF TypeOK
<1>1. \A k \in 1 .. Len(sent) : sent[k] # m  BY DEF PostedOnce
<1>2. (solutions \o models)' = Append(solutions \o models, m)
  <2>1. solutions \o Append(models, m) = Append(solutions \o models, m)
    BY <1>0, AppendAtEnd
  <2> QED  BY <2>1
<1>3. Flow' = Append(Flow, m)
  <2>1. Flow' = buffer \o Append(solutions \o models, m)  BY <1>2 DEF Flow
  <2> QED  BY <1>0, <2>1, AppendAtEnd DEF Flow
<1>4. (unacked \o (solutions \o models))' = Append(unacked \o (solutions \o models), m)
  <2>1. (unacked \o (solutions \o models))' = unacked \o Append(solutions \o models, m)
    BY <1>2
  <2> QED  BY <1>0, <2>1, AppendAtEnd
<1>5. Follows(Flow', sent')  BY <1>0, <1>1, <1>3, FollowsLonger DEF InOrder
<1>6. Follows((unacked \o (solutions \o models))', sent')
  BY <1>0, <1>1, <1>4, FollowsLonger DEF InOrder
<1>7. ASSUME NEW p \in Seq(Models), Follows(p \o Flow, sent)
      PROVE  Follows(p \o Flow', sent')
  <2>1. p \o Append(Flow, m) = Append(p \o Flow, m)  BY <1>0, AppendAtEnd
  <2>2. p \o Flow \in Seq(Models)  BY <1>0, ConcatProperties
  <2>3. Follows(Append(p \o Flow, m), sent')  BY <1>0, <1>1, <1>7, <2>2, FollowsLonger
  <2> QED  BY <1>3, <2>1, <2>3
<1>8. \A u \in Users : u \in subscribed /\ stream[u] = "open" =>
         Follows((shown[u] \o pipe[u]) \o Flow', sent')
  BY <1>0, <1>7 DEF InOrder
<1> QED  BY <1>5, <1>6, <1>8 DEF InOrder

\* An answer that is received goes to the end of the sink, or is left out.
LEMMA ReceiveInOrder == TypeOK /\ InOrder /\ ReceiveMessage => InOrder'
<1> SUFFICES ASSUME TypeOK, InOrder, ReceiveMessage PROVE InOrder'  OBVIOUS
<1> DEFINE m == Head(solutions)
           X == Tail(solutions) \o models
<1>0. /\ sent \in Seq(Models) /\ models \in Seq(Models) /\ solutions \in Seq(Models)
      /\ buffer \in Seq(Models) /\ unacked \in Seq(Models) /\ Flow \in Seq(Models)
      /\ \A u \in Users : shown[u] \o pipe[u] \in Seq(Models)
  BY Pieces DEF TypeOK
<1>1. /\ UNCHANGED <<sent, models, shown, pipe, subscribed, stream>>
      /\ solutions # << >> /\ solutions' = Tail(solutions) /\ unacked' = <<m>>
  BY DEF ReceiveMessage, browserVars
<1>2. buffer' = Append(buffer, m) \/ buffer' = buffer
  BY Zenon DEF ReceiveMessage
<1>3. /\ m \in Models /\ <<m>> \in Seq(Models) /\ Tail(solutions) \in Seq(Models)
      /\ solutions = <<m>> \o Tail(solutions)
  BY <1>0, <1>1, HeadAndTail
<1>4. X \in Seq(Models)  BY <1>0, <1>3, ConcatProperties
<1>5. solutions \o models = <<m>> \o X
  BY <1>0, <1>3, ConcatAssociative
<1>6. (solutions \o models)' = X  BY <1>1
<1> HIDE DEF m, X
<1>7. Flow = buffer \o (<<m>> \o X)  BY <1>5 DEF Flow
<1>8. Follows(buffer \o (<<m>> \o X), sent)  BY <1>7 DEF InOrder
<1>9. Follows((unacked \o (solutions \o models))', sent')
  <2>1. <<m>> \o X \in Seq(Models)  BY <1>3, <1>4, ConcatProperties
  <2>2. Follows(<<m>> \o X, sent)  BY <1>0, <1>8, <2>1, FollowsSuffix
  <2> QED  BY <1>1, <1>6, <2>2
<1>10. CASE buffer' = Append(buffer, m)
  <2>1. Append(buffer, m) \o X = buffer \o (<<m>> \o X)
    BY <1>0, <1>3, <1>4, MoveAcross, SMTT(30)
  <2>2. Flow' = Append(buffer, m) \o X  BY <1>6, <1>10 DEF Flow
  <2>3. Flow' = Flow  BY <1>7, <2>1, <2>2, Zenon
  <2> QED  BY <1>1, <1>9, <2>3 DEF InOrder
<1>11. CASE buffer' = buffer
  <2>1. Flow' = buffer \o X  BY <1>6, <1>11 DEF Flow
  <2>2. Follows(Flow', sent')  BY <1>0, <1>1, <1>3, <1>4, <1>8, <2>1, FollowsDrop
  <2>3. ASSUME NEW p \in Seq(Models), Follows(p \o Flow, sent)
        PROVE  Follows(p \o Flow', sent)
    <3>1. p \o buffer \in Seq(Models) /\ <<m>> \o X \in Seq(Models)
      BY <1>0, <1>3, <1>4, ConcatProperties
    <3>2. ASSUME NEW r \in Seq(Models)
          PROVE  (p \o buffer) \o r = p \o (buffer \o r)
      <4>1. buffer \in Seq(Models)  BY <1>0
      <4> QED  BY <4>1, ConcatAssociative
    <3>3. (p \o buffer) \o X = p \o (buffer \o X)
      BY <1>4, <3>2
    <3>4. Follows((p \o buffer) \o (<<m>> \o X), sent)
      BY <1>7, <2>3, <3>1, <3>2
    <3>5. Follows((p \o buffer) \o X, sent)
      BY <1>3, <1>4, <3>1, <3>4, FollowsDrop
    <3> QED  BY <2>1, <3>3, <3>5
  <2>4. \A u \in Users : u \in subscribed /\ stream[u] = "open" =>
           Follows((shown[u] \o pipe[u]) \o Flow', sent)
    BY <1>0, <2>3 DEF InOrder
  <2> QED  BY <1>1, <1>9, <2>2, <2>4 DEF InOrder
<1> QED  BY <1>2, <1>10, <1>11

\* An answer goes to the end of its user's stream, and no other.
LEMMA DeliverInOrder == TypeOK /\ InOrder /\ Deliver => InOrder'
<1> SUFFICES ASSUME TypeOK, InOrder, Deliver PROVE InOrder'  OBVIOUS
<1> DEFINE m == Head(buffer)
           X == Tail(buffer) \o (solutions \o models)
<1>0. /\ buffer \in Seq(Models) /\ solutions \o models \in Seq(Models)
      /\ \A u \in Users : shown[u] \o pipe[u] \in Seq(Models)
      /\ shown \in [Users -> Seq(Models)] /\ pipe \in [Users -> Seq(Models)]
  BY Pieces DEF TypeOK
<1>1. /\ UNCHANGED <<sent, unacked, solutions, models, shown, subscribed, stream>>
      /\ buffer # << >> /\ buffer' = Tail(buffer)
      /\ pipe' = [u \in Users |-> IF u \in subscribed /\ owner[m] = u
                                    THEN Append(pipe[u], m) ELSE pipe[u]]
  BY DEF Deliver, Deliverable, browserVars, queueVars
<1>2. /\ m \in Models /\ <<m>> \in Seq(Models) /\ Tail(buffer) \in Seq(Models)
      /\ buffer = <<m>> \o Tail(buffer)
  BY <1>0, <1>1, HeadAndTail
<1>3. X \in Seq(Models)  BY <1>0, <1>2, ConcatProperties
<1>4. Flow = <<m>> \o X  BY <1>0, <1>2, ConcatAssociative DEF Flow
<1>5. Flow' = X  BY <1>1 DEF Flow
<1> HIDE DEF m, X
<1>6. Follows(X, sent)  BY <1>2, <1>3, <1>4, FollowsSuffix DEF InOrder
<1>7. ASSUME NEW p \in Seq(Models), NEW q \in Seq(Models),
             Follows((p \o q) \o (<<m>> \o X), sent)
      PROVE  /\ Follows((p \o Append(q, m)) \o X, sent)
             /\ Follows((p \o q) \o X, sent)
  <2>1. p \o q \in Seq(Models)  BY ConcatProperties
  <2>2. p \o Append(q, m) = Append(p \o q, m)  BY <1>2, AppendAtEnd
  <2>3. ASSUME NEW r \in Seq(Models), NEW k \in Models
        PROVE  Append(r, k) \o X = r \o (<<k>> \o X)
    BY <1>3, MoveAcross
  <2>4. Follows((p \o q) \o X, sent)  BY <1>2, <1>3, <1>7, <2>1, FollowsDrop
  <2> QED  BY <1>2, <1>7, <2>1, <2>2, <2>3, <2>4
<1>8. ASSUME NEW u \in Users, u \in subscribed, stream[u] = "open"
      PROVE  Follows((shown[u] \o pipe'[u]) \o X, sent)
  <2>1. shown[u] \in Seq(Models) /\ pipe[u] \in Seq(Models)  BY <1>0
  <2>2. Follows((shown[u] \o pipe[u]) \o (<<m>> \o X), sent)  BY <1>4, <1>8 DEF InOrder
  <2>3. pipe'[u] = Append(pipe[u], m) \/ pipe'[u] = pipe[u]  BY <1>1
  <2>4. Follows((shown[u] \o Append(pipe[u], m)) \o X, sent)
        /\ Follows((shown[u] \o pipe[u]) \o X, sent)
    BY <1>7, <2>1, <2>2
  <2> QED  BY <2>3, <2>4
<1> QED  BY <1>1, <1>5, <1>6, <1>8 DEF InOrder

LEMMA NextInOrder == IInv /\ [Next]_vars => InOrder'
<1> SUFFICES ASSUME IInv, [Next]_vars PROVE InOrder'  OBVIOUS
<1> USE DEF IInv
<1>0. /\ sent \in Seq(Models) /\ models \in Seq(Models) /\ solutions \in Seq(Models)
      /\ buffer \in Seq(Models) /\ unacked \in Seq(Models)
      /\ solutions \o models \in Seq(Models) /\ Flow \in Seq(Models)
      /\ shown \in [Users -> Seq(Models)] /\ pipe \in [Users -> Seq(Models)]
      /\ stream \in [Users -> {"none", "connecting", "open", "ended"}]
  BY Pieces DEF TypeOK
\* Steps after which only streams that were open before are open and subscribed.
<1>f. ASSUME UNCHANGED <<sent, models, solutions, unacked, buffer>>,
             \A u \in Users : u \in subscribed' /\ stream'[u] = "open" =>
                /\ u \in subscribed /\ stream[u] = "open"
                /\ (shown[u] \o pipe[u])' = shown[u] \o pipe[u]
      PROVE  InOrder'
  <2>1. Flow' = Flow  BY <1>f DEF Flow
  <2> QED  BY <1>f, <2>1 DEF InOrder
<1>1. ASSUME NEW u \in Users, PostModel(u) PROVE InOrder'
  <2>1. UNCHANGED <<sent, models, solutions, unacked, buffer, subscribed, shown, pipe>>
    BY <1>1 DEF PostModel, queueVars, sinkVars
  <2>2. \A v \in Users : stream'[v] = "open" => stream[v] = "open"
    BY <1>0, <1>1 DEF PostModel, RequestSolutionStream
  <2> QED  BY <1>f, <2>1, <2>2
<1>2. ASSUME NEW u \in Users, OnError(u) PROVE InOrder'
  BY <1>0, <1>f, <1>2 DEF OnError, queueVars, sinkVars
<1>3. ASSUME NEW m \in Models, LosePost(m) PROVE InOrder'
  BY <1>f, <1>3 DEF LosePost, queueVars, sinkVars
<1>4. ASSUME NEW m \in Models, HandlePost(m) PROVE InOrder'
  <2>1. /\ UNCHANGED <<unacked, solutions, buffer, shown, pipe, subscribed, stream>>
        /\ m \in posting
    BY <1>4 DEF HandlePost, sinkVars
  <2>2. \/ sent' = Append(sent, m) /\ models' = Append(models, m)
        \/ UNCHANGED <<sent, models>>
    BY <1>4, Zenon DEF HandlePost, Send
  <2> QED  BY <1>f, <2>1, <2>2, SendInOrder
<1>5. ASSUME NEW u \in Users, SendSolutions(u) PROVE InOrder'
  <2>1. /\ UNCHANGED <<sent, models, solutions, unacked, buffer, shown, pipe>>
        /\ stream[u] = "connecting" /\ subscribed' = subscribed \cup {u}
        /\ stream' = [stream EXCEPT ![u] = "open"]
    BY <1>5 DEF SendSolutions, queueVars
  <2>2. Flow' = Flow  BY <2>1 DEF Flow
  <2>3. shown[u] = << >> /\ pipe[u] = << >>  BY <2>1 DEF StreamsBeginEmpty
  <2>4. (shown[u] \o pipe[u]) \o Flow = Flow
    BY <1>0, <2>3, ConcatEmptySeq, EmptySeq
  <2>5. Follows((shown[u] \o pipe[u]) \o Flow, sent)  BY <2>4 DEF InOrder
  <2>6. \A v \in Users \ {u} : v \in subscribed' /\ stream'[v] = "open"
                                 => v \in subscribed /\ stream[v] = "open"
    BY <1>0, <2>1
  <2> QED  BY <2>1, <2>2, <2>5, <2>6 DEF InOrder
<1>6. CASE ReceiveMessage  BY <1>6, ReceiveInOrder
<1>7. CASE Deliver  BY <1>7, DeliverInOrder
<1>8. ASSUME NEW u \in Users, OnMessage(u) PROVE InOrder'
  <2>1. /\ UNCHANGED <<sent, models, solutions, unacked, buffer, stream, subscribed>>
        /\ pipe[u] # << >>
        /\ shown' = [shown EXCEPT ![u] = Append(@, Head(pipe[u]))]
        /\ pipe' = [pipe EXCEPT ![u] = Tail(@)]
    BY <1>8 DEF OnMessage, queueVars
  <2>2. shown[u] \in Seq(Models) /\ pipe[u] \in Seq(Models)  BY <1>0
  <2>3. /\ Head(pipe[u]) \in Models /\ Tail(pipe[u]) \in Seq(Models)
        /\ pipe[u] = <<Head(pipe[u])>> \o Tail(pipe[u])
    BY <2>1, <2>2, HeadAndTail
  <2>4. Append(shown[u], Head(pipe[u])) \o Tail(pipe[u]) = shown[u] \o pipe[u]
    <3>1. Append(shown[u], Head(pipe[u])) \o Tail(pipe[u])
              = shown[u] \o (<<Head(pipe[u])>> \o Tail(pipe[u]))
      BY <2>2, <2>3, MoveAcross, ZenonT(60)
    <3> QED  BY <2>3, <3>1, Zenon
  <2>5. (shown[u] \o pipe[u])' = shown[u] \o pipe[u]  BY <1>0, <2>1, <2>4
  <2>6. \A v \in Users \ {u} : shown'[v] = shown[v] /\ pipe'[v] = pipe[v]
    BY <1>0, <2>1
  <2>7. \A v \in Users : shown'[v] \o pipe'[v] = shown[v] \o pipe[v]
    BY <2>5, <2>6
  <2> QED  BY <1>f, <2>1, <2>7
<1>9. ASSUME NEW u \in Users, Cancel(u) PROVE InOrder'
  BY <1>0, <1>f, <1>9 DEF Cancel, browserVars, queueVars
<1>10. CASE LoseConnection
  BY <1>f, <1>10 DEF LoseConnection, browserVars, queueVars, sinkVars
<1>11. CASE Restart
  <2>1. UNCHANGED <<sent, models>> /\ subscribed' = {} /\ buffer' = << >> /\ unacked' = << >>
    BY <1>11 DEF Restart, browserVars
  <2>2. solutions' = solutions \/ solutions' = unacked \o solutions
    BY <1>11, Zenon DEF Restart
  <2>3. Follows(solutions \o models, sent)
    BY <1>0, FollowsSuffix DEF InOrder
  <2>4. (unacked \o solutions) \o models = unacked \o (solutions \o models)
    BY <1>0, ConcatAssociative, SMTT(30)
  <2>5. Follows(solutions' \o models, sent) /\ solutions' \o models \in Seq(Models)
    BY <1>0, <2>2, <2>3, <2>4, ConcatProperties DEF InOrder
  <2>6. << >> \o (solutions' \o models) = solutions' \o models
    BY <2>5, ConcatEmptySeq
  <2> QED  BY <2>1, <2>5, <2>6 DEF InOrder, Flow
<1>12. CASE Answer
  <2>1. /\ UNCHANGED <<sent, unacked, buffer, shown, pipe, stream, subscribed>>
        /\ models # << >> /\ models' = Tail(models)
        /\ solutions' = Append(solutions, Head(models))
    BY <1>12 DEF Answer, browserVars, sinkVars
  <2>2. /\ Head(models) \in Models /\ Tail(models) \in Seq(Models)
        /\ models = <<Head(models)>> \o Tail(models)
    BY <1>0, <2>1, HeadAndTail
  <2>3. (solutions \o models)' = solutions \o models
    <3>1. Append(solutions, Head(models)) \o Tail(models)
              = solutions \o (<<Head(models)>> \o Tail(models))
      BY <1>0, <2>2, MoveAcross, SMTT(30)
    <3> QED  BY <2>1, <2>2, <3>1, Zenon
  <2> QED  BY <2>1, <2>3 DEF InOrder, Flow
<1>13. CASE UNCHANGED vars
  BY <1>f, <1>13 DEF vars, browserVars, queueVars, sinkVars
<1> QED
  BY <1>1, <1>2, <1>3, <1>4, <1>5, <1>6, <1>7, <1>8, <1>9, <1>10, <1>11, <1>12, <1>13
  DEF Next

LEMMA NextIInv == IInv /\ [Next]_vars => IInv'
BY NextTypeOK, NextPostedOnce, NextStreamsBeginEmpty, NextInOrder DEF IInv

-----------------------------------------------------------------------------
(* The refinement *)

LEMMA InitRefines == Init => Feed!Init
BY EmptySeq DEF Init, Feed!Init

\* The entries of AnswerFeed's sent are those of the relay's, each with its owner.
SentBy(s, o) == [i \in DOMAIN s |-> <<o[s[i]], s[i]>>]

LEMMA SentByProperties ==
  ASSUME NEW U, NEW s \in Seq(Models), NEW o \in [Models -> U]
  PROVE  SentBy(s, o) \in Seq(U \X Models) /\ Len(SentBy(s, o)) = Len(s)
<1>1. Len(s) \in Nat /\ DOMAIN s = 1 .. Len(s) /\ \A i \in 1 .. Len(s) : s[i] \in Models
  BY LenProperties, ElementOfSeq
<1>2. SentBy(s, o) \in [1 .. Len(s) -> U \X Models]  BY <1>1 DEF SentBy
<1>3. SentBy(s, o) \in Seq(U \X Models)  BY <1>1, <1>2, SeqDef
<1>4. 1 .. Len(SentBy(s, o)) = 1 .. Len(s) /\ Len(SentBy(s, o)) \in Nat
  BY <1>2, <1>3, LenProperties
<1> QED  BY <1>1, <1>3, <1>4

LEMMA SentByAppend ==
  ASSUME NEW U, NEW s \in Seq(Models), NEW o \in [Models -> U], NEW m \in Models
  PROVE  SentBy(Append(s, m), o) = Append(SentBy(s, o), <<o[m], m>>)
<1> DEFINE e == <<o[m], m>>
           a == Append(s, m)
           b == SentBy(s, o)
<1>1. /\ a \in Seq(Models) /\ Len(a) = Len(s) + 1 /\ a[Len(s) + 1] = m
      /\ \A i \in 1 .. Len(s) : a[i] = s[i]
  BY AppendProperties
<1>2. Len(s) \in Nat /\ DOMAIN s = 1 .. Len(s) /\ DOMAIN a = 1 .. Len(a)
  BY <1>1, LenProperties
<1>3. b \in Seq(U \X Models) /\ Len(b) = Len(s) /\ e \in U \X Models
  BY SentByProperties
<1>4. /\ Append(b, e) \in Seq(U \X Models) /\ Len(Append(b, e)) = Len(s) + 1
      /\ Append(b, e)[Len(s) + 1] = e
      /\ \A i \in 1 .. Len(s) : Append(b, e)[i] = b[i]
  BY <1>3, AppendProperties
<1>5. \A i \in 1 .. Len(s) : b[i] = <<o[s[i]], s[i]>>  BY <1>2 DEF SentBy
<1> HIDE DEF a, b
<1>6. SentBy(a, o) \in Seq(U \X Models) /\ Len(SentBy(a, o)) = Len(s) + 1
  BY <1>1, SentByProperties
<1>7. \A i \in 1 .. Len(s) + 1 : SentBy(a, o)[i] = <<o[a[i]], a[i]>>
  BY <1>1, <1>2 DEF SentBy
<1>8. ASSUME NEW i \in 1 .. Len(s) + 1 PROVE SentBy(a, o)[i] = Append(b, e)[i]
  <2>1. SentBy(a, o)[i] = <<o[a[i]], a[i]>>  BY <1>7
  <2>2. CASE i \in 1 .. Len(s)
    <3>1. a[i] = s[i] /\ Append(b, e)[i] = <<o[s[i]], s[i]>>
      BY <1>1, <1>4, <1>5, <2>2
    <3> QED  BY <2>1, <3>1
  <2>3. CASE i = Len(s) + 1
    <3>1. a[i] = m /\ Append(b, e)[i] = e  BY <1>1, <1>4, <2>3
    <3> QED  BY <2>1, <3>1
  <2>4. i \in 1 .. Len(s) \/ i = Len(s) + 1  BY <1>2
  <2> QED  BY <2>2, <2>3, <2>4
<1>9. SentBy(a, o) = Append(b, e)  BY <1>4, <1>6, <1>8, SeqEqual
<1> QED  BY <1>9 DEF a, b

LEMMA NextRefines == IInv /\ [Next]_vars => [Feed!Next]_(Feed!vars)
<1> SUFFICES ASSUME IInv, [Next]_vars PROVE [Feed!Next]_(Feed!vars)  OBVIOUS
<1> DEFINE sentBy == [i \in DOMAIN sent |-> <<owner[sent[i]], sent[i]>>]
<1>0. /\ sent \in Seq(Models) /\ DOMAIN sent = 1 .. Len(sent) /\ Len(sent) \in Nat
      /\ \A i \in 1 .. Len(sent) : sent[i] \in Models
      /\ owner \in [Models -> Users \cup {NoUser}] /\ lastModel \in Nat
      /\ shown \in [Users -> Seq(Models)] /\ pipe \in [Users -> Seq(Models)]
  BY MaxModelsAssumption, LenProperties, ElementOfSeq DEF IInv, TypeOK
<1>1. ASSUME sentBy' = sentBy, shown' = shown PROVE [Feed!Next]_(Feed!vars)
  BY <1>1 DEF Feed!vars
<1>2. ASSUME UNCHANGED <<sent, owner, shown>> PROVE [Feed!Next]_(Feed!vars)
  BY <1>1, <1>2
<1>3. ASSUME NEW u \in Users, PostModel(u) PROVE [Feed!Next]_(Feed!vars)
  <2>1. /\ sent' = sent /\ shown' = shown
        /\ owner' = [owner EXCEPT ![lastModel + 1] = u]
    BY <1>3 DEF PostModel
  <2>2. ASSUME NEW i \in DOMAIN sent PROVE owner'[sent[i]] = owner[sent[i]]
    <3>1. sent[i] \in Models /\ sent[i] <= lastModel  BY <1>0 DEF IInv, PostedOnce
    <3>2. sent[i] # lastModel + 1  BY <1>0, <3>1 DEF Models
    <3> QED  BY <1>0, <2>1, <3>1, <3>2
  <2> QED  BY <1>1, <2>1, <2>2
<1>4. ASSUME NEW m \in Models, HandlePost(m) PROVE [Feed!Next]_(Feed!vars)
  <2>1. UNCHANGED <<owner, shown>> /\ m \in posting  BY <1>4 DEF HandlePost
  <2>2. sent' = Append(sent, m) \/ sent' = sent
    BY <1>4, Zenon DEF HandlePost, Send
  <2>3. CASE sent' = Append(sent, m)
    <3>1. owner[m] \in Users /\ \A i \in DOMAIN sent : sent[i] # m
      BY <1>0, <2>1 DEF IInv, PostedOnce
    <3>2. sentBy' = Append(sentBy, <<owner[m], m>>)
      <4>1. SentBy(Append(sent, m), owner) = Append(SentBy(sent, owner), <<owner[m], m>>)
        BY <1>0, SentByAppend
      <4> QED  BY <2>1, <2>3, <4>1 DEF SentBy
    <3>3. Feed!Send  BY <2>1, <3>1, <3>2 DEF Feed!Send
    <3> QED  BY <3>3 DEF Feed!Next
  <2> QED  BY <1>2, <2>1, <2>2, <2>3
<1>5. ASSUME NEW u \in Users, OnMessage(u) PROVE [Feed!Next]_(Feed!vars)
  <2>1. /\ UNCHANGED <<sent, owner>> /\ pipe[u] # << >>
        /\ u \in subscribed /\ stream[u] = "open"
        /\ shown' = [shown EXCEPT ![u] = Append(@, Head(pipe[u]))]
    BY <1>5 DEF OnMessage
  <2>2. shown[u] \in Seq(Models) /\ pipe[u] \in Seq(Models)  BY <1>0
  <2>3. /\ Head(pipe[u]) \in Models /\ Tail(pipe[u]) \in Seq(Models)
        /\ pipe[u] = <<Head(pipe[u])>> \o Tail(pipe[u])
    BY <2>1, <2>2, HeadAndTail
  <2>4. PICK i \in 1 .. Len(sent) :
           /\ sent[i] = Head(pipe[u])
           /\ \A j \in 1 .. Len(sent), k \in 1 .. Len(shown[u]) :
                 sent[j] = shown[u][k] => j < i
    <3>1. Follows((shown[u] \o pipe[u]) \o Flow, sent)  BY <2>1 DEF IInv, InOrder
    <3>2. Flow \in Seq(Models)  BY Pieces DEF IInv
    <3>3. ASSUME NEW p \in Seq(Models), NEW q \in Seq(Models), NEW m \in Models
          PROVE  (p \o (<<m>> \o q)) \o Flow = p \o (<<m>> \o (q \o Flow))
      <4>1. <<m>> \in Seq(Models) /\ <<m>> \o q \in Seq(Models)  BY ConcatProperties
      <4>2. (p \o (<<m>> \o q)) \o Flow = p \o ((<<m>> \o q) \o Flow)
        BY <3>2, <4>1, ConcatAssociative
      <4>3. (<<m>> \o q) \o Flow = <<m>> \o (q \o Flow)
        BY <3>2, <4>1, ConcatAssociative
      <4> QED  BY <4>2, <4>3
    <3>4. PICK h \in Models, t \in Seq(Models) : h = Head(pipe[u]) /\ pipe[u] = <<h>> \o t
      BY <2>3
    <3>5. PICK p \in Seq(Models) : p = shown[u]  BY <2>2
    <3>6. PICK r \in Seq(Models) : r = t \o Flow  BY <3>2, ConcatProperties
    <3>7. Follows(p \o (<<h>> \o r), sent)
      <4>1. (p \o (<<h>> \o t)) \o Flow = p \o (<<h>> \o (t \o Flow))  BY <3>3
      <4> QED  BY <3>1, <3>4, <3>5, <3>6, <4>1, Zenon
    <3>8. \E i \in 1 .. Len(sent) :
             /\ sent[i] = h
             /\ \A j \in 1 .. Len(sent), k \in 1 .. Len(p) : sent[j] = p[k] => j < i
      BY <3>7, FollowsAfter
    <3> QED  BY <3>4, <3>5, <3>8, Zenon
  <2>5. owner[sent[i]] = u
    <3>1. 1 \in 1 .. Len(pipe[u]) /\ Head(pipe[u]) = pipe[u][1]
      BY <2>1, <2>2, EmptySeq
    <3> QED  BY <2>4, <3>1 DEF IInv, StreamsBeginEmpty
  <2>6. DOMAIN shown[u] = 1 .. Len(shown[u]) /\ Len(shown[u]) \in Nat
    BY <2>2, LenProperties
  <2>7. Feed!See
    <3>1. Len(sentBy) = Len(sent)  BY <1>0
    <3>2. \A j \in i .. Len(sent), k \in DOMAIN shown[u] : sent[j] # shown[u][k]
      BY <1>0, <2>4, <2>6
    <3>3. i \in DOMAIN sentBy /\ sentBy[i] = <<u, sent[i]>>  BY <1>0, <2>4, <2>5
    <3>4. \A j \in i .. Len(sent) : sentBy[j][2] = sent[j]  BY <1>0, <2>4
    <3>5. sentBy[i][1] = u /\ sentBy[i][2] = Head(pipe[u])  BY <2>4, <3>3
    <3>6. UNCHANGED <<sent, owner>>  BY <2>1
    <3>7. shown' = [shown EXCEPT ![u] = Append(@, sentBy[i][2])]  BY <2>1, <3>5
    <3>8. Feed!Unseen(u, i)
      BY <3>1, <3>2, <3>4, <3>5 DEF Feed!Unseen
    <3> QED  BY <3>3, <3>6, <3>7, <3>8 DEF Feed!See
  <2> QED  BY <2>7 DEF Feed!Next
<1>6. ASSUME NEW u \in Users, OnError(u) \/ SendSolutions(u) \/ Cancel(u)
      PROVE  [Feed!Next]_(Feed!vars)
  BY <1>2, <1>6 DEF OnError, SendSolutions, Cancel, browserVars
<1>7. ASSUME NEW m \in Models, LosePost(m) PROVE [Feed!Next]_(Feed!vars)
  BY <1>2, <1>7 DEF LosePost
<1>8. CASE ReceiveMessage \/ Deliver \/ LoseConnection \/ Restart \/ Answer
  BY <1>2, <1>8 DEF ReceiveMessage, Deliver, LoseConnection, Restart, Answer, browserVars
<1>9. CASE UNCHANGED vars  BY <1>2, <1>9 DEF vars, browserVars
<1> QED  BY <1>3, <1>4, <1>5, <1>6, <1>7, <1>8, <1>9 DEF Next

-----------------------------------------------------------------------------
(* Theorems *)

\* The invariant is inductive, whatever the numbers and sizes.
THEOREM Inductive == Spec => []IInv
<1>1. Init => IInv  BY InitIInv
<1>2. IInv /\ [Next]_vars => IInv'  BY NextIInv
<1> QED  BY <1>1, <1>2, PTL DEF Spec

\* SolutionsComponent, SolverRestController and QpidClient: the buffers stay within
\* their sizes and hold nothing but models.
THEOREM TypeCorrect == Spec => []TypeOK
<1>1. IInv => TypeOK  BY DEF IInv
<1> QED  BY <1>1, Inductive, PTL

\* The subscription of convertMessages ends with an answer that cannot be read, and
\* with no coming and going of streams.
THEOREM RelayOutlives == Spec => []RelayOutlivesStreams
<1> USE DEF RelayOutlivesStreams
<1>1. Init => RelayOutlivesStreams  BY DEF Init
<1>2. RelayOutlivesStreams /\ [Next]_vars => RelayOutlivesStreams'
  <2> SUFFICES ASSUME RelayOutlivesStreams, [Next]_vars PROVE RelayOutlivesStreams'
    OBVIOUS
  <2>1. CASE UNCHANGED <<relaying, refused>>  BY <2>1
  <2>2. CASE ReceiveMessage
    <3>1. \/ (relaying => relaying') /\ refused \subseteq refused'
          \/ Head(solutions) \in Unreadable /\ Head(solutions) \in refused'
      BY <2>2, Zenon DEF ReceiveMessage, ParseSolution
    <3> QED  BY <3>1
  <2>3. CASE Restart  BY <2>3 DEF Restart
  <2> QED
    BY <2>1, <2>2, <2>3
    DEF Next, PostModel, OnError, SendSolutions, LosePost, HandlePost, Deliver, OnMessage,
        Cancel, LoseConnection, Answer, sinkVars, vars
<1> QED  BY <1>1, <1>2, PTL DEF Spec

\* The sink refuses an answer only when it is full or the relay has ended.  It is full
\* only when it cannot be emptied, and then some stream is not being read; the relay
\* ends only with an answer that cannot be read, which was refused itself.
THEOREM RefusalsNeedStall == Spec => RefusedOnlyWhenStalled
<1>1. TypeOK /\ RelayOutlivesStreams' /\ [Next]_vars =>
        [\A m \in refused' \ refused :
            \/ \E u \in subscribed : Len(pipe[u]) = Prefetch
            \/ refused' \cap Unreadable # {}]_vars
  <2> SUFFICES ASSUME TypeOK, RelayOutlivesStreams', [Next]_vars,
                      NEW m \in refused' \ refused, refused' \cap Unreadable = {}
               PROVE  \E u \in subscribed : Len(pipe[u]) = Prefetch
    OBVIOUS
  <2>1. relaying'  BY DEF RelayOutlivesStreams
  <2>2. CASE ReceiveMessage
    <3>1. ~Deliverable /\ ~(Len(buffer) < SinkSize)
      BY <2>1, <2>2, Zenon DEF ReceiveMessage
    <3>2. buffer # << >>
      BY <3>1, SizesAssumption, EmptySeq
    <3>3. PICK u \in subscribed : ~(Len(pipe[u]) < Prefetch)
      BY <3>1, <3>2 DEF Deliverable
    <3>4. u \in Users /\ pipe[u] \in Seq(Models) /\ Len(pipe[u]) <= Prefetch
      BY DEF TypeOK
    <3>5. Len(pipe[u]) \in Nat /\ Prefetch \in Nat
      BY <3>4, LenProperties, SizesAssumption
    <3> QED  BY <3>3, <3>4, <3>5
  <2>3. refused' \subseteq refused \/ ReceiveMessage
    BY DEF Next, PostModel, OnError, SendSolutions, LosePost, HandlePost, Deliver,
           OnMessage, Cancel, LoseConnection, Answer, Restart, sinkVars, vars
  <2> QED  BY <2>2, <2>3
<1> QED  BY <1>1, TypeCorrect, RelayOutlives, PTL DEF Spec, RefusedOnlyWhenStalled

\* From SolverRestController.postModel through the broker, the solver, the sink and the
\* streams, and over any number of restarts, each user is shown answers to their own
\* models, in the order of sending and none twice.
THEOREM RelayImplementsFeed == Spec => ImplementsFeed
<1>1. Init => Feed!Init  BY InitRefines
<1>2. IInv /\ [Next]_vars => [Feed!Next]_(Feed!vars)  BY NextRefines
<1> QED  BY <1>1, <1>2, Inductive, PTL DEF Spec, ImplementsFeed, Feed!Spec
===============================================================================
