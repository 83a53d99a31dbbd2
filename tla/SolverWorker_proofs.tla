------------------------- MODULE SolverWorker_proofs -------------------------
(***************************************************************************)
(* Safety of the solver process for any number of models, any of them       *)
(* malformed, and any number of failures: its type, the discipline of the   *)
(* sender, that it rests only when everything is answered, and that the     *)
(* three threads and their queues implement SolverQueue and SolverLink.     *)
(* Then SolverLink's own: how often a model is answered when connections    *)
(* fail, that none is lost unnoticed, and that between failures it is a     *)
(* queue in its turn.                                                       *)
(*                                                                         *)
(* The inductive invariant adds to the type what each thread's program      *)
(* counter says of the message it holds, and that the sender is opened      *)
(* under the lock that sendSync tests with.                                 *)
(***************************************************************************)
EXTENDS SolverWorker, SolverLink, SequenceLemmas

Solving == {"solve", "send", "sendtowait", "sendblocked"}

\* A thread holds a message exactly in the middle of handing it on, and main holds only
\* what parseMsg let through.
HoldersHold ==
    /\ cpc = "push" <=> delivered # NoMsg
    /\ rpc = "push" <=> received # NoMsg
    /\ mpc \in Solving <=> solving # NoMsg
    /\ solving \notin Malformed

\* sendSync waits only while the sender is not open, or has no credit yet.
SenderDiscipline ==
    /\ credited => sendOpen
    /\ mpc = "sendtowait" => ~sendOpen
    /\ SenderNotStranded

IInv == TypeOK /\ HoldersHold /\ SenderDiscipline

-----------------------------------------------------------------------------
(* The invariant *)

LEMMA InitIInv == Init => IInv
<1> SUFFICES ASSUME Init PROVE IInv  OBVIOUS
<1> USE DEF Init, NoMsg, Solving
<1>1. TypeOK
  <2>1. << >> \in Seq(Msgs)  OBVIOUS
  <2>2. 0 \in 0 .. MaxMsgs  BY MaxMsgsAssumption
  <2> QED  BY <2>1, <2>2 DEF TypeOK
<1>2. HoldersHold  BY MalformedAssumption, MaxMsgsAssumption DEF HoldersHold
<1>3. SenderDiscipline  BY DEF SenderDiscipline, SenderNotStranded
<1> QED  BY <1>1, <1>2, <1>3 DEF IInv

\* The types of what is appended to a queue, and of what is left of one.
LEMMA QueueTypes ==
  ASSUME NEW s \in Seq(Msgs)
  PROVE  /\ \A m \in Msgs : Append(s, m) \in Seq(Msgs)
         /\ s # << >> => Head(s) \in Msgs /\ Tail(s) \in Seq(Msgs)
BY HeadTailProperties, AppendProperties

LEMMA NextIInv == IInv /\ [Next]_vars => IInv'
<1> SUFFICES ASSUME IInv, [Next]_vars PROVE IInv'  OBVIOUS
<1> USE DEF IInv, TypeOK, HoldersHold, SenderDiscipline, SenderNotStranded, NoMsg,
            Solving, linkVars, containerVars, receiverVars, mainVars, sentVars
<1>0. 0 \notin Msgs /\ 0 \notin Malformed /\ Msgs = 1 .. MaxMsgs /\ MaxMsgs \in Nat
  BY MaxMsgsAssumption, MalformedAssumption DEF Msgs
<1>1. CASE Post
  <2>1. posted' \in Msgs /\ posted' \in 0 .. MaxMsgs  BY <1>0, <1>1 DEF Post, PostToBroker
  <2> QED  BY <1>1, <2>1, QueueTypes DEF Post, PostToBroker
<1>2. CASE OnReceiverOpen
  BY <1>2 DEF OnReceiverOpen
<1>3. CASE OnSenderOpen
  BY <1>3 DEF OnSenderOpen
<1>4. CASE OnSendable
  BY <1>4 DEF OnSendable, NotifySender
<1>5. CASE OnMessage
  BY <1>5, QueueTypes, <1>0 DEF OnMessage
<1>6. CASE PushRecvBuffer
  BY <1>6, QueueTypes, <1>0 DEF PushRecvBuffer
<1>7. CASE NotifyCanRecv
  BY <1>7 DEF NotifyCanRecv
<1>8. CASE Send
  BY <1>8, QueueTypes, <1>0 DEF Send, PassToLibrary, NotifySender
<1>9. CASE ReceiveSync
  BY <1>9, QueueTypes, <1>0 DEF ReceiveSync
<1>10. CASE WaitCanRecv
  BY <1>10 DEF WaitCanRecv
<1>11. CASE PushMessages
  BY <1>11, QueueTypes, <1>0 DEF PushMessages
<1>12. CASE NotifyMain
  BY <1>12 DEF NotifyMain
<1>13. CASE PopMessages
  BY <1>13, QueueTypes, <1>0 DEF PopMessages, ParseMsg
<1>14. CASE WaitMessages
  BY <1>14 DEF WaitMessages
<1>15. CASE Solve
  BY <1>15 DEF Solve
<1>16. CASE SendSync
  BY <1>16, QueueTypes, <1>0 DEF SendSync
<1>17. CASE WaitCanSend
  BY <1>17 DEF WaitCanSend
<1>18. CASE Reap
  BY <1>18 DEF Reap
<1>19. CASE SpuriousWakeup
  BY <1>19 DEF SpuriousWakeup
<1>20. CASE RaceFault
  BY <1>20 DEF RaceFault
<1>21. CASE Arrive
  BY <1>21, QueueTypes, <1>0 DEF Arrive, ArriveAtBroker
<1>22. CASE UNCHANGED vars
  BY <1>22 DEF vars
<1> QED
  BY <1>1, <1>2, <1>3, <1>4, <1>5, <1>6, <1>7, <1>8, <1>9, <1>10, <1>11, <1>12, <1>13,
     <1>14, <1>15, <1>16, <1>17, <1>18, <1>19, <1>20, <1>21, <1>22
  DEF Next, Container, Receiver, Main

-----------------------------------------------------------------------------
(* What a step does to the models that the process has taken *)

LEMMA PutBack ==
  ASSUME NEW S, NEW x \in Seq(S), NEW s \in Seq(S), NEW e \in S
  PROVE  (x \o s) \o <<e>> = (x \o Append(s, e)) \o << >>
<1>1. <<e>> \in Seq(S) /\ Append(s, e) = s \o <<e>> /\ Append(s, e) \in Seq(S)
  BY AppendIsConcat, AppendProperties
<1>2. (x \o s) \o <<e>> = x \o (s \o <<e>>)  BY <1>1, ConcatAssociative
<1>3. x \o Append(s, e) \in Seq(S)  BY <1>1, ConcatProperties
<1> QED  BY <1>1, <1>2, <1>3, ConcatEmptySeq

LEMMA HandOn ==
  ASSUME NEW S, NEW x \in Seq(S), NEW s \in Seq(S), s # << >>
  PROVE  (x \o << >>) \o s = (x \o <<Head(s)>>) \o Tail(s)
<1>1. s = <<Head(s)>> \o Tail(s) /\ Head(s) \in S /\ Tail(s) \in Seq(S)
  BY HeadAndTail
<1>2. <<Head(s)>> \in Seq(S)  BY <1>1
<1>3. (x \o <<Head(s)>>) \o Tail(s) = x \o (<<Head(s)>> \o Tail(s))
  BY <1>1, <1>2, ConcatAssociative
<1> QED  BY <1>1, <1>3, ConcatEmptySeq

\* The stations of a model on its way through the process.
LEMMA Stations ==
  ASSUME TypeOK
  PROVE  /\ Held(solving) \in Seq(Msgs) /\ Held(received) \in Seq(Msgs)
         /\ Held(delivered) \in Seq(Msgs)
         /\ Held(solving) \o messages \in Seq(Msgs)
         /\ Held(solving) \o messages \o Held(received) \in Seq(Msgs)
         /\ Held(solving) \o messages \o Held(received) \o recvBuffer \in Seq(Msgs)
         /\ Taken \in Seq(Msgs)
<1>1. Held(solving) \in Seq(Msgs) /\ Held(received) \in Seq(Msgs)
      /\ Held(delivered) \in Seq(Msgs)
  BY DEF TypeOK, Held
<1> HIDE DEF Held
<1>2. Held(solving) \o messages \in Seq(Msgs)  BY <1>1, ConcatProperties DEF TypeOK
<1>3. Held(solving) \o messages \o Held(received) \in Seq(Msgs)
  BY <1>1, <1>2, ConcatProperties
<1>4. Held(solving) \o messages \o Held(received) \o recvBuffer \in Seq(Msgs)
  BY <1>3, ConcatProperties DEF TypeOK
<1>5. Taken \in Seq(Msgs)
  BY <1>1, <1>4, ConcatProperties DEF Taken
<1> QED  BY <1>1, <1>2, <1>3, <1>4, <1>5

\* The model at the front of main's queue is at the front of everything behind it.
LEMMA FrontOut ==
  ASSUME TypeOK, NEW m \in Msgs, NEW q \in Seq(Msgs)
  PROVE  LET rest == q \o Held(received) \o recvBuffer \o Held(delivered)
             all  == <<m>> \o q \o Held(received) \o recvBuffer \o Held(delivered)
         IN  all # << >> /\ Head(all) = m /\ Tail(all) = rest
<1>1. <<m>> \in Seq(Msgs)  OBVIOUS
<1>2. /\ Held(received) \in Seq(Msgs) /\ Held(delivered) \in Seq(Msgs)
      /\ recvBuffer \in Seq(Msgs)
  BY Stations DEF TypeOK
<1>3. PICK a : a = q \o Held(received)  OBVIOUS
<1>4. PICK b : b = a \o recvBuffer  OBVIOUS
<1>5. PICK c : c = b \o Held(delivered)  OBVIOUS
<1>6. a \in Seq(Msgs)  BY <1>2, <1>3, ConcatProperties
<1>7. b \in Seq(Msgs)  BY <1>2, <1>4, <1>6, ConcatProperties
<1>8. c \in Seq(Msgs)  BY <1>2, <1>5, <1>7, ConcatProperties
<1>9. (<<m>> \o q) \o Held(received) = <<m>> \o (q \o Held(received))
  BY <1>1, <1>2, ConcatAssociative
<1>10. (<<m>> \o a) \o recvBuffer = <<m>> \o (a \o recvBuffer)
  BY <1>1, <1>2, <1>6, ConcatAssociative
<1>11. (<<m>> \o b) \o Held(delivered) = <<m>> \o (b \o Held(delivered))
  BY <1>1, <1>2, <1>7, ConcatAssociative
<1>12. <<m>> \o q \o Held(received) \o recvBuffer \o Held(delivered) = <<m>> \o c
  BY <1>3, <1>4, <1>5, <1>9, <1>10, <1>11, Zenon
<1>13. q \o Held(received) \o recvBuffer \o Held(delivered) = c
  BY <1>3, <1>4, <1>5, Zenon
<1>14. <<m>> \o c # << >> /\ Head(<<m>> \o c) = m /\ Tail(<<m>> \o c) = c
  BY <1>8, TailOfConcat
<1> QED  BY <1>12, <1>13, <1>14, Zenon

\* A malformed model is at the front and is dropped.
Drops ==
    /\ Taken # << >> /\ Head(Taken) \in Malformed
    /\ Taken' = Tail(Taken)
    /\ UNCHANGED <<posted, broker, recvOpen, sendOpen, workQueue, sentVars, up>>

\* A well-formed model is at the front and is answered.
Answers ==
    /\ sendOpen
    /\ Taken # << >> /\ Head(Taken) \notin Malformed
    /\ Taken' = Tail(Taken)
    /\ workQueue' = Append(workQueue, Head(Taken))
    /\ UNCHANGED <<posted, broker, recvOpen, sendOpen, sentVars, up>>

\* Threads hand on what they hold, or test, wait and wake.
Hands == UNCHANGED <<posted, broker, recvOpen, sendOpen, workQueue, sentVars, up, Taken>>

\* Between on_message and sendSync the three threads, their locals and their two queues
\* are one queue.
LEMMA ThreadsAreOneQueue ==
  ASSUME IInv, [Next]_vars
  PROVE  \/ OnMessage /\ Taken' = Append(Taken, Head(broker))
         \/ up /\ (Drops \/ Answers)
         \/ (Post \/ OnReceiverOpen \/ OnSenderOpen \/ Send \/ Arrive \/ RaceFault)
               /\ UNCHANGED Taken
         \/ Hands
<1>t. TypeOK /\ HoldersHold  BY DEF IInv
<1>s. /\ Held(solving) \in Seq(Msgs) /\ Held(received) \in Seq(Msgs)
      /\ Held(delivered) \in Seq(Msgs)
      /\ Held(solving) \o messages \in Seq(Msgs)
      /\ Held(solving) \o messages \o Held(received) \in Seq(Msgs)
      /\ Held(solving) \o messages \o Held(received) \o recvBuffer \in Seq(Msgs)
      /\ Taken \in Seq(Msgs)
  BY <1>t, Stations
<1>q. /\ broker \in Seq(Msgs) /\ recvBuffer \in Seq(Msgs) /\ messages \in Seq(Msgs)
  BY <1>t DEF TypeOK
<1>1. CASE OnMessage
  <2> DEFINE x == Held(solving) \o messages \o Held(received) \o recvBuffer
  <2>1. Held(delivered) = << >> /\ Held(delivered') = <<Head(broker)>>
        /\ Head(broker) \in Msgs
    BY <1>1, <1>t, <1>q, QueueTypes, MaxMsgsAssumption
    DEF OnMessage, HoldersHold, Held, Msgs, NoMsg
  <2>2. Taken = x \o << >>  BY <2>1 DEF Taken
  <2>3. Taken' = x \o <<Head(broker)>>
    BY <1>1, <2>1 DEF Taken, OnMessage, receiverVars, mainVars, Held
  <2>4. x \in Seq(Msgs)  BY <1>s
  <2> HIDE DEF x
  <2>5. Taken' = Append(Taken, Head(broker))
    BY <2>1, <2>2, <2>3, <2>4, ConcatEmptySeq, AppendIsConcat
  <2> QED  BY <1>1, <2>5
<1>2. CASE PushRecvBuffer
  <2> DEFINE x == Held(solving) \o messages \o Held(received)
  <2>1. delivered \in Msgs /\ Held(delivered) = <<delivered>> /\ Held(delivered') = << >>
    BY <1>2, <1>t DEF PushRecvBuffer, HoldersHold, TypeOK, Held, NoMsg
  <2>2. Taken = (x \o recvBuffer) \o <<delivered>>  BY <2>1 DEF Taken
  <2>3. Taken' = (x \o Append(recvBuffer, delivered)) \o << >>
    BY <1>2, <2>1 DEF Taken, PushRecvBuffer, receiverVars, mainVars, Held
  <2>4. x \in Seq(Msgs)  BY <1>s
  <2> HIDE DEF x
  <2>5. Taken' = Taken  BY <2>1, <2>2, <2>3, <2>4, <1>q, PutBack, SMTT(60)
  <2> QED  BY <1>2, <2>5 DEF PushRecvBuffer, Hands, linkVars
<1>3. CASE ReceiveSync
  <2>1. CASE ~recvOpen \/ recvBuffer = << >>
    <3>1. Taken' = Taken
      BY <1>3, <2>1 DEF ReceiveSync, Taken, Held, containerVars, mainVars
    <3> QED  BY <1>3, <3>1 DEF ReceiveSync, Hands, linkVars
  <2>2. CASE recvOpen /\ recvBuffer # << >>
    <3> DEFINE x == Held(solving) \o messages
    <3>1. Held(received) = << >> /\ Held(received') = <<Head(recvBuffer)>>
      BY <1>3, <2>2, <1>t, <1>q, QueueTypes, MaxMsgsAssumption
      DEF ReceiveSync, HoldersHold, Held, Msgs, NoMsg
    <3>2. Taken = ((x \o << >>) \o recvBuffer) \o Held(delivered)
      BY <3>1 DEF Taken
    <3>3. Taken' = ((x \o <<Head(recvBuffer)>>) \o Tail(recvBuffer)) \o Held(delivered)
      BY <1>3, <2>2, <3>1 DEF Taken, ReceiveSync, containerVars, mainVars, Held
    <3>4. x \in Seq(Msgs)  BY <1>s
    <3> HIDE DEF x
    <3>5. Taken' = Taken  BY <2>2, <3>2, <3>3, <3>4, <1>q, HandOn
    <3> QED  BY <1>3, <3>5 DEF ReceiveSync, Hands, linkVars
  <2> QED  BY <2>1, <2>2
<1>4. CASE PushMessages
  <2> DEFINE x == Held(solving)
  <2>1. received \in Msgs /\ Held(received) = <<received>> /\ Held(received') = << >>
    BY <1>4, <1>t DEF PushMessages, HoldersHold, TypeOK, Held, NoMsg
  <2>2. Taken = ((x \o messages) \o <<received>>) \o recvBuffer \o Held(delivered)
    BY <2>1 DEF Taken
  <2>3. Taken' = ((x \o Append(messages, received)) \o << >>) \o recvBuffer
                    \o Held(delivered)
    BY <1>4, <2>1 DEF Taken, PushMessages, containerVars, mainVars, Held
  <2>4. x \in Seq(Msgs)  BY <1>s
  <2> HIDE DEF x
  <2>5. Taken' = Taken  BY <2>1, <2>2, <2>3, <2>4, <1>q, PutBack
  <2> QED  BY <1>4, <2>5 DEF PushMessages, Hands, linkVars
<1>5. CASE PopMessages
  <2>1. solving = NoMsg /\ Held(solving) = << >>
    BY <1>5, <1>t DEF PopMessages, HoldersHold, Held, Solving
  <2>2. CASE messages = << >>
    <3>1. Taken' = Taken
      BY <1>5, <2>2 DEF PopMessages, Taken, Held, containerVars, receiverVars
    <3> QED  BY <1>5, <3>1 DEF PopMessages, Hands, linkVars
  <2>3. CASE messages # << >> /\ Head(messages) \notin Malformed
    <3>1. Head(messages) \in Msgs  BY <2>3, <1>q, QueueTypes
    <3>2. Held(solving') = <<Head(messages)>> /\ messages' = Tail(messages)
      BY <1>5, <2>3, <3>1, MaxMsgsAssumption DEF PopMessages, ParseMsg, Held, Msgs, NoMsg
    <3>3. Held(solving) \o messages = <<Head(messages)>> \o Tail(messages)
      BY <2>1, <2>3, <1>q, HeadAndTail, ConcatEmptySeq
    <3>4. Taken' = Taken
      BY <1>5, <2>3, <3>2, <3>3
      DEF PopMessages, Taken, Held, containerVars, receiverVars
    <3> QED  BY <1>5, <3>4 DEF PopMessages, Hands, linkVars
  <2>4. CASE messages # << >> /\ Head(messages) \in Malformed
    <3>1. Head(messages) \in Msgs /\ Tail(messages) \in Seq(Msgs)
      BY <2>4, <1>q, HeadAndTail
    <3>2. << >> \o messages = <<Head(messages)>> \o Tail(messages)
      BY <2>4, <1>q, HeadAndTail, ConcatEmptySeq
    <3>3. Taken = <<Head(messages)>> \o Tail(messages) \o Held(received) \o recvBuffer
                     \o Held(delivered)
      BY <2>1, <3>2 DEF Taken
    <3>4. Taken' = Tail(messages) \o Held(received) \o recvBuffer \o Held(delivered)
      <4>1. << >> \o Tail(messages) = Tail(messages)  BY <3>1, ConcatEmptySeq
      <4> QED
        BY <1>5, <2>1, <2>4, <4>1
        DEF PopMessages, ParseMsg, Taken, Held, containerVars, receiverVars, mainVars
    <3>5. Taken # << >> /\ Head(Taken) = Head(messages) /\ Tail(Taken) = Taken'
      BY <1>t, <3>1, <3>3, <3>4, FrontOut
    <3> QED  BY <1>5, <2>4, <3>5 DEF PopMessages, Drops, linkVars
  <2> QED  BY <2>2, <2>3, <2>4
<1>6. CASE SendSync
  <2>1. CASE ~sendOpen
    <3>1. Taken' = Taken
      BY <1>6, <2>1 DEF SendSync, Taken, Held, containerVars, receiverVars
    <3> QED  BY <1>6, <2>1, <3>1 DEF SendSync, Hands, linkVars
  <2>2. CASE sendOpen
    <3>1. /\ solving \in Msgs \ Malformed
          /\ Held(solving) = <<solving>> /\ Held(solving') = << >>
      BY <1>6, <2>2, <1>t DEF SendSync, HoldersHold, TypeOK, Held, NoMsg, Solving
    <3>2. Taken = <<solving>> \o messages \o Held(received) \o recvBuffer
                     \o Held(delivered)
      BY <3>1 DEF Taken
    <3>3. << >> \o messages = messages  BY <1>q, ConcatEmptySeq
    <3>4. Taken' = messages \o Held(received) \o recvBuffer \o Held(delivered)
      BY <1>6, <3>1, <3>3 DEF SendSync, Taken, Held, containerVars, receiverVars
    <3>5. Taken # << >> /\ Head(Taken) = solving /\ Tail(Taken) = Taken'
      BY <1>t, <1>q, <3>1, <3>2, <3>4, FrontOut
    <3> QED  BY <1>6, <2>2, <3>1, <3>5 DEF SendSync, Answers, linkVars
  <2> QED  BY <2>1, <2>2
<1>7. CASE Post \/ OnReceiverOpen \/ OnSenderOpen \/ Send \/ Arrive \/ RaceFault
  <2>1. Taken' = Taken
    BY <1>7 DEF Post, OnReceiverOpen, OnSenderOpen, Send, Arrive, RaceFault, Taken, Held,
                containerVars, receiverVars, mainVars
  <2> QED  BY <1>7, <2>1
<1>8. ASSUME UNCHANGED <<posted, broker, recvOpen, sendOpen, delivered, recvBuffer, received,
                         messages, solving, workQueue, sentVars, up>>
      PROVE  Hands
  BY <1>8 DEF Hands, Taken, Held
<1>9. CASE OnSendable \/ NotifyCanRecv
  BY <1>8, <1>9 DEF OnSendable, NotifyCanRecv, containerVars, receiverVars, mainVars, linkVars
<1>10. CASE WaitCanRecv \/ NotifyMain \/ WaitMessages \/ Solve \/ WaitCanSend \/ Reap
  BY <1>8, <1>10 DEF WaitCanRecv, NotifyMain, WaitMessages, Solve, WaitCanSend, Reap,
                     containerVars, receiverVars, mainVars, linkVars
<1>11. CASE SpuriousWakeup \/ UNCHANGED vars
  BY <1>8, <1>11 DEF SpuriousWakeup, vars, containerVars, receiverVars, mainVars, linkVars
<1> QED
  BY <1>1, <1>2, <1>3, <1>4, <1>5, <1>6, <1>7, <1>9, <1>10, <1>11
  DEF Next, Container, Receiver, Main

-----------------------------------------------------------------------------
(* The refinement of SolverQueue *)

LEMMA EmptyStart == Init => Taken = << >> /\ Todo = << >>
<1> SUFFICES ASSUME Init PROVE Taken = << >> /\ Todo = << >>  OBVIOUS
<1>1. << >> \o << >> = << >>  BY ConcatEmptySeq, << >> \in Seq({})
<1>2. Taken = << >>  BY <1>1 DEF Taken, Held, Init
<1> QED  BY <1>1, <1>2 DEF Todo, Init

LEMMA InitRefines == Init => Queue!Init
<1> SUFFICES ASSUME Init PROVE Queue!Init  OBVIOUS
<1>1. << >> \o << >> = << >>  BY ConcatEmptySeq, << >> \in Seq({})
<1>2. solutions \o transit \o workQueue = << >>  BY <1>1 DEF Init
<1> QED  BY <1>2, EmptyStart DEF Queue!Init, Init

\* An answer goes through the work queue, the library and the broker in the order of its
\* coming; SolverWorker and SolverLink take these steps alike.
LEMMA AnswerQueued ==
  ASSUME NEW S, NEW sol \in Seq(S), NEW tra \in Seq(S), NEW wq \in Seq(S), NEW m \in S
  PROVE  sol \o tra \o Append(wq, m) = Append(sol \o tra \o wq, m)
<1>1. sol \o tra \in Seq(S)  BY ConcatProperties
<1> QED  BY <1>1, AppendAtEnd

LEMMA AnswerArrived ==
  ASSUME NEW S, NEW sol \in Seq(S), NEW tra \in Seq(S), NEW wq \in Seq(S), tra # << >>
  PROVE  Append(sol, Head(tra)) \o Tail(tra) \o wq = sol \o tra \o wq
<1>1. Append(sol, Head(tra)) \o Tail(tra) = sol \o tra  BY HandOver
<1> QED  BY <1>1

LEMMA NextRefines == IInv /\ [Next]_vars => [Queue!Next]_(Queue!vars)
<1> SUFFICES ASSUME IInv, [Next]_vars PROVE [Queue!Next]_(Queue!vars)  OBVIOUS
<1>q. /\ Taken \in Seq(Msgs) /\ broker \in Seq(Msgs)
      /\ workQueue \in Seq(Msgs) /\ transit \in Seq(Msgs) /\ solutions \in Seq(Msgs)
  BY Stations DEF IInv, TypeOK
<1> DEFINE Answered == solutions \o transit \o workQueue
<1>stutter. UNCHANGED <<posted, Todo, Answered>> => [Queue!Next]_(Queue!vars)
  BY DEF Queue!vars
<1>1. CASE Post /\ UNCHANGED Taken
  <2>1. /\ posted' \in Msgs /\ posted < MaxMsgs /\ posted' = posted + 1
        /\ broker' = Append(broker, posted')
    BY <1>1, MaxMsgsAssumption DEF Post, PostToBroker, IInv, TypeOK, Msgs
  <2>2. Todo' = Append(Todo, posted')  BY <1>1, <2>1, <1>q, AppendAtEnd DEF Todo
  <2>3. UNCHANGED Answered  BY <1>1 DEF Post, sentVars
  <2> QED  BY <2>1, <2>2, <2>3 DEF Queue!Next, Queue!Post
<1>2. CASE OnMessage /\ Taken' = Append(Taken, Head(broker))
  <2>1. broker # << >> /\ broker' = Tail(broker)  BY <1>2 DEF OnMessage
  <2>2. Todo' = Todo  BY <1>2, <2>1, <1>q, HandOver DEF Todo
  <2> QED  BY <1>2, <2>2, <1>stutter DEF OnMessage, sentVars
<1>3. CASE Drops
  <2>1. Todo # << >> /\ Head(Todo) = Head(Taken) /\ Tail(Todo) = Todo'
    BY <1>3, <1>q, FrontOfConcat DEF Todo, Drops
  <2> QED  BY <1>3, <2>1 DEF Drops, Queue!Next, Queue!Answer, sentVars
<1>4. CASE Answers
  <2>1. Todo # << >> /\ Head(Todo) = Head(Taken) /\ Tail(Todo) = Todo'
    BY <1>4, <1>q, FrontOfConcat DEF Todo, Answers
  <2>2. Head(Taken) \in Msgs  BY <1>4, <1>q, HeadAndTail DEF Answers
  <2>3. Answered' = Append(Answered, Head(Taken))
    BY <1>4, <1>q, <2>2, AnswerQueued DEF Answers, sentVars
  <2> QED  BY <1>4, <2>1, <2>3 DEF Answers, Queue!Next, Queue!Answer
<1>5. CASE Send /\ UNCHANGED Taken
  <2>1. /\ workQueue # << >> /\ workQueue' = Tail(workQueue)
        /\ transit' = Append(transit, Head(workQueue)) /\ solutions' = solutions
    BY <1>5 DEF Send, PassToLibrary
  <2>2. solutions \o transit \in Seq(Msgs) /\ Head(workQueue) \in Msgs
    BY <1>q, <2>1, ConcatProperties, HeadAndTail
  <2>3. solutions \o transit' = Append(solutions \o transit, Head(workQueue))
    BY <1>q, <2>1, <2>2, AppendAtEnd
  <2>4. Append(solutions \o transit, Head(workQueue)) \o Tail(workQueue) = Answered
    BY <1>q, <2>1, <2>2, HandOver
  <2>5. UNCHANGED Answered  BY <2>1, <2>3, <2>4
  <2> QED  BY <1>5, <2>5, <1>stutter DEF Send, Todo
<1>6. CASE Arrive /\ UNCHANGED Taken
  <2>1. UNCHANGED Answered
    BY <1>6, <1>q, AnswerArrived DEF Arrive, ArriveAtBroker
  <2> QED  BY <1>6, <2>1, <1>stutter DEF Arrive, Todo
<1>7. CASE (OnReceiverOpen \/ OnSenderOpen \/ RaceFault) /\ UNCHANGED Taken
  BY <1>7, <1>stutter DEF OnReceiverOpen, OnSenderOpen, RaceFault, sentVars, Todo
<1>8. CASE Hands
  BY <1>8, <1>stutter DEF Hands, sentVars, Todo
<1> QED
  BY <1>1, <1>2, <1>3, <1>4, <1>5, <1>6, <1>7, <1>8, ThreadsAreOneQueue

-----------------------------------------------------------------------------
(* The refinement of SolverLink *)

Upto(n) == [i \in 1 .. n |-> i]

\* The broker still has the models posted last, in their order; what is in the process,
\* or under way to the broker again, are models that it has given out.
BrokerHasRest ==
    /\ Len(broker) <= posted
    /\ \A i \in 1 .. Len(broker) : broker[i] = Given + i
    /\ Taken \in Seq(1 .. Given)
    /\ workQueue \in Seq(1 .. Given) /\ transit \in Seq(1 .. Given)

\* Nothing was sent before the sender was open.
OpenFirst == ~sendOpen => workQueue = << >> /\ transit = << >>

LEMMA UptoIs ==
  ASSUME NEW n \in Nat
  PROVE  /\ Upto(n) \in Seq(1 .. n) /\ Len(Upto(n)) = n
         /\ \A i \in 1 .. n : Upto(n)[i] = i
         /\ ToSet(Upto(n)) = 1 .. n
         /\ Append(Upto(n), n + 1) = Upto(n + 1)
<1>1. /\ Upto(n) \in Seq(1 .. n) /\ Len(Upto(n)) = n
      /\ \A i \in 1 .. n : Upto(n)[i] = i
  BY SeqDef, LenProperties DEF Upto
<1>2. ToSet(Upto(n)) = 1 .. n
  <2>1. ToSet(Upto(n)) = {Upto(n)[i] : i \in 1 .. n}  BY <1>1, ToSetIs
  <2> QED  BY <1>1, <2>1
<1>3. Append(Upto(n), n + 1) = Upto(n + 1)
  <2>1. Upto(n) \in Seq(Nat) /\ n + 1 \in Nat
    <3>1. 1 .. n \subseteq Nat  OBVIOUS
    <3> QED  BY <1>1, <3>1, SeqOfMore
  <2>2. /\ Append(Upto(n), n + 1) \in Seq(Nat) /\ Len(Append(Upto(n), n + 1)) = n + 1
        /\ \A i \in 1 .. n : Append(Upto(n), n + 1)[i] = i
        /\ Append(Upto(n), n + 1)[n + 1] = n + 1
    BY <1>1, <2>1, AppendProperties
  <2>3. /\ Upto(n + 1) \in Seq(Nat) /\ Len(Upto(n + 1)) = n + 1
        /\ \A i \in 1 .. n + 1 : Upto(n + 1)[i] = i
    BY SeqDef, LenProperties DEF Upto
  <2> QED  BY <2>2, <2>3, SeqEqual
<1> QED  BY <1>1, <1>2, <1>3

\* What was given out, before what was not, is what was posted.
LEMMA GivenAndRest ==
  ASSUME TypeOK, BrokerHasRest
  PROVE  Given \in Nat /\ posted \in Nat /\ Upto(Given) \o broker = Upto(posted)
<1>1. /\ posted \in Nat /\ Len(broker) \in Nat /\ Given \in Nat
      /\ posted = Given + Len(broker) /\ broker \in Seq(Nat)
  <2>1. Msgs \subseteq Nat  BY MaxMsgsAssumption DEF Msgs
  <2>2. broker \in Seq(Nat)  BY <2>1, SeqOfMore DEF TypeOK
  <2> QED  BY <2>2, LenProperties DEF TypeOK, BrokerHasRest, Given
<1>2. Upto(Given) \in Seq(Nat) /\ Upto(posted) \in Seq(Nat)
  BY <1>1, SeqDef DEF Upto
<1>3. /\ Upto(Given) \o broker \in Seq(Nat) /\ Len(Upto(Given) \o broker) = posted
      /\ \A i \in 1 .. posted :
            (Upto(Given) \o broker)[i]
                = IF i <= Given THEN Upto(Given)[i] ELSE broker[i - Given]
  <2>1. Len(Upto(Given)) = Given  BY <1>1, UptoIs
  <2>2. /\ Upto(Given) \o broker \in Seq(Nat)
        /\ Len(Upto(Given) \o broker) = Len(Upto(Given)) + Len(broker)
        /\ \A i \in 1 .. Len(Upto(Given)) + Len(broker) :
              (Upto(Given) \o broker)[i]
                  = IF i <= Len(Upto(Given)) THEN Upto(Given)[i]
                    ELSE broker[i - Len(Upto(Given))]
    BY <1>1, <1>2, ConcatProperties
  <2> QED  BY <1>1, <2>1, <2>2
<1>4. ASSUME NEW i \in 1 .. posted PROVE (Upto(Given) \o broker)[i] = i
  <2>1. CASE i <= Given
    <3>1. i \in 1 .. Given  BY <1>1, <2>1
    <3> QED  BY <1>1, <1>3, <2>1, <3>1, UptoIs
  <2>2. CASE ~(i <= Given)
    <3>1. i - Given \in 1 .. Len(broker) /\ Given + (i - Given) = i  BY <1>1, <2>2
    <3> QED  BY <1>3, <2>2, <3>1 DEF BrokerHasRest
  <2> QED  BY <2>1, <2>2
<1>5. Len(Upto(posted)) = posted /\ \A i \in 1 .. posted : Upto(posted)[i] = i
  BY <1>1, UptoIs
<1> QED  BY <1>1, <1>2, <1>3, <1>4, <1>5, SeqEqual

LEMMA InitRest == Init => BrokerHasRest
<1> SUFFICES ASSUME Init PROVE BrokerHasRest  OBVIOUS
<1>1. broker = << >> /\ posted = 0 /\ workQueue = << >> /\ transit = << >>  BY DEF Init
<1>2. Len(<< >>) = 0 /\ \A S : << >> \in Seq(S)  OBVIOUS
<1> QED  BY <1>1, <1>2, EmptyStart DEF BrokerHasRest

\* The model that on_message gets is the next one.
LEMMA NextIsGiven ==
  ASSUME TypeOK, BrokerHasRest, OnMessage
  PROVE  /\ Given \in Nat /\ Given' = Given + 1 /\ Head(broker) = Given + 1
         /\ broker' = Tail(broker) /\ posted' = posted
<1>1. Given \in Nat /\ posted \in Nat  BY GivenAndRest
<1>2. broker # << >> /\ broker' = Tail(broker) /\ posted' = posted  BY DEF OnMessage
<1>3. Len(broker) \in Nat \ {0} /\ Len(Tail(broker)) = Len(broker) - 1
      /\ Head(broker) = broker[1]
  BY <1>2, HeadTailProperties, EmptySeq, LenProperties DEF TypeOK
<1>4. Given' = Given + 1  BY <1>1, <1>2, <1>3 DEF Given
<1>5. 1 \in 1 .. Len(broker)  BY <1>3
<1> QED  BY <1>1, <1>2, <1>3, <1>4, <1>5 DEF BrokerHasRest

LEMMA NextRest == IInv /\ BrokerHasRest /\ [Next]_vars => BrokerHasRest'
<1> SUFFICES ASSUME IInv, BrokerHasRest, [Next]_vars PROVE BrokerHasRest'  OBVIOUS
<1>t. TypeOK  BY DEF IInv
<1>n. /\ posted \in Nat /\ Given \in Nat /\ Len(broker) \in Nat
      /\ broker \in Seq(Msgs) /\ posted = Given + Len(broker)
  BY <1>t, GivenAndRest, LenProperties DEF TypeOK, Given
<1>s. /\ Taken \in Seq(1 .. Given) /\ workQueue \in Seq(1 .. Given)
      /\ transit \in Seq(1 .. Given)
  BY DEF BrokerHasRest
<1>same. ASSUME UNCHANGED <<posted, broker>>, Taken' \in Seq(1 .. Given),
                workQueue' \in Seq(1 .. Given), transit' \in Seq(1 .. Given)
         PROVE  BrokerHasRest'
  BY <1>same DEF BrokerHasRest, Given
<1>1. CASE Post /\ UNCHANGED Taken
  <2>1. /\ posted' = posted + 1 /\ broker' = Append(broker, posted') /\ posted' \in Msgs
        /\ UNCHANGED <<workQueue, transit>>
    BY <1>1, <1>t, MaxMsgsAssumption DEF Post, PostToBroker, TypeOK, Msgs, sentVars
  <2>2. /\ Len(broker') = Len(broker) + 1
        /\ \A i \in 1 .. Len(broker) : broker'[i] = broker[i]
        /\ broker'[Len(broker) + 1] = posted'
    BY <2>1, <1>n, AppendProperties
  <2>3. Given' = Given  BY <2>1, <2>2, <1>n DEF Given
  <2>4. ASSUME NEW i \in 1 .. Len(broker') PROVE broker'[i] = Given + i
    <3>1. CASE i \in 1 .. Len(broker)  BY <2>2, <3>1 DEF BrokerHasRest
    <3>2. CASE i = Len(broker) + 1  BY <1>n, <2>1, <2>2, <3>2
    <3> QED  BY <1>n, <2>2, <3>1, <3>2
  <2>5. Len(broker') <= posted'  BY <1>n, <2>1, <2>2
  <2> QED  BY <1>1, <1>s, <2>1, <2>3, <2>4, <2>5 DEF BrokerHasRest
<1>2. CASE OnMessage /\ Taken' = Append(Taken, Head(broker))
  <2>1. /\ Given' = Given + 1 /\ Head(broker) = Given + 1
        /\ broker' = Tail(broker) /\ posted' = posted
    BY <1>2, <1>t, NextIsGiven
  <2>2. broker # << >> /\ UNCHANGED <<workQueue, transit>>  BY <1>2 DEF OnMessage, sentVars
  <2>3. /\ Len(broker') = Len(broker) - 1 /\ Len(broker) \in Nat \ {0}
        /\ \A i \in 1 .. Len(broker) - 1 : broker'[i] = broker[i + 1]
    BY <1>n, <2>1, <2>2, HeadTailProperties, EmptySeq
  <2>4. ASSUME NEW i \in 1 .. Len(broker') PROVE broker'[i] = Given' + i
    <3>1. i + 1 \in 1 .. Len(broker) /\ broker'[i] = broker[i + 1]  BY <2>3
    <3>2. broker[i + 1] = Given + (i + 1)  BY <3>1 DEF BrokerHasRest
    <3> QED  BY <1>n, <2>1, <3>1, <3>2
  <2>5. 1 .. Given \subseteq 1 .. Given' /\ Given + 1 \in 1 .. Given'  BY <1>n, <2>1
  <2>6. /\ Taken \in Seq(1 .. Given') /\ workQueue \in Seq(1 .. Given')
        /\ transit \in Seq(1 .. Given')
    BY <1>s, <2>5, SeqOfMore
  <2>7. Taken' \in Seq(1 .. Given')  BY <1>2, <2>1, <2>5, <2>6, AppendProperties
  <2>8. Len(broker') <= posted'  BY <1>n, <2>1, <2>3
  <2> QED  BY <2>2, <2>4, <2>6, <2>7, <2>8 DEF BrokerHasRest
<1>3. CASE Drops
  <2>1. Tail(Taken) \in Seq(1 .. Given)  BY <1>3, <1>s, HeadAndTail DEF Drops
  <2> QED  BY <1>3, <1>s, <1>same, <2>1 DEF Drops, sentVars
<1>4. CASE Answers
  <2>1. Tail(Taken) \in Seq(1 .. Given) /\ Head(Taken) \in 1 .. Given
    BY <1>4, <1>s, HeadAndTail DEF Answers
  <2>2. Append(workQueue, Head(Taken)) \in Seq(1 .. Given)
    BY <1>s, <2>1, AppendProperties
  <2> QED  BY <1>4, <1>s, <1>same, <2>1, <2>2 DEF Answers, sentVars
<1>5. CASE Send /\ UNCHANGED Taken
  <2>1. /\ workQueue # << >> /\ workQueue' = Tail(workQueue)
        /\ transit' = Append(transit, Head(workQueue))
        /\ UNCHANGED <<posted, broker>>
    BY <1>5 DEF Send, PassToLibrary
  <2>2. Tail(workQueue) \in Seq(1 .. Given) /\ Head(workQueue) \in 1 .. Given
    BY <1>s, <2>1, HeadAndTail
  <2>3. Append(transit, Head(workQueue)) \in Seq(1 .. Given)
    BY <1>s, <2>2, AppendProperties
  <2> QED  BY <1>5, <1>s, <1>same, <2>1, <2>2, <2>3
<1>6. CASE Arrive /\ UNCHANGED Taken
  <2>1. transit # << >> /\ transit' = Tail(transit) /\ UNCHANGED <<posted, broker, workQueue>>
    BY <1>6 DEF Arrive, ArriveAtBroker
  <2>2. Tail(transit) \in Seq(1 .. Given)  BY <1>s, <2>1, HeadAndTail
  <2> QED  BY <1>6, <1>s, <1>same, <2>1, <2>2
<1>7. CASE (OnReceiverOpen \/ OnSenderOpen \/ RaceFault) /\ UNCHANGED Taken
  BY <1>7, <1>s, <1>same DEF OnReceiverOpen, OnSenderOpen, RaceFault, sentVars
<1>8. CASE Hands
  BY <1>8, <1>s, <1>same DEF Hands, sentVars
<1> QED
  BY <1>1, <1>2, <1>3, <1>4, <1>5, <1>6, <1>7, <1>8, ThreadsAreOneQueue


LEMMA NextOpenFirst == IInv /\ OpenFirst /\ [Next]_vars => OpenFirst'
<1> SUFFICES ASSUME IInv, OpenFirst, [Next]_vars, ~sendOpen' PROVE OpenFirst'
  BY DEF OpenFirst
<1> USE DEF OpenFirst, sentVars, linkVars
<1>1. CASE OnMessage  BY <1>1 DEF OnMessage
<1>2. CASE Drops \/ Answers  BY <1>2 DEF Drops, Answers
<1>3. CASE Post \/ OnReceiverOpen \/ OnSenderOpen \/ RaceFault
  BY <1>3 DEF Post, OnReceiverOpen, OnSenderOpen, RaceFault
<1>4. CASE Send \/ Arrive
  BY <1>4 DEF Send, Arrive, PassToLibrary, ArriveAtBroker
<1>5. CASE Hands  BY <1>5 DEF Hands
<1> QED  BY <1>1, <1>2, <1>3, <1>4, <1>5, ThreadsAreOneQueue

LEMMA InitLinks == Init => Link!LinkInit
<1> SUFFICES ASSUME Init PROVE Link!LinkInit  OBVIOUS
<1>1. /\ posted = 0 /\ broker = << >> /\ workQueue = << >> /\ transit = << >>
      /\ solutions = << >> /\ up = TRUE /\ recvOpen = FALSE /\ sendOpen = FALSE
  BY DEF Init
<1>2. Given = 0
  <2>1. Len(broker) = 0 /\ posted = 0  BY <1>1
  <2>2. posted - Len(broker) = 0  BY ONLY <2>1
  <2> QED  BY <2>2 DEF Given
<1>3. [i \in 1 .. 0 |-> i] = << >>
  <2>1. Upto(0) \in Seq(1 .. 0) /\ Len(Upto(0)) = 0  BY UptoIs
  <2> QED  BY <2>1, EmptySeq DEF Upto
<1>4. [m \in Msgs |-> IF ~up /\ m <= Given THEN 1 ELSE 0] = [m \in Msgs |-> 0]
  BY <1>1
<1> QED  BY <1>1, <1>2, <1>3, <1>4, EmptyStart DEF Link!LinkInit, Link!Msgs, Msgs

\* Every step of the process is one that the broker expects, or none that it sees.
LEMMA NextLinks ==
  IInv /\ BrokerHasRest /\ OpenFirst /\ [Next]_vars => [Link!LinkNext]_(Link!linkState)
<1> SUFFICES ASSUME IInv, BrokerHasRest, OpenFirst, [Next]_vars
             PROVE  [Link!LinkNext]_(Link!linkState)
  OBVIOUS
<1>t. TypeOK  BY DEF IInv
<1>n. /\ posted \in Nat /\ Given \in Nat /\ up \in BOOLEAN /\ recvOpen \in BOOLEAN
      /\ sendOpen \in BOOLEAN
  BY <1>t, GivenAndRest DEF TypeOK
<1> USE DEF Link!brokerVars, Link!connectionVars, Link!historyVars
<1>stutter. ASSUME UNCHANGED <<posted, broker, recvOpen, sendOpen, workQueue, transit,
                               solutions, up, Taken>>
            PROVE  UNCHANGED Link!linkState
  BY <1>stutter DEF Link!linkState, Given
<1>1. CASE Post /\ UNCHANGED Taken
  <2>1. /\ PostToBroker
        /\ UNCHANGED <<Taken, recvOpen, sendOpen, workQueue, transit, solutions, up>>
    BY <1>1 DEF Post, linkVars, sentVars
  <2>2. /\ posted' = posted + 1 /\ posted < MaxMsgs /\ broker' = Append(broker, posted')
    BY <2>1 DEF PostToBroker
  <2>3. Given' = Given
    <3>1. posted' \in Msgs  BY <1>n, <2>2, MaxMsgsAssumption DEF Msgs
    <3>2. Len(broker') = Len(broker) + 1 /\ Len(broker) \in Nat
      BY <1>t, <2>2, <3>1, AppendProperties, LenProperties DEF TypeOK
    <3> QED  BY <1>n, <2>2, <3>2 DEF Given
  <2>4. [i \in 1 .. posted' |-> i] = Append([i \in 1 .. posted |-> i], posted')
    BY <1>n, <2>2, UptoIs DEF Upto
  <2>5. Link!LinkPost
    BY <2>1, <2>2, <2>3, <2>4 DEF Link!LinkPost, Link!PostToBroker
  <2> QED  BY <2>5 DEF Link!LinkNext
<1>2. CASE OnMessage /\ Taken' = Append(Taken, Head(broker))
  <2>1. /\ Given' = Given + 1 /\ Head(broker) = Given + 1
        /\ broker' = Tail(broker) /\ posted' = posted
    BY <1>2, <1>t, NextIsGiven
  <2>2. /\ up /\ recvOpen /\ broker # << >>
        /\ UNCHANGED <<recvOpen, sendOpen, workQueue, transit, solutions, up>>
    BY <1>2 DEF OnMessage, linkVars, sentVars
  <2>3. [i \in 1 .. Given' |-> i] = Append([i \in 1 .. Given |-> i], Head(broker))
    BY <1>n, <2>1, UptoIs DEF Upto
  <2>4. Link!LinkOnMessage
    BY <1>2, <2>1, <2>2, <2>3 DEF Link!LinkOnMessage
  <2> QED  BY <2>4 DEF Link!LinkNext
<1>3. CASE up /\ Drops
  <2>1. Link!Answer
    BY <1>3 DEF Drops, Link!Answer, sentVars, Given
  <2> QED  BY <2>1 DEF Link!LinkNext
<1>4. CASE up /\ Answers
  <2>1. Link!Answer
    BY <1>4 DEF Answers, Link!Answer, sentVars, Given
  <2> QED  BY <2>1 DEF Link!LinkNext
<1>5. CASE Send /\ UNCHANGED Taken
  <2>1. /\ up /\ PassToLibrary
        /\ UNCHANGED <<posted, broker, Taken, recvOpen, sendOpen, solutions, up>>
    BY <1>5 DEF Send, linkVars
  <2>2. sendOpen  BY <1>n, <2>1 DEF OpenFirst, PassToLibrary
  <2>3. Link!LinkSend
    BY <2>1, <2>2 DEF Link!LinkSend, Link!PassToLibrary, PassToLibrary, Given
  <2> QED  BY <2>3 DEF Link!LinkNext
<1>6. CASE Arrive /\ UNCHANGED Taken
  <2>1. /\ up /\ ArriveAtBroker
        /\ UNCHANGED <<posted, broker, Taken, recvOpen, sendOpen, workQueue, up>>
    BY <1>6 DEF Arrive, linkVars
  <2>2. sendOpen  BY <1>n, <2>1 DEF OpenFirst, ArriveAtBroker
  <2>3. Link!LinkArrive
    BY <2>1, <2>2 DEF Link!LinkArrive, Link!ArriveAtBroker, ArriveAtBroker, Given
  <2> QED  BY <2>3 DEF Link!LinkNext
<1>7. CASE OnReceiverOpen /\ UNCHANGED Taken
  <2>1. Link!LinkOnReceiverOpen
    BY <1>7 DEF OnReceiverOpen, Link!LinkOnReceiverOpen, sentVars, Given
  <2> QED  BY <2>1 DEF Link!LinkNext
<1>8. CASE OnSenderOpen /\ UNCHANGED Taken
  <2>1. Link!LinkOnSenderOpen
    BY <1>8 DEF OnSenderOpen, Link!LinkOnSenderOpen, sentVars, Given
  <2> QED  BY <2>1 DEF Link!LinkNext
<1>9. CASE RaceFault /\ UNCHANGED Taken
  <2>1. /\ up /\ up' = FALSE
        /\ UNCHANGED <<posted, broker, Taken, workQueue, transit, solutions>>
    BY <1>9 DEF RaceFault, sentVars
  <2>2. Given' = Given  BY <2>1 DEF Given
  <2>3. [i \in 1 .. posted |-> i] = [i \in 1 .. Given |-> i] \o broker
    BY <1>t, GivenAndRest DEF Upto
  <2>4. ToSet([i \in 1 .. Given |-> i]) = 1 .. Given
    BY <1>n, UptoIs DEF Upto
  <2>5. ToSet(Taken \o workQueue \o transit) \subseteq 1 .. Given
    <3>1. Taken \o workQueue \o transit \in Seq(1 .. Given)
      BY ConcatProperties DEF BrokerHasRest
    <3> QED  BY <3>1, ToSetIs
  <2>6. \A m \in Msgs : m <= Given <=> m \in 1 .. Given
    BY <1>n, MaxMsgsAssumption DEF Msgs
  <2>7. Link!Fault
    BY <2>1 DEF Link!Fault
  <2>8. Link!Redeliver
    <3> DEFINE unset == IF up THEN [i \in 1 .. Given |-> i] ELSE << >>
               before == [m \in Msgs |-> IF ~up /\ m <= Given THEN 1 ELSE 0]
               after == [m \in Msgs |-> IF ~up' /\ m <= Given' THEN 1 ELSE 0]
               counted == [m \in Msgs |-> IF m \in ToSet(unset) THEN before[m] + 1
                                          ELSE before[m]]
    <3>1. ToSet(unset) = 1 .. Given  BY <2>1, <2>4
    <3> HIDE DEF unset
    <3>2. \A m \in Msgs : before[m] = 0 /\ after[m] = IF m \in 1 .. Given THEN 1 ELSE 0
      BY <2>1, <2>2, <2>6
    <3> HIDE DEF before
    <3>3. \A m \in Msgs : counted[m] = IF m \in 1 .. Given THEN 1 ELSE 0
      BY <3>1, <3>2
    <3>4. after = counted
      <4>1. \A m \in Msgs : after[m] = counted[m]  BY <3>2, <3>3
      <4>2. DOMAIN after = Msgs /\ DOMAIN counted = Msgs  OBVIOUS
      <4>3. after \in [Msgs -> Nat] /\ counted \in [Msgs -> Nat]
        BY <3>2, <3>3
      <4> HIDE DEF after, counted
      <4> QED  BY <4>1, <4>2, <4>3
    <3> HIDE DEF after
    <3> QED
      BY <2>1, <2>2, <2>3, <3>4
      DEF unset, before, after, Link!Redeliver, Link!Msgs, Msgs, Link!ToSet, ToSet
  <2>9. Link!Crash
    BY <2>1, <2>4, <2>5, <2>7, <2>8 DEF Link!Crash, Link!ToSet, ToSet
  <2> QED  BY <2>9 DEF Link!LinkNext
<1>10. CASE Hands
  BY <1>10, <1>stutter DEF Hands, sentVars
<1> QED
  BY <1>1, <1>2, <1>3, <1>4, <1>5, <1>6, <1>7, <1>8, <1>9, <1>10, ThreadsAreOneQueue

-----------------------------------------------------------------------------
(* Theorems *)

\* The invariant is inductive, whatever the number of models and of malformed ones.
THEOREM Inductive == Spec => []IInv
<1>1. Init => IInv  BY InitIInv
<1>2. IInv /\ [Next]_vars => IInv'  BY NextIInv
<1> QED  BY <1>1, <1>2, PTL DEF Spec

\* ProtonClient and main: every queue holds models, every thread is at one of its places.
THEOREM TypeCorrect == Spec => []TypeOK
<1>1. IInv => TypeOK  BY DEF IInv
<1> QED  BY <1>1, Inductive, PTL

\* sendSync is never left waiting for a sender that has credit.
THEOREM SenderIsWoken == Spec => []SenderNotStranded
<1>1. IInv => SenderNotStranded  BY DEF IInv, SenderDiscipline
<1> QED  BY <1>1, Inductive, PTL

\* on_message, receiveSync, the listener, main and send take the models in the order
\* of their posting and answer each well-formed one at most once.
THEOREM WorkerImplementsQueue == Spec => ImplementsQueue
<1>1. Init => Queue!Init  BY InitRefines
<1>2. IInv /\ [Next]_vars => [Queue!Next]_(Queue!vars)  BY NextRefines
<1> QED  BY <1>1, <1>2, Inductive, PTL DEF Spec, ImplementsQueue, Queue!Spec


\* The process as the broker sees it: the queue of SolverLink between on_message and
\* sendSync, and nothing but a crash when a race kills it.
THEOREM WorkerImplementsLink == Spec => ImplementsLink
<1>1. Init => BrokerHasRest /\ OpenFirst /\ Link!LinkInit
  BY InitRest, InitLinks DEF Init, OpenFirst
<1>2. IInv /\ BrokerHasRest /\ OpenFirst /\ [Next]_vars => BrokerHasRest' /\ OpenFirst'
  BY NextRest, NextOpenFirst
<1>3. IInv /\ BrokerHasRest /\ OpenFirst /\ [Next]_vars => [Link!LinkNext]_(Link!linkState)
  BY NextLinks
<1> QED  BY <1>1, <1>2, <1>3, Inductive, PTL DEF Spec, ImplementsLink

\* What a queue of SolverQueue does not lose, the process at rest has answered: what it
\* has left is only what a lost wakeup keeps in recvBuffer or in messages.
TodoOrAnswered ==
    \A m \in (1 .. posted) \ Malformed :
        m \in ToSet(Todo) \cup ToSet(solutions \o transit \o workQueue)

LEMMA QueueLosesNothing ==
  ASSUME IInv, TodoOrAnswered, Queue!Next
  PROVE  TodoOrAnswered'
<1>q. /\ Taken \in Seq(Msgs) /\ broker \in Seq(Msgs)
      /\ workQueue \in Seq(Msgs) /\ transit \in Seq(Msgs) /\ solutions \in Seq(Msgs)
  BY Stations DEF IInv, TypeOK
<1> DEFINE Answered == solutions \o transit \o workQueue
<1>1. Todo \in Seq(Msgs) /\ Answered \in Seq(Msgs) /\ posted \in Nat
  <2>1. Todo \in Seq(Msgs)  BY <1>q, ConcatProperties DEF Todo
  <2>2. solutions \o transit \in Seq(Msgs)  BY <1>q, ConcatProperties
  <2>3. Answered \in Seq(Msgs)  BY <1>q, <2>2, ConcatProperties
  <2> QED  BY <2>1, <2>3 DEF IInv, TypeOK
<1>2. CASE Queue!Post
  <2>1. /\ posted < MaxMsgs /\ posted' = posted + 1
        /\ Todo' = Append(Todo, posted') /\ Answered' = Answered
    BY <1>2 DEF Queue!Post
  <2>2. posted' \in Msgs  BY <1>1, <2>1, MaxMsgsAssumption DEF Msgs
  <2>3. ToSet(Todo') = ToSet(Todo) \cup {posted'}
    <3>1. ToSet(Append(Todo, posted')) = ToSet(Todo) \cup {posted'}
      BY <1>1, <2>2, ToSetOfAppend
    <3> QED  BY <2>1, <3>1
  <2>4. \A m \in 1 .. posted' : m \in 1 .. posted \/ m = posted'  BY <1>1, <2>1
  <2> QED  BY <2>1, <2>3, <2>4 DEF TodoOrAnswered
<1>3. CASE Queue!Answer
  <2>1. /\ Todo # << >> /\ Todo' = Tail(Todo) /\ posted' = posted
        /\ Answered' = IF Head(Todo) \in Malformed THEN Answered
                       ELSE Append(Answered, Head(Todo))
    BY <1>3 DEF Queue!Answer
  <2>2. ToSet(Todo) = {Head(Todo)} \cup ToSet(Todo') /\ Head(Todo) \in Msgs
    <3>1. ToSet(Todo) = {Head(Todo)} \cup ToSet(Tail(Todo)) /\ Head(Todo) \in Msgs
      BY <1>1, <2>1, ToSetOfTail, HeadAndTail
    <3> QED  BY <2>1, <3>1
  <2>3. ToSet(Answered') = IF Head(Todo) \in Malformed THEN ToSet(Answered)
                           ELSE ToSet(Answered) \cup {Head(Todo)}
    <3> HIDE DEF Answered
    <3>1. ToSet(Append(Answered, Head(Todo))) = ToSet(Answered) \cup {Head(Todo)}
      BY <1>1, <2>2, ToSetOfAppend
    <3>2. CASE Head(Todo) \in Malformed  BY <2>1, <3>2
    <3>3. CASE Head(Todo) \notin Malformed  BY <2>1, <3>1, <3>3
    <3> QED  BY <3>2, <3>3
  <2> QED  BY <2>1, <2>2, <2>3 DEF TodoOrAnswered
<1> QED  BY <1>2, <1>3 DEF Queue!Next

LEMMA RestAnswers ==
  ASSUME IInv, TodoOrAnswered
  PROVE  QuietMeansAnswered
<1> SUFFICES ASSUME Quiet, ~ReceiverStranded, ~MainStranded, NEW m \in (1 .. posted) \ Malformed
             PROVE  m \in ToSet(solutions)
  BY DEF QuietMeansAnswered
<1>1. /\ cpc = "idle" /\ rpc = "blocked" /\ mpc = "blocked"
      /\ broker = << >> /\ workQueue = << >> /\ transit = << >>
  BY DEF Quiet, IInv, SenderDiscipline, SenderNotStranded
<1>2. recvBuffer = << >> /\ messages = << >>
  BY <1>1 DEF ReceiverStranded, MainStranded
<1>3. Held(solving) = << >> /\ Held(received) = << >> /\ Held(delivered) = << >>
  BY <1>1 DEF IInv, HoldersHold, Solving, Held
<1>4. \A S : \A s \in Seq(S) : s \o << >> = s /\ << >> \o s = s  BY ConcatEmptySeq
<1>5. Todo = << >>
  <2>1. << >> \o << >> = << >>  BY <1>4, << >> \in Seq({})
  <2> QED  BY <1>1, <1>2, <1>3, <2>1 DEF Todo, Taken
<1>6. solutions \o transit \o workQueue = solutions
  BY <1>1, <1>4 DEF IInv, TypeOK
<1> QED  BY <1>5, <1>6, ToSetOfOne DEF TodoOrAnswered

\* However the three threads, the two queues and the two links are interleaved, the
\* process comes to rest without having answered only where a wakeup was lost on the
\* models' side: never for the order in which the links open, nor for want of credit.
THEOREM RestMeansAnswered == Spec => []QuietMeansAnswered
<1>1. Init => TodoOrAnswered  BY DEF Init, TodoOrAnswered
<1>2. IInv /\ TodoOrAnswered /\ [Next]_vars => TodoOrAnswered'
  <2> SUFFICES ASSUME IInv, TodoOrAnswered, [Next]_vars PROVE TodoOrAnswered'  OBVIOUS
  <2>1. CASE Queue!Next  BY <2>1, QueueLosesNothing
  <2>2. CASE UNCHANGED Queue!vars
    BY <2>2 DEF Queue!vars, TodoOrAnswered
  <2> QED  BY <2>1, <2>2, NextRefines
<1>3. IInv /\ TodoOrAnswered => QuietMeansAnswered  BY RestAnswers
<1> QED  BY <1>1, <1>2, <1>3, Inductive, PTL DEF Spec

-----------------------------------------------------------------------------
(* The connections: SolverLink *)

\* A model or its answer is in one of these, once for every time that the broker has
\* given it out.
Copies(m) ==
    Occurrences(broker, m) + Occurrences(held, m) + Occurrences(workQueue, m)
    + Occurrences(transit, m) + Occurrences(solutions, m)

LinkTypes ==
    /\ posted \in 0 .. MaxMsgs /\ faults \in Nat /\ again \in [Msgs -> Nat]
    /\ broker \in Seq(1 .. posted) /\ unsettled \in Seq(1 .. posted)
    /\ held \in Seq(1 .. posted) /\ workQueue \in Seq(1 .. posted)
    /\ transit \in Seq(1 .. posted) /\ solutions \in Seq(1 .. posted)

\* The broker never gives out a model while it holds it, so what it takes back it
\* takes back once.
LinkInv ==
    /\ LinkTypes
    /\ \A m \in Msgs :
          /\ Occurrences(broker, m) + Occurrences(unsettled, m) <= 1
          /\ Copies(m) <= 1 + again[m]
          /\ again[m] <= faults

LEMMA InitLinkInv == LinkInit => LinkInv
<1> SUFFICES ASSUME LinkInit PROVE LinkInv  OBVIOUS
<1>1. LinkTypes  BY MaxMsgsAssumption DEF LinkInit, LinkTypes, Msgs
<1>2. \A m : Occurrences(<< >>, m) = 0  BY NothingOccurs
<1> QED  BY <1>1, <1>2 DEF LinkInit, LinkInv, Copies, Msgs

\* How often each queue has a model is a number.
LEMMA CountsAreNumbers ==
  ASSUME LinkTypes, NEW m
  PROVE  /\ Occurrences(broker, m) \in Nat /\ Occurrences(unsettled, m) \in Nat
         /\ Occurrences(held, m) \in Nat /\ Occurrences(workQueue, m) \in Nat
         /\ Occurrences(transit, m) \in Nat /\ Occurrences(solutions, m) \in Nat
BY OccurrencesType DEF LinkTypes

\* One queue hands its head to another.
LEMMA Moves ==
  ASSUME NEW S, NEW s \in Seq(S), NEW t \in Seq(S), s # << >>, NEW m
  PROVE  /\ Head(s) \in S /\ Tail(s) \in Seq(S) /\ Append(t, Head(s)) \in Seq(S)
         /\ Occurrences(Tail(s), m) + Occurrences(Append(t, Head(s)), m)
                = Occurrences(s, m) + Occurrences(t, m)
         /\ Occurrences(Tail(s), m) \in Nat /\ Occurrences(Append(t, Head(s)), m) \in Nat
         /\ Occurrences(Tail(s), m) <= Occurrences(s, m)
<1>1. Head(s) \in S /\ Tail(s) \in Seq(S)  BY HeadAndTail
<1>2. Append(t, Head(s)) \in Seq(S)  BY <1>1, AppendProperties
<1>3. /\ Occurrences(s, m) \in Nat /\ Occurrences(t, m) \in Nat
      /\ Occurrences(Tail(s), m) \in Nat /\ Occurrences(Append(t, Head(s)), m) \in Nat
  BY <1>1, <1>2, OccurrencesType
<1>4. Occurrences(s, m) = Occurrences(Tail(s), m) + (IF Head(s) = m THEN 1 ELSE 0)
  BY OccurrencesOfTail
<1>5. Occurrences(Append(t, Head(s)), m) = Occurrences(t, m) + (IF Head(s) = m THEN 1 ELSE 0)
  BY <1>1, OccurrencesOfAppend
<1> QED  BY <1>1, <1>2, <1>3, <1>4, <1>5

\* Messages go from one queue to the next, are settled or dropped.
LEMMA MovesKeepLink ==
  ASSUME LinkInv, UNCHANGED <<posted, faults, again>>,
         broker' \in Seq(1 .. posted), unsettled' \in Seq(1 .. posted),
         held' \in Seq(1 .. posted), workQueue' \in Seq(1 .. posted),
         transit' \in Seq(1 .. posted), solutions' \in Seq(1 .. posted),
         \A m \in Msgs :
            /\ Occurrences(broker', m) + Occurrences(unsettled', m)
                  <= Occurrences(broker, m) + Occurrences(unsettled, m)
            /\ Copies(m)' <= Copies(m)
  PROVE  LinkInv'
<1>1. LinkTypes'  BY DEF LinkInv, LinkTypes
<1>2. ASSUME NEW m \in Msgs
      PROVE  /\ (Occurrences(broker, m) + Occurrences(unsettled, m) <= 1)'
             /\ (Copies(m) <= 1 + again[m])'
             /\ (again[m] <= faults)'
  <2>1. /\ Occurrences(broker, m) + Occurrences(unsettled, m) <= 1
        /\ Copies(m) <= 1 + again[m] /\ again[m] <= faults /\ again[m] \in Nat
        /\ LinkTypes
    BY DEF LinkInv, LinkTypes
  <2>2. Copies(m) \in Nat
    <3>1. /\ Occurrences(broker, m) \in Nat /\ Occurrences(held, m) \in Nat
          /\ Occurrences(workQueue, m) \in Nat /\ Occurrences(transit, m) \in Nat
          /\ Occurrences(solutions, m) \in Nat
      BY <2>1, CountsAreNumbers
    <3> QED  BY <3>1 DEF Copies
  <2>3. Copies(m)' \in Nat
    <3>1. /\ Occurrences(broker', m) \in Nat /\ Occurrences(held', m) \in Nat
          /\ Occurrences(workQueue', m) \in Nat /\ Occurrences(transit', m) \in Nat
          /\ Occurrences(solutions', m) \in Nat
      BY OccurrencesType
    <3> QED  BY <3>1 DEF Copies
  <2>4. Occurrences(broker', m) \in Nat /\ Occurrences(unsettled', m) \in Nat
    BY OccurrencesType
  <2>5. Occurrences(broker, m) \in Nat /\ Occurrences(unsettled, m) \in Nat
    BY <2>1, CountsAreNumbers
  <2> QED  BY <2>1, <2>2, <2>3, <2>4, <2>5
<1> QED  BY <1>1, <1>2 DEF LinkInv

\* A new model is in no queue yet.
LEMMA PostKeepsLink ==
  ASSUME LinkInv, LinkPost
  PROVE  LinkInv'
<1>1. /\ posted < MaxMsgs /\ posted' = posted + 1 /\ broker' = Append(broker, posted')
      /\ UNCHANGED <<unsettled, solutions, held, workQueue, transit, faults, again>>
  BY DEF LinkPost, PostToBroker, historyVars
<1>2. LinkTypes /\ posted \in Nat  BY DEF LinkInv, LinkTypes
<1>3. LinkTypes'
  <2>1. \A s \in Seq(1 .. posted) : s \in Seq(1 .. posted')
    <3>1. 1 .. posted \subseteq 1 .. posted'  BY <1>1, <1>2
    <3> QED  BY <3>1, SeqOfMore
  <2>2. broker' \in Seq(1 .. posted')
    <3>1. broker \in Seq(1 .. posted') /\ posted' \in 1 .. posted'
      BY <1>1, <1>2, <2>1 DEF LinkTypes
    <3> QED  BY <1>1, <3>1, AppendProperties
  <2>3. posted' \in 0 .. MaxMsgs  BY <1>1, <1>2, MaxMsgsAssumption
  <2> QED  BY <1>1, <1>2, <2>1, <2>2, <2>3 DEF LinkTypes
<1>4. \A s \in Seq(1 .. posted) : Occurrences(s, posted') = 0
  <2>1. \A s \in Seq(1 .. posted) : \A i \in 1 .. Len(s) : s[i] # posted'
    BY <1>1, <1>2, ElementOfSeq
  <2> QED  BY <2>1, NoOccurrence
<1>5. ASSUME NEW m \in Msgs
      PROVE  /\ (Occurrences(broker, m) + Occurrences(unsettled, m) <= 1)'
             /\ (Copies(m) <= 1 + again[m])'
             /\ (again[m] <= faults)'
  <2>1. /\ Occurrences(broker, m) + Occurrences(unsettled, m) <= 1
        /\ Copies(m) <= 1 + again[m] /\ again[m] <= faults /\ again[m] \in Nat
    BY DEF LinkInv, LinkTypes
  <2>2. Occurrences(broker', m) = Occurrences(broker, m) + (IF posted' = m THEN 1 ELSE 0)
    <3>1. broker \in Seq(Nat) /\ posted' \in Nat
      BY <1>1, <1>2, ElementOfSeq, SeqDef DEF LinkTypes
    <3> QED  BY <1>1, <3>1, OccurrencesOfAppend
  <2>3. CASE posted' = m
    <3>1. /\ Occurrences(broker, m) = 0 /\ Occurrences(unsettled, m) = 0
          /\ Occurrences(held, m) = 0 /\ Occurrences(workQueue, m) = 0
          /\ Occurrences(transit, m) = 0 /\ Occurrences(solutions, m) = 0
      BY <1>2, <1>4, <2>3 DEF LinkTypes
    <3>2. Occurrences(broker', m) = 1  BY <2>2, <2>3, <3>1
    <3> QED  BY <1>1, <2>1, <3>1, <3>2 DEF Copies
  <2>4. CASE posted' # m
    <3>1. Occurrences(broker', m) = Occurrences(broker, m)
      BY <1>2, <2>2, <2>4, CountsAreNumbers
    <3> QED  BY <1>1, <2>1, <3>1 DEF Copies
  <2> QED  BY <2>3, <2>4
<1> QED  BY <1>3, <1>5 DEF LinkInv

\* Whatever else is lost, a model comes back once to the broker, and is counted.
LEMMA RedeliverKeepsLink ==
  ASSUME LinkInv, Redeliver, Fault, UNCHANGED <<posted, solutions>>,
         \/ UNCHANGED <<held, workQueue, transit>>
         \/ held' = << >> /\ workQueue' = << >> /\ transit' = << >>
  PROVE  LinkInv'
<1>1. /\ broker' = unsettled \o broker /\ unsettled' = << >> /\ faults' = faults + 1
      /\ again' = [m \in Msgs |-> IF m \in ToSet(unsettled) THEN again[m] + 1 ELSE again[m]]
  BY DEF Redeliver, Fault, Msgs, ToSet
<1>2. LinkTypes  BY DEF LinkInv
<1>3. LinkTypes'
  <2>1. unsettled \o broker \in Seq(1 .. posted)  BY <1>2, ConcatProperties DEF LinkTypes
  <2>2. << >> \in Seq(1 .. posted)  OBVIOUS
  <2>3. again' \in [Msgs -> Nat] /\ faults' \in Nat  BY <1>1, <1>2 DEF LinkTypes
  <2> QED  BY <1>1, <1>2, <2>1, <2>2, <2>3 DEF LinkTypes
<1>4. \A m : Occurrences(<< >>, m) = 0  BY NothingOccurs
<1>5. ASSUME NEW m \in Msgs
      PROVE  /\ (Occurrences(broker, m) + Occurrences(unsettled, m) <= 1)'
             /\ (Copies(m) <= 1 + again[m])'
             /\ (again[m] <= faults)'
  <2>1. /\ Occurrences(broker, m) + Occurrences(unsettled, m) <= 1
        /\ Copies(m) <= 1 + again[m] /\ again[m] <= faults /\ again[m] \in Nat
        /\ faults \in Nat
    BY DEF LinkInv, LinkTypes
  <2>2. Occurrences(broker', m) = Occurrences(unsettled, m) + Occurrences(broker, m)
    BY <1>1, <1>2, OccurrencesOfConcat DEF LinkTypes
  <2>3. Occurrences(unsettled', m) = 0  BY <1>1, <1>4
  <2>4. again'[m] = again[m] + (IF m \in ToSet(unsettled) THEN 1 ELSE 0)  BY <1>1, <2>1
  <2>5. Occurrences(unsettled, m) <= IF m \in ToSet(unsettled) THEN 1 ELSE 0
    <3>1. CASE m \in ToSet(unsettled)  BY <1>2, <2>1, <3>1, CountsAreNumbers
    <3>2. CASE m \notin ToSet(unsettled)
      <4>1. \A i \in 1 .. Len(unsettled) : unsettled[i] # m
        BY <1>2, <3>2, ToSetIs DEF LinkTypes
      <4>2. Occurrences(unsettled, m) = 0  BY <1>2, <4>1, NoOccurrence DEF LinkTypes
      <4> QED  BY <3>2, <4>2
    <3> QED  BY <3>1, <3>2
  <2>6. /\ Occurrences(broker, m) \in Nat /\ Occurrences(unsettled, m) \in Nat
        /\ Occurrences(held, m) \in Nat /\ Occurrences(workQueue, m) \in Nat
        /\ Occurrences(transit, m) \in Nat /\ Occurrences(solutions, m) \in Nat
    BY <1>2, CountsAreNumbers
  <2>7. /\ Occurrences(held', m) <= Occurrences(held, m)
        /\ Occurrences(workQueue', m) <= Occurrences(workQueue, m)
        /\ Occurrences(transit', m) <= Occurrences(transit, m)
        /\ Occurrences(held', m) \in Nat /\ Occurrences(workQueue', m) \in Nat
        /\ Occurrences(transit', m) \in Nat
        /\ Occurrences(solutions', m) = Occurrences(solutions, m)
    BY <1>4, <2>6
  <2>8. (Copies(m) <= 1 + again[m])'
    <3>1. Copies(m)' <= Copies(m) + Occurrences(unsettled, m)
      BY <2>2, <2>6, <2>7 DEF Copies
    <3>2. Occurrences(broker', m) \in Nat /\ Occurrences(solutions', m) \in Nat
      BY <2>2, <2>6, <2>7
    <3>3. Copies(m) \in Nat /\ Copies(m)' \in Nat
      <4>1. Copies(m) \in Nat  BY <2>6 DEF Copies
      <4>2. Copies(m)' \in Nat  BY <2>7, <3>2 DEF Copies
      <4> QED  BY <4>1, <4>2
    <3> QED  BY <2>1, <2>4, <2>5, <2>6, <3>1, <3>3
  <2> QED  BY <1>1, <2>1, <2>2, <2>3, <2>4, <2>6, <2>8
<1> QED  BY <1>3, <1>5 DEF LinkInv

LEMMA NextLinkInv == LinkInv /\ [LinkNext]_(linkState) => LinkInv'
<1> SUFFICES ASSUME LinkInv, [LinkNext]_(linkState) PROVE LinkInv'  OBVIOUS
<1>0. LinkTypes  BY DEF LinkInv
<1>c. \A m : /\ Occurrences(broker, m) \in Nat /\ Occurrences(unsettled, m) \in Nat
             /\ Occurrences(held, m) \in Nat /\ Occurrences(workQueue, m) \in Nat
             /\ Occurrences(transit, m) \in Nat /\ Occurrences(solutions, m) \in Nat
  BY <1>0, CountsAreNumbers
<1>1. CASE LinkPost  BY <1>1, PostKeepsLink
<1>2. CASE Settle
  <2>1. /\ unsettled # << >> /\ unsettled' = Tail(unsettled)
        /\ UNCHANGED <<posted, broker, solutions, held, workQueue, transit, faults, again>>
    BY <1>2 DEF Settle, historyVars
  <2>2. /\ Tail(unsettled) \in Seq(1 .. posted)
        /\ \A m : Occurrences(Tail(unsettled), m) \in Nat
                  /\ Occurrences(Tail(unsettled), m) <= Occurrences(unsettled, m)
    BY <1>0, <2>1, Moves DEF LinkTypes
  <2>3. \A m : Copies(m)' = Copies(m) /\ Copies(m) \in Nat  BY <1>c, <2>1 DEF Copies
  <2>4. \A m : Copies(m)' <= Copies(m)  BY <2>3
  <2>5. \A m : Occurrences(broker', m) + Occurrences(unsettled', m)
                  <= Occurrences(broker, m) + Occurrences(unsettled, m)
    BY <1>c, <2>1, <2>2
  <2> QED  BY <1>0, <2>1, <2>2, <2>4, <2>5, MovesKeepLink DEF LinkTypes
<1>3. CASE LinkArrive
  <2>1. /\ transit # << >> /\ transit' = Tail(transit)
        /\ solutions' = Append(solutions, Head(transit))
        /\ UNCHANGED <<posted, broker, unsettled, held, workQueue, faults, again>>
    BY <1>3 DEF LinkArrive, ArriveAtBroker, historyVars
  <2>2. /\ transit' \in Seq(1 .. posted) /\ solutions' \in Seq(1 .. posted)
        /\ \A m : /\ Occurrences(transit', m) + Occurrences(solutions', m)
                        = Occurrences(transit, m) + Occurrences(solutions, m)
                  /\ Occurrences(transit', m) \in Nat /\ Occurrences(solutions', m) \in Nat
    BY <1>0, <2>1, Moves DEF LinkTypes
  <2>3. \A m : Copies(m)' <= Copies(m)  BY <1>c, <2>1, <2>2 DEF Copies
  <2>4. \A m : Occurrences(broker', m) + Occurrences(unsettled', m)
                  <= Occurrences(broker, m) + Occurrences(unsettled, m)
    BY <1>c, <2>1
  <2> QED  BY <1>0, <2>1, <2>2, <2>3, <2>4, MovesKeepLink DEF LinkTypes
<1>4. CASE LinkOnReceiverOpen \/ LinkOnSenderOpen \/ Restart
  <2>1. UNCHANGED <<posted, broker, unsettled, solutions, held, workQueue, transit,
                    faults, again>>
    BY <1>4 DEF LinkOnReceiverOpen, LinkOnSenderOpen, Restart, historyVars,
                brokerVars
  <2> QED  BY <2>1 DEF LinkInv, LinkTypes, Copies
<1>5. CASE LinkOnMessage
  <2>1. /\ broker # << >> /\ broker' = Tail(broker)
        /\ unsettled' = Append(unsettled, Head(broker)) /\ held' = Append(held, Head(broker))
        /\ UNCHANGED <<posted, solutions, workQueue, transit, faults, again>>
    BY <1>5 DEF LinkOnMessage, historyVars
  <2>2. /\ broker' \in Seq(1 .. posted) /\ held' \in Seq(1 .. posted)
        /\ \A m : /\ Occurrences(broker', m) + Occurrences(held', m)
                        = Occurrences(broker, m) + Occurrences(held, m)
                  /\ Occurrences(broker', m) \in Nat /\ Occurrences(held', m) \in Nat
    BY <1>0, <2>1, Moves DEF LinkTypes
  <2>3. /\ unsettled' \in Seq(1 .. posted)
        /\ \A m : /\ Occurrences(broker', m) + Occurrences(unsettled', m)
                        = Occurrences(broker, m) + Occurrences(unsettled, m)
                  /\ Occurrences(unsettled', m) \in Nat
    BY <1>0, <2>1, Moves DEF LinkTypes
  <2>4. ASSUME NEW m PROVE Copies(m)' <= Copies(m)
    <3>1. /\ Occurrences(broker', m) + Occurrences(held', m)
                = Occurrences(broker, m) + Occurrences(held, m)
          /\ Occurrences(broker', m) \in Nat /\ Occurrences(held', m) \in Nat
      BY <2>2
    <3> QED  BY <1>c, <2>1, <3>1 DEF Copies
  <2>5. \A m : Occurrences(broker', m) + Occurrences(unsettled', m)
                  <= Occurrences(broker, m) + Occurrences(unsettled, m)
    BY <1>c, <2>3
  <2> QED  BY <1>0, <2>1, <2>2, <2>3, <2>4, <2>5, MovesKeepLink DEF LinkTypes
<1>6. CASE Answer
  <2>1. /\ held # << >> /\ held' = Tail(held)
        /\ workQueue' = workQueue \/ workQueue' = Append(workQueue, Head(held))
        /\ UNCHANGED <<posted, broker, unsettled, solutions, transit, faults, again>>
    BY <1>6 DEF Answer, historyVars, brokerVars
  <2>2. /\ Tail(held) \in Seq(1 .. posted) /\ Append(workQueue, Head(held)) \in Seq(1 .. posted)
        /\ \A m : /\ Occurrences(Tail(held), m) + Occurrences(Append(workQueue, Head(held)), m)
                        = Occurrences(held, m) + Occurrences(workQueue, m)
                  /\ Occurrences(Tail(held), m) <= Occurrences(held, m)
                  /\ Occurrences(Tail(held), m) \in Nat
                  /\ Occurrences(Append(workQueue, Head(held)), m) \in Nat
    <3>1. held \in Seq(1 .. posted) /\ workQueue \in Seq(1 .. posted) /\ held # << >>
      BY <1>0, <2>1 DEF LinkTypes
    <3> DEFINE S == 1 .. posted
    <3> HIDE DEF S
    <3>2. held \in Seq(S) /\ workQueue \in Seq(S)  BY <3>1 DEF S
    <3>3. Tail(held) \in Seq(S) /\ Append(workQueue, Head(held)) \in Seq(S)
      BY <3>1, <3>2, Moves
    <3>4. ASSUME NEW m
          PROVE  /\ Occurrences(Tail(held), m) + Occurrences(Append(workQueue, Head(held)), m)
                        = Occurrences(held, m) + Occurrences(workQueue, m)
                 /\ Occurrences(Tail(held), m) <= Occurrences(held, m)
                 /\ Occurrences(Tail(held), m) \in Nat
                 /\ Occurrences(Append(workQueue, Head(held)), m) \in Nat
      BY <3>1, <3>2, Moves
    <3> QED  BY <3>3, <3>4 DEF S
  <2>3. \A m : /\ Occurrences(held', m) + Occurrences(workQueue', m)
                     <= Occurrences(held, m) + Occurrences(workQueue, m)
               /\ Occurrences(held', m) \in Nat /\ Occurrences(workQueue', m) \in Nat
    <3>1. CASE workQueue' = workQueue  BY <1>c, <2>1, <2>2, <3>1
    <3>2. CASE workQueue' = Append(workQueue, Head(held))  BY <1>c, <2>1, <2>2, <3>2
    <3> QED  BY <2>1, <3>1, <3>2
  <2>4. \A m : Copies(m)' <= Copies(m)  BY <1>c, <2>1, <2>3 DEF Copies
  <2>5. \A m : Occurrences(broker', m) + Occurrences(unsettled', m)
                  <= Occurrences(broker, m) + Occurrences(unsettled, m)
    BY <1>c, <2>1
  <2> QED  BY <1>0, <2>1, <2>2, <2>4, <2>5, MovesKeepLink DEF LinkTypes
<1>7. CASE LinkSend
  <2>1. /\ workQueue # << >> /\ workQueue' = Tail(workQueue)
        /\ transit' = Append(transit, Head(workQueue))
        /\ UNCHANGED <<posted, broker, unsettled, solutions, held, faults, again>>
    BY <1>7 DEF LinkSend, PassToLibrary, historyVars, brokerVars
  <2>2. /\ workQueue' \in Seq(1 .. posted) /\ transit' \in Seq(1 .. posted)
        /\ \A m : /\ Occurrences(workQueue', m) + Occurrences(transit', m)
                        = Occurrences(workQueue, m) + Occurrences(transit, m)
                  /\ Occurrences(workQueue', m) \in Nat /\ Occurrences(transit', m) \in Nat
    BY <1>0, <2>1, Moves DEF LinkTypes
  <2>3. \A m : Copies(m)' <= Copies(m)
    <3> SUFFICES ASSUME NEW m PROVE Copies(m)' <= Copies(m)  OBVIOUS
    <3>1. /\ Occurrences(broker', m) = Occurrences(broker, m)
          /\ Occurrences(held', m) = Occurrences(held, m)
          /\ Occurrences(solutions', m) = Occurrences(solutions, m)
      BY <2>1
    <3> QED  BY <1>c, <2>2, <3>1 DEF Copies
  <2>4. \A m : Occurrences(broker', m) + Occurrences(unsettled', m)
                  <= Occurrences(broker, m) + Occurrences(unsettled, m)
    BY <1>c, <2>1
  <2> QED  BY <1>0, <2>1, <2>2, <2>3, <2>4, MovesKeepLink DEF LinkTypes
<1>8. CASE LoseReceiver
  BY <1>8, RedeliverKeepsLink DEF LoseReceiver
<1>9. CASE LoseSender
  <2>1. /\ UNCHANGED <<posted, broker, unsettled, solutions, held, workQueue, again>>
        /\ transit' = transit \/ transit' = << >>
        /\ faults' = faults + 1
    BY <1>9 DEF LoseSender, Fault, brokerVars
  <2>2. transit' \in Seq(1 .. posted)
    <3>1. << >> \in Seq(1 .. posted)  OBVIOUS
    <3> QED  BY <1>0, <2>1, <3>1 DEF LinkTypes
  <2>3. \A m : Occurrences(transit', m) \in Nat
               /\ Occurrences(transit', m) <= Occurrences(transit, m)
    BY <1>c, <2>1, NothingOccurs
  <2>4. LinkTypes'  BY <1>0, <2>1, <2>2 DEF LinkTypes
  <2>5. ASSUME NEW m \in Msgs
        PROVE  /\ (Occurrences(broker, m) + Occurrences(unsettled, m) <= 1)'
               /\ (Copies(m) <= 1 + again[m])'
               /\ (again[m] <= faults)'
    <3>1. /\ Occurrences(broker, m) + Occurrences(unsettled, m) <= 1
          /\ Copies(m) <= 1 + again[m] /\ again[m] <= faults /\ again[m] \in Nat
          /\ faults \in Nat
      BY DEF LinkInv, LinkTypes
    <3>2. Copies(m)' <= Copies(m) /\ Copies(m)' \in Nat /\ Copies(m) \in Nat
      BY <1>c, <2>1, <2>3 DEF Copies
    <3> QED  BY <2>1, <3>1, <3>2
  <2> QED  BY <2>4, <2>5 DEF LinkInv
<1>10. CASE Crash
  BY <1>10, RedeliverKeepsLink DEF Crash
<1>11. CASE UNCHANGED linkState
  <2>1. UNCHANGED <<posted, broker, unsettled, solutions, held, workQueue, transit,
                    faults, again>>
    BY <1>11 DEF linkState, historyVars, brokerVars
  <2> QED  BY <2>1 DEF LinkInv, LinkTypes, Copies
<1> QED
  BY <1>1, <1>2, <1>3, <1>4, <1>5, <1>6, <1>7, <1>8, <1>9, <1>10, <1>11 DEF LinkNext

\* Where the copies of a model are is inductive, through any number of failures.
THEOREM LinkInductive == LinkSpec => []LinkInv
<1>1. LinkInit => LinkInv  BY InitLinkInv
<1>2. LinkInv /\ [LinkNext]_(linkState) => LinkInv'  BY NextLinkInv
<1> QED  BY <1>1, <1>2, PTL DEF LinkSpec

\* Where a well-formed model or its answer can be.
Somewhere(m) ==
    m \in gone \cup ToSet(broker) \cup ToSet(held) \cup ToSet(workQueue) \cup ToSet(transit)
               \cup ToSet(solutions)

AllSomewhere == \A m \in (1 .. posted) \ Malformed : Somewhere(m)

LEMMA NothingLostIs ==
  ASSUME LinkTypes, AllSomewhere
  PROVE  NothingLost
<1> DEFINE S == 1 .. posted
<1>0. /\ broker \in Seq(S) /\ held \in Seq(S) /\ workQueue \in Seq(S)
      /\ transit \in Seq(S) /\ solutions \in Seq(S)
  BY DEF LinkTypes
<1> HIDE DEF S
<1>1. PICK p : p = broker \o held  OBVIOUS
<1>2. PICK q : q = p \o workQueue  OBVIOUS
<1>3. PICK r : r = q \o transit  OBVIOUS
<1>4. p \in Seq(S) /\ ToSet(p) = ToSet(broker) \cup ToSet(held)
  BY <1>0, <1>1, ConcatProperties, ToSetOfConcat
<1>5. q \in Seq(S) /\ ToSet(q) = ToSet(p) \cup ToSet(workQueue)
  BY <1>0, <1>2, <1>4, ConcatProperties, ToSetOfConcat
<1>6. r \in Seq(S) /\ ToSet(r) = ToSet(q) \cup ToSet(transit)
  BY <1>0, <1>3, <1>5, ConcatProperties, ToSetOfConcat
<1>7. ToSet(r \o solutions) = ToSet(r) \cup ToSet(solutions)
  BY <1>0, <1>6, ToSetOfConcat
<1>8. broker \o held \o workQueue \o transit \o solutions = r \o solutions
  BY <1>1, <1>2, <1>3, Zenon
<1> QED  BY <1>4, <1>5, <1>6, <1>7, <1>8 DEF NothingLost, AllSomewhere, Somewhere

LEMMA NextAllSomewhere ==
  ASSUME LinkTypes, AllSomewhere, [LinkNext]_linkState
  PROVE  AllSomewhere'
<1> SUFFICES ASSUME NEW m \in (1 .. posted') \ Malformed PROVE Somewhere(m)'
  BY DEF AllSomewhere
<1>0. \A k \in (1 .. posted) \ Malformed : Somewhere(k)  BY DEF AllSomewhere
<1>s. /\ broker \in Seq(1 .. posted) /\ unsettled \in Seq(1 .. posted)
      /\ held \in Seq(1 .. posted) /\ workQueue \in Seq(1 .. posted)
      /\ transit \in Seq(1 .. posted) /\ solutions \in Seq(1 .. posted)
      /\ posted \in Nat
  BY DEF LinkTypes
<1>h. \A s \in Seq(1 .. posted) : s # << >> => ToSet(s) = {Head(s)} \cup ToSet(Tail(s))
                                              /\ Head(s) \in 1 .. posted
  BY ToSetOfTail, HeadAndTail
<1>a. \A s \in Seq(1 .. posted), e \in 1 .. posted : ToSet(Append(s, e)) = ToSet(s) \cup {e}
  BY ToSetOfAppend
<1> USE DEF Somewhere
<1>1. CASE LinkPost
  <2>1. /\ posted' = posted + 1 /\ broker' = Append(broker, posted')
        /\ UNCHANGED <<solutions, held, workQueue, transit, gone>>
    BY <1>1 DEF LinkPost, PostToBroker, historyVars
  <2>2. ToSet(broker') = ToSet(broker) \cup {posted'}
    <3>1. broker \in Seq(1 .. posted') /\ posted' \in 1 .. posted'
      <4>1. 1 .. posted \subseteq 1 .. posted' /\ posted' \in 1 .. posted'
        BY <1>s, <2>1
      <4> QED  BY <1>s, <4>1, SeqOfMore
    <3>2. ToSet(Append(broker, posted')) = ToSet(broker) \cup {posted'}
      BY <3>1, ToSetOfAppend
    <3> QED  BY <2>1, <3>2
  <2>3. m \in 1 .. posted \/ m = posted'  BY <1>s, <2>1
  <2> QED  BY <1>0, <2>1, <2>2, <2>3
<1>2. CASE LinkOnMessage
  <2>1. /\ broker # << >> /\ broker' = Tail(broker) /\ held' = Append(held, Head(broker))
        /\ UNCHANGED <<posted, solutions, workQueue, transit, gone>>
    BY <1>2 DEF LinkOnMessage, historyVars
  <2>2. ToSet(broker) = {Head(broker)} \cup ToSet(broker') /\ Head(broker) \in 1 .. posted
    BY <1>s, <1>h, <2>1
  <2>3. ToSet(held') = ToSet(held) \cup {Head(broker)}  BY <1>s, <1>a, <2>1, <2>2
  <2> QED  BY <1>0, <2>1, <2>2, <2>3
<1>3. CASE Answer
  <2>1. /\ held # << >> /\ held' = Tail(held)
        /\ Head(held) \notin Malformed => workQueue' = Append(workQueue, Head(held))
        /\ Head(held) \in Malformed => workQueue' = workQueue
        /\ UNCHANGED <<posted, broker, solutions, transit, gone>>
    BY <1>3 DEF Answer, historyVars, brokerVars
  <2>2. ToSet(held) = {Head(held)} \cup ToSet(held') /\ Head(held) \in 1 .. posted
    BY <1>s, <1>h, <2>1
  <2>3. Head(held) \notin Malformed => ToSet(workQueue') = ToSet(workQueue) \cup {Head(held)}
    BY <1>s, <1>a, <2>1, <2>2
  <2>4. m # Head(held) \/ Head(held) \notin Malformed  OBVIOUS
  <2> QED  BY <1>0, <2>1, <2>2, <2>3, <2>4
<1>4. CASE LinkSend
  <2>1. /\ workQueue # << >> /\ workQueue' = Tail(workQueue)
        /\ transit' = Append(transit, Head(workQueue))
        /\ UNCHANGED <<posted, broker, solutions, held, gone>>
    BY <1>4 DEF LinkSend, PassToLibrary, historyVars, brokerVars
  <2>2. ToSet(workQueue) = {Head(workQueue)} \cup ToSet(workQueue')
        /\ Head(workQueue) \in 1 .. posted
    BY <1>s, <1>h, <2>1
  <2>3. ToSet(transit') = ToSet(transit) \cup {Head(workQueue)}  BY <1>s, <1>a, <2>1, <2>2
  <2> QED  BY <1>0, <2>1, <2>2, <2>3
<1>5. CASE LinkArrive
  <2>1. /\ transit # << >> /\ transit' = Tail(transit)
        /\ solutions' = Append(solutions, Head(transit))
        /\ UNCHANGED <<posted, broker, held, workQueue, gone>>
    BY <1>5 DEF LinkArrive, ArriveAtBroker, historyVars
  <2>2. ToSet(transit) = {Head(transit)} \cup ToSet(transit') /\ Head(transit) \in 1 .. posted
    BY <1>s, <1>h, <2>1
  <2>3. ToSet(solutions') = ToSet(solutions) \cup {Head(transit)}  BY <1>s, <1>a, <2>1, <2>2
  <2> QED  BY <1>0, <2>1, <2>2, <2>3
<1>r. ASSUME Redeliver
      PROVE  ToSet(broker') = ToSet(unsettled) \cup ToSet(broker)
  <2>1. ToSet(unsettled \o broker) = ToSet(unsettled) \cup ToSet(broker)
    BY <1>s, ToSetOfConcat
  <2> QED  BY <1>r, <2>1 DEF Redeliver
<1>6. CASE LoseReceiver
  <2>1. ToSet(broker) \subseteq ToSet(broker')
        /\ UNCHANGED <<posted, held, workQueue, transit, solutions, gone>>
    BY <1>6, <1>r DEF LoseReceiver
  <2> QED  BY <1>0, <2>1
<1>7. CASE LoseSender
  <2>1. /\ UNCHANGED <<posted, broker, held, workQueue, solutions>>
        /\ \/ UNCHANGED <<transit, gone>>
           \/ gone' = gone \cup ToSet(transit)
    BY <1>7 DEF LoseSender, brokerVars
  <2>2. ToSet(transit) \cup gone \subseteq ToSet(transit') \cup gone'
    BY <2>1
  <2> QED  BY <1>0, <2>1, <2>2
<1>8. CASE Crash
  <2>1. /\ ToSet(broker') = ToSet(unsettled) \cup ToSet(broker)
        /\ gone' = gone \cup (ToSet(held \o workQueue \o transit) \ ToSet(unsettled))
        /\ UNCHANGED <<posted, solutions>>
    BY <1>8, <1>r DEF Crash
  <2>2. ToSet(held \o workQueue \o transit)
            = ToSet(held) \cup ToSet(workQueue) \cup ToSet(transit)
    <3>1. PICK p : p = held \o workQueue  OBVIOUS
    <3>2. p \in Seq(1 .. posted) /\ ToSet(p) = ToSet(held) \cup ToSet(workQueue)
      BY <1>s, <3>1, ConcatProperties, ToSetOfConcat
    <3>3. ToSet(p \o transit) = ToSet(p) \cup ToSet(transit)
      BY <1>s, <3>2, ToSetOfConcat
    <3> QED  BY <3>1, <3>2, <3>3
  <2> QED  BY <1>0, <2>1, <2>2
<1>9. CASE \/ Settle \/ LinkOnReceiverOpen \/ LinkOnSenderOpen \/ Restart
           \/ UNCHANGED linkState
  <2>1. UNCHANGED <<posted, broker, solutions, held, workQueue, transit, gone>>
    BY <1>9 DEF Settle, LinkOnReceiverOpen, LinkOnSenderOpen, Restart, historyVars,
                brokerVars, linkState
  <2> QED  BY <1>0, <2>1
<1> QED
  BY <1>1, <1>2, <1>3, <1>4, <1>5, <1>6, <1>7, <1>8, <1>9 DEF LinkNext

\* A model is answered once, and once more for every time that the broker delivers it
\* again, which happens at most once for every failure; and none is lost but with the
\* process or under way to the broker.  For any number of models and of failures of the
\* connections and of the process.
THEOREM AnswersAreAccounted == LinkSpec => []AnswersAccounted
<1>1. LinkInv => RepeatsAreRedeliveries
  <2> SUFFICES ASSUME LinkInv, NEW m \in Msgs
               PROVE  Occurrences(solutions, m) <= 1 + again[m] /\ again[m] <= faults
    BY DEF RepeatsAreRedeliveries, Occurrences
  <2>1. LinkTypes /\ Copies(m) <= 1 + again[m] /\ again[m] <= faults /\ again[m] \in Nat
    BY DEF LinkInv, LinkTypes
  <2>2. /\ Occurrences(broker, m) \in Nat /\ Occurrences(held, m) \in Nat
        /\ Occurrences(workQueue, m) \in Nat /\ Occurrences(transit, m) \in Nat
        /\ Occurrences(solutions, m) \in Nat
    BY <2>1, CountsAreNumbers
  <2> QED  BY <2>1, <2>2 DEF Copies
<1>2. LinkInit => AllSomewhere  BY DEF LinkInit, AllSomewhere
<1>3. LinkInv /\ AllSomewhere /\ [LinkNext]_linkState => AllSomewhere'
  BY NextAllSomewhere DEF LinkInv
<1>4. LinkInv /\ AllSomewhere => NothingLost  BY NothingLostIs DEF LinkInv
<1> QED  BY <1>1, <1>2, <1>3, <1>4, LinkInductive, PTL DEF LinkSpec, AnswersAccounted

\* Reconnecting, settling and restarting are invisible, and everything else between two
\* failures is a step of the queue that the process promises to be.
THEOREM LinkIsQueueBetweenFaults == LinkSpec => QueueBetweenFaults
<1>1. LinkTypes /\ [LinkNext]_linkState =>
        [faults' = faults => LinkQueue!Next \/ UNCHANGED LinkQueue!vars]_linkState
  <2> SUFFICES ASSUME LinkTypes, LinkNext, faults' = faults
               PROVE  LinkQueue!Next \/ UNCHANGED LinkQueue!vars
    OBVIOUS
  <2>s. /\ broker \in Seq(1 .. posted) /\ held \in Seq(1 .. posted)
        /\ workQueue \in Seq(1 .. posted) /\ transit \in Seq(1 .. posted)
        /\ solutions \in Seq(1 .. posted) /\ posted \in Nat /\ faults \in Nat
    BY DEF LinkTypes
  <2> DEFINE todo == held \o broker
             answered == solutions \o transit \o workQueue
  <2>stutter. UNCHANGED <<posted, todo, answered>> => UNCHANGED LinkQueue!vars
    BY DEF LinkQueue!vars
  <2>1. CASE LinkPost
    <3>1. /\ posted < MaxMsgs /\ posted' = posted + 1 /\ broker' = Append(broker, posted')
          /\ UNCHANGED <<solutions, held, workQueue, transit>>
      BY <2>1 DEF LinkPost, PostToBroker
    <3>2. /\ broker \in Seq(1 .. posted') /\ held \in Seq(1 .. posted')
          /\ posted' \in 1 .. posted'
      <4>1. 1 .. posted \subseteq 1 .. posted' /\ posted' \in 1 .. posted'
        BY <2>s, <3>1
      <4> QED  BY <2>s, <4>1, SeqOfMore
    <3>3. held \o Append(broker, posted') = Append(held \o broker, posted')
      BY <3>2, AppendAtEnd
    <3> QED  BY <3>1, <3>3 DEF LinkQueue!Next, LinkQueue!Post
  <2>2. CASE LinkOnMessage
    <3>1. /\ broker # << >> /\ broker' = Tail(broker) /\ held' = Append(held, Head(broker))
          /\ UNCHANGED <<posted, solutions, workQueue, transit>>
      BY <2>2 DEF LinkOnMessage
    <3>2. Append(held, Head(broker)) \o Tail(broker) = held \o broker
      BY <2>s, <3>1, HandOver
    <3> QED  BY <3>1, <3>2, <2>stutter
  <2>3. CASE Answer
    <3>1. /\ held # << >> /\ held' = Tail(held)
          /\ IF Head(held) \in Malformed THEN workQueue' = workQueue
             ELSE workQueue' = Append(workQueue, Head(held))
          /\ UNCHANGED <<posted, broker, solutions, transit>>
      BY <2>3 DEF Answer, brokerVars
    <3>2. todo # << >> /\ Head(todo) = Head(held) /\ Tail(todo) = todo'
      BY <2>s, <3>1, FrontOfConcat
    <3>3. solutions \o transit \o Append(workQueue, Head(held))
              = Append(solutions \o transit \o workQueue, Head(held))
      <4>1. Head(held) \in 1 .. posted  BY <2>s, <3>1, HeadAndTail
      <4> DEFINE S == 1 .. posted
      <4>2. Head(held) \in S /\ workQueue \in Seq(S)  BY <2>s, <4>1
      <4>3. PICK p : p = solutions \o transit  OBVIOUS
      <4>4. p \in Seq(S)  BY <2>s, <4>3, ConcatProperties
      <4> HIDE DEF S
      <4>5. p \o Append(workQueue, Head(held)) = Append(p \o workQueue, Head(held))
        BY <4>2, <4>4, AppendAtEnd
      <4> QED  BY <4>3, <4>5
    <3>4. answered' = IF Head(todo) \in Malformed THEN answered
                      ELSE Append(answered, Head(todo))
      BY <3>1, <3>2, <3>3
    <3> QED  BY <3>1, <3>2, <3>4 DEF LinkQueue!Next, LinkQueue!Answer
  <2>4. CASE LinkSend
    <3>1. /\ workQueue # << >> /\ workQueue' = Tail(workQueue)
          /\ transit' = Append(transit, Head(workQueue))
          /\ UNCHANGED <<posted, broker, held, solutions>>
      BY <2>4 DEF LinkSend, PassToLibrary, brokerVars
    <3>2. solutions \o transit \in Seq(1 .. posted) /\ Head(workQueue) \in 1 .. posted
      BY <2>s, <3>1, ConcatProperties, HeadAndTail
    <3>3. solutions \o transit' = Append(solutions \o transit, Head(workQueue))
      <4>1. solutions \o Append(transit, Head(workQueue))
                = Append(solutions \o transit, Head(workQueue))
        BY <2>s, <3>2, AppendAtEnd
      <4> QED  BY <3>1, <4>1
    <3>4. Append(solutions \o transit, Head(workQueue)) \o Tail(workQueue) = answered
      BY <2>s, <3>1, <3>2, HandOver
    <3> QED  BY <3>1, <3>3, <3>4, <2>stutter
  <2>5. CASE LinkArrive
    <3>1. /\ transit # << >> /\ transit' = Tail(transit)
          /\ solutions' = Append(solutions, Head(transit))
          /\ UNCHANGED <<posted, broker, held, workQueue>>
      BY <2>5 DEF LinkArrive, ArriveAtBroker
    <3>2. Append(solutions, Head(transit)) \o Tail(transit) = solutions \o transit
      BY <2>s, <3>1, HandOver
    <3> QED  BY <3>1, <3>2, <2>stutter
  <2>6. CASE Settle \/ LinkOnReceiverOpen \/ LinkOnSenderOpen \/ Restart
    <3>1. UNCHANGED <<posted, broker, solutions, held, workQueue, transit>>
      BY <2>6 DEF Settle, LinkOnReceiverOpen, LinkOnSenderOpen, Restart, brokerVars
    <3> QED  BY <3>1, <2>stutter
  <2>7. CASE LoseReceiver \/ LoseSender \/ Crash
    <3>1. faults' = faults + 1  BY <2>7 DEF LoseReceiver, LoseSender, Crash, Fault
    <3> QED  BY <2>s, <3>1
  <2> QED  BY <2>1, <2>2, <2>3, <2>4, <2>5, <2>6, <2>7 DEF LinkNext
<1>2. LinkInv => LinkTypes  BY DEF LinkInv
<1> QED  BY <1>1, <1>2, LinkInductive, PTL DEF LinkSpec, QueueBetweenFaults
=============================================================================
