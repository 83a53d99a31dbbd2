---------------------------- MODULE SolverWorker ----------------------------
(***************************************************************************)
(* The MinizincMQ process: ProtonClient.cpp and main.cpp.  Three threads    *)
(* and two queues between them.                                             *)
(*                                                                         *)
(*   container thread   on_message pushes to recvBuffer and notifies        *)
(*                      canRecv; also runs the functions of the send work   *)
(*                      queue                                               *)
(*   receiver thread    receiveSync pops recvBuffer under receiverLock; the *)
(*                      listener pushes to messages and notifies cv         *)
(*   main thread        pops messages under m, runs minizinc, and hands the *)
(*                      answer to the send work queue under senderLock      *)
(*                                                                         *)
(* Neither push takes the lock that the thread on the other side waits      *)
(* with.  So the test of a condition and the wait that follows are two      *)
(* steps here, between which a push and its notification can fall; and a    *)
(* pop during a push is a data race on a std::queue, which may also crash   *)
(* the process.  cpc, rpc and mpc say where each thread is:                 *)
(*                                                                         *)
(*   "check"  about to lock and test the condition it waits for             *)
(*   "towait" found it false, holds the lock, has not called wait yet       *)
(*   "blocked" in wait, lock released                                       *)
(*   "push"   in the middle of a push      "notify" about to notify         *)
(***************************************************************************)
EXTENDS SolverProcess

NoMsg == 0

VARIABLES
    cpc, delivered,     \* container thread, and the message of its on_message
    recvOpen,           \* recvWorkQueue is set
    sendOpen,           \* sendWorkQueue is set
    credited,           \* the broker has granted the sender credit
    recvBuffer,
    rpc, received,      \* receiver thread, and its local msg
    messages,
    mpc, solving        \* main thread, and its local pm

linkVars == <<recvOpen, sendOpen, credited>>
containerVars == <<cpc, delivered>>
receiverVars == <<rpc, received>>
mainVars == <<mpc, solving>>
sentVars == <<transit, solutions>>
vars == <<posted, broker, containerVars, linkVars, recvBuffer, receiverVars,
          messages, mainVars, workQueue, sentVars, up>>

Init ==
    /\ posted = 0 /\ broker = << >>
    /\ cpc = "idle" /\ delivered = NoMsg
    /\ recvOpen = FALSE /\ sendOpen = FALSE /\ credited = FALSE
    /\ recvBuffer = << >>
    /\ rpc = "check" /\ received = NoMsg
    /\ messages = << >>
    /\ mpc = "check" /\ solving = NoMsg
    /\ workQueue = << >> /\ transit = << >> /\ solutions = << >>
    /\ up = TRUE

\* The backend sends a model to the broker.
Post ==
    /\ PostToBroker
    /\ UNCHANGED <<containerVars, linkVars, recvBuffer, receiverVars, messages,
                   mainVars, workQueue, sentVars, up>>

-----------------------------------------------------------------------------
\* Container thread.  Its handlers run one at a time.

\* receiverLock and senderLock are free unless a thread is between its test and
\* its wait.
OnReceiverOpen ==
    /\ up /\ cpc = "idle" /\ ~recvOpen
    /\ rpc # "towait"
    /\ recvOpen' = TRUE
    /\ UNCHANGED <<posted, broker, containerVars, sendOpen, credited, recvBuffer,
                   receiverVars, messages, mainVars, workQueue, sentVars, up>>

OnSenderOpen_unlocked ==
    /\ up /\ cpc = "idle" /\ ~sendOpen
    /\ sendOpen' = TRUE
    /\ UNCHANGED <<posted, broker, containerVars, recvOpen, credited, recvBuffer,
                   receiverVars, messages, mainVars, workQueue, sentVars, up>>

OnSenderOpen ==
    /\ up /\ cpc = "idle" /\ ~sendOpen
    /\ mpc # "sendtowait"
    /\ sendOpen' = TRUE
    /\ UNCHANGED <<posted, broker, containerVars, recvOpen, credited, recvBuffer,
                   receiverVars, messages, mainVars, workQueue, sentVars, up>>

\* canSend.notify_all
NotifySender == mpc' = IF mpc = "sendblocked" THEN "send" ELSE mpc

OnSendable_silent ==
    /\ up /\ cpc = "idle" /\ sendOpen /\ ~credited
    /\ credited' = TRUE
    /\ UNCHANGED <<posted, broker, containerVars, recvOpen, sendOpen, recvBuffer,
                   receiverVars, messages, mainVars, workQueue, sentVars, up>>

OnSendable ==
    /\ up /\ cpc = "idle" /\ sendOpen /\ ~credited
    /\ credited' = TRUE
    /\ NotifySender
    /\ UNCHANGED <<posted, broker, containerVars, recvOpen, sendOpen, recvBuffer,
                   receiverVars, messages, solving, workQueue, sentVars, up>>

\* on_message, in three steps: the call, the push, the notification.
OnMessage ==
    /\ up /\ cpc = "idle" /\ recvOpen
    /\ broker # << >>
    /\ delivered' = Head(broker) /\ broker' = Tail(broker)
    /\ cpc' = "push"
    /\ UNCHANGED <<posted, linkVars, recvBuffer, receiverVars, messages, mainVars,
                   workQueue, sentVars, up>>

PushRecvBuffer_moved ==
    /\ up /\ cpc = "push"
    /\ recvBuffer' = Append(recvBuffer, NoMsg)
    /\ delivered' = NoMsg
    /\ cpc' = "notify"
    /\ UNCHANGED <<posted, broker, linkVars, receiverVars, messages, mainVars,
                   workQueue, sentVars, up>>

PushRecvBuffer ==
    /\ up /\ cpc = "push"
    /\ recvBuffer' = Append(recvBuffer, delivered)
    /\ delivered' = NoMsg
    /\ cpc' = "notify"
    /\ UNCHANGED <<posted, broker, linkVars, receiverVars, messages, mainVars,
                   workQueue, sentVars, up>>

NotifyCanRecv_onlyFirst ==
    /\ up /\ cpc = "notify"
    /\ rpc' = IF rpc = "blocked" /\ Len(recvBuffer) = 1 THEN "check" ELSE rpc
    /\ cpc' = "idle"
    /\ UNCHANGED <<posted, broker, delivered, linkVars, recvBuffer, received,
                   messages, mainVars, workQueue, sentVars, up>>

NotifyCanRecv ==
    /\ up /\ cpc = "notify"
    /\ rpc' = IF rpc = "blocked" THEN "check" ELSE rpc
    /\ cpc' = "idle"
    /\ UNCHANGED <<posted, broker, delivered, linkVars, recvBuffer, received,
                   messages, mainVars, workQueue, sentVars, up>>

\* ProtonClient::send, run from the work queue.
Send ==
    /\ up /\ cpc = "idle"
    /\ PassToLibrary
    /\ NotifySender
    /\ UNCHANGED <<posted, broker, containerVars, linkVars, recvBuffer,
                   receiverVars, messages, solving, solutions, up>>

\* The library's own work; a connection that fails is left to SolverLink.
Arrive ==
    /\ up
    /\ ArriveAtBroker
    /\ UNCHANGED <<posted, broker, containerVars, linkVars, recvBuffer,
                   receiverVars, messages, mainVars, workQueue, up>>

-----------------------------------------------------------------------------
\* Receiver thread: receiveSync, then the listener of main().

ReceiveSync ==
    /\ up /\ rpc = "check"
    /\ IF ~recvOpen \/ recvBuffer = << >>
       THEN /\ rpc' = "towait"
            /\ UNCHANGED <<received, recvBuffer>>
       ELSE /\ received' = Head(recvBuffer) /\ recvBuffer' = Tail(recvBuffer)
            /\ rpc' = "push"
    /\ UNCHANGED <<posted, broker, containerVars, linkVars, messages, mainVars,
                   workQueue, sentVars, up>>

WaitCanRecv ==
    /\ up /\ rpc = "towait"
    /\ rpc' = "blocked"
    /\ UNCHANGED <<posted, broker, containerVars, linkVars, recvBuffer, received,
                   messages, mainVars, workQueue, sentVars, up>>

PushMessages ==
    /\ up /\ rpc = "push"
    /\ messages' = Append(messages, received)
    /\ received' = NoMsg
    /\ rpc' = "notify"
    /\ UNCHANGED <<posted, broker, containerVars, linkVars, recvBuffer, mainVars,
                   workQueue, sentVars, up>>

NotifyMain ==
    /\ up /\ rpc = "notify"
    /\ mpc' = IF mpc = "blocked" THEN "check" ELSE mpc
    /\ rpc' = "check"
    /\ UNCHANGED <<posted, broker, containerVars, linkVars, recvBuffer, received,
                   messages, solving, workQueue, sentVars, up>>

-----------------------------------------------------------------------------
\* Main thread.

PopMessages_keepsFront ==
    /\ up /\ mpc = "check"
    /\ IF messages = << >>
       THEN /\ mpc' = "towait"
            /\ UNCHANGED <<solving, messages>>
       ELSE /\ solving' = Head(messages) /\ mpc' = "solve"
            /\ UNCHANGED messages
    /\ UNCHANGED <<posted, broker, containerVars, linkVars, recvBuffer,
                   receiverVars, workQueue, sentVars, up>>

\* parseMsg, whose verdict goes through the queue with the model: it is valid if it is
\* an object with an id and a model.
ParseMsg(msg) == msg \notin Malformed

\* cv.wait's predicate, and the pop when it holds.  A malformed model is logged
\* and dropped.
PopMessages ==
    /\ up /\ mpc = "check"
    /\ IF messages = << >>
       THEN /\ mpc' = "towait"
            /\ UNCHANGED <<solving, messages>>
       ELSE LET pm == Head(messages) IN
            /\ messages' = Tail(messages)
            /\ IF ParseMsg(pm)
               THEN solving' = pm /\ mpc' = "solve"
               ELSE UNCHANGED mainVars
    /\ UNCHANGED <<posted, broker, containerVars, linkVars, recvBuffer,
                   receiverVars, workQueue, sentVars, up>>

WaitMessages ==
    /\ up /\ mpc = "towait"
    /\ mpc' = "blocked"
    /\ UNCHANGED <<posted, broker, containerVars, linkVars, recvBuffer,
                   receiverVars, messages, solving, workQueue, sentVars, up>>

\* minizinc runs, with a time limit of its own, and its first block of output
\* (or "Model error") is the answer.
Solve ==
    /\ up /\ mpc = "solve"
    /\ mpc' = "send"
    /\ UNCHANGED <<posted, broker, containerVars, linkVars, recvBuffer,
                   receiverVars, messages, solving, workQueue, sentVars, up>>

SendSync_early ==
    /\ up /\ mpc = "send"
    /\ workQueue' = Append(workQueue, solving)
    /\ solving' = NoMsg
    /\ mpc' = "reap"
    /\ UNCHANGED <<posted, broker, containerVars, linkVars, recvBuffer,
                   receiverVars, messages, sentVars, up>>

SendSync ==
    /\ up /\ mpc = "send"
    /\ IF sendOpen
       THEN /\ workQueue' = Append(workQueue, solving)
            /\ solving' = NoMsg
            /\ mpc' = "reap"
       ELSE /\ mpc' = "sendtowait"
            /\ UNCHANGED <<workQueue, solving>>
    /\ UNCHANGED <<posted, broker, containerVars, linkVars, recvBuffer,
                   receiverVars, messages, sentVars, up>>

WaitCanSend ==
    /\ up /\ mpc = "sendtowait"
    /\ mpc' = "sendblocked"
    /\ UNCHANGED <<posted, broker, containerVars, linkVars, recvBuffer,
                   receiverVars, messages, solving, workQueue, sentVars, up>>

\* c.wait(): the child has exited.
Reap ==
    /\ up /\ mpc = "reap"
    /\ mpc' = "check"
    /\ UNCHANGED <<posted, broker, containerVars, linkVars, recvBuffer,
                   receiverVars, messages, solving, workQueue, sentVars, up>>

-----------------------------------------------------------------------------
\* A wait of a condition variable may return for no reason.
SpuriousWakeup ==
    /\ up
    /\ \/ rpc = "blocked" /\ rpc' = "check" /\ UNCHANGED mpc
       \/ mpc = "blocked" /\ mpc' = "check" /\ UNCHANGED rpc
       \/ mpc = "sendblocked" /\ mpc' = "send" /\ UNCHANGED rpc
    /\ UNCHANGED <<posted, broker, containerVars, linkVars, recvBuffer, received,
                   messages, solving, workQueue, sentVars, up>>

\* A pop that overlaps a push of another thread on the same std::queue.  Either
\* nothing is noticed (the actions above), or the process dies.
RaceFault ==
    /\ up
    /\ \/ cpc = "push" /\ rpc = "check" /\ recvOpen /\ recvBuffer # << >>
       \/ rpc = "push" /\ mpc = "check" /\ messages # << >>
    /\ up' = FALSE
    /\ UNCHANGED <<posted, broker, containerVars, linkVars, recvBuffer,
                   receiverVars, messages, mainVars, workQueue, sentVars>>

Container == \/ OnReceiverOpen \/ OnSenderOpen \/ OnSendable \/ OnMessage
             \/ PushRecvBuffer \/ NotifyCanRecv \/ Send
Receiver == ReceiveSync \/ WaitCanRecv \/ PushMessages \/ NotifyMain
Main == \/ PopMessages \/ WaitMessages \/ Solve \/ SendSync \/ WaitCanSend
        \/ Reap

Next == \/ Post \/ Container \/ Receiver \/ Main \/ Arrive
        \/ SpuriousWakeup \/ RaceFault

\* Every thread is scheduled.  The container's events wait in its own queue and a
\* mutex is handed to whoever keeps asking for it, so an event that is enabled
\* again and again is handled.  The library sends what it has.  Nobody owes a model, a
\* spurious wakeup or a crash.
Fairness ==
    /\ SF_vars(OnReceiverOpen) /\ SF_vars(OnSenderOpen) /\ SF_vars(OnSendable)
    /\ SF_vars(OnMessage) /\ SF_vars(Send)
    /\ WF_vars(PushRecvBuffer) /\ WF_vars(NotifyCanRecv)
    /\ WF_vars(Receiver) /\ WF_vars(Main) /\ WF_vars(Arrive)

Spec == Init /\ [][Next]_vars /\ Fairness

-----------------------------------------------------------------------------
(* Properties *)

TypeOK ==
    /\ posted \in 0 .. MaxMsgs
    /\ cpc \in {"idle", "push", "notify"}
    /\ rpc \in {"check", "towait", "blocked", "push", "notify"}
    /\ mpc \in {"check", "towait", "blocked", "solve", "send", "sendtowait",
                "sendblocked", "reap"}
    /\ delivered \in Msgs \cup {NoMsg} /\ received \in Msgs \cup {NoMsg}
    /\ solving \in Msgs \cup {NoMsg}
    /\ recvOpen \in BOOLEAN /\ sendOpen \in BOOLEAN /\ credited \in BOOLEAN /\ up \in BOOLEAN
    /\ broker \in Seq(Msgs) /\ recvBuffer \in Seq(Msgs) /\ messages \in Seq(Msgs)
    /\ workQueue \in Seq(Msgs) /\ transit \in Seq(Msgs) /\ solutions \in Seq(Msgs)

\* Everything between the backend's post and the answer, oldest first.
Held(m) == IF m = NoMsg THEN << >> ELSE <<m>>
Taken == Held(solving) \o messages \o Held(received) \o recvBuffer \o Held(delivered)
Todo == Taken \o broker

Queue == INSTANCE SolverQueue
            WITH todo <- Todo, answered <- solutions \o transit \o workQueue

\* Through three threads, two queues and a work queue, models are taken in the
\* order of their posting, and each is answered at most once, in that order:
\* nothing is dropped, doubled or overtaken between on_message and send.
ImplementsQueue == Queue!Spec

\* How many models the broker has given to the process: the first ones posted.
Given == posted - Len(broker)

\* The process as the broker sees it.  The broker remembers as unsettled all that it
\* has given out, and gives it out again when the process has died.
Link == INSTANCE SolverLink WITH
            MaxFaults <- 1,
            broker <- IF up THEN broker ELSE [i \in 1 .. posted |-> i],
            unsettled <- IF up THEN [i \in 1 .. Given |-> i] ELSE << >>,
            receiving <- up /\ recvOpen,
            sending <- up /\ sendOpen,
            sendWorkQueueSet <- up /\ sendOpen,
            held <- IF up THEN Taken ELSE << >>,
            workQueue <- IF up THEN workQueue ELSE << >>,
            transit <- IF up THEN transit ELSE << >>,
            faults <- IF up THEN 0 ELSE 1,
            again <- [m \in Msgs |-> IF ~up /\ m <= Given THEN 1 ELSE 0],
            gone <- {}

\* The three threads and their queues are the one queue that SolverLink takes them
\* for: what is between on_message and sendSync leaves in the order of its coming,
\* nothing is sent before the sender is open, and a crash of the process is one.
ImplementsLink == Link!LinkInit /\ [][Link!LinkNext]_(Link!linkState)

\* The answer's side keeps the discipline that the models' side lacks: the sender
\* is opened under the lock that sendSync waits with, and on_sendable follows.
\* So sendSync is never left waiting once the sender can send.
SenderNotStranded == mpc = "sendblocked" => ~credited

\* Blocked with work in its queue, and no notification on the way.
ReceiverStranded == rpc = "blocked" /\ recvBuffer # << >> /\ cpc = "idle"
MainStranded == mpc = "blocked" /\ messages # << >> /\ rpc \notin {"push", "notify"}

\* No thread can take a step: both links are open, and each thread waits for another.
Quiet ==
    /\ cpc = "idle" /\ rpc = "blocked" /\ mpc \in {"blocked", "sendblocked"}
    /\ recvOpen /\ sendOpen /\ credited
    /\ broker = << >> /\ workQueue = << >> /\ transit = << >>

\* The process comes to rest only when every well-formed model has its answer at
\* the broker, unless a wakeup was lost on the models' side: three threads that wait
\* for each other on two condition variables and a link are no deadlock otherwise.
QuietMeansAnswered ==
    up /\ Quiet => \/ \A m \in (1 .. posted) \ Malformed : m \in ToSet(solutions)
                   \/ ReceiverStranded \/ MainStranded

\* The lost wakeup is the only way to be stuck: no lock, no order of opening the
\* links and no wait for credit keeps a model from its answer, or its answer from
\* the broker, for ever.
AnsweredUnlessStranded ==
    \A m \in Msgs :
        posted >= m ~> \/ m \in ToSet(solutions)
                       \/ m \in Malformed /\ m \notin ToSet(Todo)
                       \/ ReceiverStranded \/ MainStranded
                       \/ ~up

\* A notification that finds the receiver blocked is enough for everything in the
\* buffer, models stranded there earlier included: receiveSync tests again before
\* it waits again.
WakeupDrains ==
    \A m \in Msgs :
        m \in ToSet(recvBuffer) /\ cpc = "notify" /\ rpc = "blocked"
            ~> m \notin ToSet(recvBuffer) \/ ~up

\* README.md:7: "Solver responds back to the spring app with the result".
EveryModelAnswered ==
    \A m \in Msgs \ Malformed :
        posted >= m ~> m \in ToSet(solutions) \/ ~up
=============================================================================
