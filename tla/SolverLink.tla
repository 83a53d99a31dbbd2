----------------------------- MODULE SolverLink -----------------------------
(***************************************************************************)
(* The two connections of the MinizincMQ process to the broker, when they   *)
(* fail.  ProtonClient opens a receiver and a sender, each on a connection  *)
(* of its own that is tried again without end, and leaves the rest to the   *)
(* library:                                                                 *)
(*                                                                         *)
(*   - a model is accepted for it when on_message returns, long before it   *)
(*     is solved; the broker delivers again what it has not heard of when   *)
(*     the receiving connection fails;                                      *)
(*   - send keeps no copy of an answer: whether one that is under way when  *)
(*     the sending connection fails is sent again is the library's affair.  *)
(*                                                                         *)
(* The process may also be killed, and started again by hand.  What happens *)
(* between its threads is in SolverWorker.tla; here they are one queue, and *)
(* SolverWorker is shown to implement it.  The operations that both modules *)
(* have are called Link... here.                                            *)
(***************************************************************************)
EXTENDS SolverProcess, FiniteSets

CONSTANT MaxFaults      \* bound on the failures of connections and of the process

ASSUME MaxFaultsAssumption == MaxFaults \in Nat

VARIABLES
    \* the broker
    unsettled,          \* delivered, and not yet known to be accepted
    \* the process
    receiving, sending, \* its connections are open
    sendWorkQueueSet,   \* the sender has been open since the process started
    held,               \* recvBuffer, messages and what main is solving
    \* history
    faults,
    again,              \* how often a model was delivered again after on_message had it
    gone                \* accepted models whose answers were lost with the process or
                        \* with the sending connection

brokerVars == <<posted, broker, unsettled, solutions>>
connectionVars == <<up, receiving, sending, sendWorkQueueSet>>
historyVars == <<faults, again, gone>>
linkState == <<brokerVars, connectionVars, held, workQueue, transit, historyVars>>

LinkInit ==
    /\ posted = 0 /\ broker = << >> /\ unsettled = << >> /\ solutions = << >>
    /\ up = TRUE /\ receiving = FALSE /\ sending = FALSE /\ sendWorkQueueSet = FALSE
    /\ held = << >> /\ workQueue = << >> /\ transit = << >>
    /\ faults = 0 /\ again = [m \in Msgs |-> 0] /\ gone = {}

\* The backend sends a model to the broker.
LinkPost ==
    /\ PostToBroker
    /\ UNCHANGED <<unsettled, solutions, connectionVars, held, workQueue, transit, historyVars>>

-----------------------------------------------------------------------------
LinkOnReceiverOpen_once ==
    /\ up /\ ~receiving /\ faults = 0
    /\ receiving' = TRUE
    /\ UNCHANGED <<brokerVars, up, sending, sendWorkQueueSet, held, workQueue, transit,
                   historyVars>>

\* For the first time, or after any number of attempts (max_attempts is 0).
LinkOnReceiverOpen ==
    /\ up /\ ~receiving
    /\ receiving' = TRUE
    /\ UNCHANGED <<brokerVars, up, sending, sendWorkQueueSet, held, workQueue, transit,
                   historyVars>>

LinkOnSenderOpen ==
    /\ up /\ ~sending
    /\ sending' = TRUE /\ sendWorkQueueSet' = TRUE
    /\ UNCHANGED <<brokerVars, up, receiving, held, workQueue, transit, historyVars>>

\* on_message; the library then accepts the model.
LinkOnMessage ==
    /\ up /\ receiving /\ broker # << >>
    /\ broker' = Tail(broker)
    /\ unsettled' = Append(unsettled, Head(broker))
    /\ held' = Append(held, Head(broker))
    /\ UNCHANGED <<posted, solutions, connectionVars, workQueue, transit, historyVars>>

\* The broker hears that the model was accepted.
Settle ==
    /\ up /\ receiving /\ unsettled # << >>
    /\ unsettled' = Tail(unsettled)
    /\ UNCHANGED <<posted, broker, solutions, connectionVars, held, workQueue, transit,
                   historyVars>>

\* main solves a model and calls sendSync, which waits for the sender to have been
\* open once; a malformed model is logged and dropped.
Answer ==
    /\ up /\ held # << >>
    /\ held' = Tail(held)
    /\ IF Head(held) \in Malformed THEN UNCHANGED workQueue
       ELSE sendWorkQueueSet /\ workQueue' = Append(workQueue, Head(held))
    /\ UNCHANGED <<brokerVars, connectionVars, transit, historyVars>>

LinkSend_again ==
    /\ up /\ sending /\ workQueue # << >>
    /\ transit' = Append(transit, Head(workQueue))
    /\ workQueue' = IF Len(transit) = 1 THEN workQueue ELSE Tail(workQueue)
    /\ UNCHANGED <<brokerVars, connectionVars, held, historyVars>>

\* ProtonClient::send, run from the work queue.
LinkSend ==
    /\ up /\ sending
    /\ PassToLibrary
    /\ UNCHANGED <<brokerVars, connectionVars, held, historyVars>>

\* The answer reaches the broker.
LinkArrive ==
    /\ up /\ sending
    /\ ArriveAtBroker
    /\ UNCHANGED <<posted, broker, unsettled, connectionVars, held, workQueue, historyVars>>

-----------------------------------------------------------------------------
\* Faults.

Fault == faults < MaxFaults /\ faults' = faults + 1

\* The receiver is gone: the broker takes back what it thinks was not accepted.
Redeliver ==
    /\ broker' = unsettled \o broker /\ unsettled' = << >>
    /\ again' = [m \in Msgs |-> IF m \in ToSet(unsettled) THEN again[m] + 1 ELSE again[m]]

LoseReceiver ==
    /\ Fault
    /\ up /\ receiving /\ receiving' = FALSE
    /\ Redeliver
    /\ UNCHANGED <<posted, solutions, up, sending, sendWorkQueueSet, held, workQueue,
                   transit, gone>>

LoseSender ==
    /\ Fault
    /\ up /\ sending /\ sending' = FALSE
    /\ \/ UNCHANGED <<transit, gone>>
       \/ transit' = << >> /\ gone' = gone \cup ToSet(transit)
    /\ UNCHANGED <<brokerVars, up, receiving, sendWorkQueueSet, held, workQueue, again>>

Crash ==
    /\ Fault
    /\ up /\ up' = FALSE
    /\ receiving' = FALSE /\ sending' = FALSE /\ sendWorkQueueSet' = FALSE
    /\ Redeliver
    /\ held' = << >> /\ workQueue' = << >> /\ transit' = << >>
    /\ gone' = gone \cup (ToSet(held \o workQueue \o transit) \ ToSet(unsettled))
    /\ UNCHANGED <<posted, solutions>>

\* Somebody starts the process again.
Restart ==
    /\ ~up /\ up' = TRUE
    /\ UNCHANGED <<brokerVars, receiving, sending, sendWorkQueueSet, held, workQueue,
                   transit, historyVars>>

-----------------------------------------------------------------------------
LinkNext ==
    \/ LinkPost \/ Settle \/ LinkArrive
    \/ LinkOnReceiverOpen \/ LinkOnSenderOpen \/ LinkOnMessage \/ Answer \/ LinkSend
    \/ LoseReceiver \/ LoseSender \/ Crash \/ Restart

\* Connections are tried for ever and faults are bounded, so each opens in the end;
\* main answers (SolverWorker says when it does not).  Nobody has to restart the
\* process.
LinkFairness ==
    /\ WF_linkState(LinkOnReceiverOpen) /\ WF_linkState(LinkOnSenderOpen)
    /\ WF_linkState(LinkOnMessage) /\ WF_linkState(Settle) /\ WF_linkState(Answer)
    /\ WF_linkState(LinkSend) /\ WF_linkState(LinkArrive)

LinkSpec == LinkInit /\ [][LinkNext]_linkState /\ LinkFairness

-----------------------------------------------------------------------------
(* Properties *)

\* A model is answered twice only if it was delivered twice, and it is delivered twice
\* only if the receiving connection failed, or the process died, before the broker
\* heard that it was accepted: reconnecting repeats nothing else.
RepeatsAreRedeliveries ==
    /\ \A m \in Msgs :
         Cardinality({i \in DOMAIN solutions : solutions[i] = m}) <= 1 + again[m]
    /\ \A m \in Msgs : again[m] <= faults

\* No failure loses a well-formed model or its answer, except in the two ways that gone
\* records: the broker knew the model to be accepted when the process was killed, or its
\* answer was under way when the sending connection failed.
NothingLost ==
    \A m \in (1 .. posted) \ Malformed :
        m \in gone \/ m \in ToSet(broker \o held \o workQueue \o transit \o solutions)

\* Neither too many answers nor too few: through any failures each posted model is
\* still on its way or answered, and answered no more often than it was delivered.
AnswersAccounted == RepeatsAreRedeliveries /\ NothingLost

\* A model that was posted is answered in the end, through any number of failures of
\* the connections and of the process, if the process is always started again,
\* with the exceptions of NothingLost.
AnsweredUnlessGone ==
    []<>up => \A m \in Msgs \ Malformed :
                  posted >= m ~> m \in ToSet(solutions) \/ m \in gone

\* Between two failures the connections, the process behind them and the library are
\* one queue; what is delivered again enters it again.
LinkQueue == INSTANCE SolverQueue
                 WITH todo <- held \o broker, answered <- solutions \o transit \o workQueue

QueueBetweenFaults ==
    [][faults' = faults => LinkQueue!Next \/ UNCHANGED LinkQueue!vars]_linkState
=============================================================================
