---------------------------- MODULE SolverProcess ----------------------------
(***************************************************************************)
(* The MinizincMQ process as its neighbours see it: the addresses of the    *)
(* broker, the answers on their way there, and whether it runs.  Two        *)
(* modules add what is inside: SolverWorker the threads, SolverLink the     *)
(* connections and their failures.                                          *)
(***************************************************************************)
EXTENDS Naturals, Sequences, SequencesExt

CONSTANTS MaxMsgs,      \* bound on the models posted; a model is its number
          Malformed     \* those that parseMsg rejects

ASSUME MaxMsgsAssumption == MaxMsgs \in Nat
ASSUME MalformedAssumption == Malformed \subseteq 1 .. MaxMsgs

Msgs == 1 .. MaxMsgs

VARIABLES
    posted,             \* how many models the backend has posted
    broker,             \* the models address of the broker
    workQueue,          \* answers handed to the container thread
    transit,            \* answers that send has passed to the library
    solutions,          \* the solutions address of the broker
    up                  \* the process runs

\* The backend sends a model to the broker.
PostToBroker ==
    /\ posted < MaxMsgs
    /\ posted' = posted + 1
    /\ broker' = Append(broker, posted')

\* ProtonClient::send, run from the work queue: the library has the answer.
PassToLibrary ==
    /\ workQueue # << >>
    /\ transit' = Append(transit, Head(workQueue))
    /\ workQueue' = Tail(workQueue)

\* The answer reaches the broker.
ArriveAtBroker ==
    /\ transit # << >>
    /\ solutions' = Append(solutions, Head(transit))
    /\ transit' = Tail(transit)
=============================================================================
