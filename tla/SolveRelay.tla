----------------------------- MODULE SolveRelay -----------------------------
(***************************************************************************)
(* From the Solve button to the answer on the board: SolutionsComponent     *)
(* and SolutionService in each browser, SolverRestController and QpidClient *)
(* in the backend, and the broker with the solver behind it.                *)
(*                                                                         *)
(*   browser --POST--> postModel --> models --> solver --> solutions        *)
(*      ^                                                     |            *)
(*      +--SSE-- pipe <-- multicast sink <-- receiver thread <-+            *)
(*                                                                         *)
(* The POST and the request of the stream are two connections, so they     *)
(* reach the backend in either order.  The multicast sink gives an answer   *)
(* to all its streams at once, when each of them can take one; each stream  *)
(* then drops what is not for its user.  The controller subscribes once     *)
(* itself, to nothing in particular: so the sink never lacks a subscriber.  *)
(* The addresses of the broker are durable and outlive a restart of the     *)
(* backend; the streams and what waits in the sink do not.                  *)
(*                                                                         *)
(* A model is its number; so is its answer.  (The code's answers carry the  *)
(* number of the user only.)  User ids are taken to be distinct.            *)
(***************************************************************************)
EXTENDS Naturals, Sequences, SequencesExt

CONSTANTS Users,
          MaxModels,    \* bound on the models posted
          Invalid,      \* models that parseJsonModel rejects, such as one with no minimum
          Unreadable,   \* models whose answer parseSolution rejects, such as one with a
                        \* quotation mark, whose backslash the solver's toJson erases
          MaxRestarts,  \* bound on the restarts of the backend
          SinkSize,     \* capacity of the sink's buffer
          Prefetch      \* answers that a stream takes before it has written them

Models == 1 .. MaxModels
NoUser == "nobody"

ASSUME MaxModelsAssumption == MaxModels \in Nat /\ MaxRestarts \in Nat
ASSUME UsersAssumption == NoUser \notin Users
ASSUME SetsAssumption == Invalid \cup Unreadable \subseteq Models
ASSUME SizesAssumption == SinkSize \in Nat \ {0} /\ Prefetch \in Nat \ {0}

VARIABLES
    \* the browsers
    lastModel, owner,   \* who posted which model
    posting,            \* models on their way to the backend
    stream,             \* solutionStream, and the state of its EventSource
    shown,              \* the answers given to the solution grid, in order
    \* the broker, and the solver
    models, solutions,
    unacked,            \* the answer received last, which the broker may still have
    \* the backend
    connected,          \* QpidClient's connection
    relaying,           \* the subscription made by convertMessages
    buffer,             \* answers that wait in solutionSink
    subscribed, pipe,   \* the streams of sendSolutions, and what each has yet to write
    \* history
    sent,               \* what was sent to the solver, in order
    refused,            \* answers that no stream was offered since the backend started
    restarts

browserVars == <<lastModel, owner, posting, stream, shown>>
sinkVars == <<relaying, buffer, subscribed, pipe, refused>>
queueVars == <<models, solutions, unacked>>
vars == <<browserVars, queueVars, connected, sinkVars, sent, restarts>>

Init ==
    /\ lastModel = 0 /\ owner = [m \in Models |-> NoUser]
    /\ posting = {}
    /\ stream = [u \in Users |-> "none"]
    /\ shown = [u \in Users |-> << >>]
    /\ models = << >> /\ solutions = << >> /\ unacked = << >>
    /\ connected = TRUE /\ relaying = TRUE
    /\ buffer = << >>
    /\ subscribed = {} /\ pipe = [u \in Users |-> << >>]
    /\ sent = << >> /\ refused = {} /\ restarts = 0

-----------------------------------------------------------------------------
\* The browser.

RequestSolutionStream_again(u) ==
    stream' = IF stream[u] \in {"none", "ended"} THEN [stream EXCEPT ![u] = "connecting"]
              ELSE stream

\* requestSolutionStream: a stream that was ever requested is not requested again,
\* even after it has ended.
RequestSolutionStream(u) ==
    stream' = IF stream[u] = "none" THEN [stream EXCEPT ![u] = "connecting"] ELSE stream

\* SolutionsComponent.postModel
PostModel(u) ==
    /\ lastModel < MaxModels
    /\ lastModel' = lastModel + 1
    /\ owner' = [owner EXCEPT ![lastModel'] = u]
    /\ posting' = posting \cup {lastModel'}
    /\ RequestSolutionStream(u)
    /\ UNCHANGED <<shown, queueVars, connected, sinkVars, sent, restarts>>

\* The POST gets lost; postModel only logs the answer, so nothing follows.
LosePost(m) ==
    /\ m \in posting
    /\ posting' = posting \ {m}
    /\ UNCHANGED <<lastModel, owner, stream, shown, queueVars, connected, sinkVars,
                   sent, restarts>>

\* eventSource.onerror: it is closed, whether the browser would have tried again
\* (readyState 0) or not.
OnError(u) ==
    /\ stream[u] \in {"connecting", "open"}
    /\ stream' = [stream EXCEPT ![u] = "ended"]
    /\ UNCHANGED <<lastModel, owner, posting, shown, queueVars, connected, sinkVars,
                   sent, restarts>>

\* The browser finds out that the backend has gone.
NoticeCut(u) == stream[u] = "open" /\ u \notin subscribed /\ OnError(u)

-----------------------------------------------------------------------------
\* The backend.

\* QpidClient.send: without a connection it only logs the exception.
Send(m) ==
    IF connected THEN models' = Append(models, m) /\ sent' = Append(sent, m)
    ELSE UNCHANGED <<models, sent>>

\* SolverRestController.postModel
HandlePost(m) ==
    /\ m \in posting
    /\ posting' = posting \ {m}
    /\ IF m \in Invalid THEN UNCHANGED <<models, sent>> ELSE Send(m)
    /\ UNCHANGED <<lastModel, owner, stream, shown, solutions, unacked, connected,
                   sinkVars, restarts>>

\* sendSolutions
SendSolutions(u) ==
    /\ stream[u] = "connecting"
    /\ stream' = [stream EXCEPT ![u] = "open"]
    /\ subscribed' = subscribed \cup {u}
    /\ UNCHANGED <<lastModel, owner, posting, shown, queueVars, connected, relaying,
                   buffer, pipe, refused, sent, restarts>>

Deliverable_needsStream ==
    /\ buffer # << >> /\ subscribed # {}
    /\ \A u \in subscribed : Len(pipe[u]) < Prefetch

Deliverable_ignoresDemand == buffer # << >>

\* The sink can hand out the answer at its front.
Deliverable == buffer # << >> /\ \A u \in subscribed : Len(pipe[u]) < Prefetch

\* parseSolution gives null for an answer that is not an object with an id and data.
ParseSolution(m) == m \notin Unreadable

\* QpidClient.receiveMessageThread and the subscriber of convertMessages, which runs
\* on the same thread.  The thread that emits also empties the buffer as far as the streams
\* allow before it takes the next message; that a thread of the server, on which a stream
\* has asked for more, may be emptying it at that moment is left to Reactor.
ReceiveMessage ==
    /\ connected
    /\ solutions # << >>
    /\ ~Deliverable
    /\ LET m == Head(solutions) IN
       /\ solutions' = Tail(solutions) /\ unacked' = <<m>>
       /\ relaying' = (relaying /\ ParseSolution(m))
       /\ IF relaying' /\ Len(buffer) < SinkSize
          THEN buffer' = Append(buffer, m) /\ UNCHANGED refused
          ELSE refused' = refused \cup {m} /\ UNCHANGED buffer
    /\ UNCHANGED <<browserVars, models, connected, subscribed, pipe, sent, restarts>>

\* The sink gives the answer to all streams, of which all but the owner's drop it.
Deliver ==
    /\ Deliverable
    /\ LET m == Head(buffer) IN
       /\ buffer' = Tail(buffer)
       /\ pipe' = [u \in Users |-> IF u \in subscribed /\ owner[m] = u
                                   THEN Append(pipe[u], m) ELSE pipe[u]]
    /\ UNCHANGED <<browserVars, queueVars, connected, relaying, subscribed, refused,
                   sent, restarts>>

\* The backend writes an event, and eventSource.onmessage loads it.
OnMessage(u) ==
    /\ u \in subscribed /\ stream[u] = "open"
    /\ pipe[u] # << >>
    /\ shown' = [shown EXCEPT ![u] = Append(@, Head(pipe[u]))]
    /\ pipe' = [pipe EXCEPT ![u] = Tail(@)]
    /\ UNCHANGED <<lastModel, owner, posting, stream, queueVars, connected, relaying,
                   buffer, subscribed, refused, sent, restarts>>

Cancel_leaks(u) ==
    /\ u \in subscribed /\ stream[u] = "ended"
    /\ UNCHANGED vars

Cancel_lastEnds(u) ==
    /\ u \in subscribed /\ stream[u] = "ended"
    /\ subscribed' = subscribed \ {u}
    /\ pipe' = [pipe EXCEPT ![u] = << >>]
    /\ relaying' = (relaying /\ subscribed' # {})
    /\ UNCHANGED <<browserVars, queueVars, connected, buffer, refused, sent, restarts>>

\* The backend finds out that the browser has closed the connection.  The
\* sink cancels itself when its last subscriber goes, but the controller's own
\* one stays.
Cancel(u) ==
    /\ u \in subscribed /\ stream[u] = "ended"
    /\ subscribed' = subscribed \ {u}
    /\ pipe' = [pipe EXCEPT ![u] = << >>]
    /\ UNCHANGED <<browserVars, queueVars, connected, relaying, buffer, refused, sent,
                   restarts>>

\* The connection to the broker fails.  The receiver thread then ends, and nothing
\* connects again.
LoseConnection ==
    /\ connected
    /\ connected' = FALSE
    /\ UNCHANGED <<browserVars, queueVars, sinkVars, sent, restarts>>

\* The backend dies, or is stopped for its lost connection, and is started again: the
\* bean connects and convertMessages sets up an empty relay.  Every stream is cut,
\* and what the relay had taken from the broker is lost, except that the
\* acknowledgement of the last answer (AUTO_ACKNOWLEDGE) may not have got through.
Restart ==
    /\ restarts < MaxRestarts /\ restarts' = restarts + 1
    /\ connected' = TRUE /\ relaying' = TRUE
    /\ buffer' = << >> /\ refused' = {}
    /\ subscribed' = {} /\ pipe' = [u \in Users |-> << >>]
    /\ solutions' \in {solutions, unacked \o solutions} /\ unacked' = << >>
    /\ UNCHANGED <<browserVars, models, sent>>

\* The solver: SolverQueue's Answer.
Answer ==
    /\ models # << >>
    /\ models' = Tail(models)
    /\ solutions' = Append(solutions, Head(models))
    /\ UNCHANGED <<browserVars, unacked, connected, sinkVars, sent, restarts>>

-----------------------------------------------------------------------------
Next ==
    \/ \E u \in Users : PostModel(u) \/ OnError(u) \/ SendSolutions(u)
    \/ \E m \in Models : LosePost(m) \/ HandlePost(m)
    \/ ReceiveMessage \/ Deliver
    \/ \E u \in Users : OnMessage(u) \/ Cancel(u)
    \/ LoseConnection \/ Restart \/ Answer

\* The backend's threads are scheduled, browsers read what they are sent, and a
\* closed connection is noticed in time.  The solver answers, which
\* SolverWorker shows to be more than it promises.
Fairness ==
    /\ WF_vars(ReceiveMessage) /\ WF_vars(Deliver) /\ WF_vars(Answer)
    /\ \A u \in Users : WF_vars(OnMessage(u)) /\ WF_vars(Cancel(u)) /\ WF_vars(NoticeCut(u))

Spec == Init /\ [][Next]_vars /\ Fairness

-----------------------------------------------------------------------------
(* Properties *)

TypeOK ==
    /\ lastModel \in 0 .. MaxModels
    /\ owner \in [Models -> Users \cup {NoUser}]
    /\ posting \subseteq Models /\ refused \subseteq Models
    /\ stream \in [Users -> {"none", "connecting", "open", "ended"}]
    /\ shown \in [Users -> Seq(Models)] /\ pipe \in [Users -> Seq(Models)]
    /\ \A u \in Users : Len(pipe[u]) <= Prefetch
    /\ models \in Seq(Models) /\ solutions \in Seq(Models) /\ sent \in Seq(Models)
    /\ unacked \in Seq(Models) /\ Len(unacked) <= 1 /\ restarts \in 0 .. MaxRestarts
    /\ buffer \in Seq(Models) /\ Len(buffer) <= SinkSize
    /\ connected \in BOOLEAN /\ relaying \in BOOLEAN
    /\ subscribed \subseteq Users

\* Through the broker, the sink and its streams each user gets a subsequence of the
\* answers to their own models, in the order in which the backend sent them: an answer
\* that the broker delivers again after a restart is not shown again.
Feed == INSTANCE AnswerFeed
            WITH sent <- [i \in DOMAIN sent |-> <<owner[sent[i]], sent[i]>>],
                 seen <- shown
ImplementsFeed == Feed!Spec

\* The one subscription that serves all users outlives them: streams that come and
\* go, the last one included, do not end it.  Only an answer that cannot be read does.
RelayOutlivesStreams == relaying \/ refused \cap Unreadable # {}

\* An answer is refused only while some stream has stopped reading, or after one that
\* cannot be read: answers do not pile up in the sink when nobody listens, and streams
\* that come and go do not end the relay.
RefusedOnlyWhenStalled ==
    [][\A m \in refused' \ refused :
         \/ \E u \in subscribed : Len(pipe[u]) = Prefetch
         \/ refused' \cap Unreadable # {}]_vars

\* A stream that was open when its user's model was still to be solved brings the
\* answer, unless it ends first (as all do when the backend is restarted), the
\* connection to the broker fails, or the sink refuses it.  (A model that overtakes the
\* request for the stream has no such promise.)
OpenStreamGetsAnswer ==
    \A u \in Users, m \in Models :
        u \in subscribed /\ stream[u] = "open" /\ m \in ToSet(models) /\ owner[m] = u
            ~> \/ m \in ToSet(shown[u])
               \/ stream[u] = "ended" \/ ~connected \/ m \in refused
=============================================================================
