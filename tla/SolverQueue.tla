----------------------------- MODULE SolverQueue -----------------------------
(***************************************************************************)
(* What the MinizincMQ process promises its clients: models are taken in   *)
(* the order in which they were posted, each once, and every well-formed   *)
(* one gets one answer.  SolverWorker is shown to implement Spec; it does  *)
(* not implement FairSpec (README, "Findings").                            *)
(***************************************************************************)
EXTENDS Naturals, Sequences

CONSTANTS MaxMsgs,      \* bound on the models posted; a model is its number
          Malformed     \* those that parseMsg rejects

VARIABLES posted,       \* how many models were posted
          todo,         \* posted and not answered
          answered      \* answers, in the order they were given

vars == <<posted, todo, answered>>

Init == posted = 0 /\ todo = << >> /\ answered = << >>

Post ==
    /\ posted < MaxMsgs
    /\ posted' = posted + 1
    /\ todo' = Append(todo, posted')
    /\ UNCHANGED answered

Answer ==
    /\ todo # << >>
    /\ todo' = Tail(todo)
    /\ answered' = IF Head(todo) \in Malformed THEN answered
                   ELSE Append(answered, Head(todo))
    /\ UNCHANGED posted

Next == Post \/ Answer

Spec == Init /\ [][Next]_vars

FairSpec == Spec /\ WF_vars(Answer)
=============================================================================
