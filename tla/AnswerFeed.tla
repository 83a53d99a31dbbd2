----------------------------- MODULE AnswerFeed -----------------------------
(***************************************************************************)
(* What the page may rely on when it asks for answers: a user sees answers  *)
(* to models of their own only, each at most once, and in the order in      *)
(* which the backend sent the models to the solver.  Some may be missing.   *)
(* SolveRelay is shown to implement Spec.                                   *)
(***************************************************************************)
EXTENDS Naturals, Sequences

CONSTANTS Users, Models

VARIABLES sent,     \* the models sent to the solver, each with its user, in order
          seen      \* per user, the models whose answers they were shown

vars == <<sent, seen>>

Init == sent = << >> /\ seen = [u \in Users |-> << >>]

Send ==
    /\ \E u \in Users, m \in Models :
          /\ \A i \in DOMAIN sent : sent[i][2] # m
          /\ sent' = Append(sent, <<u, m>>)
    /\ UNCHANGED seen

\* i is a model of u's after all whose answers u has seen.
Unseen(u, i) ==
    /\ sent[i][1] = u
    /\ \A j \in i .. Len(sent), k \in DOMAIN seen[u] : sent[j][2] # seen[u][k]

See ==
    /\ \E u \in Users : \E i \in DOMAIN sent :
          /\ Unseen(u, i)
          /\ seen' = [seen EXCEPT ![u] = Append(@, sent[i][2])]
    /\ UNCHANGED sent

Next == Send \/ See

Spec == Init /\ [][Next]_vars
=============================================================================
