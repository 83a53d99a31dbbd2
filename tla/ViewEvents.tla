----------------------------- MODULE ViewEvents -----------------------------
(***************************************************************************)
(* The part that the two halves of the page share: which views the grid    *)
(* has, which one ACTIVE_VIEW_ID names, and whether the group list is       *)
(* shown.  ViewTree drives it; GroupEditor lives with whatever it does.     *)
(* Both are shown to implement Spec, so that what ViewTree can do to the    *)
(* views is among what GroupEditor is checked against.                      *)
(***************************************************************************)
EXTENDS Naturals

CONSTANT MaxViews   \* bound on the views ever created

VARIABLES lastView, views, activeViewId, shown

vars == <<lastView, views, activeViewId, shown>>

Init == lastView = 0 /\ views = {} /\ activeViewId = 0 /\ shown = FALSE

Add ==
    /\ lastView < MaxViews
    /\ lastView' = lastView + 1
    /\ views' = views \cup {lastView'}
    /\ UNCHANGED <<activeViewId, shown>>

\* Any view ever made, or none: the tree may show an item whose view is gone.
Select ==
    /\ activeViewId' \in 0 .. lastView
    /\ shown' = (activeViewId' \in views)
    /\ UNCHANGED <<lastView, views>>

Delete ==
    /\ views' \in SUBSET views
    /\ activeViewId' \in {activeViewId} \cup (IF activeViewId \in views' THEN {} ELSE {0})
    /\ shown' = (activeViewId' \in views')
    /\ UNCHANGED lastView

Next == Add \/ Select \/ Delete

Spec == Init /\ [][Next]_vars
=============================================================================
