------------------------------ MODULE ViewTree ------------------------------
(***************************************************************************)
(* The constraints and views of the grid, and the tree that shows them:    *)
(* ViewTreeComponent, ConstraintSelectComponent, the onAddView of the two   *)
(* option menus, and MenuComponent's choice of what to show.                *)
(*                                                                         *)
(* The tree is the flat list of its nodes (treeControl.dataNodes): a node   *)
(* is <<"constraint", id>> or <<"view", id>>, and a view is nested under    *)
(* the nearest constraint before it, as flatToNested reads the list.  Every *)
(* change of the tree makes new FlatNode objects (refreshData), but the     *)
(* SelectionModel keeps the old ones: `checked` is the selected nodes that  *)
(* are in the tree, `stale` the objects of the selected nodes that are not. *)
(* The items under a collapsed node are not on the page, so nobody clicks   *)
(* them; new nodes are collapsed.                                           *)
(*                                                                         *)
(* One action is one browser event with all its handlers.                   *)
(***************************************************************************)
EXTENDS Naturals, Sequences, FiniteSets, SequencesExt

CONSTANTS Names,            \* what ConstraintSelectComponent offers
          MaxConstraints,   \* bound on the constraints ever created
          MaxViews          \* bound on the views ever created

ASSUME MaxConstraintsAssumption == MaxConstraints \in Nat
ASSUME MaxViewsAssumption == MaxViews \in Nat

Nil == 0
NoName == "none"
ASSUME NamesAssumption == NoName \notin Names

ConstraintIds == 1 .. MaxConstraints
ViewIds == 1 .. MaxViews
C(c) == <<"constraint", c>>
V(v) == <<"view", v>>
Nodes == {C(c) : c \in ConstraintIds} \cup {V(v) : v \in ViewIds}

VARIABLES
    \* SharedGridService
    lastConstraint, lastView,       \* the id counters of the factories
    activeConstraintId, activeViewId,
    \* the grid of ConstraintGridComponent
    constraints, views,             \* what is in it
    nameOf,                         \* constraint.name
    parentOf, kindOf,               \* view.parentConstraint, view.settings.constraint
    \* ViewTreeComponent
    flat, checked, stale,
    expanded,                       \* the nodes with children that are expanded
    \* MenuComponent
    clickedOnConstraint, clickedOnView

gridVars == <<lastConstraint, lastView, constraints, views, nameOf, parentOf, kindOf>>
activeVars == <<activeConstraintId, activeViewId>>
treeVars == <<flat, checked, stale, expanded>>
menuVars == <<clickedOnConstraint, clickedOnView>>
vars == <<gridVars, activeVars, treeVars, menuVars>>

Init ==
    /\ lastConstraint = 0 /\ lastView = 0
    /\ activeConstraintId = Nil /\ activeViewId = Nil
    /\ constraints = {} /\ views = {}
    /\ nameOf = [c \in ConstraintIds |-> NoName]
    /\ parentOf = [v \in ViewIds |-> Nil]
    /\ kindOf = [v \in ViewIds |-> NoName]
    /\ flat = << >> /\ checked = {} /\ stale = {} /\ expanded = {}
    /\ clickedOnConstraint = NoName /\ clickedOnView = FALSE

-----------------------------------------------------------------------------
\* The queries of SharedGridService.
ActiveConstraint ==
    IF activeConstraintId \in constraints THEN activeConstraintId ELSE Nil

ActiveView ==
    IF /\ ActiveConstraint # Nil
       /\ activeViewId \in views
       /\ parentOf[activeViewId] = ActiveConstraint
    THEN activeViewId ELSE Nil

\* The ConstraintMetadata and the ViewMetadata that the factories make next.
NewConstraint == lastConstraint + 1
NewView == lastView + 1

ViewChanged_keepsName ==
    /\ clickedOnConstraint' = IF ActiveConstraint' = Nil \/ clickedOnConstraint # NoName
                              THEN clickedOnConstraint
                              ELSE nameOf'[ActiveConstraint']
    /\ clickedOnView' = (ActiveView' # Nil)

\* MenuComponent's VIEW_CHANGE handler: the name stays when no constraint is
\* active.
ViewChanged ==
    /\ clickedOnConstraint' = IF ActiveConstraint' = Nil THEN clickedOnConstraint
                              ELSE nameOf'[ActiveConstraint']
    /\ clickedOnView' = (ActiveView' # Nil)

\* The tree.
IsConstraint(node) == node[1] = "constraint"

\* The last position of the block of nodes that the constraint at i heads.
BlockEnd(i) ==
    CHOOSE j \in i .. Len(flat) :
        /\ \A k \in i + 1 .. j : ~IsConstraint(flat[k])
        /\ j = Len(flat) \/ IsConstraint(flat[j + 1])

\* treeControl.getDescendants
Descendants(i) ==
    IF IsConstraint(flat[i]) THEN {flat[k] : k \in i + 1 .. BlockEnd(i)} ELSE {}

\* getParentNode, for the position of a view
ParentIndex(i) ==
    CHOOSE j \in 1 .. i - 1 :
        IsConstraint(flat[j]) /\ \A k \in j + 1 .. i - 1 : ~IsConstraint(flat[k])

\* The item at i is on the page.
Visible(i) == ~IsConstraint(flat[i]) => flat[ParentIndex(i)] \in expanded

\* refreshData: nothing of what was selected is in the tree any more.
Refresh ==
    /\ stale' = stale \cup checked
    /\ checked' = {}

AddSecondLevelNode_atEnd(v) == flat' = Append(flat, V(v)) /\ Refresh

\* addSecondLevelNode, below the active constraint.
AddSecondLevelNode(v) ==
    /\ \E i \in DOMAIN flat :
          /\ flat[i] = C(ActiveConstraint)
          /\ flat' = InsertAt(flat, BlockEnd(i) + 1, V(v))
    /\ Refresh

\* expand, of the first item with the name of constraint c: the ADD_VIEW handler
\* looks for it by its name, after the refresh.
ExpandByName(c) ==
    LET named(i) == IsConstraint(flat'[i]) /\ nameOf[flat'[i][2]] = nameOf[c] IN
    \E i \in DOMAIN flat' :
        /\ named(i) /\ \A j \in 1 .. i - 1 : ~named(j)
        /\ expanded' = {flat'[i]}

-----------------------------------------------------------------------------
OnAddConstraint_again(name) ==
    /\ lastConstraint < MaxConstraints
    /\ lastConstraint' = NewConstraint
    /\ constraints' = constraints \cup {NewConstraint}
    /\ nameOf' = [nameOf EXCEPT ![NewConstraint] = name]
    /\ flat' = Append(flat, C(NewConstraint))
    /\ Refresh /\ expanded' = {}
    /\ UNCHANGED <<lastView, views, parentOf, kindOf, activeVars, menuVars>>

\* ConstraintSelectComponent.onAddConstraint, and the ADD_CONSTRAINT handler of
\* the tree, addFirstLevelNode.
OnAddConstraint(name) ==
    /\ lastConstraint < MaxConstraints
    /\ \A c \in constraints : nameOf[c] # name
    /\ lastConstraint' = NewConstraint
    /\ constraints' = constraints \cup {NewConstraint}
    /\ nameOf' = [nameOf EXCEPT ![NewConstraint] = name]
    /\ flat' = Append(flat, C(NewConstraint))
    /\ Refresh /\ expanded' = {}
    /\ UNCHANGED <<lastView, views, parentOf, kindOf, activeVars, menuVars>>

\* The onAddView of the option menu on the page, which is the one for
\* clickedOnConstraint, and the ADD_VIEW handler of the tree, which looks the
\* parent up by its id.
OnAddView ==
    /\ lastView < MaxViews
    /\ clickedOnConstraint \in Names
    /\ ActiveConstraint # Nil
    /\ lastView' = NewView
    /\ views' = views \cup {NewView}
    /\ parentOf' = [parentOf EXCEPT ![NewView] = ActiveConstraint]
    /\ kindOf' = [kindOf EXCEPT ![NewView] = clickedOnConstraint]
    /\ IF C(ActiveConstraint) \in ToSet(flat)
       THEN AddSecondLevelNode(NewView) /\ ExpandByName(ActiveConstraint)
       ELSE UNCHANGED treeVars
    /\ UNCHANGED <<lastConstraint, constraints, nameOf, activeVars, menuVars>>

\* matTreeNodeToggle, on a node that has children.
ToggleExpanded(i) ==
    /\ Descendants(i) # {}
    /\ expanded' = IF flat[i] \in expanded THEN expanded \ {flat[i]}
                   ELSE expanded \cup {flat[i]}
    /\ UNCHANGED <<gridVars, activeVars, flat, checked, stale, menuVars>>

OnClickItem_keepsView(node) ==
    /\ activeConstraintId' = IF IsConstraint(node) THEN node[2] ELSE parentOf[node[2]]
    /\ activeViewId' = IF IsConstraint(node) THEN activeViewId ELSE node[2]
    /\ UNCHANGED <<gridVars, treeVars>>
    /\ ViewChanged

\* onClickItem
OnClickItem(node) ==
    /\ IF IsConstraint(node)
       THEN activeConstraintId' = node[2] /\ activeViewId' = Nil
       ELSE activeConstraintId' = parentOf[node[2]] /\ activeViewId' = node[2]
    /\ UNCHANGED <<gridVars, treeVars>>
    /\ ViewChanged

\* parentSelectionToggle, on a node that has children: they follow it.
ParentSelectionToggle(i) ==
    /\ Descendants(i) # {}
    /\ checked' = IF flat[i] \in checked
                  THEN checked \ ({flat[i]} \cup Descendants(i))
                  ELSE checked \cup {flat[i]} \cup Descendants(i)
    /\ UNCHANGED <<gridVars, activeVars, flat, stale, expanded, menuVars>>

CheckParentSelection_never(i, selected) == selected

\* checkParentSelection, of the parent of the view at i: it is selected exactly if
\* all its children are.
CheckParentSelection(i, selected) ==
    LET parent == ParentIndex(i) IN
    IF IsConstraint(flat[i]) THEN selected
    ELSE IF Descendants(parent) \subseteq selected THEN selected \cup {flat[parent]}
    ELSE selected \ {flat[parent]}

\* leafSelectionToggle, on a node without children.
LeafSelectionToggle(i) ==
    /\ Descendants(i) = {}
    /\ checked' = CheckParentSelection(i, IF flat[i] \in checked
                                          THEN checked \ {flat[i]}
                                          ELSE checked \cup {flat[i]})
    /\ UNCHANGED <<gridVars, activeVars, flat, stale, expanded, menuVars>>

\* ConstraintGridComponent.cleanConstraints: what is marked leaves the grid, and a
\* view also with its constraint.
CleanConstraints(marked) ==
    /\ constraints' = {c \in constraints : C(c) \notin marked}
    /\ views' = {v \in views : V(v) \notin marked /\ parentOf[v] \in constraints'}

\* dataNodes.filter: what is not selected stays, in the order it has.
Unselected ==
    LET kept == {i \in DOMAIN flat : flat[i] \notin checked} IN
    \E place \in [1 .. Cardinality(kept) -> kept] :
        /\ \A j, k \in DOMAIN place : j < k => place[j] < place[k]
        /\ flat' = [k \in DOMAIN place |-> flat[place[k]]]

RemoveSelected_none == UNCHANGED flat /\ checked' = {} /\ stale' = {} /\ expanded' = {}

RemoveSelected_keepsSelection ==
    /\ Unselected
    /\ UNCHANGED <<checked, stale>>
    /\ expanded' = {}

\* The selected nodes that are in the tree leave it, and nothing is selected now.
RemoveSelected ==
    /\ Unselected
    /\ checked' = {} /\ stale' = {} /\ expanded' = {}

\* onDeleteSelected: the objects of all selected nodes are marked, and
\* cleanConstraints takes them out of the grid.
OnDeleteSelected ==
    LET marked == checked \cup stale IN
    /\ marked # {}
    /\ CleanConstraints(marked)
    /\ activeViewId' = IF ActiveView # Nil /\ V(ActiveView) \in marked THEN Nil
                       ELSE activeViewId
    /\ activeConstraintId' =
         IF ActiveConstraint # Nil /\ C(ActiveConstraint) \in marked THEN Nil
         ELSE activeConstraintId
    /\ RemoveSelected
    /\ UNCHANGED <<lastConstraint, lastView, nameOf, parentOf, kindOf>>
    /\ ViewChanged

Next ==
    \/ \E name \in Names : OnAddConstraint(name)
    \/ OnAddView
    \/ \E i \in DOMAIN flat : Visible(i) /\ OnClickItem(flat[i])
    \/ \E i \in DOMAIN flat : ToggleExpanded(i)
    \/ \E i \in DOMAIN flat : ParentSelectionToggle(i)
    \/ \E i \in DOMAIN flat : Visible(i) /\ LeafSelectionToggle(i)
    \/ OnDeleteSelected

Spec == Init /\ [][Next]_vars

-----------------------------------------------------------------------------
(* Properties *)

TypeOK ==
    /\ lastConstraint \in 0 .. MaxConstraints /\ lastView \in 0 .. MaxViews
    /\ activeConstraintId \in ConstraintIds \cup {Nil}
    /\ activeViewId \in ViewIds \cup {Nil}
    /\ constraints \in SUBSET ConstraintIds /\ views \in SUBSET ViewIds
    /\ nameOf \in [ConstraintIds -> Names \cup {NoName}]
    /\ parentOf \in [ViewIds -> ConstraintIds \cup {Nil}]
    /\ kindOf \in [ViewIds -> Names \cup {NoName}]
    /\ flat \in Seq(Nodes)
    /\ checked \in SUBSET ToSet(flat) /\ stale \in SUBSET Nodes
    /\ expanded \in SUBSET ToSet(flat)
    /\ clickedOnConstraint \in Names \cup {NoName}
    /\ clickedOnView \in BOOLEAN

\* In the tree every view is under its own constraint: no deletion takes a parent
\* out and leaves a child, which flatToNested would hang under the constraint
\* before it (or, with none before it, throw).
TreeNesting ==
    \A i \in DOMAIN flat :
        ~IsConstraint(flat[i]) =>
            /\ \E j \in 1 .. i - 1 : IsConstraint(flat[j])
            /\ flat[ParentIndex(i)] = C(parentOf[flat[i][2]])

\* Everything in the grid, which is what the solver is sent, has one item in the
\* tree; otherwise the user could neither see nor delete it.
TreeShowsGrid ==
    /\ {C(c) : c \in constraints} \cup {V(v) : v \in views} \subseteq ToSet(flat)
    /\ \A i, j \in DOMAIN flat : flat[i] = flat[j] => i = j

\* No view stands under another constraint than its own, nothing that is in the grid is
\* missing from the tree, and nothing stands there twice.  What has left the grid may
\* still stand there (GhostsWereStale).
TreeIsGrid == TreeNesting /\ TreeShowsGrid

\* view-tree.component.ts:101: "all child nodes selected -> parent selected;
\* otherwise parent not selected".  It holds after any sequence of toggles,
\* additions and deletions, of every item that has children.
ParentCheckedIffChildren ==
    \A i \in DOMAIN flat :
        Descendants(i) # {} =>
            (flat[i] \in checked <=> Descendants(i) \subseteq checked)

\* The settings with which a view goes to the solver are those of its constraint:
\* the option menu that is on the page is always the one for the active
\* constraint, or adds nothing.
ViewKindMatches ==
    \A v \in views : parentOf[v] \in constraints /\ kindOf[v] = nameOf[parentOf[v]]

\* A deletion takes from the tree what it takes from the grid, with one
\* exception: what was selected when the tree was last rebuilt stays in the tree
\* although its checkbox had become unchecked.
InTree(node) == node \in ToSet(flat)
InGrid(node) == node[2] \in IF IsConstraint(node) THEN constraints ELSE views

GhostsWereStale ==
    [][\A node \in Nodes :
         InGrid(node) /\ InTree(node)' /\ ~InGrid(node)' =>
            node \in stale \/ (~IsConstraint(node) /\ C(parentOf[node[2]]) \in stale)]_vars

\* A view that was just added can be seen, because its constraint is the one that is
\* expanded.  The exception: an item of the same name stands before it in the tree,
\* and that is always one whose constraint is gone from the grid, since
\* onAddConstraint refuses a second constraint of the same name.
AddedViewIsSeen ==
    [][\A v \in views' \ views :
         \/ C(parentOf'[v]) \in expanded'
         \/ \E c \in ConstraintIds \ constraints : /\ C(c) \in expanded'
                                                  /\ nameOf[c] = nameOf[parentOf'[v]]]_vars

\* The tree drives the views as GroupEditor assumes.
Events == INSTANCE ViewEvents WITH shown <- clickedOnView
ImplementsViewEvents == Events!Spec
=============================================================================
