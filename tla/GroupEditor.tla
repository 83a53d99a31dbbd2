----------------------------- MODULE GroupEditor -----------------------------
(***************************************************************************)
(* Editing the cell groups of a view in the browser: the main              *)
(* ConstraintGridComponent, GroupListComponent, GridToolsComponent, the    *)
(* part of MenuComponent that shows and hides them, and the                *)
(* SharedGridService queries and handlers that tie them together.          *)
(*                                                                         *)
(* One action is one browser event with everything it triggers: emit() is  *)
(* synchronous, so all handlers of all events have run, and Angular has     *)
(* updated the page, before the next browser event is taken.  The one       *)
(* exception is Tile, whose loop is unrolled: a step per popped tile, and   *)
(* no other action while the loop runs.                                     *)
(*                                                                         *)
(* The tree of constraints is left to ViewTree.tla.  Here a view is an id,  *)
(* and an id that is not in `views` stands for a tree item whose view is no *)
(* longer in the grid.  An object that the grid has dropped (a deleted      *)
(* group or view) is unreachable in the code; its entries are reset.        *)
(***************************************************************************)
EXTENDS Tiling, SequencesExt

CONSTANTS MaxViews,   \* bound on the views ever created
          MaxGroups   \* bound on the groups ever created

ASSUME MaxViewsAssumption == MaxViews \in Nat
ASSUME MaxGroupsAssumption == MaxGroups \in Nat

\* Ids are counted from 1 by the factories of SharedGridService, so 0 is free
\* to stand for undefined.
Nil == 0
NoCell == -1
ViewIds == 1 .. MaxViews
GroupIds == 1 .. MaxGroups
NoGroupAnywhere == [c \in Cells |-> Nil]

VARIABLES
    \* SharedGridService
    lastView, lastGroup,        \* the id counters of the factories
    activeViewId,               \* ACTIVE_VIEW_ID
    activeGroupId,              \* ACTIVE_GROUP_ID
    erasing,                    \* EREASER_SELECTED
    \* ConstraintGridComponent: the model ...
    views,                      \* the views in the grid
    groupsOf,                   \* view.groups
    indexToGroup,               \* view.indexToGroup
    indices,                    \* group.indices
    \* ... and what the cells of the page look like
    painted,                    \* the group whose style a cell has
    highlighted,                \* the cells with class "group-selected"
    selectedCell,               \* the cell with class "selected", also kept by
                                \* ValueOptionsMenuComponent.selectedCellIndex
    queue,                      \* the queue of tile(), empty when it is not running
    \* MenuComponent
    clickedOnView,
    \* GroupListComponent: empty and 0 while it is not on the page
    list,                       \* its own array of the groups of the active view
    clickedRow,                 \* clickedRowIdx, counted from 1; 0 is undefined
    \* GridToolsComponent: FALSE while it is not on the page
    toolErasing                 \* ereaser, the colour of the button

serviceVars == <<lastView, lastGroup, activeViewId, activeGroupId, erasing>>
modelVars == <<views, groupsOf, indexToGroup, indices>>
pageVars == <<painted, highlighted, selectedCell>>
listVars == <<list, clickedRow>>
vars == <<serviceVars, modelVars, pageVars, queue, clickedOnView, listVars,
          toolErasing>>

-----------------------------------------------------------------------------
\* The queries of SharedGridService.

ActiveView == IF activeViewId \in views THEN activeViewId ELSE Nil

ActiveGroup ==
    IF ActiveView # Nil /\ activeGroupId \in groupsOf[ActiveView]
    THEN activeGroupId ELSE Nil

Taken(v) == {c \in Cells : indexToGroup[v][c] # Nil}

\* GroupListComponent.groups is always in ascending order of the ids: loadData
\* gets it from Object.values, which lists integer keys in that order, and splice
\* only takes elements out.  So its set of ids is the whole of it, and the row of a
\* group is its rank.
Row(g) == Cardinality({h \in list : h <= g})

\* The GroupMetadata that the factory of SharedGridService makes next.
NewGroup == lastGroup + 1

idle == queue = << >>

-----------------------------------------------------------------------------
Init ==
    /\ lastView = 0 /\ lastGroup = 0
    /\ activeViewId = Nil /\ activeGroupId = Nil
    /\ erasing = FALSE
    /\ views = {}
    /\ groupsOf = [v \in ViewIds |-> {}]
    /\ indexToGroup = [v \in ViewIds |-> NoGroupAnywhere]
    /\ indices = [g \in GroupIds |-> {}]
    /\ painted = NoGroupAnywhere
    /\ highlighted = {}
    /\ selectedCell = NoCell
    /\ queue = << >>
    /\ clickedOnView = FALSE
    /\ list = {} /\ clickedRow = 0
    /\ toolErasing = FALSE

\* resetStyle, of all cells in clearAllCells: the cells of C are without a style
\* and the class.
ResetStyle(C) ==
    /\ painted' = [c \in Cells |-> IF c \in C THEN Nil ELSE painted[c]]
    /\ highlighted' = highlighted \ C

\* drawAllCells, if view v is active: its cells on a page that looked like base.
DrawAllCells(base, v) ==
    painted' = [c \in Cells |-> IF v # Nil /\ indexToGroup'[v][c] # Nil
                                THEN indexToGroup'[v][c] ELSE base[c]]

Redraw_noClear(v) == DrawAllCells(painted, v) /\ highlighted' = {}

\* clearAllCells and drawAllCells.
Redraw(v) == DrawAllCells(NoGroupAnywhere, v) /\ highlighted' = {}

\* GroupListComponent.loadData; Angular has the list on the page if view v is
\* active.
LoadData(v) == list' = IF v = Nil THEN {} ELSE groupsOf'[v]

\* What MenuComponent decides on VIEW_CHANGE, and with shouldShowTools on every
\* change: GridToolsComponent starts with an unlit button each time.
ShowList(v) == clickedOnView' = (v # Nil)
ShowTools(v) == toolErasing' = (toolErasing /\ v # Nil)

\* VIEW_CHANGE, seen by SharedGridService (clear the board and draw the active
\* view on it, if there is one), by MenuComponent (show the list and the tools
\* or not) and by the GroupListComponent that is on the page (nothing is
\* active, load the groups); then Angular mounts or destroys the list and the
\* tools.  The new activeViewId and the new model are already in place.
ViewChanged ==
    LET av == ActiveView' IN
    /\ Redraw(av)
    /\ clickedRow' = 0
    /\ ShowList(av) /\ LoadData(av) /\ ShowTools(av)

OnAddView_activates ==
    /\ idle
    /\ lastView < MaxViews
    /\ lastView' = lastView + 1
    /\ views' = views \cup {lastView'}
    /\ activeViewId' = lastView'
    /\ UNCHANGED <<lastGroup, activeGroupId, erasing, groupsOf, indexToGroup,
                   indices, pageVars, queue, clickedOnView, listVars, toolErasing>>

\* The option menus' onAddView: a new view, which does not become active.
OnAddView ==
    /\ idle
    /\ lastView < MaxViews
    /\ lastView' = lastView + 1
    /\ views' = views \cup {lastView'}
    /\ UNCHANGED <<lastGroup, activeViewId, activeGroupId, erasing, groupsOf,
                   indexToGroup, indices, pageVars, queue, clickedOnView,
                   listVars, toolErasing>>

\* ViewTreeComponent.onClickItem on the item of a view, or of a constraint
\* (v = Nil).
OnClickItem(v) ==
    /\ idle
    /\ activeViewId' = v
    /\ activeGroupId' = Nil
    /\ UNCHANGED modelVars
    /\ ViewChanged
    /\ UNCHANGED <<lastView, lastGroup, erasing, selectedCell, queue>>

\* ViewTreeComponent.onDeleteSelected, which takes the views in S out of the
\* grid.  ACTIVE_VIEW_ID is reset when the active view itself was marked, and
\* keeps its value when only its constraint was.  ACTIVE_GROUP_ID is reset by
\* the GroupListComponent, if it is on the page.
OnDeleteSelected(S) ==
    /\ idle
    /\ views' = views \ S
    /\ groupsOf' = [v \in ViewIds |-> IF v \in S THEN {} ELSE groupsOf[v]]
    /\ indexToGroup' = [v \in ViewIds |->
                          IF v \in S THEN NoGroupAnywhere ELSE indexToGroup[v]]
    /\ indices' = [g \in GroupIds |->
                     IF \E v \in S : g \in groupsOf[v] THEN {} ELSE indices[g]]
    /\ activeViewId' \in IF activeViewId \in S THEN {Nil, activeViewId}
                         ELSE {activeViewId}
    /\ activeGroupId' = IF clickedOnView THEN Nil ELSE activeGroupId
    /\ ViewChanged
    /\ UNCHANGED <<lastView, lastGroup, erasing, selectedCell, queue>>

-----------------------------------------------------------------------------
ReloadList_missing == UNCHANGED list

\* The GroupListComponent that is on the page reloads on ADD_GROUP.
ReloadList == list' = IF clickedOnView THEN groupsOf'[ActiveView] ELSE list

\* ConstraintGridComponent.addGroup of a new group with these cells, followed by
\* the ADD_GROUP event.
AddGroup(v, cells) ==
    /\ lastGroup' = NewGroup
    /\ groupsOf' = [groupsOf EXCEPT ![v] = @ \cup {NewGroup}]
    /\ indices' = [indices EXCEPT ![NewGroup] = cells]
    /\ indexToGroup' = [indexToGroup EXCEPT
                          ![v] = [c \in Cells |-> IF c \in cells THEN NewGroup ELSE @[c]]]
    /\ DrawAllCells(painted, v)
    /\ ReloadList

\* GridToolsComponent.onAddGroup.
OnAddGroup ==
    /\ idle
    /\ ActiveView # Nil
    /\ lastGroup < MaxGroups
    /\ AddGroup(ActiveView, {})
    /\ UNCHANGED <<lastView, activeViewId, activeGroupId, erasing, views,
                   highlighted, selectedCell, queue, clickedOnView, clickedRow,
                   toolErasing>>

\* resetActiveGroup; its GROUP_CHANGE is left to the callers.
ResetActiveGroup ==
    /\ clickedRow' = 0
    /\ activeGroupId' = Nil

\* GROUP_CHANGE: the class group-selected moves from the cells of one group to those
\* of another.
GroupChange(old, new) ==
    highlighted' = (highlighted \ old) \cup new

\* The cells of group g, if there is one.
CellsOf(g) == IF g = Nil THEN {} ELSE indices[g]

\* GroupListComponent.onClickedRow: the same row again deselects; another row
\* activates its group, and GROUP_CHANGE moves the class.
OnClickedRow(g) ==
    /\ idle
    /\ UNCHANGED <<lastView, lastGroup, activeViewId, erasing, modelVars,
                   painted, selectedCell, queue, clickedOnView, list,
                   toolErasing>>
    /\ IF Row(g) = clickedRow
       THEN ResetActiveGroup /\ GroupChange(CellsOf(ActiveGroup), {})
       ELSE /\ clickedRow' = Row(g)
            /\ activeGroupId' = g
            /\ GroupChange(CellsOf(ActiveGroup), CellsOf(ActiveGroup'))

\* ConstraintGridComponent.deleteGroup for every group in G.
DeleteGroups(v, G) ==
    /\ groupsOf' = [groupsOf EXCEPT ![v] = @ \ G]
    /\ indices' = [g \in GroupIds |-> IF g \in G THEN {} ELSE indices[g]]
    /\ indexToGroup' =
         [indexToGroup EXCEPT
            ![v] = [c \in Cells |-> IF \E g \in G : c \in indices[g]
                                    THEN Nil ELSE @[c]]]

\* onDeleteGroupClick, for one row or, as DELETE_EMPTY_GROUPS does, for several:
\* the active group is deselected if it goes, but clickedRowIdx is not adjusted
\* when an earlier row goes.  AFTER_DELETE_GROUP clears and redraws the board.
DeleteRows(v, G) ==
    /\ IF ActiveGroup \in G THEN ResetActiveGroup
       ELSE UNCHANGED <<clickedRow, activeGroupId>>
    /\ list' = list \ G
    /\ DeleteGroups(v, G)
    /\ Redraw(v)
    /\ UNCHANGED <<lastView, lastGroup, activeViewId, erasing, views,
                   selectedCell, queue, clickedOnView, toolErasing>>

OnDeleteGroupClick(g) ==
    /\ idle
    /\ ActiveView # Nil
    /\ DeleteRows(ActiveView, {g})

\* GridToolsComponent.onDeleteEmptyGroups.  The handler of the GroupListComponent
\* restarts its scan after every deletion until no empty group is left.
OnDeleteEmptyGroups ==
    LET empty == {g \in list : indices[g] = {}} IN
    /\ idle
    /\ ActiveView # Nil
    /\ empty # {}
    /\ DeleteRows(ActiveView, empty)

-----------------------------------------------------------------------------
\* removeFromActiveGroup: whatever group the cell is in, it leaves it.
RemoveFromActiveGroup(c) ==
    LET v   == ActiveView
        old == IF v = Nil THEN Nil ELSE indexToGroup[v][c]
    IN  IF old = Nil THEN UNCHANGED <<indices, indexToGroup>>
        ELSE /\ indices' = [indices EXCEPT ![old] = @ \ {c}]
             /\ indexToGroup' = [indexToGroup EXCEPT ![v][c] = Nil]

EreaseCell(c) == ResetStyle({c}) /\ RemoveFromActiveGroup(c)

InsertIntoActiveGroup_keepsOld(C) ==
    LET v == ActiveView
        g == ActiveGroup
    IN  IF g = Nil THEN UNCHANGED <<indices, indexToGroup>>
        ELSE /\ indices' = [indices EXCEPT ![g] = @ \cup C]
             /\ indexToGroup' =
                  [indexToGroup EXCEPT
                     ![v] = [c \in Cells |-> IF c \in C THEN g ELSE @[c]]]

InsertIntoActiveGroup_sharedMap(C) ==
    LET g == ActiveGroup IN
    IF g = Nil THEN UNCHANGED <<indices, indexToGroup>>
    ELSE /\ indices' = [indices EXCEPT ![g] = @ \cup C]
         /\ indexToGroup' = [w \in ViewIds |->
                               [c \in Cells |-> IF c \in C THEN g
                                                ELSE indexToGroup[w][c]]]

\* insertIntoActiveGroup for all the cells of C: they leave their groups for the
\* active one.
InsertIntoActiveGroup(C) ==
    LET v == ActiveView
        g == ActiveGroup
    IN  IF g = Nil THEN UNCHANGED <<indices, indexToGroup>>
        ELSE /\ indices' = [h \in GroupIds |->
                              IF h = g THEN indices[h] \cup C
                              ELSE IF h \in groupsOf[v] THEN indices[h] \ C
                              ELSE indices[h]]
             /\ indexToGroup' =
                  [indexToGroup EXCEPT
                     ![v] = [c \in Cells |-> IF c \in C THEN g ELSE @[c]]]

\* setStyleOfElementToActiveGroup.
SetStyleToActiveGroup(C) ==
    painted' = [c \in Cells |-> IF ActiveGroup # Nil /\ c \in C THEN ActiveGroup
                                ELSE painted[c]]

InsertCells(C) == InsertIntoActiveGroup(C) /\ SetStyleToActiveGroup(C)

\* CELL_SELECTED goes to the ValueOptionsMenuComponent, which keeps the same index.
SelectCell(c) == selectedCell' = IF selectedCell = c THEN NoCell ELSE c

\* ConstraintGridComponent.uiSelectGridCell, on a mousedown or a drag over c.
UiSelectGridCell(c) ==
    /\ idle
    /\ SelectCell(c)
    /\ \/ erasing /\ EreaseCell(c)
       \/ ~erasing /\ InsertCells({c}) /\ UNCHANGED highlighted
    /\ UNCHANGED <<serviceVars, views, groupsOf, queue, clickedOnView, listVars,
                   toolErasing>>

\* ConstraintGridComponent.fill: every free cell joins the active group.
Fill ==
    /\ idle
    /\ ActiveGroup # Nil
    /\ InsertCells(Cells \ Taken(ActiveView))
    /\ UNCHANGED <<serviceVars, views, groupsOf, highlighted, selectedCell,
                   queue, clickedOnView, listVars, toolErasing>>

SetEreaser_flipsFlag == toolErasing' = ~toolErasing /\ erasing' = ~erasing

\* EREASER_SELECTED becomes what the button shows, which need not be its opposite.
SetEreaser == toolErasing' = ~toolErasing /\ erasing' = toolErasing'

\* GridToolsComponent.onEreaserClick.
OnEreaserClick ==
    /\ idle
    /\ ActiveView # Nil
    /\ SetEreaser
    /\ UNCHANGED <<lastView, lastGroup, activeViewId, activeGroupId, modelVars,
                   pageVars, queue, clickedOnView, listVars>>

\* ConstraintGridComponent.tile up to its loop.  The bound: enough ids are left
\* for as many tiles as there are free cells.
Tile ==
    LET v == ActiveView IN
    /\ idle
    /\ ActiveGroup # Nil
    /\ lastGroup + Cardinality(Cells \ Taken(v)) <= MaxGroups
    /\ queue' = PushSpots(<< >>, indices[ActiveGroup], Taken(v))
    /\ UNCHANGED <<serviceVars, modelVars, pageVars, clickedOnView, listVars,
                   toolErasing>>

TileNext_overlaps ==
    \E i \in NextSpots(queue) :
    /\ lastGroup < MaxGroups
    /\ AddGroup(ActiveView, queue[i])
    /\ queue' = RemoveAt(queue, i)
    /\ UNCHANGED <<lastView, activeViewId, activeGroupId, erasing, views,
                   highlighted, selectedCell, clickedOnView, clickedRow,
                   toolErasing>>

TileNext_skipsPop ==
    \E i \in NextSpots(queue) :
    /\ ~TileIntersects(Taken(ActiveView), queue[i])
    /\ AddGroup(ActiveView, queue[i])
    /\ queue' = PushSpots(RemoveAt(queue, i), queue[i], Taken(ActiveView) \cup queue[i])
    /\ UNCHANGED <<lastView, activeViewId, activeGroupId, erasing, views,
                   highlighted, selectedCell, clickedOnView, clickedRow,
                   toolErasing>>

TileNext_pushesAnyway ==
    \E i \in NextSpots(queue) :
    LET v    == ActiveView
        next == queue[i]
    IN
    /\ IF TileIntersects(Taken(v), next)
       THEN UNCHANGED <<lastGroup, groupsOf, indices, indexToGroup, painted, list>>
       ELSE AddGroup(v, next)
    /\ queue' = PushSpots(RemoveAt(queue, i), next, Taken(v) \cup next)
    /\ UNCHANGED <<lastView, activeViewId, activeGroupId, erasing, views,
                   highlighted, selectedCell, clickedOnView, clickedRow,
                   toolErasing>>

\* One turn of the loop: pop a largest spot; skip it if a tile laid since then
\* is in the way, or lay it as a new group and push its own spots.
TileNext ==
    \E i \in NextSpots(queue) :
    LET v    == ActiveView
        next == queue[i]
        rest == RemoveAt(queue, i)
    IN
    /\ IF TileIntersects(Taken(v), next)
       THEN /\ queue' = rest
            /\ UNCHANGED <<lastGroup, groupsOf, indices, indexToGroup, painted,
                           list>>
       ELSE /\ AddGroup(v, next)
            /\ queue' = PushSpots(rest, next, Taken(v) \cup next)
    /\ UNCHANGED <<lastView, activeViewId, activeGroupId, erasing, views,
                   highlighted, selectedCell, clickedOnView, clickedRow,
                   toolErasing>>

-----------------------------------------------------------------------------
Next ==
    \/ OnAddView
    \/ \E v \in 0 .. lastView : OnClickItem(v)
    \/ \E S \in SUBSET views : OnDeleteSelected(S)
    \/ OnAddGroup
    \/ \E g \in list : OnClickedRow(g)
    \/ \E g \in list : OnDeleteGroupClick(g)
    \/ OnDeleteEmptyGroups
    \/ \E c \in Cells : UiSelectGridCell(c)
    \/ Fill
    \/ OnEreaserClick
    \/ Tile
    \/ TileNext

\* The loop of tile() runs to its end inside one browser event.
Spec == Init /\ [][Next]_vars /\ WF_vars(TileNext)

-----------------------------------------------------------------------------
(* Properties *)

TypeOK ==
    /\ lastView \in 0 .. MaxViews /\ lastGroup \in 0 .. MaxGroups
    /\ activeViewId \in ViewIds \cup {Nil}
    /\ activeGroupId \in GroupIds \cup {Nil}
    /\ erasing \in BOOLEAN /\ toolErasing \in BOOLEAN /\ clickedOnView \in BOOLEAN
    /\ views \in SUBSET ViewIds
    /\ groupsOf \in [ViewIds -> SUBSET GroupIds]
    /\ indexToGroup \in [ViewIds -> [Cells -> GroupIds \cup {Nil}]]
    /\ indices \in [GroupIds -> SUBSET Cells]
    /\ painted \in [Cells -> GroupIds \cup {Nil}]
    /\ highlighted \in SUBSET Cells
    /\ selectedCell \in Cells \cup {NoCell}
    /\ queue \in Seq((SUBSET Cells) \ {{}})
    /\ list \in SUBSET GroupIds
    /\ clickedRow \in 0 .. MaxGroups

\* What the code relies on without saying so: ids are new when they are issued,
\* tile() runs in an active view, and the bound leaves an id for every tile.
IdsIssued ==
    /\ views \subseteq 1 .. lastView
    /\ activeViewId <= lastView
    /\ \A v \in ViewIds : \A g \in groupsOf[v] : g <= lastGroup

TilingInView ==
    ~idle => /\ ActiveView # Nil
             /\ lastGroup + Cardinality(Cells \ Taken(ActiveView)) <= MaxGroups

\* The two representations of a view agree: a group's own set of cells
\* (group.indices, which is sent to the solver) and the map from cells to groups
\* (view.indexToGroup, which is drawn and edited).  So no cell is ever in two
\* groups of a view, and no group belongs to two views.  Insertion, erasing,
\* filling, tiling and deletion each update the two in separate statements.
CellsPartitioned ==
    /\ \A v \in ViewIds : \A g \in groupsOf[v] :
          indices[g] = {c \in Cells : indexToGroup[v][c] = g}
    /\ \A v \in ViewIds : \A c \in Cells :
          indexToGroup[v][c] \in groupsOf[v] \cup {Nil}
    /\ \A v, w \in ViewIds : v # w => groupsOf[v] \cap groupsOf[w] = {}

\* What the page shows is what the model says: every cell has the style of its
\* group in the active view, and none when no view is active, although painting
\* and the model are updated by different components.
PaintMatchesModel ==
    painted = IF ActiveView = Nil THEN NoGroupAnywhere ELSE indexToGroup[ActiveView]

\* The GroupListComponent's private array is the groups of the active view: a
\* click on a row always finds a group that exists (an id that view.groups does
\* not have makes onDeleteGroupClick throw), and no group lacks a row.
ListMatchesView ==
    list = IF ActiveView = Nil THEN {} ELSE groupsOf[ActiveView]

\* The list and the tools are on the page exactly while there is an active view:
\* without it, DELETE_EMPTY_GROUPS would find an empty group, not delete it
\* (onDeleteGroupClick returns early) and scan again for ever.
ListFollowsView == clickedOnView <=> ActiveView # Nil

\* ACTIVE_GROUP_ID never dangles: it is undefined or a group of the active view.
\* Views and groups are deleted by components that do not set it.
ActiveGroupLives == activeGroupId = ActiveGroup

\* A highlighted cell belongs to the active group, after any sequence of
\* selecting, moving cells, erasing and deleting.
NoStaleHighlight ==
    highlighted \subseteq IF ActiveGroup = Nil THEN {} ELSE indices[ActiveGroup]

\* The list on the page is the list of the active view, and the group it has made
\* active is in it: three components keep that up, on five different events.
ListShowsView == ListFollowsView /\ ListMatchesView /\ ActiveGroupLives

\* The page shows the model: no other colours, no left over highlights.
PageShowsModel == PaintMatchesModel /\ NoStaleHighlight

\* A row is marked exactly while a group is active; deleting an earlier row can
\* leave the mark behind the active group (clickedRowIdx is not adjusted) but
\* never before it.
RowFollowsActive ==
    /\ clickedRow = 0 <=> activeGroupId = Nil
    /\ clickedRow # 0 => activeGroupId \in list /\ Row(activeGroupId) <= clickedRow

\* The eraser button is never lit while clicks insert.
LitEraserErases == toolErasing => erasing

\* What the list and the tools say: a row is marked exactly when a group is active, at or
\* below that group's row, and a lit eraser erases, although both controls are created
\* anew, and group rows are removed, while ACTIVE_GROUP_ID and EREASER_SELECTED keep
\* their values.
ControlsTellTruth == RowFollowsActive /\ LitEraserErases

\* The inductive invariant of GroupEditor_proofs.  No part of it is inductive alone:
\* a deletion keeps CellsPartitioned only if the list names groups of the active
\* view, which holds only if the list is on the page when there is one.
IndInv ==
    /\ TypeOK
    /\ IdsIssued
    /\ TilingInView
    /\ CellsPartitioned
    /\ ListFollowsView
    /\ ListMatchesView
    /\ ActiveGroupLives
    /\ PaintMatchesModel
    /\ NoStaleHighlight
    /\ LitEraserErases

\* Tiling only adds: a step of tile() moves no cell that is in a group, and the
\* groups that exist keep their cells.
TileKeepsCells ==
    [][TileNext =>
         \A v \in ViewIds :
            /\ groupsOf[v] \subseteq groupsOf'[v]
            /\ \A g \in groupsOf[v] : indices'[g] = indices[g]
            /\ \A c \in Taken(v) : indexToGroup'[v][c] = indexToGroup[v][c]]_vars

\* A step changes the groups of the view that was active, or it deletes the view:
\* the other views of the grid keep theirs whatever is edited.
OtherViewsUntouched ==
    [][\A v \in views \cap views' :
         v # ActiveView =>
            /\ groupsOf'[v] = groupsOf[v]
            /\ indexToGroup'[v] = indexToGroup[v]
            /\ \A g \in groupsOf[v] : indices'[g] = indices[g]]_vars

\* Nothing here touches the views, ACTIVE_VIEW_ID or the visibility of the list but
\* what ViewEvents allows, which is also what ViewTree does to them.
Events == INSTANCE ViewEvents WITH shown <- clickedOnView
ImplementsViewEvents == Events!Spec

\* What is left of a run of tile(): a free cell can become a tile, which has four
\* neighbours, and every spot in the queue is a turn.
Work == 4 * Cardinality(Cells \ Taken(ActiveView)) + Len(queue)

\* Every turn of the loop brings its end closer, though a turn may pop one spot and
\* push four: a tile always takes a cell from the free ones, and a spot that has been
\* taken in the meantime pushes nothing.  A run is no longer than the Work it
\* starts with.
TileDescends == [][TileNext => Work' < Work]_vars

\* The loop of tile() ends: the browser is not blocked for ever.
TileTerminates == []<>idle
=============================================================================
