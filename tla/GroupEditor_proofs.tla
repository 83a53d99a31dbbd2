------------------------- MODULE GroupEditor_proofs -------------------------
(***************************************************************************)
(* The invariants of GroupEditor hold for every size of the board and      *)
(* every number of views and groups.  IndInv, in GroupEditor, is the       *)
(* inductive one; there is a lemma for each action.  The last part is about *)
(* tile() alone, started from any board (TileRun): what it lays.           *)
(***************************************************************************)
EXTENDS TileRun, SequenceLemmas, FiniteSetTheorems, TLAPS

USE MaxViewsAssumption, MaxGroupsAssumption
USE DEF Nil, ViewIds, GroupIds, idle, NewGroup

-----------------------------------------------------------------------------
\* The active view is one of the grid, or undefined.
LEMMA ActiveViewType ==
    ASSUME TypeOK
    PROVE  /\ ActiveView \in ViewIds \cup {Nil}
           /\ ActiveView # Nil => ActiveView \in views /\ ActiveView = activeViewId
BY DEF TypeOK, ActiveView

\* The active group, if there is one, belongs to the active view.
LEMMA ActiveGroupType ==
    ASSUME TypeOK, ActiveGroup # Nil
    PROVE  /\ ActiveView \in ViewIds
           /\ ActiveGroup \in GroupIds
           /\ ActiveGroup \in groupsOf[ActiveView]
BY ActiveViewType DEF TypeOK, ActiveGroup

LEMMA OnAddViewInd == IndInv /\ OnAddView => IndInv'
<1> SUFFICES ASSUME IndInv, OnAddView PROVE IndInv'
    OBVIOUS
<1>1. ActiveView' = ActiveView
  BY DEF IndInv, TypeOK, IdsIssued, OnAddView, ActiveView
<1>2. ActiveGroup' = ActiveGroup
  BY <1>1 DEF OnAddView, ActiveGroup
<1>3. TypeOK'
  BY DEF IndInv, TypeOK, OnAddView, pageVars, listVars
<1>4. IdsIssued'
  BY DEF IndInv, TypeOK, IdsIssued, OnAddView
<1>5. TilingInView'
  BY DEF TilingInView, OnAddView
<1>6. CellsPartitioned'
  BY DEF IndInv, CellsPartitioned, OnAddView
<1>7. ListFollowsView' /\ ListMatchesView' /\ ActiveGroupLives'
  BY <1>1, <1>2 DEF IndInv, ListFollowsView, ListMatchesView, ActiveGroupLives,
     OnAddView, listVars
<1>8. PaintMatchesModel' /\ NoStaleHighlight'
  BY <1>1, <1>2 DEF IndInv, PaintMatchesModel, NoStaleHighlight, OnAddView, pageVars,
     NoGroupAnywhere
<1>9. LitEraserErases'
  BY DEF IndInv, LitEraserErases, OnAddView
<1> QED
  BY <1>3, <1>4, <1>5, <1>6, <1>7, <1>8, <1>9 DEF IndInv

\* Clearing and drawing the board leaves the colours of view v and no others.
LEMMA RedrawIsView ==
    ASSUME NEW v \in ViewIds \cup {Nil}, Redraw(v),
           indexToGroup' \in [ViewIds -> [Cells -> GroupIds \cup {Nil}]]
    PROVE  painted' = IF v = Nil THEN NoGroupAnywhere ELSE indexToGroup'[v]
<1>1. CASE v = Nil
  BY <1>1 DEF Redraw, DrawAllCells, NoGroupAnywhere
<1>2. CASE v # Nil
  <2>1. indexToGroup'[v] \in [Cells -> GroupIds \cup {Nil}]
    BY <1>2
  <2>2. painted' = [c \in Cells |-> indexToGroup'[v][c]]
    BY <1>2, <2>1 DEF Redraw, DrawAllCells, NoGroupAnywhere
  <2> QED
    BY <1>2, <2>1, <2>2
<1> QED
  BY <1>1, <1>2

\* VIEW_CHANGE leaves the page in agreement with the model, whatever view is
\* active now, provided that no group is.
LEMMA ViewChangedInd ==
    ASSUME IndInv, ViewChanged, TypeOK', queue' = << >>,
           activeGroupId' = Nil, erasing' = erasing
    PROVE  /\ ListFollowsView' /\ ListMatchesView' /\ ActiveGroupLives'
           /\ PaintMatchesModel' /\ NoStaleHighlight' /\ LitEraserErases'
           /\ TilingInView'
<1>1. ActiveGroup' = Nil
  BY DEF TypeOK, ActiveGroup
<1>2. ListFollowsView' /\ ListMatchesView' /\ ActiveGroupLives'
  BY <1>1 DEF ViewChanged, ShowList, LoadData, ListFollowsView, ListMatchesView, ActiveGroupLives
<1>3. PaintMatchesModel' /\ NoStaleHighlight'
  <2>1. ActiveView' \in ViewIds \cup {Nil}
    BY DEF TypeOK, ActiveView
  <2>2. painted' = IF ActiveView' = Nil THEN NoGroupAnywhere
                   ELSE indexToGroup'[ActiveView']
    BY <2>1, RedrawIsView DEF ViewChanged, TypeOK
  <2> QED
    BY <1>1, <2>2 DEF ViewChanged, Redraw, PaintMatchesModel, NoStaleHighlight,
       NoGroupAnywhere
<1>4. LitEraserErases' /\ TilingInView'
  BY DEF IndInv, ViewChanged, ShowTools, LitEraserErases, TilingInView
<1> QED
  BY <1>2, <1>3, <1>4

LEMMA OnClickItemInd ==
    ASSUME NEW v \in 0 .. lastView, IndInv, OnClickItem(v)
    PROVE  IndInv'
<1>1. ActiveView' \in ViewIds \cup {Nil}
  BY DEF IndInv, TypeOK, OnClickItem, ActiveView, modelVars
<1>2. TypeOK'
  <2>1. painted' \in [Cells -> GroupIds \cup {Nil}]
    BY <1>1 DEF IndInv, TypeOK, OnClickItem, ViewChanged, Redraw, DrawAllCells, modelVars, NoGroupAnywhere
  <2>2. list' \in SUBSET GroupIds
    BY <1>1 DEF IndInv, TypeOK, OnClickItem, ViewChanged, LoadData, modelVars
  <2>3. activeViewId' \in ViewIds \cup {Nil}
    BY DEF IndInv, TypeOK, OnClickItem
  <2> QED
    BY <2>1, <2>2, <2>3 DEF IndInv, TypeOK, OnClickItem, ViewChanged, Redraw, DrawAllCells,
       ShowList, ShowTools, modelVars
<1>3. IdsIssued'
  BY DEF IndInv, TypeOK, IdsIssued, OnClickItem, modelVars
<1>4. CellsPartitioned'
  BY DEF IndInv, CellsPartitioned, OnClickItem, modelVars
<1> QED
  BY <1>2, <1>3, <1>4, ViewChangedInd DEF IndInv, OnClickItem

LEMMA OnDeleteSelectedInd ==
    ASSUME NEW S \in SUBSET views, IndInv, OnDeleteSelected(S)
    PROVE  IndInv'
<1>1. ActiveView' \in ViewIds \cup {Nil}
  BY DEF IndInv, TypeOK, OnDeleteSelected, ActiveView
<1>2. TypeOK'
  <2>1. /\ groupsOf' \in [ViewIds -> SUBSET GroupIds]
        /\ indexToGroup' \in [ViewIds -> [Cells -> GroupIds \cup {Nil}]]
        /\ indices' \in [GroupIds -> SUBSET Cells]
    BY DEF IndInv, TypeOK, OnDeleteSelected, NoGroupAnywhere
  <2>2. painted' \in [Cells -> GroupIds \cup {Nil}]
    BY <1>1, <2>1 DEF OnDeleteSelected, ViewChanged, Redraw, DrawAllCells, NoGroupAnywhere
  <2>3. list' \in SUBSET GroupIds
    BY <1>1, <2>1 DEF OnDeleteSelected, ViewChanged, LoadData
  <2>4. activeViewId' \in ViewIds \cup {Nil} /\ activeGroupId' \in GroupIds \cup {Nil}
    BY DEF IndInv, TypeOK, OnDeleteSelected
  <2>5. views' \in SUBSET ViewIds
    BY DEF IndInv, TypeOK, OnDeleteSelected
  <2>6. /\ clickedOnView' \in BOOLEAN /\ toolErasing' \in BOOLEAN
        /\ highlighted' \in SUBSET Cells /\ clickedRow' \in 0 .. MaxGroups
    BY DEF IndInv, TypeOK, OnDeleteSelected, ViewChanged, Redraw, DrawAllCells, ShowList, ShowTools
  <2>7. UNCHANGED <<lastView, lastGroup, erasing, selectedCell, queue>>
    BY DEF OnDeleteSelected
  <2> QED
    BY <2>1, <2>2, <2>3, <2>4, <2>5, <2>6, <2>7 DEF IndInv, TypeOK
<1>3. IdsIssued'
  BY DEF IndInv, TypeOK, IdsIssued, OnDeleteSelected
<1>4. CellsPartitioned'
  <2>1. ASSUME NEW w \in ViewIds, NEW g \in groupsOf'[w]
        PROVE  indices'[g] = {c \in Cells : indexToGroup'[w][c] = g}
    <3>1. w \notin S /\ g \in groupsOf[w] /\ g \in GroupIds
      BY DEF IndInv, TypeOK, OnDeleteSelected
    <3>2. ~\E u \in S : g \in groupsOf[u]
      BY <3>1 DEF IndInv, TypeOK, CellsPartitioned
    <3> QED
      BY <3>1, <3>2 DEF IndInv, CellsPartitioned, OnDeleteSelected
  <2>2. ASSUME NEW w \in ViewIds, NEW c \in Cells
        PROVE  indexToGroup'[w][c] \in groupsOf'[w] \cup {Nil}
    BY DEF IndInv, CellsPartitioned, OnDeleteSelected, NoGroupAnywhere
  <2>3. ASSUME NEW w \in ViewIds, NEW u \in ViewIds, w # u
        PROVE  groupsOf'[w] \cap groupsOf'[u] = {}
    BY <2>3 DEF IndInv, CellsPartitioned, OnDeleteSelected
  <2> QED
    BY <2>1, <2>2, <2>3 DEF CellsPartitioned
<1>5. activeGroupId' = Nil
  BY DEF IndInv, ListFollowsView, ActiveGroupLives, ActiveGroup, OnDeleteSelected
<1> QED
  BY <1>2, <1>3, <1>4, <1>5, ViewChangedInd DEF IndInv, OnDeleteSelected

-----------------------------------------------------------------------------
\* addGroup of a set of free cells (none, for the "Add group" button): the new id
\* is not in use, so the views stay partitioned and the other groups keep their
\* cells.
LEMMA AddGroupInd ==
    ASSUME IndInv, ActiveView # Nil, lastGroup < MaxGroups,
           NEW cells \in SUBSET Cells, cells \cap Taken(ActiveView) = {},
           AddGroup(ActiveView, cells),
           UNCHANGED <<lastView, activeViewId, activeGroupId, erasing, views,
                       highlighted, selectedCell, clickedOnView, clickedRow,
                       toolErasing>>,
           queue' \in Seq((SUBSET Cells) \ {{}}), TilingInView'
    PROVE  IndInv'
<1> DEFINE v == ActiveView
           g == lastGroup + 1
<1>1. v \in ViewIds /\ v \in views /\ v = activeViewId /\ v' = v
  BY ActiveViewType DEF IndInv, ActiveView
<1>2. g \in GroupIds /\ \A w \in ViewIds : g \notin groupsOf[w]
  BY DEF IndInv, TypeOK, IdsIssued
<1>3. \A c \in cells : indexToGroup[v][c] = Nil
  BY DEF Taken
<1>4. TypeOK'
  <2>1. lastGroup' \in 0 .. MaxGroups
    BY DEF IndInv, TypeOK, AddGroup
  <2>2. groupsOf' \in [ViewIds -> SUBSET GroupIds]
    BY <1>1, <1>2 DEF IndInv, TypeOK, AddGroup
  <2>3. indices' \in [GroupIds -> SUBSET Cells]
    BY <1>2 DEF IndInv, TypeOK, AddGroup
  <2>4. indexToGroup' \in [ViewIds -> [Cells -> GroupIds \cup {Nil}]]
    BY <1>1, <1>2 DEF IndInv, TypeOK, AddGroup
  <2>5. painted' \in [Cells -> GroupIds \cup {Nil}]
    BY <1>1, <2>4 DEF IndInv, TypeOK, AddGroup, DrawAllCells
  <2>6. list' \in SUBSET GroupIds
    BY <1>1, <2>2 DEF IndInv, TypeOK, AddGroup, ReloadList
  <2> QED
    BY <2>1, <2>2, <2>3, <2>4, <2>5, <2>6 DEF IndInv, TypeOK
<1>5. IdsIssued'
  BY <1>1, <1>2 DEF IndInv, TypeOK, IdsIssued, AddGroup
<1>6. CellsPartitioned'
  <2>1. ASSUME NEW w \in ViewIds, NEW h \in groupsOf'[w]
        PROVE  indices'[h] = {c \in Cells : indexToGroup'[w][c] = h}
    <3>1. CASE h = g
      <4>1. w = v
        BY <1>1, <1>2, <3>1 DEF IndInv, TypeOK, AddGroup
      <4>2. \A c \in Cells : indexToGroup[v][c] # g
        BY <1>1, <1>2 DEF IndInv, CellsPartitioned
      <4> QED
        BY <1>1, <1>2, <3>1, <4>1, <4>2 DEF IndInv, TypeOK, AddGroup
    <3>2. CASE h # g
      <4>1. h \in groupsOf[w] /\ h \in GroupIds
        BY <1>1, <3>2 DEF IndInv, TypeOK, AddGroup
      <4>2. indices'[h] = {c \in Cells : indexToGroup[w][c] = h}
        BY <3>2, <4>1 DEF IndInv, TypeOK, CellsPartitioned, AddGroup
      <4>3. \A c \in Cells : indexToGroup'[w][c] = h <=> indexToGroup[w][c] = h
        BY <1>1, <1>3, <3>2, <4>1 DEF IndInv, TypeOK, AddGroup
      <4> QED
        BY <4>2, <4>3
    <3> QED
      BY <3>1, <3>2
  <2>2. ASSUME NEW w \in ViewIds, NEW c \in Cells
        PROVE  indexToGroup'[w][c] \in groupsOf'[w] \cup {Nil}
    BY <1>1 DEF IndInv, TypeOK, CellsPartitioned, AddGroup
  <2>3. ASSUME NEW w \in ViewIds, NEW u \in ViewIds, w # u
        PROVE  groupsOf'[w] \cap groupsOf'[u] = {}
    BY <1>1, <1>2, <2>3 DEF IndInv, TypeOK, CellsPartitioned, AddGroup
  <2> QED
    BY <2>1, <2>2, <2>3 DEF CellsPartitioned
<1>7. ListFollowsView' /\ ListMatchesView'
  BY <1>1 DEF IndInv, ListFollowsView, ListMatchesView, AddGroup,
     ReloadList
<1>8. ActiveGroup' = ActiveGroup /\ ActiveGroupLives'
  BY <1>1, <1>2 DEF IndInv, TypeOK, ActiveGroupLives, ActiveGroup, AddGroup
<1>9. PaintMatchesModel'
  BY <1>1 DEF IndInv, TypeOK, PaintMatchesModel, AddGroup, DrawAllCells
<1>10. NoStaleHighlight'
  <2>1. ActiveGroup # Nil => indices'[ActiveGroup] = indices[ActiveGroup]
    BY <1>1, <1>2, ActiveGroupType DEF IndInv, TypeOK, AddGroup
  <2> QED
    BY <1>8, <2>1 DEF IndInv, NoStaleHighlight
<1>11. LitEraserErases'
  BY DEF IndInv, LitEraserErases
<1> QED
  BY <1>4, <1>5, <1>6, <1>7, <1>8, <1>9, <1>10, <1>11 DEF IndInv

LEMMA OnAddGroupInd == IndInv /\ OnAddGroup => IndInv'
<1> SUFFICES ASSUME IndInv, OnAddGroup PROVE IndInv'
    OBVIOUS
<1>1. queue' \in Seq((SUBSET Cells) \ {{}}) /\ TilingInView'
  BY DEF IndInv, TypeOK, TilingInView, OnAddGroup
<1> QED
  BY <1>1, AddGroupInd DEF OnAddGroup

LEMMA OnClickedRowInd ==
    ASSUME NEW g \in list, IndInv, OnClickedRow(g)
    PROVE  IndInv'
<1>1. ActiveView' = ActiveView
  BY DEF OnClickedRow, ActiveView, modelVars
<1>2. ActiveView # Nil /\ g \in groupsOf[ActiveView] /\ g \in GroupIds
  BY ActiveViewType DEF IndInv, TypeOK, ListMatchesView
<1>3. Row(g) \in 0 .. MaxGroups
  <2>1. IsFiniteSet(GroupIds) /\ Cardinality(GroupIds) = MaxGroups
    BY FS_Interval, 1 \in Int, MaxGroups \in Int
  <2>2. {h \in list : h <= g} \in SUBSET GroupIds
    BY DEF IndInv, TypeOK
  <2>3. /\ IsFiniteSet({h \in list : h <= g})
        /\ Cardinality({h \in list : h <= g}) <= MaxGroups
    BY <2>1, <2>2, FS_Subset
  <2> QED
    BY <2>3, FS_CardinalityType DEF Row
<1>4. ActiveGroup' = activeGroupId' /\ activeGroupId' \in {g, Nil}
  BY <1>1, <1>2 DEF IndInv, TypeOK, OnClickedRow, ResetActiveGroup, ActiveGroup,
     modelVars
<1>5. NoStaleHighlight' /\ highlighted' \in SUBSET Cells
  <2>1. highlighted \subseteq IF ActiveGroup = Nil THEN {} ELSE indices[ActiveGroup]
    BY DEF IndInv, NoStaleHighlight
  <2>2. indices' = indices /\ indices[g] \in SUBSET Cells
    BY <1>2 DEF IndInv, TypeOK, OnClickedRow, modelVars
  <2>3. highlighted' = {} \/ (ActiveGroup' # Nil /\ highlighted' = indices[ActiveGroup'])
        \/ (ActiveGroup' = Nil /\ highlighted' = {})
    BY <2>1 DEF OnClickedRow, GroupChange, CellsOf
  <2> QED
    BY <1>4, <2>2, <2>3 DEF NoStaleHighlight
<1>6. TypeOK'
  BY <1>2, <1>3, <1>4, <1>5
     DEF IndInv, TypeOK, OnClickedRow, ResetActiveGroup, modelVars
<1>7. IdsIssued' /\ CellsPartitioned' /\ LitEraserErases' /\ TilingInView'
  BY DEF IndInv, IdsIssued, CellsPartitioned, LitEraserErases, TilingInView,
     OnClickedRow, modelVars
<1>8. ListFollowsView' /\ ListMatchesView' /\ PaintMatchesModel'
  BY <1>1 DEF IndInv, ListFollowsView, ListMatchesView, PaintMatchesModel,
     OnClickedRow, modelVars, NoGroupAnywhere
<1> QED
  BY <1>4, <1>5, <1>6, <1>7, <1>8 DEF IndInv, ActiveGroupLives

-----------------------------------------------------------------------------
\* Deleting groups of the active view: their cells become free, and no other
\* group of any view has one of their cells.
LEMMA DeleteRowsInd ==
    ASSUME IndInv, ActiveView # Nil, idle,
           NEW G \in SUBSET list, DeleteRows(ActiveView, G)
    PROVE  IndInv'
<1> DEFINE v == ActiveView
<1>1. v \in ViewIds /\ v \in views /\ v = activeViewId /\ v' = v
  BY ActiveViewType DEF IndInv, ActiveView, DeleteRows
<1>2. G \subseteq groupsOf[v] /\ G \subseteq GroupIds
  BY DEF IndInv, TypeOK, ListMatchesView
<1>3. /\ groupsOf' = [groupsOf EXCEPT ![v] = @ \ G]
      /\ indices' = [g \in GroupIds |-> IF g \in G THEN {} ELSE indices[g]]
      /\ indexToGroup' =
           [indexToGroup EXCEPT
              ![v] = [c \in Cells |-> IF \E g \in G : c \in indices[g]
                                      THEN Nil ELSE @[c]]]
  BY DEF DeleteRows, DeleteGroups
<1>4. \A c \in Cells : (\E g \in G : c \in indices[g]) <=> indexToGroup[v][c] \in G
  <2>1. \A g \in G : indices[g] = {c \in Cells : indexToGroup[v][c] = g}
    BY <1>1, <1>2 DEF IndInv, CellsPartitioned
  <2> QED
    BY <2>1
<1>5. /\ groupsOf' \in [ViewIds -> SUBSET GroupIds]
      /\ indices' \in [GroupIds -> SUBSET Cells]
      /\ indexToGroup' \in [ViewIds -> [Cells -> GroupIds \cup {Nil}]]
  BY <1>1, <1>3 DEF IndInv, TypeOK
<1>6. TypeOK'
  <2>1. painted' \in [Cells -> GroupIds \cup {Nil}]
    BY <1>1, <1>5, RedrawIsView DEF DeleteRows
  <2>2. clickedRow' \in 0 .. MaxGroups /\ activeGroupId' \in GroupIds \cup {Nil}
    BY DEF IndInv, TypeOK, DeleteRows, ResetActiveGroup
  <2>3. list' \in SUBSET GroupIds /\ highlighted' \in SUBSET Cells
    BY DEF IndInv, TypeOK, DeleteRows, Redraw
  <2>4. UNCHANGED <<lastView, lastGroup, activeViewId, erasing, views,
                    selectedCell, queue, clickedOnView, toolErasing>>
    BY DEF DeleteRows
  <2> QED
    BY <1>5, <2>1, <2>2, <2>3, <2>4 DEF IndInv, TypeOK
<1>7. IdsIssued'
  BY <1>1, <1>3 DEF IndInv, TypeOK, IdsIssued, DeleteRows
<1>8. CellsPartitioned'
  <2>1. ASSUME NEW w \in ViewIds, NEW h \in groupsOf'[w]
        PROVE  indices'[h] = {c \in Cells : indexToGroup'[w][c] = h}
    <3>1. h \in groupsOf[w] /\ h \in GroupIds /\ h # Nil /\ h \notin G
      <4>1. h \in groupsOf[w]
        BY <1>1, <1>3 DEF IndInv, TypeOK
      <4>2. CASE w = v
        BY <1>1, <1>3, <4>1, <4>2 DEF IndInv, TypeOK
      <4>3. CASE w # v
        BY <1>1, <1>2, <4>1, <4>3 DEF IndInv, TypeOK, CellsPartitioned
      <4> QED
        BY <4>2, <4>3
    <3>2. indices'[h] = {c \in Cells : indexToGroup[w][c] = h}
      BY <1>3, <3>1 DEF IndInv, CellsPartitioned
    <3>3. \A c \in Cells : indexToGroup'[w][c] = h <=> indexToGroup[w][c] = h
      BY <1>1, <1>3, <1>4, <3>1 DEF IndInv, TypeOK
    <3> QED
      BY <3>2, <3>3
  <2>2. ASSUME NEW w \in ViewIds, NEW c \in Cells
        PROVE  indexToGroup'[w][c] \in groupsOf'[w] \cup {Nil}
    BY <1>1, <1>3, <1>4 DEF IndInv, TypeOK, CellsPartitioned
  <2>3. ASSUME NEW w \in ViewIds, NEW u \in ViewIds, w # u
        PROVE  groupsOf'[w] \cap groupsOf'[u] = {}
    BY <1>1, <1>3, <2>3 DEF IndInv, TypeOK, CellsPartitioned
  <2> QED
    BY <2>1, <2>2, <2>3 DEF CellsPartitioned
<1>9. ListFollowsView' /\ ListMatchesView' /\ PaintMatchesModel'
  <2>1. ListFollowsView' /\ ListMatchesView'
    BY <1>1, <1>3 DEF IndInv, TypeOK, ListFollowsView, ListMatchesView, DeleteRows
  <2>2. painted' = indexToGroup'[v]
    BY <1>1, <1>5, RedrawIsView DEF DeleteRows
  <2> QED
    BY <1>1, <2>1, <2>2 DEF PaintMatchesModel
<1>10. ActiveGroupLives' /\ NoStaleHighlight' /\ LitEraserErases' /\ TilingInView'
  <2>1. ActiveGroupLives'
    BY <1>1, <1>3 DEF IndInv, TypeOK, ActiveGroupLives, ActiveGroup, DeleteRows,
       ResetActiveGroup
  <2> QED
    BY <2>1 DEF IndInv, NoStaleHighlight, LitEraserErases, TilingInView, DeleteRows,
       Redraw
<1> QED
  BY <1>6, <1>7, <1>8, <1>9, <1>10 DEF IndInv

LEMMA OnDeleteGroupClickInd ==
    ASSUME NEW g \in list, IndInv, OnDeleteGroupClick(g)
    PROVE  IndInv'
BY DeleteRowsInd DEF OnDeleteGroupClick

LEMMA OnDeleteEmptyGroupsInd == IndInv /\ OnDeleteEmptyGroups => IndInv'
BY DeleteRowsInd DEF OnDeleteEmptyGroups

-----------------------------------------------------------------------------
\* What a click or a fill leaves alone.
LEMMA EditFrame ==
    ASSUME IndInv,
           UNCHANGED <<serviceVars, views, groupsOf, queue, clickedOnView, listVars,
                       toolErasing>>
    PROVE  /\ ActiveView' = ActiveView /\ ActiveGroup' = ActiveGroup
           /\ IdsIssued' /\ ListFollowsView' /\ ListMatchesView'
           /\ ActiveGroupLives' /\ LitEraserErases'
<1>1. ActiveView' = ActiveView /\ ActiveGroup' = ActiveGroup
  BY DEF ActiveView, ActiveGroup, serviceVars
<1> QED
  BY <1>1 DEF IndInv, IdsIssued, ListFollowsView, ListMatchesView, ActiveGroupLives,
     LitEraserErases, serviceVars, listVars

\* Inserting cells into the active group takes them from the groups they were in,
\* in both representations and on the page.
LEMMA InsertCellsInd ==
    ASSUME IndInv, idle, NEW C \in SUBSET Cells, InsertCells(C),
           UNCHANGED <<serviceVars, views, groupsOf, highlighted, queue,
                       clickedOnView, listVars, toolErasing>>,
           selectedCell' \in Cells \cup {NoCell}
    PROVE  IndInv'
<1> DEFINE v == ActiveView
           g == ActiveGroup
<1>1. v' = v /\ g' = g /\ IdsIssued' /\ ListFollowsView' /\ ListMatchesView'
      /\ ActiveGroupLives' /\ LitEraserErases' /\ TilingInView'
  BY EditFrame DEF TilingInView
<1>2. CASE g = Nil
  <2>1. UNCHANGED <<indices, indexToGroup, painted>>
    BY <1>2 DEF IndInv, TypeOK, InsertCells, InsertIntoActiveGroup,
       SetStyleToActiveGroup
  <2>2. TypeOK'
    BY <2>1 DEF IndInv, TypeOK, serviceVars, listVars
  <2>3. CellsPartitioned'
    BY <2>1 DEF IndInv, CellsPartitioned
  <2>4. PaintMatchesModel' /\ NoStaleHighlight'
    BY <1>1, <2>1 DEF IndInv, PaintMatchesModel, NoStaleHighlight, NoGroupAnywhere
  <2> QED
    BY <1>1, <2>2, <2>3, <2>4 DEF IndInv
<1>3. CASE g # Nil
  <2>1. v \in ViewIds /\ g \in GroupIds /\ g \in groupsOf[v] /\ v # Nil
    BY <1>3, ActiveGroupType DEF IndInv
  <2>2. /\ indices' = [h \in GroupIds |->
                         IF h = g THEN indices[h] \cup C
                         ELSE IF h \in groupsOf[v] THEN indices[h] \ C
                         ELSE indices[h]]
        /\ indexToGroup' =
             [indexToGroup EXCEPT
                ![v] = [c \in Cells |-> IF c \in C THEN g ELSE @[c]]]
        /\ painted' = [c \in Cells |-> IF c \in C THEN g ELSE painted[c]]
    BY <1>3 DEF InsertCells, InsertIntoActiveGroup, SetStyleToActiveGroup
  <2>3. TypeOK'
    <3>1. /\ indices' \in [GroupIds -> SUBSET Cells]
          /\ indexToGroup' \in [ViewIds -> [Cells -> GroupIds \cup {Nil}]]
          /\ painted' \in [Cells -> GroupIds \cup {Nil}]
      BY <2>1, <2>2 DEF IndInv, TypeOK
    <3> QED
      BY <3>1 DEF IndInv, TypeOK, serviceVars, listVars
  <2>4. CellsPartitioned'
    <3>1. ASSUME NEW w \in ViewIds, NEW h \in groupsOf[w]
          PROVE  indices'[h] = {c \in Cells : indexToGroup'[w][c] = h}
      <4>1. h \in GroupIds /\ indices[h] = {c \in Cells : indexToGroup[w][c] = h}
        BY DEF IndInv, TypeOK, CellsPartitioned
      <4>2. CASE w = v
        BY <2>1, <2>2, <4>1, <4>2 DEF IndInv, TypeOK
      <4>3. CASE w # v
        <5>1. h # g /\ h \notin groupsOf[v]
          BY <2>1, <4>3 DEF IndInv, CellsPartitioned
        <5> QED
          BY <2>1, <2>2, <4>1, <4>3, <5>1 DEF IndInv, TypeOK
      <4> QED
        BY <4>2, <4>3
    <3>2. ASSUME NEW w \in ViewIds, NEW c \in Cells
          PROVE  indexToGroup'[w][c] \in groupsOf[w] \cup {Nil}
      BY <2>1, <2>2 DEF IndInv, TypeOK, CellsPartitioned
    <3> QED
      BY <3>1, <3>2 DEF IndInv, CellsPartitioned
  <2>5. PaintMatchesModel'
    BY <1>1, <2>1, <2>2 DEF IndInv, TypeOK, PaintMatchesModel
  <2>6. NoStaleHighlight'
    BY <1>1, <1>3, <2>1, <2>2 DEF IndInv, NoStaleHighlight
  <2> QED
    BY <1>1, <2>3, <2>4, <2>5, <2>6 DEF IndInv
<1> QED
  BY <1>2, <1>3

\* Erasing takes the cell from its group, whichever that is.
LEMMA EreaseCellInd ==
    ASSUME IndInv, idle, NEW c \in Cells, EreaseCell(c),
           UNCHANGED <<serviceVars, views, groupsOf, queue, clickedOnView, listVars,
                       toolErasing>>,
           selectedCell' \in Cells \cup {NoCell}
    PROVE  IndInv'
<1> DEFINE v == ActiveView
           old == IF v = Nil THEN Nil ELSE indexToGroup[v][c]
<1>1. v' = v /\ ActiveGroup' = ActiveGroup /\ IdsIssued' /\ ListFollowsView'
      /\ ListMatchesView' /\ ActiveGroupLives' /\ LitEraserErases' /\ TilingInView'
  BY EditFrame DEF TilingInView
<1>2. /\ painted' = [painted EXCEPT ![c] = Nil]
      /\ highlighted' = highlighted \ {c}
  BY DEF IndInv, TypeOK, EreaseCell, ResetStyle
<1>3. CASE old = Nil
  <2>1. UNCHANGED <<indices, indexToGroup>>
    BY <1>3 DEF EreaseCell, RemoveFromActiveGroup
  <2>2. TypeOK'
    BY <1>2, <2>1 DEF IndInv, TypeOK, serviceVars, listVars
  <2>3. CellsPartitioned'
    BY <2>1 DEF IndInv, CellsPartitioned
  <2>4. painted[c] = Nil
    BY <1>3 DEF IndInv, PaintMatchesModel, NoGroupAnywhere
  <2>5. PaintMatchesModel'
    BY <1>1, <1>2, <2>1, <2>4 DEF IndInv, TypeOK, PaintMatchesModel, NoGroupAnywhere
  <2>6. NoStaleHighlight'
    BY <1>1, <1>2, <2>1 DEF IndInv, NoStaleHighlight
  <2> QED
    BY <1>1, <2>2, <2>3, <2>5, <2>6 DEF IndInv
<1>4. CASE old # Nil
  <2>1. v \in ViewIds /\ v # Nil /\ old \in groupsOf[v] /\ old \in GroupIds
        /\ old = indexToGroup[v][c]
    BY <1>4, ActiveViewType DEF IndInv, TypeOK, CellsPartitioned
  <2>2. /\ indices' = [indices EXCEPT ![old] = @ \ {c}]
        /\ indexToGroup' = [indexToGroup EXCEPT ![v][c] = Nil]
    BY <1>4 DEF EreaseCell, RemoveFromActiveGroup
  <2>3. TypeOK'
    <3>1. /\ indices' \in [GroupIds -> SUBSET Cells]
          /\ indexToGroup' \in [ViewIds -> [Cells -> GroupIds \cup {Nil}]]
          /\ painted' \in [Cells -> GroupIds \cup {Nil}]
          /\ highlighted' \in SUBSET Cells
      BY <1>2, <2>1, <2>2 DEF IndInv, TypeOK
    <3> QED
      BY <3>1 DEF IndInv, TypeOK, serviceVars, listVars
  <2>4. CellsPartitioned'
    <3>1. ASSUME NEW w \in ViewIds, NEW h \in groupsOf[w]
          PROVE  indices'[h] = {d \in Cells : indexToGroup'[w][d] = h}
      <4>1. h \in GroupIds /\ indices[h] = {d \in Cells : indexToGroup[w][d] = h}
        BY DEF IndInv, TypeOK, CellsPartitioned
      <4>2. CASE w = v
        BY <2>1, <2>2, <4>1, <4>2 DEF IndInv, TypeOK
      <4>3. CASE w # v
        <5>1. h # old
          BY <2>1, <4>3 DEF IndInv, CellsPartitioned
        <5> QED
          BY <2>1, <2>2, <4>1, <4>3, <5>1 DEF IndInv, TypeOK
      <4> QED
        BY <4>2, <4>3
    <3>2. ASSUME NEW w \in ViewIds, NEW d \in Cells
          PROVE  indexToGroup'[w][d] \in groupsOf[w] \cup {Nil}
      BY <2>1, <2>2 DEF IndInv, TypeOK, CellsPartitioned
    <3> QED
      BY <3>1, <3>2 DEF IndInv, CellsPartitioned
  <2>5. PaintMatchesModel'
    BY <1>1, <1>2, <2>1, <2>2 DEF IndInv, TypeOK, PaintMatchesModel
  <2>6. NoStaleHighlight'
    <3>1. \A h \in GroupIds : indices[h] \ {c} \subseteq indices'[h]
      BY <2>1, <2>2 DEF IndInv, TypeOK
    <3>2. ActiveGroup # Nil => ActiveGroup \in GroupIds
      BY ActiveGroupType DEF IndInv
    <3> QED
      BY <1>1, <1>2, <3>1, <3>2 DEF IndInv, NoStaleHighlight
  <2> QED
    BY <1>1, <2>3, <2>4, <2>5, <2>6 DEF IndInv
<1> QED
  BY <1>3, <1>4

LEMMA UiSelectGridCellInd ==
    ASSUME NEW c \in Cells, IndInv, UiSelectGridCell(c)
    PROVE  IndInv'
<1>1. selectedCell' \in Cells \cup {NoCell}
  BY DEF UiSelectGridCell, SelectCell
<1>2. CASE erasing /\ EreaseCell(c)
  BY <1>1, <1>2, EreaseCellInd DEF UiSelectGridCell
<1>3. CASE InsertCells({c}) /\ UNCHANGED highlighted
  BY <1>1, <1>3, InsertCellsInd DEF UiSelectGridCell
<1> QED
  BY <1>2, <1>3 DEF UiSelectGridCell

LEMMA FillInd == IndInv /\ Fill => IndInv'
<1> SUFFICES ASSUME IndInv, Fill PROVE IndInv'
    OBVIOUS
<1>1. selectedCell' \in Cells \cup {NoCell}
  BY DEF IndInv, TypeOK, Fill
<1> QED
  BY <1>1, InsertCellsInd DEF Fill

LEMMA OnEreaserClickInd == IndInv /\ OnEreaserClick => IndInv'
<1> SUFFICES ASSUME IndInv, OnEreaserClick PROVE IndInv'
    OBVIOUS
<1>1. ActiveView' = ActiveView /\ ActiveGroup' = ActiveGroup
  BY DEF OnEreaserClick, SetEreaser, ActiveView, ActiveGroup, modelVars
<1>2. TypeOK'
  <2>1. erasing' \in BOOLEAN /\ toolErasing' \in BOOLEAN
    BY DEF IndInv, TypeOK, OnEreaserClick, SetEreaser
  <2> QED
    BY <2>1 DEF IndInv, TypeOK, OnEreaserClick, SetEreaser, modelVars, pageVars, listVars
<1>3. IdsIssued' /\ CellsPartitioned' /\ TilingInView' /\ ListFollowsView'
      /\ ListMatchesView' /\ ActiveGroupLives'
  BY <1>1 DEF IndInv, IdsIssued, CellsPartitioned, TilingInView, ListFollowsView,
     ListMatchesView, ActiveGroupLives, OnEreaserClick, SetEreaser, modelVars, listVars
<1>4. PaintMatchesModel' /\ NoStaleHighlight'
  BY <1>1 DEF IndInv, PaintMatchesModel, NoStaleHighlight, OnEreaserClick, SetEreaser, modelVars,
     pageVars, NoGroupAnywhere
<1>5. LitEraserErases'
  BY DEF LitEraserErases, OnEreaserClick, SetEreaser
<1> QED
  BY <1>2, <1>3, <1>4, <1>5 DEF IndInv

-----------------------------------------------------------------------------
\* tile().

LEMMA CellsFinite == IsFiniteSet(Cells)
<1>1. Rows * Cols - 1 \in Int
  BY RowsAssumption, ColsAssumption
<1> QED
  BY <1>1, FS_Interval DEF Cells

\* A spot is on the board, so the queue holds sets of cells, none of them empty.
LEMMA PushSpotType ==
    ASSUME NEW q \in Seq((SUBSET Cells) \ {{}}), NEW spot \in SUBSET Cells
    PROVE  PushSpot(q, spot) \in Seq((SUBSET Cells) \ {{}})
BY DEF PushSpot

LEMMA TileFindSpotType ==
    ASSUME NEW pattern, NEW total, NEW dir
    PROVE  TileFindSpot(pattern, total, dir) \in SUBSET Cells
BY DEF TileFindSpot

LEMMA PushSpotsType ==
    ASSUME NEW q \in Seq((SUBSET Cells) \ {{}}), NEW pattern, NEW total
    PROVE  PushSpots(q, pattern, total) \in Seq((SUBSET Cells) \ {{}})
<1> DEFINE spot(i) == TileFindSpot(pattern, total, Directions[i])
           q1 == PushSpot(q, spot(1))
           q2 == PushSpot(q1, spot(2))
           q3 == PushSpot(q2, spot(3))
<1>1. \A i : spot(i) \in SUBSET Cells
  BY TileFindSpotType
<1> HIDE DEF spot
<1>2. q1 \in Seq((SUBSET Cells) \ {{}})
  BY <1>1, PushSpotType
<1>3. q2 \in Seq((SUBSET Cells) \ {{}})
  BY <1>1, <1>2, PushSpotType
<1>4. q3 \in Seq((SUBSET Cells) \ {{}})
  BY <1>1, <1>3, PushSpotType
<1>5. PushSpot(q3, spot(4)) \in Seq((SUBSET Cells) \ {{}})
  BY <1>1, <1>4, PushSpotType
<1> QED
  BY <1>5 DEF PushSpots, spot

LEMMA TileInd == IndInv /\ Tile => IndInv'
<1> SUFFICES ASSUME IndInv, Tile PROVE IndInv'
    OBVIOUS
<1>1. ActiveView' = ActiveView /\ ActiveGroup' = ActiveGroup /\ ActiveView # Nil
      /\ Taken(ActiveView)' = Taken(ActiveView)
  BY ActiveGroupType DEF IndInv, Tile, ActiveView, ActiveGroup, Taken, serviceVars,
     modelVars
<1>2. queue' \in Seq((SUBSET Cells) \ {{}})
  <2>1. << >> \in Seq((SUBSET Cells) \ {{}})
    OBVIOUS
  <2> QED
    BY <2>1, PushSpotsType DEF Tile
<1>3. TypeOK'
  BY <1>2 DEF IndInv, TypeOK, Tile, serviceVars, modelVars, pageVars, listVars
<1>4. TilingInView'
  BY <1>1 DEF TilingInView, Tile, serviceVars
<1>5. IdsIssued' /\ CellsPartitioned' /\ ListFollowsView' /\ ListMatchesView'
      /\ ActiveGroupLives' /\ LitEraserErases'
  BY <1>1 DEF IndInv, IdsIssued, CellsPartitioned, ListFollowsView, ListMatchesView,
     ActiveGroupLives, LitEraserErases, Tile, serviceVars, modelVars, listVars
<1>6. PaintMatchesModel' /\ NoStaleHighlight'
  BY <1>1 DEF IndInv, PaintMatchesModel, NoStaleHighlight, Tile, modelVars, pageVars,
     NoGroupAnywhere
<1> QED
  BY <1>3, <1>4, <1>5, <1>6 DEF IndInv

LEMMA RemoveAtType ==
    ASSUME NEW S, NEW q \in Seq(S), NEW i \in DOMAIN q
    PROVE  RemoveAt(q, i) \in Seq(S)
<1>1. SubSeq(q, 1, i - 1) \in Seq(S)
  OBVIOUS
<1>2. SubSeq(q, i + 1, Len(q)) \in Seq(S)
  OBVIOUS
<1> QED
  BY <1>1, <1>2 DEF RemoveAt

\* Laying a tile costs one id and at least one free cell.
LEMMA TileCost ==
    ASSUME NEW free \in SUBSET Cells, NEW next \in SUBSET free, next # {}
    PROVE  /\ Cardinality(free) \in Nat \ {0}
           /\ Cardinality(free \ next) \in Nat
           /\ Cardinality(free \ next) + 1 <= Cardinality(free)
<1>1. IsFiniteSet(free) /\ IsFiniteSet(free \ next)
  BY CellsFinite, FS_Subset
<1>2. Cardinality(free) \in Nat /\ Cardinality(free \ next) \in Nat
  BY <1>1, FS_CardinalityType
<1>3. PICK c : c \in next
  OBVIOUS
<1>4. /\ IsFiniteSet(free \ {c})
      /\ Cardinality(free \ {c}) = Cardinality(free) - 1
  BY <1>1, <1>3, FS_RemoveElement
<1>5. Cardinality(free \ next) <= Cardinality(free \ {c})
  <2>1. free \ next \in SUBSET (free \ {c})
    BY <1>3
  <2> QED
    BY <1>4, <2>1, FS_Subset
<1> QED
  BY <1>2, <1>4, <1>5

LEMMA TileNextInd == IndInv /\ TileNext => IndInv'
<1> SUFFICES ASSUME IndInv, TileNext PROVE IndInv'
    OBVIOUS
<1> DEFINE v == ActiveView
<1>1. PICK i \in NextSpots(queue) :
        /\ IF TileIntersects(Taken(v), queue[i])
           THEN /\ queue' = RemoveAt(queue, i)
                /\ UNCHANGED <<lastGroup, groupsOf, indices, indexToGroup, painted,
                               list>>
           ELSE /\ AddGroup(v, queue[i])
                /\ queue' = PushSpots(RemoveAt(queue, i), queue[i],
                                      Taken(v) \cup queue[i])
        /\ UNCHANGED <<lastView, activeViewId, activeGroupId, erasing, views,
                       highlighted, selectedCell, clickedOnView, clickedRow,
                       toolErasing>>
  BY DEF TileNext
<1> DEFINE next == queue[i]
           free == Cells \ Taken(v)
<1>2. i \in DOMAIN queue /\ next \in (SUBSET Cells) \ {{}} /\ queue # << >>
  BY DEF NextSpots, IndInv, TypeOK
<1>3. RemoveAt(queue, i) \in Seq((SUBSET Cells) \ {{}})
  BY <1>2, RemoveAtType DEF IndInv, TypeOK
<1>4. v # Nil /\ v \in ViewIds /\ v' = v
      /\ lastGroup + Cardinality(free) <= MaxGroups
  BY <1>1, <1>2, ActiveViewType DEF IndInv, TilingInView, ActiveView
<1>5. CASE TileIntersects(Taken(v), next)
  <2>1. /\ queue' = RemoveAt(queue, i)
        /\ UNCHANGED <<lastGroup, groupsOf, indices, indexToGroup, painted, list,
                       lastView, activeViewId, activeGroupId, erasing, views,
                       highlighted, selectedCell, clickedOnView, clickedRow,
                       toolErasing>>
    BY <1>1, <1>5
  <2>2. ActiveGroup' = ActiveGroup /\ Taken(v)' = Taken(v)
    BY <1>4, <2>1 DEF ActiveGroup, Taken
  <2>3. TypeOK'
    BY <1>3, <2>1 DEF IndInv, TypeOK
  <2>4. TilingInView'
    BY <1>4, <2>1, <2>2 DEF TilingInView
  <2>5. IdsIssued' /\ CellsPartitioned' /\ ListFollowsView' /\ ListMatchesView'
        /\ ActiveGroupLives' /\ LitEraserErases'
    BY <1>4, <2>1, <2>2 DEF IndInv, IdsIssued, CellsPartitioned, ListFollowsView,
       ListMatchesView, ActiveGroupLives, LitEraserErases
  <2>6. PaintMatchesModel' /\ NoStaleHighlight'
    BY <1>4, <2>1, <2>2 DEF IndInv, PaintMatchesModel, NoStaleHighlight,
       NoGroupAnywhere
  <2> QED
    BY <2>3, <2>4, <2>5, <2>6 DEF IndInv
<1>6. CASE ~TileIntersects(Taken(v), next)
  <2>1. /\ AddGroup(v, next)
        /\ queue' = PushSpots(RemoveAt(queue, i), next, Taken(v) \cup next)
    BY <1>1, <1>6
  <2>2. next \cap Taken(v) = {} /\ next \in SUBSET free /\ next # {}
    BY <1>2, <1>6 DEF TileIntersects
  <2>3. free \in SUBSET Cells
    OBVIOUS
  <2>4. /\ Cardinality(free) \in Nat \ {0}
        /\ Cardinality(free \ next) \in Nat
        /\ Cardinality(free \ next) + 1 <= Cardinality(free)
    BY <2>2, <2>3, TileCost
  <2>5. lastGroup \in Nat /\ lastGroup < MaxGroups
    BY <1>4, <2>4 DEF IndInv, TypeOK
  <2>6. Cells \ Taken(v)' = free \ next
    <3>1. indexToGroup'[v] =
            [c \in Cells |-> IF c \in next THEN lastGroup + 1 ELSE indexToGroup[v][c]]
      BY <1>4, <2>1 DEF AddGroup, IndInv, TypeOK
    <3> QED
      BY <1>4, <2>5, <3>1 DEF Taken
  <2>7. lastGroup' + Cardinality(Cells \ Taken(v)') <= MaxGroups
    <3>1. lastGroup' = lastGroup + 1
      BY <2>1 DEF AddGroup
    <3> QED
      BY <1>4, <2>4, <2>5, <2>6, <3>1
  <2>8. TilingInView'
    BY <1>4, <2>7 DEF TilingInView
  <2>9. queue' \in Seq((SUBSET Cells) \ {{}})
    BY <1>3, <2>1, PushSpotsType
  <2> QED
    BY <1>1, <1>2, <1>4, <2>1, <2>2, <2>5, <2>8, <2>9, AddGroupInd
<1> QED
  BY <1>5, <1>6

-----------------------------------------------------------------------------
LEMMA InitInd == Init => IndInv
<1> SUFFICES ASSUME Init PROVE IndInv
    OBVIOUS
<1>1. ActiveView = Nil /\ ActiveGroup = Nil
  BY DEF Init, ActiveView, ActiveGroup
<1>2. TypeOK
  <2>1. queue \in Seq((SUBSET Cells) \ {{}})
    BY DEF Init
  <2>2. /\ groupsOf \in [ViewIds -> SUBSET GroupIds]
        /\ indexToGroup \in [ViewIds -> [Cells -> GroupIds \cup {Nil}]]
        /\ indices \in [GroupIds -> SUBSET Cells]
        /\ painted \in [Cells -> GroupIds \cup {Nil}]
    BY DEF Init, NoGroupAnywhere
  <2>3. /\ erasing \in BOOLEAN /\ toolErasing \in BOOLEAN /\ clickedOnView \in BOOLEAN
        /\ selectedCell \in Cells \cup {NoCell}
    BY DEF Init
  <2>4. /\ lastView = 0 /\ lastGroup = 0 /\ activeViewId = Nil /\ activeGroupId = Nil
        /\ views = {} /\ highlighted = {} /\ list = {} /\ clickedRow = 0
    BY DEF Init
  <2> QED
    BY <2>1, <2>2, <2>3, <2>4 DEF TypeOK
<1>3. IdsIssued /\ TilingInView /\ CellsPartitioned /\ LitEraserErases
  BY DEF Init, IdsIssued, TilingInView, CellsPartitioned, LitEraserErases,
     NoGroupAnywhere
<1>4. ListFollowsView /\ ListMatchesView /\ ActiveGroupLives
  BY <1>1 DEF Init, ListFollowsView, ListMatchesView, ActiveGroupLives
<1>5. PaintMatchesModel /\ NoStaleHighlight
  BY <1>1 DEF Init, PaintMatchesModel, NoStaleHighlight
<1> QED
  BY <1>2, <1>3, <1>4, <1>5 DEF IndInv

LEMMA StutterInd == IndInv /\ UNCHANGED vars => IndInv'
<1> SUFFICES ASSUME IndInv, UNCHANGED vars PROVE IndInv'
    OBVIOUS
<1> USE DEF vars, serviceVars, modelVars, pageVars, listVars
<1>1. ActiveView' = ActiveView /\ ActiveGroup' = ActiveGroup
      /\ \A w : Taken(w)' = Taken(w)
  BY DEF ActiveView, ActiveGroup, Taken
<1>2. TypeOK' /\ IdsIssued' /\ CellsPartitioned'
  BY DEF IndInv, TypeOK, IdsIssued, CellsPartitioned
<1>3. TilingInView'
  BY <1>1 DEF IndInv, TilingInView
<1>4. ListFollowsView' /\ ListMatchesView' /\ ActiveGroupLives' /\ LitEraserErases'
  BY <1>1 DEF IndInv, ListFollowsView, ListMatchesView, ActiveGroupLives,
     LitEraserErases
<1>5. PaintMatchesModel' /\ NoStaleHighlight'
  BY <1>1 DEF IndInv, PaintMatchesModel, NoStaleHighlight, NoGroupAnywhere
<1> QED
  BY <1>2, <1>3, <1>4, <1>5 DEF IndInv

LEMMA NextInd == IndInv /\ [Next]_vars => IndInv'
<1> SUFFICES ASSUME IndInv, [Next]_vars PROVE IndInv'
    OBVIOUS
<1>1. CASE OnAddView
  BY <1>1, OnAddViewInd
<1>2. ASSUME NEW v \in 0 .. lastView, OnClickItem(v) PROVE IndInv'
  BY <1>2, OnClickItemInd
<1>3. ASSUME NEW S \in SUBSET views, OnDeleteSelected(S) PROVE IndInv'
  BY <1>3, OnDeleteSelectedInd
<1>4. CASE OnAddGroup
  BY <1>4, OnAddGroupInd
<1>5. ASSUME NEW g \in list, OnClickedRow(g) PROVE IndInv'
  BY <1>5, OnClickedRowInd
<1>6. ASSUME NEW g \in list, OnDeleteGroupClick(g) PROVE IndInv'
  BY <1>6, OnDeleteGroupClickInd
<1>7. CASE OnDeleteEmptyGroups
  BY <1>7, OnDeleteEmptyGroupsInd
<1>8. ASSUME NEW c \in Cells, UiSelectGridCell(c) PROVE IndInv'
  BY <1>8, UiSelectGridCellInd
<1>9. CASE Fill
  BY <1>9, FillInd
<1>10. CASE OnEreaserClick
  BY <1>10, OnEreaserClickInd
<1>11. CASE Tile
  BY <1>11, TileInd
<1>12. CASE TileNext
  BY <1>12, TileNextInd
<1>13. CASE UNCHANGED vars
  BY <1>13, StutterInd
<1> QED
  BY <1>1, <1>2, <1>3, <1>4, <1>5, <1>6, <1>7, <1>8, <1>9, <1>10, <1>11, <1>12,
     <1>13 DEF Next

\* The inductive invariant holds in every reachable state: ids, tiling, model, page
\* and list stay consistent through every browser event.
THEOREM Inductive == Spec => []IndInv
BY InitInd, NextInd, PTL DEF Spec

\* Every variable keeps its type; in particular tile() never runs out of the ids
\* that the bound leaves it, and its queue holds non-empty sets of cells only.
THEOREM TypeCorrect == Spec => []TypeOK
<1>1. IndInv => TypeOK
  BY DEF IndInv
<1> QED
  BY <1>1, Inductive, PTL

\* group.indices and view.indexToGroup agree in every view, for every board and any
\* number of views and groups: what is sent to the solver is what is drawn.
THEOREM CellsArePartitioned == Spec => []CellsPartitioned
<1>1. IndInv => CellsPartitioned
  BY DEF IndInv
<1> QED
  BY <1>1, Inductive, PTL

\* The list of groups shows the groups of the active view, and the active group is
\* one of them: no click on a row finds a group that is gone.
THEOREM ListIsCurrent == Spec => []ListShowsView
<1>1. IndInv => ListShowsView
  BY DEF IndInv, ListShowsView
<1> QED
  BY <1>1, Inductive, PTL

\* The page shows the active view and nothing else, and highlights only cells of
\* the active group.
THEOREM PageIsCurrent == Spec => []PageShowsModel
<1>1. IndInv => PageShowsModel
  BY DEF IndInv, PageShowsModel
<1> QED
  BY <1>1, Inductive, PTL

-----------------------------------------------------------------------------
\* The mark in the list.

\* The active group has a row.
LEMMA ActiveHasRow ==
    ASSUME IndInv, activeGroupId # Nil
    PROVE  activeGroupId \in list /\ activeGroupId \in GroupIds
BY DEF IndInv, TypeOK, ActiveGroupLives, ActiveGroup, ListMatchesView

LEMMA ListIsFinite == ASSUME IndInv PROVE IsFiniteSet(list)
<1>1. IsFiniteSet(GroupIds)
  BY FS_Interval, 1 \in Int, MaxGroups \in Int
<1> QED
  BY <1>1, FS_Subset DEF IndInv, TypeOK

\* The mark stays at or behind the active group when no row is added before it.
LEMMA MarkStays ==
    ASSUME IndInv, IndInv', RowFollowsActive,
           UNCHANGED <<activeGroupId, clickedRow>>,
           {h \in list' : h <= activeGroupId} \subseteq list
    PROVE  RowFollowsActive'
<1>1. CASE activeGroupId = Nil
  BY <1>1 DEF RowFollowsActive
<1>2. CASE activeGroupId # Nil
  <2> DEFINE before == {h \in list : h <= activeGroupId}
             after  == {h \in list' : h <= activeGroupId}
  <2>1. activeGroupId' \in list' /\ clickedRow # 0
    BY <1>2 DEF RowFollowsActive, IndInv, ActiveGroupLives, ActiveGroup, ListMatchesView
  <2>2. IsFiniteSet(before) /\ after \in SUBSET before
    BY ListIsFinite, FS_Subset
  <2>3. /\ Cardinality(after) <= Cardinality(before)
        /\ Cardinality(before) \in Nat /\ Cardinality(after) \in Nat
    BY <2>2, FS_Subset, FS_CardinalityType
  <2>4. Row(activeGroupId) = Cardinality(before)
        /\ Row(activeGroupId)' = Cardinality(after)
    BY DEF Row
  <2>5. clickedRow \in Nat
    BY DEF IndInv, TypeOK
  <2> QED
    BY <1>2, <2>1, <2>3, <2>4, <2>5 DEF RowFollowsActive
<1> QED
  BY <1>1, <1>2

LEMMA OnClickedRowMarks ==
    ASSUME IndInv, IndInv', RowFollowsActive, NEW g \in list, OnClickedRow(g)
    PROVE  RowFollowsActive'
<1>1. list' = list
  BY DEF OnClickedRow
<1>2. CASE Row(g) = clickedRow
  BY <1>2 DEF OnClickedRow, ResetActiveGroup, RowFollowsActive
<1>3. CASE Row(g) # clickedRow
  <2>1. activeGroupId' = g /\ clickedRow' = Row(g) /\ g \in GroupIds
    BY <1>3 DEF OnClickedRow, IndInv, TypeOK
  <2>2. IsFiniteSet({h \in list : h <= g}) /\ g \in {h \in list : h <= g}
    BY <2>1, ListIsFinite, FS_Subset
  <2>3. Row(g) \in Nat /\ Row(g) # 0
    BY <2>2, FS_CardinalityType, FS_EmptySet DEF Row
  <2>4. Row(g)' = Row(g)
    BY <1>1 DEF Row
  <2> QED
    BY <1>1, <2>1, <2>3, <2>4 DEF RowFollowsActive
<1> QED
  BY <1>2, <1>3

LEMMA DeleteRowsMarks ==
    ASSUME IndInv, IndInv', RowFollowsActive, NEW v, NEW G, DeleteRows(v, G)
    PROVE  RowFollowsActive'
<1>1. CASE ResetActiveGroup
  BY <1>1 DEF ResetActiveGroup, RowFollowsActive
<1>2. CASE UNCHANGED <<clickedRow, activeGroupId>>
  BY <1>2, MarkStays DEF DeleteRows
<1> QED
  BY <1>1, <1>2 DEF DeleteRows

\* A new group's row is the last, because its id is the largest.
LEMMA AddGroupMarks ==
    ASSUME IndInv, IndInv', RowFollowsActive, NEW cells,
           AddGroup(ActiveView, cells), ActiveView # Nil,
           UNCHANGED <<activeViewId, views, activeGroupId, clickedRow>>
    PROVE  RowFollowsActive'
<1>1. CASE activeGroupId = Nil
  BY <1>1 DEF RowFollowsActive
<1>2. CASE activeGroupId # Nil
  <2>1. ActiveView \in ViewIds /\ ActiveView' = ActiveView
    BY ActiveViewType DEF IndInv, ActiveView
  <2>2. list = groupsOf[ActiveView] /\ list' = groupsOf'[ActiveView]
    BY <2>1 DEF IndInv, ListMatchesView
  <2>3. list' = list \cup {NewGroup}
    BY <2>1, <2>2 DEF IndInv, TypeOK, AddGroup
  <2>4. activeGroupId <= lastGroup /\ activeGroupId \in Nat /\ lastGroup \in Nat
    BY <1>2, <2>1, <2>2, ActiveHasRow DEF IndInv, TypeOK, IdsIssued
  <2>5. ~ (NewGroup <= activeGroupId)
    BY <2>4
  <2>6. {h \in list' : h <= activeGroupId} \subseteq list
    BY <2>3, <2>5
  <2> QED
    BY <2>6, MarkStays
<1> QED
  BY <1>1, <1>2

LEMMA MarkStep == IndInv /\ RowFollowsActive /\ [Next]_vars => RowFollowsActive'
<1> SUFFICES ASSUME IndInv, RowFollowsActive, [Next]_vars PROVE RowFollowsActive'
    OBVIOUS
<1>0. IndInv'
  BY NextInd
<1>1. CASE UNCHANGED <<list, clickedRow, activeGroupId>>
  BY <1>1, <1>0, MarkStays
<1>2. ASSUME NEW v \in 0 .. lastView, OnClickItem(v) PROVE RowFollowsActive'
  BY <1>2 DEF OnClickItem, ViewChanged, RowFollowsActive
<1>3. ASSUME NEW S \in SUBSET views, OnDeleteSelected(S) PROVE RowFollowsActive'
  <2>1. activeGroupId' = Nil
    BY <1>3 DEF IndInv, ListFollowsView, ActiveGroupLives, ActiveGroup, OnDeleteSelected
  <2> QED
    BY <1>3, <2>1 DEF OnDeleteSelected, ViewChanged, RowFollowsActive
<1>4. CASE OnAddGroup
  BY <1>0, <1>4, AddGroupMarks DEF OnAddGroup
<1>5. ASSUME NEW g \in list, OnClickedRow(g) PROVE RowFollowsActive'
  BY <1>0, <1>5, OnClickedRowMarks
<1>6. ASSUME NEW g \in list, OnDeleteGroupClick(g) PROVE RowFollowsActive'
  BY <1>0, <1>6, DeleteRowsMarks DEF OnDeleteGroupClick
<1>7. CASE OnDeleteEmptyGroups
  BY <1>0, <1>7, DeleteRowsMarks DEF OnDeleteEmptyGroups
<1>8. CASE TileNext
  <2>1. PICK i \in NextSpots(queue) : \/ UNCHANGED list
                                      \/ AddGroup(ActiveView, queue[i])
    BY <1>8 DEF TileNext
  <2>2. queue # << >> /\ ActiveView # Nil
    BY <2>1 DEF NextSpots, IndInv, TilingInView
  <2> QED
    BY <1>0, <1>1, <1>8, <2>1, <2>2, AddGroupMarks DEF TileNext
<1>9. ASSUME \/ OnAddView \/ Fill \/ OnEreaserClick \/ Tile
             \/ \E c \in Cells : UiSelectGridCell(c)
             \/ UNCHANGED vars
      PROVE  UNCHANGED <<list, clickedRow, activeGroupId>>
  BY <1>9 DEF OnAddView, Fill, OnEreaserClick, Tile, UiSelectGridCell, vars,
     serviceVars, listVars
<1> QED
  BY <1>1, <1>2, <1>3, <1>4, <1>5, <1>6, <1>7, <1>8, <1>9 DEF Next

\* However many groups a view has, a row is marked exactly when a group is active, the
\* mark stands at or below that group's row (deletions may leave it below), and the
\* eraser is lit only if clicks erase.
THEOREM ControlsAreTrue == Spec => []ControlsTellTruth
<1>1. Init => RowFollowsActive
  BY DEF Init, RowFollowsActive
<1>2. Spec => []RowFollowsActive
  BY <1>1, MarkStep, Inductive, PTL DEF Spec
<1>3. IndInv => LitEraserErases
  BY DEF IndInv
<1> QED
  BY <1>2, <1>3, Inductive, PTL DEF ControlsTellTruth

-----------------------------------------------------------------------------
\* What a step may do.

\* VIEW_CHANGE shows the list exactly for a view of the grid.
LEMMA ShownIffInGrid ==
    ASSUME ViewChanged, views' \in SUBSET ViewIds
    PROVE  clickedOnView' = (activeViewId' \in views')
BY DEF ViewChanged, ShowList, ActiveView

LEMMA ViewStep == IndInv /\ [Next]_vars => [Events!Next]_(Events!vars)
<1> SUFFICES ASSUME IndInv, [Next]_vars PROVE [Events!Next]_(Events!vars)
    OBVIOUS
<1>1. CASE OnAddView
  BY <1>1 DEF OnAddView, Events!Next, Events!Add
<1>2. ASSUME NEW v \in 0 .. lastView, OnClickItem(v) PROVE Events!Next
  <2>1. views' \in SUBSET ViewIds
    BY <1>2 DEF IndInv, TypeOK, OnClickItem, modelVars
  <2>2. clickedOnView' = (activeViewId' \in views')
    BY <1>2, <2>1, ShownIffInGrid DEF OnClickItem
  <2>3. Events!Select
    BY <1>2, <2>2 DEF OnClickItem, modelVars, Events!Select
  <2> QED
    BY <2>3 DEF Events!Next
<1>3. ASSUME NEW S \in SUBSET views, OnDeleteSelected(S) PROVE Events!Next
  <2>1. views' \in SUBSET ViewIds /\ views' \in SUBSET views
    BY <1>3 DEF IndInv, TypeOK, OnDeleteSelected
  <2>2. clickedOnView' = (activeViewId' \in views')
    BY <1>3, <2>1, ShownIffInGrid DEF OnDeleteSelected
  <2>3. Events!Delete
    BY <1>3, <2>1, <2>2 DEF OnDeleteSelected, Events!Delete
  <2> QED
    BY <2>3 DEF Events!Next
<1>4. CASE UNCHANGED <<lastView, views, activeViewId, clickedOnView>>
  BY <1>4 DEF Events!vars
<1> QED
  <2>1. CASE OnAddGroup
    BY <1>4, <2>1 DEF OnAddGroup
  <2>2. ASSUME NEW g \in list, OnClickedRow(g)
        PROVE  UNCHANGED <<lastView, views, activeViewId, clickedOnView>>
    BY <2>2 DEF OnClickedRow, modelVars
  <2>3. ASSUME NEW g \in list, OnDeleteGroupClick(g)
        PROVE  UNCHANGED <<lastView, views, activeViewId, clickedOnView>>
    BY <2>3 DEF OnDeleteGroupClick, DeleteRows
  <2>4. CASE OnDeleteEmptyGroups
    BY <1>4, <2>4 DEF OnDeleteEmptyGroups, DeleteRows
  <2>5. ASSUME NEW c \in Cells, UiSelectGridCell(c)
        PROVE  UNCHANGED <<lastView, views, activeViewId, clickedOnView>>
    BY <2>5 DEF UiSelectGridCell, serviceVars
  <2>6. CASE Fill \/ OnEreaserClick \/ Tile
    BY <1>4, <2>6 DEF Fill, OnEreaserClick, SetEreaser, Tile, serviceVars, modelVars
  <2>7. CASE TileNext
    BY <1>4, <2>7 DEF TileNext
  <2>8. CASE UNCHANGED vars
    BY <1>4, <2>8 DEF vars, serviceVars, modelVars
  <2> QED
    BY <1>1, <1>2, <1>3, <1>4, <2>1, <2>2, <2>3, <2>4, <2>5, <2>6, <2>7, <2>8
       DEF Next

\* The editor does nothing to the views and the selection that ViewEvents does not
\* allow: what the tree decides is never undone by the other components.
THEOREM EditorImplementsViewEvents == Spec => ImplementsViewEvents
<1>1. Init => Events!Init
  BY DEF Init, Events!Init
<1> QED
  BY <1>1, ViewStep, Inductive, PTL DEF Spec, ImplementsViewEvents, Events!Spec

\* The bound leaves an id for every tile.
LEMMA IdForTile ==
  ASSUME IndInv, queue # << >>, NEW tile \in (SUBSET Cells) \ {{}},
         tile \cap Taken(ActiveView) = {}
  PROVE  ActiveView # Nil /\ lastGroup < MaxGroups
<1>1. tile \in SUBSET (Cells \ Taken(ActiveView))
      /\ Cells \ Taken(ActiveView) \in SUBSET Cells
  OBVIOUS
<1>2. Cardinality(Cells \ Taken(ActiveView)) \in Nat \ {0}
  BY <1>1, TileCost
<1>3. lastGroup \in Nat /\ lastGroup + Cardinality(Cells \ Taken(ActiveView)) <= MaxGroups
      /\ ActiveView # Nil
  BY DEF IndInv, TypeOK, TilingInView
<1> QED
  BY <1>2, <1>3

\* Laying a tile gives cells to the new group only.
LEMMA AddGroupKeeps ==
    ASSUME IndInv, ActiveView # Nil, lastGroup < MaxGroups,
           NEW cells \in SUBSET Cells, cells \cap Taken(ActiveView) = {},
           AddGroup(ActiveView, cells), NEW v \in ViewIds
    PROVE  /\ groupsOf[v] \subseteq groupsOf'[v]
           /\ \A g \in groupsOf[v] : indices'[g] = indices[g]
           /\ \A c \in Taken(v) : indexToGroup'[v][c] = indexToGroup[v][c]
<1>1. ActiveView \in ViewIds
  BY ActiveViewType DEF IndInv
<1>2. \A g \in groupsOf[v] : g # lastGroup + 1 /\ g \in GroupIds
  BY DEF IndInv, TypeOK, IdsIssued
<1>3. groupsOf[v] \subseteq groupsOf'[v]
  BY <1>1 DEF IndInv, TypeOK, AddGroup
<1>4. \A g \in groupsOf[v] : indices'[g] = indices[g]
  BY <1>2 DEF IndInv, TypeOK, AddGroup
<1>5. \A c \in Taken(v) : indexToGroup'[v][c] = indexToGroup[v][c]
  <2>1. CASE v = ActiveView
    BY <1>1, <2>1 DEF IndInv, TypeOK, AddGroup, Taken
  <2>2. CASE v # ActiveView
    BY <1>1, <2>2 DEF IndInv, TypeOK, AddGroup, Taken
  <2> QED
    BY <2>1, <2>2
<1> QED
  BY <1>3, <1>4, <1>5

\* A step of tile() takes no cell from any group, on any board.
THEOREM TilingKeepsCells == Spec => TileKeepsCells
<1> DEFINE Keeps == TileNext =>
             \A v \in ViewIds :
                /\ groupsOf[v] \subseteq groupsOf'[v]
                /\ \A g \in groupsOf[v] : indices'[g] = indices[g]
                /\ \A c \in Taken(v) : indexToGroup'[v][c] = indexToGroup[v][c]
<1>1. IndInv /\ [Next]_vars => [Keeps]_vars
  <2> SUFFICES ASSUME IndInv, TileNext, NEW v \in ViewIds
               PROVE  /\ groupsOf[v] \subseteq groupsOf'[v]
                      /\ \A g \in groupsOf[v] : indices'[g] = indices[g]
                      /\ \A c \in Taken(v) : indexToGroup'[v][c] = indexToGroup[v][c]
    OBVIOUS
  <2>1. PICK i \in NextSpots(queue) :
           \/ UNCHANGED <<groupsOf, indices, indexToGroup>>
           \/ AddGroup(ActiveView, queue[i]) /\ ~TileIntersects(Taken(ActiveView), queue[i])
    BY DEF TileNext
  <2>2. CASE UNCHANGED <<groupsOf, indices, indexToGroup>>
    BY <2>2
  <2>3. CASE AddGroup(ActiveView, queue[i])
             /\ ~TileIntersects(Taken(ActiveView), queue[i])
    <3>1. queue # << >> /\ queue[i] \in (SUBSET Cells) \ {{}}
      BY DEF NextSpots, IndInv, TypeOK
    <3>2. queue[i] \cap Taken(ActiveView) = {}
      BY <2>3 DEF TileIntersects
    <3>3. ActiveView # Nil /\ lastGroup < MaxGroups
      BY <3>1, <3>2, IdForTile
    <3> QED
      BY <2>3, <3>1, <3>2, <3>3, AddGroupKeeps
  <2> QED
    BY <2>1, <2>2, <2>3
<1> QED
  BY <1>1, Inductive, PTL DEF Spec, TileKeepsCells

-----------------------------------------------------------------------------
\* One push adds at most one spot, and the loop over the directions at most four.
LEMMA PushSpotGrows ==
    ASSUME NEW q \in Seq((SUBSET Cells) \ {{}}), NEW spot \in SUBSET Cells
    PROVE  Len(PushSpot(q, spot)) <= Len(q) + 1
BY DEF PushSpot

LEMMA PushSpotsGrows ==
    ASSUME NEW q \in Seq((SUBSET Cells) \ {{}}), NEW pattern, NEW total
    PROVE  Len(PushSpots(q, pattern, total)) <= Len(q) + 4
<1> DEFINE spot(i) == TileFindSpot(pattern, total, Directions[i])
           q1 == PushSpot(q, spot(1))
           q2 == PushSpot(q1, spot(2))
           q3 == PushSpot(q2, spot(3))
           q4 == PushSpot(q3, spot(4))
           Spots == Seq((SUBSET Cells) \ {{}})
<1>1. \A i : spot(i) \in SUBSET Cells
  BY TileFindSpotType
<1>2. PushSpots(q, pattern, total) = q4
  BY DEF PushSpots
<1> HIDE DEF spot
<1>3. q1 \in Spots /\ q2 \in Spots /\ q3 \in Spots /\ q4 \in Spots
  BY <1>1, PushSpotType
<1>4. Len(q1) <= Len(q) + 1 /\ Len(q2) <= Len(q1) + 1 /\ Len(q3) <= Len(q2) + 1
      /\ Len(q4) <= Len(q3) + 1
  BY <1>1, <1>3, PushSpotGrows
<1>5. Len(q) \in Nat /\ Len(q1) \in Nat /\ Len(q2) \in Nat /\ Len(q3) \in Nat
      /\ Len(q4) \in Nat
  BY <1>3, LenProperties
<1> HIDE DEF q1, q2, q3, q4
<1> QED
  BY <1>2, <1>4, <1>5

\* A turn that lays a tile trades a free cell for three more spots at the most; a turn
\* that skips its spot has one spot less.
LEMMA TurnDescends == IndInv /\ TileNext => Work' < Work
<1> SUFFICES ASSUME IndInv, TileNext PROVE Work' < Work
  OBVIOUS
<1> DEFINE v == ActiveView
           Spots == Seq((SUBSET Cells) \ {{}})
<1>1. PICK i \in NextSpots(queue) :
        /\ IF TileIntersects(Taken(v), queue[i])
           THEN queue' = RemoveAt(queue, i) /\ UNCHANGED indexToGroup
           ELSE /\ AddGroup(v, queue[i])
                /\ queue' = PushSpots(RemoveAt(queue, i), queue[i],
                                      Taken(v) \cup queue[i])
        /\ UNCHANGED <<activeViewId, views>>
  BY DEF TileNext
<1> DEFINE next == queue[i]
           rest == RemoveAt(queue, i)
           free == Cells \ Taken(v)
<1>2. queue \in Spots /\ i \in DOMAIN queue /\ next \in (SUBSET Cells) \ {{}} /\ queue # << >>
  BY DEF NextSpots, IndInv, TypeOK
<1>3. rest \in Spots /\ Len(rest) = Len(queue) - 1 /\ Len(queue) \in Nat
  <2>1. i \in 1 .. Len(queue)
    BY <1>2
  <2> QED
    BY <1>2, <2>1, RemoveAtIs, LenProperties
<1>4. v \in ViewIds /\ v' = v
  BY <1>1, <1>2, ActiveViewType DEF IndInv, TilingInView, ActiveView
<1>5. Cardinality(free) \in Nat
  BY CellsFinite, FS_Subset, FS_CardinalityType
<1>6. /\ Work = 4 * Cardinality(free) + Len(queue)
      /\ Work' = 4 * Cardinality(Cells \ Taken(v)') + Len(queue')
  BY <1>4 DEF Work, Taken
<1>7. CASE TileIntersects(Taken(v), next)
  <2>1. Taken(v)' = Taken(v) /\ Len(queue') = Len(queue) - 1
    BY <1>1, <1>3, <1>4, <1>7 DEF Taken
  <2> QED
    BY <1>3, <1>5, <1>6, <2>1
<1>8. CASE ~TileIntersects(Taken(v), next)
  <2>1. AddGroup(v, next) /\ queue' = PushSpots(rest, next, Taken(v) \cup next)
    BY <1>1, <1>8
  <2>2. next \cap Taken(v) = {} /\ next \in SUBSET free /\ free \in SUBSET Cells
    BY <1>2, <1>8 DEF TileIntersects
  <2>3. /\ Cardinality(free \ next) \in Nat
        /\ Cardinality(free \ next) + 1 <= Cardinality(free)
    BY <1>2, <2>2, TileCost
  <2>4. Cells \ Taken(v)' = free \ next
    <3>1. indexToGroup'[v] =
            [c \in Cells |-> IF c \in next THEN lastGroup + 1 ELSE indexToGroup[v][c]]
      BY <1>4, <2>1 DEF AddGroup, NewGroup, IndInv, TypeOK
    <3>2. lastGroup + 1 # Nil
      BY DEF IndInv, TypeOK, Nil
    <3> QED
      BY <1>4, <3>1, <3>2 DEF Taken
  <2>5. Len(queue') <= Len(rest) + 4 /\ Len(queue') \in Nat
    BY <1>3, <2>1, PushSpotsGrows, PushSpotsType, LenProperties
  <2>6. /\ Work = 4 * Cardinality(free) + Len(queue)
        /\ Work' = 4 * Cardinality(free \ next) + Len(queue')
    BY <1>6, <2>4
  <2>7. Len(queue') <= Len(queue) + 3
    BY <1>3, <2>5
  <2> HIDE DEF free, next, rest
  <2> QED
    BY <1>3, <1>5, <2>3, <2>5, <2>6, <2>7
<1> QED
  BY <1>7, <1>8

\* Every turn of tile() brings the end of its loop closer, on any board.
THEOREM TilingDescends == Spec => TileDescends
<1>1. IndInv /\ [Next]_vars => [TileNext => Work' < Work]_vars
  BY TurnDescends
<1> QED
  BY <1>1, Inductive, PTL DEF Spec, TileDescends

-----------------------------------------------------------------------------
\* What a view v that is not active has, which no edit may change.
Kept(v) ==
    /\ groupsOf'[v] = groupsOf[v]
    /\ indexToGroup'[v] = indexToGroup[v]
    /\ \A g \in groupsOf[v] : indices'[g] = indices[g]

LEMMA AddGroupElsewhere ==
    ASSUME IndInv, NEW cells, AddGroup(ActiveView, cells),
           NEW v \in ViewIds, v # ActiveView
    PROVE  Kept(v)
<1>1. \A g \in groupsOf[v] : g # lastGroup + 1 /\ g \in GroupIds
  BY DEF IndInv, TypeOK, IdsIssued
<1> QED
  BY <1>1 DEF IndInv, TypeOK, AddGroup, Kept

LEMMA DeleteRowsElsewhere ==
    ASSUME IndInv, ActiveView # Nil, NEW G \in SUBSET list, DeleteRows(ActiveView, G),
           NEW v \in ViewIds, v # ActiveView
    PROVE  Kept(v)
<1>1. ActiveView \in ViewIds /\ G \subseteq groupsOf[ActiveView]
  BY ActiveViewType DEF IndInv, ListMatchesView
<1>2. G \cap groupsOf[v] = {} /\ groupsOf[v] \subseteq GroupIds
  BY <1>1 DEF IndInv, TypeOK, CellsPartitioned
<1> QED
  BY <1>1, <1>2 DEF IndInv, TypeOK, DeleteRows, DeleteGroups, Kept

LEMMA InsertCellsElsewhere ==
    ASSUME IndInv, NEW C, InsertCells(C), UNCHANGED groupsOf,
           NEW v \in ViewIds, v # ActiveView
    PROVE  Kept(v)
<1>1. CASE ActiveGroup = Nil
  BY <1>1 DEF InsertCells, InsertIntoActiveGroup, Kept
<1>2. CASE ActiveGroup # Nil
  <2>1. ActiveView \in ViewIds /\ ActiveGroup \in groupsOf[ActiveView]
    BY <1>2, ActiveGroupType DEF IndInv
  <2>2. \A g \in groupsOf[v] : g # ActiveGroup /\ g \notin groupsOf[ActiveView]
                               /\ g \in GroupIds
    BY <2>1 DEF IndInv, TypeOK, CellsPartitioned
  <2>3. \A g \in groupsOf[v] : indices'[g] = indices[g]
    BY <1>2, <2>2 DEF IndInv, TypeOK, InsertCells, InsertIntoActiveGroup
  <2>4. indexToGroup'[v] = indexToGroup[v]
    BY <1>2, <2>1 DEF IndInv, TypeOK, InsertCells, InsertIntoActiveGroup
  <2> QED
    BY <2>3, <2>4 DEF Kept
<1> QED
  BY <1>1, <1>2

LEMMA EreaseCellElsewhere ==
    ASSUME IndInv, NEW c \in Cells, EreaseCell(c), UNCHANGED groupsOf,
           NEW v \in ViewIds, v # ActiveView
    PROVE  Kept(v)
<1> DEFINE old == indexToGroup[ActiveView][c]
<1>1. CASE ActiveView = Nil
  BY <1>1 DEF EreaseCell, RemoveFromActiveGroup, Kept
<1>2. CASE ActiveView # Nil /\ old = Nil
  BY <1>2 DEF EreaseCell, RemoveFromActiveGroup, Kept
<1>3. CASE ActiveView # Nil /\ old # Nil
  <2>1. ActiveView \in ViewIds /\ old \in groupsOf[ActiveView]
    BY <1>3, ActiveViewType DEF IndInv, CellsPartitioned
  <2>2. \A g \in groupsOf[v] : g # old /\ g \in GroupIds
    BY <2>1 DEF IndInv, TypeOK, CellsPartitioned
  <2>3. \A g \in groupsOf[v] : indices'[g] = indices[g]
    BY <1>3, <2>2 DEF IndInv, TypeOK, EreaseCell, RemoveFromActiveGroup
  <2>4. indexToGroup'[v] = indexToGroup[v]
    BY <1>3, <2>1 DEF IndInv, TypeOK, EreaseCell, RemoveFromActiveGroup
  <2> QED
    BY <2>3, <2>4 DEF Kept
<1> QED
  BY <1>1, <1>2, <1>3

\* The groups of a deleted view are emptied; those of a view that stays are others.
LEMMA OnDeleteSelectedElsewhere ==
    ASSUME IndInv, NEW S \in SUBSET views, OnDeleteSelected(S),
           NEW v \in views \cap views'
    PROVE  Kept(v)
<1>1. v \in ViewIds /\ v \notin S /\ S \subseteq ViewIds
  BY DEF OnDeleteSelected, IndInv, TypeOK
<1>2. \A g \in groupsOf[v] : g \in GroupIds /\ ~ \E w \in S : g \in groupsOf[w]
  BY <1>1 DEF IndInv, TypeOK, CellsPartitioned
<1> QED
  BY <1>1, <1>2 DEF OnDeleteSelected, Kept

\* Whatever is edited, the views that are not active keep their groups and cells, for
\* any number of views and on any board.
THEOREM EditsStayInView == Spec => OtherViewsUntouched
<1> DEFINE Untouched == \A v \in views \cap views' : v # ActiveView => Kept(v)
<1>1. IndInv /\ [Next]_vars => [Untouched]_vars
  <2> SUFFICES ASSUME IndInv, Next, NEW v \in views \cap views', v # ActiveView
               PROVE  Kept(v)
    BY DEF Kept
  <2>0. v \in ViewIds
    BY DEF IndInv, TypeOK
  <2>1. CASE UNCHANGED <<groupsOf, indexToGroup, indices>>
    BY <2>1 DEF Kept
  <2>2. ASSUME NEW S \in SUBSET views, OnDeleteSelected(S) PROVE Kept(v)
    BY <2>2, OnDeleteSelectedElsewhere
  <2>3. CASE OnAddGroup
    BY <2>0, <2>3, AddGroupElsewhere DEF OnAddGroup
  <2>4. ASSUME NEW g \in list, OnDeleteGroupClick(g) PROVE Kept(v)
    BY <2>0, <2>4, {g} \in SUBSET list, DeleteRowsElsewhere DEF OnDeleteGroupClick
  <2>5. CASE OnDeleteEmptyGroups
    BY <2>0, <2>5, DeleteRowsElsewhere DEF OnDeleteEmptyGroups
  <2>6. ASSUME NEW c \in Cells, UiSelectGridCell(c) PROVE Kept(v)
    BY <2>0, <2>6, InsertCellsElsewhere, EreaseCellElsewhere DEF UiSelectGridCell
  <2>7. CASE Fill
    BY <2>0, <2>7, InsertCellsElsewhere DEF Fill
  <2>8. CASE TileNext
    BY <2>0, <2>1, <2>8, AddGroupElsewhere DEF TileNext
  <2>9. ASSUME \/ OnAddView \/ OnEreaserClick \/ Tile
               \/ \E w \in 0 .. lastView : OnClickItem(w)
               \/ \E g \in list : OnClickedRow(g)
        PROVE  UNCHANGED <<groupsOf, indexToGroup, indices>>
    BY <2>9 DEF OnAddView, OnEreaserClick, SetEreaser, Tile, OnClickItem, OnClickedRow, modelVars
  <2> QED
    BY <2>1, <2>2, <2>3, <2>4, <2>5, <2>6, <2>7, <2>8, <2>9 DEF Next
<1> QED
  BY <1>1, Inductive, PTL DEF Spec, OtherViewsUntouched, Kept

-----------------------------------------------------------------------------
\* The geometry of tile(): flat indices and the plane.

Dirs == {"UP", "RIGHT", "DOWN", "LEFT"}
dX(dir) == Step(dir)[1]
dY(dir) == Step(dir)[2]

\* A flat index is a column and a row.
LEMMA DivMod ==
  ASSUME NEW c \in Int
  PROVE  X(c) \in 0 .. Cols - 1 /\ Y(c) \in Int /\ c = Cell(X(c), Y(c))
BY ColsAssumption DEF X, Y, Cell

LEMMA CellIs ==
  ASSUME NEW x \in 0 .. Cols - 1, NEW y \in Int
  PROVE  Cell(x, y) \in Int /\ X(Cell(x, y)) = x /\ Y(Cell(x, y)) = y
BY ColsAssumption DEF X, Y, Cell

\* It is on the board when its row is.
LEMMA OnBoard ==
  ASSUME NEW c \in Int
  PROVE  c \in Cells <=> Y(c) \in 0 .. Rows - 1
<1>1. X(c) \in 0 .. Cols - 1 /\ Y(c) \in Int /\ c = Y(c) * Cols + X(c)
  BY DivMod DEF Cell
<1> HIDE DEF X, Y
<1>2. ASSUME Y(c) \in 0 .. Rows - 1 PROVE c \in Cells
  <2>1. Y(c) * Cols >= 0 /\ Y(c) * Cols <= (Rows - 1) * Cols
    BY <1>1, <1>2, ColsAssumption, RowsAssumption
  <2> QED  BY <1>1, <2>1, ColsAssumption, RowsAssumption DEF Cells
<1>3. ASSUME Y(c) < 0 PROVE c < 0
  <2>1. Y(c) * Cols <= (-1) * Cols  BY <1>1, <1>3, ColsAssumption
  <2> QED  BY <1>1, <2>1, ColsAssumption
<1>4. ASSUME Y(c) >= Rows PROVE c >= Rows * Cols
  <2>1. Y(c) * Cols >= Rows * Cols  BY <1>1, <1>4, ColsAssumption, RowsAssumption
  <2> QED  BY <1>1, <2>1, ColsAssumption, RowsAssumption
<1> QED  BY <1>1, <1>2, <1>3, <1>4, ColsAssumption, RowsAssumption DEF Cells

Off(dir) == CASE dir = "UP"    -> {c \in Int : c < 0}
              [] dir = "RIGHT" -> {c \in Int : c >= Rows * Cols}
              [] dir = "DOWN"  -> {c \in Int : c >= Rows * Cols}
              [] dir = "LEFT"  -> {c \in Int : c < 0}

\* Where MoveCell leaves an index that is off the board in its direction: off it.
LEMMA OffStays ==
  ASSUME NEW dir \in Dirs, NEW c \in Off(dir)
  PROVE  MoveCell(c, dir) \in Off(dir) /\ c \notin Cells
<1>1. Rows * Cols \in Nat  BY ColsAssumption, RowsAssumption
<1> QED  BY <1>1, ColsAssumption DEF Dirs, Off, MoveCell, Cells

\* A move on the board is a step in the plane; a move over the edge ends off the
\* board, and never on another row.
LEMMA MoveCellIs ==
  ASSUME NEW dir \in Dirs, NEW c \in Cells
  PROVE  LET x == X(c) + dX(dir)
             y == Y(c) + dY(dir)
         IN  IF x \in 0 .. Cols - 1 /\ y \in 0 .. Rows - 1
             THEN MoveCell(c, dir) = Cell(x, y) /\ Cell(x, y) \in Cells
             ELSE MoveCell(c, dir) \in Off(dir)
<1>1. X(c) \in 0 .. Cols - 1 /\ Y(c) \in 0 .. Rows - 1 /\ c = Y(c) * Cols + X(c) /\ c \in Int
  BY DivMod, OnBoard DEF Cell, Cells
<1>2. Rows * Cols \in Nat /\ c >= 0 /\ c < Rows * Cols
  BY ColsAssumption, RowsAssumption DEF Cells
<1>3. X(c) = c % Cols  BY DEF X
<1>4. \A x \in 0 .. Cols - 1, y \in 0 .. Rows - 1 : Cell(x, y) \in Cells
  BY CellIs, OnBoard
<1> HIDE DEF X, Y
<1>5. CASE dir = "UP"
  <2>1. dX(dir) = 0 /\ dY(dir) = -1 /\ MoveCell(c, dir) = c - Cols /\ Off(dir) = {d \in Int : d < 0}
    BY <1>5 DEF dX, dY, Step, MoveCell, Off
  <2>2. CASE Y(c) = 0  BY <1>1, <2>1, <2>2, ColsAssumption
  <2>3. CASE Y(c) # 0
    <3>1. (Y(c) - 1) * Cols = Y(c) * Cols - Cols  BY <1>1, ColsAssumption
    <3>2. c - Cols = Cell(X(c), Y(c) - 1)  BY <1>1, <3>1, ColsAssumption DEF Cell
    <3> QED  BY <1>1, <1>4, <2>1, <2>3, <3>2, RowsAssumption
  <2> QED  BY <2>2, <2>3
<1>6. CASE dir = "DOWN"
  <2>1. dX(dir) = 0 /\ dY(dir) = 1 /\ MoveCell(c, dir) = c + Cols
        /\ Off(dir) = {d \in Int : d >= Rows * Cols}
    BY <1>6 DEF dX, dY, Step, MoveCell, Off
  <2>2. CASE Y(c) = Rows - 1
    <3>1. (Rows - 1) * Cols = Rows * Cols - Cols  BY ColsAssumption, RowsAssumption
    <3> QED  BY <1>1, <2>1, <2>2, <3>1, ColsAssumption, RowsAssumption
  <2>3. CASE Y(c) # Rows - 1
    <3>1. (Y(c) + 1) * Cols = Y(c) * Cols + Cols  BY <1>1, ColsAssumption
    <3>2. c + Cols = Cell(X(c), Y(c) + 1)  BY <1>1, <3>1, ColsAssumption DEF Cell
    <3> QED  BY <1>1, <1>4, <2>1, <2>3, <3>2, RowsAssumption
  <2> QED  BY <2>2, <2>3
<1>7. CASE dir = "LEFT"
  <2>1. dX(dir) = -1 /\ dY(dir) = 0 /\ MoveCell(c, dir) = IF X(c) > 0 THEN c - 1 ELSE -1
    BY <1>2, <1>3, <1>7 DEF dX, dY, Step, MoveCell
  <2>2. -1 \in Off(dir)  BY <1>7 DEF Off
  <2>3. c - 1 = Cell(X(c) - 1, Y(c))  BY <1>1, ColsAssumption DEF Cell
  <2> QED  BY <1>1, <1>4, <2>1, <2>2, <2>3, ColsAssumption
<1>8. CASE dir = "RIGHT"
  <2>1. dX(dir) = 1 /\ dY(dir) = 0
        /\ MoveCell(c, dir) = IF X(c) + 1 = Cols THEN Rows * Cols ELSE c + 1
    BY <1>3, <1>8 DEF dX, dY, Step, MoveCell
  <2>2. Rows * Cols \in Off(dir)  BY <1>2, <1>8 DEF Off
  <2>3. c + 1 = Cell(X(c) + 1, Y(c))  BY <1>1, ColsAssumption DEF Cell
  <2> QED  BY <1>1, <1>4, <2>1, <2>2, <2>3, ColsAssumption
<1> QED  BY <1>5, <1>6, <1>7, <1>8 DEF Dirs

\* The recursive function is unfolded: of the lengths at which it could not be, there
\* is no least.
LEMMA ShiftedIs ==
  ASSUME NEW pattern, NEW dir
  PROVE  LET shift == Shifted(pattern, dir) IN
         /\ shift[0] = pattern
         /\ \A k \in 1 .. MaxShift : shift[k] = MoveFlatCells(shift[k - 1], dir)
<1> DEFINE Shifts(f, n) == /\ DOMAIN f = 0 .. n /\ f = [k \in 0 .. n |-> f[k]]
                           /\ f[0] = pattern
                           /\ \A k \in 1 .. n : f[k] = MoveFlatCells(f[k - 1], dir)
           None == {n \in Nat : ~\E f : Shifts(f, n)}
<1>1. None = {}
  <2> SUFFICES ASSUME None # {} PROVE FALSE  OBVIOUS
  <2>1. PICK n \in None : \A m \in None : n <= m  BY LeastElement
  <2>2. CASE n = 0
    <3>1. Shifts([k \in 0 .. 0 |-> pattern], 0)  OBVIOUS
    <3> QED  BY <2>2, <3>1
  <2>3. CASE n # 0
    <3>0. n \in Nat  BY <2>1
    <3>1. n - 1 \in Nat /\ n - 1 \notin None
      <4>1. n - 1 \in Nat /\ ~(n <= n - 1)  BY <2>3, <3>0
      <4> HIDE DEF None
      <4> QED  BY <2>1, <4>1
    <3>2. PICK f : Shifts(f, n - 1)  BY <3>1
    <3> DEFINE g == [k \in 0 .. n |-> IF k = n THEN MoveFlatCells(f[n - 1], dir) ELSE f[k]]
    <3>3. g[0] = pattern /\ g[n] = MoveFlatCells(g[n - 1], dir)  BY <2>3, <3>1, <3>2
    <3>4. ASSUME NEW k \in 1 .. n, k # n PROVE g[k] = MoveFlatCells(g[k - 1], dir)
      <4>1. k \in 1 .. n - 1 /\ k - 1 \in 0 .. n /\ k \in 0 .. n /\ k - 1 # n  BY <3>1, <3>4
      <4> QED  BY <3>2, <3>4, <4>1
    <3>5. Shifts(g, n)  BY <3>3, <3>4
    <3> QED  BY <3>5
  <2> QED  BY <2>2, <2>3
<1>2. MaxShift \in Nat  BY RowsAssumption, ColsAssumption DEF MaxShift
<1>3. PICK f : Shifts(f, MaxShift)  BY <1>1, <1>2
<1>4. f = [k \in 0 .. MaxShift |-> IF k = 0 THEN pattern ELSE MoveFlatCells(f[k - 1], dir)]
  <2>1. \A k \in 0 .. MaxShift : f[k] = IF k = 0 THEN pattern ELSE MoveFlatCells(f[k - 1], dir)
    <3> TAKE k \in 0 .. MaxShift
    <3>1. CASE k = 0  BY <1>3, <3>1
    <3>2. CASE k # 0
      <4>1. k \in 1 .. MaxShift  BY <1>2, <3>2
      <4> QED  BY <1>3, <3>2, <4>1
    <3> QED  BY <3>1, <3>2
  <2>2. f = [k \in 0 .. MaxShift |-> f[k]]  BY <1>3
  <2> QED  BY <2>1, <2>2
<1> DEFINE shift == Shifted(pattern, dir)
<1>5. shift = [k \in 0 .. MaxShift |-> IF k = 0 THEN pattern
                                       ELSE MoveFlatCells(shift[k - 1], dir)]
  BY <1>4 DEF Shifted
<1> HIDE DEF shift
<1>6. 0 \in 0 .. MaxShift /\ \A k \in 1 .. MaxShift : k \in 0 .. MaxShift /\ k # 0
  BY <1>2
<1>7. shift[0] = pattern  BY <1>5, <1>6
<1>8. \A k \in 1 .. MaxShift : shift[k] = MoveFlatCells(shift[k - 1], dir)  BY <1>5, <1>6
<1> QED  BY <1>7, <1>8 DEF shift

\* A walk that is inside at the next step is inside now.
LEMMA Between ==
  ASSUME NEW n \in Int, NEW x \in 0 .. n, NEW k \in Nat, NEW s \in {-1, 0, 1}
  PROVE  /\ k * s \in Int /\ (k + 1) * s = k * s + s
         /\ x + (k + 1) * s \in 0 .. n => x + k * s \in 0 .. n
<1>1. CASE s = -1  BY <1>1
<1>2. CASE s = 0  BY <1>2
<1>3. CASE s = 1  BY <1>3
<1> QED  BY <1>1, <1>2, <1>3

LEMMA StepIs ==
  ASSUME NEW dir \in Dirs
  PROVE  dX(dir) \in {-1, 0, 1} /\ dY(dir) \in {-1, 0, 1}
BY DEF Dirs, dX, dY, Step

LEMMA TranslateOnBoard ==
  ASSUME NEW pattern \in SUBSET Cells, NEW dx \in Int, NEW dy \in Int
  PROVE  Translate(pattern, dx, dy) \subseteq Cells
<1> SUFFICES ASSUME NEW c \in pattern, X(c) + dx \in 0 .. Cols - 1, Y(c) + dy \in 0 .. Rows - 1
             PROVE  Cell(X(c) + dx, Y(c) + dy) \in Cells
  BY DEF Translate
<1> QED  BY CellIs, OnBoard

\* One pass of moveFlatCells takes a translate to the next one, and what leaves the
\* board off it.
LEMMA MoveTranslate ==
  ASSUME NEW pattern \in SUBSET Cells, NEW dir \in Dirs, NEW k \in Nat
  PROVE  LET now  == Translate(pattern, k * dX(dir), k * dY(dir))
             next == Translate(pattern, (k + 1) * dX(dir), (k + 1) * dY(dir))
         IN  /\ MoveFlatCells(now, dir) \subseteq next \cup Off(dir)
             /\ next \subseteq MoveFlatCells(now, dir)
<1> DEFINE a == k * dX(dir)
           b == k * dY(dir)
           now == Translate(pattern, a, b)
           next == Translate(pattern, (k + 1) * dX(dir), (k + 1) * dY(dir))
<1>1. /\ dX(dir) \in Int /\ dY(dir) \in Int /\ a \in Int /\ b \in Int
      /\ (k + 1) * dX(dir) = a + dX(dir) /\ (k + 1) * dY(dir) = b + dY(dir)
  BY StepIs, Between, ColsAssumption
<1>2. \A c \in pattern : /\ X(c) \in 0 .. Cols - 1 /\ Y(c) \in 0 .. Rows - 1
                         /\ X(c) + (a + dX(dir)) \in 0 .. Cols - 1 => X(c) + a \in 0 .. Cols - 1
                         /\ Y(c) + (b + dY(dir)) \in 0 .. Rows - 1 => Y(c) + b \in 0 .. Rows - 1
  <2> TAKE c \in pattern
  <2>1. X(c) \in 0 .. Cols - 1 /\ Y(c) \in 0 .. Rows - 1
    BY DivMod, OnBoard DEF Cells
  <2> QED  BY <1>1, <2>1, StepIs, Between, ColsAssumption, RowsAssumption
<1> DEFINE to(c) == Cell(X(c) + a, Y(c) + b)
           then(c) == Cell(X(c) + (a + dX(dir)), Y(c) + (b + dY(dir)))
<1>3. next = {then(c) : c \in {d \in pattern : /\ X(d) + (a + dX(dir)) \in 0 .. Cols - 1
                                               /\ Y(d) + (b + dY(dir)) \in 0 .. Rows - 1}}
  BY <1>1 DEF Translate
<1>4. now = {to(c) : c \in {d \in pattern : X(d) + a \in 0 .. Cols - 1 /\ Y(d) + b \in 0 .. Rows - 1}}
  BY DEF Translate
<1> HIDE DEF a, b, now, next
<1>5. ASSUME NEW c \in pattern, X(c) + a \in 0 .. Cols - 1, Y(c) + b \in 0 .. Rows - 1
      PROVE  /\ to(c) \in Cells
             /\ IF X(c) + (a + dX(dir)) \in 0 .. Cols - 1 /\ Y(c) + (b + dY(dir)) \in 0 .. Rows - 1
                THEN MoveCell(to(c), dir) = then(c)
                ELSE MoveCell(to(c), dir) \in Off(dir)
  <2>1. /\ X(to(c)) = X(c) + a /\ Y(to(c)) = Y(c) + b /\ to(c) \in Int
    BY <1>5, CellIs
  <2>2. to(c) \in Cells  BY <1>5, <2>1, OnBoard
  <2>3. /\ X(c) + a + dX(dir) = X(c) + (a + dX(dir)) /\ Y(c) + b + dY(dir) = Y(c) + (b + dY(dir))
    BY <1>1, <1>2
  <2> HIDE DEF to
  <2> QED  BY <2>1, <2>2, <2>3, MoveCellIs
<1>6. MoveFlatCells(now, dir) \subseteq next \cup Off(dir)
  <2> SUFFICES ASSUME NEW c \in pattern, X(c) + a \in 0 .. Cols - 1, Y(c) + b \in 0 .. Rows - 1
               PROVE  MoveCell(to(c), dir) \in next \cup Off(dir)
    BY <1>4 DEF MoveFlatCells
  <2> HIDE DEF to, then
  <2> QED  BY <1>3, <1>5
<1>7. next \subseteq MoveFlatCells(now, dir)
  <2> SUFFICES ASSUME NEW c \in pattern, X(c) + (a + dX(dir)) \in 0 .. Cols - 1,
                      Y(c) + (b + dY(dir)) \in 0 .. Rows - 1
               PROVE  then(c) \in MoveFlatCells(now, dir)
    BY <1>3
  <2>1. X(c) + a \in 0 .. Cols - 1 /\ Y(c) + b \in 0 .. Rows - 1  BY <1>2
  <2> HIDE DEF to, then
  <2>2. to(c) \in now /\ MoveCell(to(c), dir) = then(c)  BY <1>4, <1>5, <2>1
  <2> QED  BY <2>2 DEF MoveFlatCells
<1> QED  BY <1>6, <1>7 DEF now, next, a, b

\* A translate by nothing is the pattern.
LEMMA TranslateNowhere ==
  ASSUME NEW pattern \in SUBSET Cells
  PROVE  Translate(pattern, 0, 0) = pattern
<1>1. \A c \in pattern : X(c) + 0 \in 0 .. Cols - 1 /\ Y(c) + 0 \in 0 .. Rows - 1
                         /\ Cell(X(c) + 0, Y(c) + 0) = c
  <2> TAKE c \in pattern
  <2>1. X(c) \in 0 .. Cols - 1 /\ Y(c) \in 0 .. Rows - 1 /\ Cell(X(c), Y(c)) = c
    BY DivMod, OnBoard DEF Cells
  <2>2. X(c) + 0 = X(c) /\ Y(c) + 0 = Y(c)
    BY <2>1, ColsAssumption, RowsAssumption
  <2> QED
    BY <2>1, <2>2
<1> QED
  BY <1>1 DEF Translate

\* Shifting the flat indices k times is the translate by k places: what wraps or leaves
\* the board stays off it.
LEMMA ShiftIsTranslate ==
  ASSUME NEW pattern \in SUBSET Cells, NEW dir \in Dirs, NEW k \in 0 .. MaxShift
  PROVE  Shifted(pattern, dir)[k] \cap Cells = Translate(pattern, k * dX(dir), k * dY(dir))
<1> DEFINE shift == Shifted(pattern, dir)
           at(j) == Translate(pattern, j * dX(dir), j * dY(dir))
           Is(j) == shift[j] \subseteq at(j) \cup Off(dir) /\ at(j) \subseteq shift[j]
           Not == {j \in 0 .. MaxShift : ~Is(j)}
<1>0. MaxShift \in Nat  BY RowsAssumption, ColsAssumption DEF MaxShift
<1>1. shift[0] = pattern /\ \A j \in 1 .. MaxShift : shift[j] = MoveFlatCells(shift[j - 1], dir)
  BY ShiftedIs
<1>2. Is(0)
  <2>1. 0 * dX(dir) = 0 /\ 0 * dY(dir) = 0  BY StepIs
  <2> QED  BY <1>1, <2>1, TranslateNowhere
<1> HIDE DEF shift, at
<1>3. Not = {}
  <2> SUFFICES ASSUME Not # {} PROVE FALSE  OBVIOUS
  <2>1. PICK j \in Not : \A m \in Not : j <= m  
    <3>1. Not \in SUBSET Nat  BY <1>0
    <3> QED  BY <3>1, LeastElement
  <2>2. j \in 1 .. MaxShift /\ j - 1 \in 0 .. MaxShift /\ j - 1 \in Nat /\ Is(j - 1) /\ ~Is(j)
    <3>1. j \in 0 .. MaxShift /\ ~Is(j) /\ j # 0  BY <1>2
    <3>2. j - 1 \in 0 .. MaxShift /\ j \in 1 .. MaxShift  BY <1>0, <3>1
    <3>3. j - 1 \notin Not  BY <2>1, <3>2
    <3> QED  BY <3>1, <3>2, <3>3
  <2>3. shift[j] = MoveFlatCells(shift[j - 1], dir)  BY <1>1, <2>2
  <2>4. (j - 1) + 1 = j  BY <2>2
  <2>5. /\ MoveFlatCells(at(j - 1), dir) \subseteq at(j) \cup Off(dir)
        /\ at(j) \subseteq MoveFlatCells(at(j - 1), dir)
    BY <2>2, <2>4, MoveTranslate DEF at
  <2>6. \A c \in Off(dir) : MoveCell(c, dir) \in Off(dir)  BY OffStays
  <2>7. MoveFlatCells(shift[j - 1], dir) \subseteq MoveFlatCells(at(j - 1), dir) \cup Off(dir)
    BY <2>2, <2>6 DEF MoveFlatCells
  <2>8. MoveFlatCells(at(j - 1), dir) \subseteq MoveFlatCells(shift[j - 1], dir)
    BY <2>2 DEF MoveFlatCells
  <2> QED  BY <2>2, <2>3, <2>5, <2>7, <2>8
<1>4. Is(k)  BY <1>3
<1>5. at(k) \subseteq Cells
  <2>1. k \in Nat  BY <1>0
  <2>2. k * dX(dir) \in Int /\ k * dY(dir) \in Int  BY <2>1, StepIs
  <2> QED  BY <2>2, TranslateOnBoard DEF at
<1>6. Off(dir) \cap Cells = {}  BY OffStays
<1> QED  BY <1>4, <1>5, <1>6 DEF at, shift

LEMMA BoardIsInt == Rows * Cols \in Nat /\ Rows <= Rows * Cols /\ Cols <= Rows * Cols
BY RowsAssumption, ColsAssumption

\* A pattern shifted as far as the board is long has left it.
LEMMA ShiftEnds ==
  ASSUME NEW pattern \in SUBSET Cells, NEW dir \in Dirs
  PROVE  \E k \in 1 .. MaxShift : k \in 1 .. Rows + Cols /\
            Translate(pattern, k * dX(dir), k * dY(dir)) = {}
<1> DEFINE k == IF dX(dir) = 0 THEN Rows ELSE Cols
<1>1. k \in 1 .. MaxShift /\ k \in 1 .. Rows + Cols
  BY BoardIsInt, RowsAssumption, ColsAssumption DEF MaxShift
<1>2. (dX(dir) = 0 /\ dY(dir) \in {-1, 1}) \/ dX(dir) \in {-1, 1}
  BY DEF Dirs, dX, dY, Step
<1>3. ASSUME NEW c \in pattern
      PROVE  ~(X(c) + k * dX(dir) \in 0 .. Cols - 1 /\ Y(c) + k * dY(dir) \in 0 .. Rows - 1)
  <2>1. X(c) \in 0 .. Cols - 1 /\ Y(c) \in 0 .. Rows - 1
    BY DivMod, OnBoard DEF Cells
  <2> HIDE DEF X, Y
  <2> QED
    BY <1>2, <2>1, RowsAssumption, ColsAssumption
<1> QED
  BY <1>1, <1>3 DEF Translate

\* The search of tileFindSpot stops, at the nearest free translate.
LEMMA SpotIsNearest ==
  ASSUME NEW pattern \in SUBSET Cells, NEW total \in SUBSET Cells, NEW dir \in Dirs
  PROVE  LET at(k) == Translate(pattern, k * dX(dir), k * dY(dir)) IN
         /\ TileFindSpot(pattern, total, dir) = NearestSpot(pattern, total, dir)
         /\ \E k \in 1 .. Rows + Cols :
               /\ TileFindSpot(pattern, total, dir) = at(k)
               /\ at(k) \cap total = {} /\ \A j \in 1 .. k - 1 : at(j) \cap total # {}
<1> DEFINE at(k) == Translate(pattern, k * dX(dir), k * dY(dir))
           shift == Shifted(pattern, dir)
           Nearest(k) == at(k) \cap total = {} /\ \A j \in 1 .. k - 1 : at(j) \cap total # {}
           Stops(k) == /\ ~TileIntersects(total, shift[k])
                       /\ \A j \in 1 .. k - 1 : TileIntersects(total, shift[j])
<1>0. MaxShift \in Nat /\ Rows + Cols \in Nat
  BY BoardIsInt, RowsAssumption, ColsAssumption DEF MaxShift
<1>1. \A k \in 1 .. MaxShift : shift[k] \cap Cells = at(k)
  BY <1>0, ShiftIsTranslate
<1>2. PICK last \in 1 .. MaxShift : last \in 1 .. Rows + Cols /\ at(last) = {}
  BY ShiftEnds
<1> HIDE DEF shift, at
<1>3. \A k \in 1 .. MaxShift : TileIntersects(total, shift[k]) <=> at(k) \cap total # {}
  BY <1>1 DEF TileIntersects
<1> DEFINE Free == {k \in 1 .. MaxShift : at(k) \cap total = {}}
<1>4. last \in Free /\ Free \in SUBSET Nat
  BY <1>2
<1>5. PICK n \in Free : \A k \in Free : n <= k
  BY <1>4, LeastElement
<1>6. n \in 1 .. MaxShift /\ n \in 1 .. Rows + Cols /\ Nearest(n)
  <2>1. n <= last
    BY <1>4, <1>5
  <2>2. \A j \in 1 .. n - 1 : j \in 1 .. MaxShift /\ j \notin Free
    BY <1>0, <1>4, <1>5
  <2> QED
    BY <1>0, <1>2, <1>5, <2>1, <2>2
<1>7. ASSUME NEW k \in Nat \ {0}, Nearest(k) PROVE k = n
  <2>1. ~(k < n)
    BY <1>6, <1>7
  <2>2. ~(n < k)
    BY <1>6, <1>7
  <2> QED
    BY <1>6, <2>1, <2>2
<1>8. \A k \in 1 .. MaxShift : Stops(k) <=> Nearest(k)
  <2> TAKE k \in 1 .. MaxShift
  <2>1. \A j \in 1 .. k - 1 : j \in 1 .. MaxShift
    BY <1>0
  <2> QED
    BY <1>3, <2>1
<1> HIDE DEF Nearest, Stops
<1>9. (CHOOSE k \in 1 .. Rows + Cols : Nearest(k)) = n
  BY <1>0, <1>6, <1>7
<1>10. (CHOOSE k \in 1 .. MaxShift : Stops(k)) = n
  BY <1>0, <1>6, <1>7, <1>8
<1>11. NearestSpot(pattern, total, dir) = at(n)
  BY <1>9 DEF NearestSpot, at, Nearest, dX, dY
<1>12. TileFindSpot(pattern, total, dir) = shift[n] \cap Cells
  BY <1>10 DEF TileFindSpot, shift, Stops
<1> QED
  BY <1>1, <1>6, <1>11, <1>12 DEF at, Nearest

\* A translate that is not empty moves by less than the board.
LEMMA TranslateInRange ==
  ASSUME NEW pattern \in SUBSET Cells, NEW dx \in Int, NEW dy \in Int,
         Translate(pattern, dx, dy) # {}
  PROVE  dx \in 1 - Cols .. Cols - 1 /\ dy \in 1 - Rows .. Rows - 1
<1>1. PICK c \in pattern : X(c) + dx \in 0 .. Cols - 1 /\ Y(c) + dy \in 0 .. Rows - 1
  BY DEF Translate
<1>2. X(c) \in 0 .. Cols - 1 /\ Y(c) \in 0 .. Rows - 1
  BY DivMod, OnBoard DEF Cells
<1> HIDE DEF X, Y
<1> QED
  BY <1>1, <1>2, RowsAssumption, ColsAssumption

\* What a translate of a part of a translate has is in one translate of the whole.
LEMMA TranslateTwice ==
  ASSUME NEW pattern \in SUBSET Cells, NEW a \in Int, NEW b \in Int,
         NEW dx \in Int, NEW dy \in Int, NEW part \in SUBSET Translate(pattern, a, b)
  PROVE  Translate(part, dx, dy) \subseteq Translate(pattern, a + dx, b + dy)
<1> SUFFICES ASSUME NEW e \in part, X(e) + dx \in 0 .. Cols - 1, Y(e) + dy \in 0 .. Rows - 1
             PROVE  Cell(X(e) + dx, Y(e) + dy) \in Translate(pattern, a + dx, b + dy)
  BY DEF Translate
<1>1. PICK c \in pattern : /\ X(c) + a \in 0 .. Cols - 1 /\ Y(c) + b \in 0 .. Rows - 1
                           /\ e = Cell(X(c) + a, Y(c) + b)
  BY DEF Translate
<1>2. X(e) = X(c) + a /\ Y(e) = Y(c) + b
  BY <1>1, CellIs
<1>3. X(c) \in Int /\ Y(c) \in Int
  BY DivMod, ColsAssumption DEF Cells
<1>4. X(e) + dx = X(c) + (a + dx) /\ Y(e) + dy = Y(c) + (b + dy)
  BY <1>2, <1>3
<1> QED
  BY <1>4 DEF Translate

\* A spot of a copy of the shape is a copy.
LEMMA SpotOfCopy ==
  ASSUME NEW shape \in SUBSET Cells, NEW total \in SUBSET Cells, NEW dir \in Dirs,
         NEW dx \in Int, NEW dy \in Int, NEW part \in SUBSET Translate(shape, dx, dy),
         TileFindSpot(part, total, dir) # {}
  PROVE  \E a \in 1 - Cols .. Cols - 1, b \in 1 - Rows .. Rows - 1 :
            TileFindSpot(part, total, dir) \subseteq Translate(shape, a, b)
<1>1. part \in SUBSET Cells
  BY TranslateOnBoard
<1>2. PICK k \in 1 .. Rows + Cols :
        TileFindSpot(part, total, dir) = Translate(part, k * dX(dir), k * dY(dir))
  BY <1>1, SpotIsNearest
<1>3. k * dX(dir) \in Int /\ k * dY(dir) \in Int
  <2>1. k \in Int
    OBVIOUS
  <2> QED
    BY <2>1, StepIs
<1> DEFINE a == dx + k * dX(dir)
           b == dy + k * dY(dir)
<1>4. a \in Int /\ b \in Int
  BY <1>3
<1>5. TileFindSpot(part, total, dir) \subseteq Translate(shape, a, b)
  BY <1>2, <1>3, TranslateTwice
<1> HIDE DEF a, b
<1>6. Translate(shape, a, b) # {}
  BY <1>5
<1> QED
  BY <1>4, <1>5, <1>6, TranslateInRange

\* The queue after a round of pushes holds what it held, and spots.
LEMMA PushSpotsIn ==
  ASSUME NEW S, NEW q \in Seq(S), NEW pattern, NEW total,
         \A dir \in Dirs : \/ TileFindSpot(pattern, total, dir) = {}
                           \/ TileFindSpot(pattern, total, dir) \in S
  PROVE  PushSpots(q, pattern, total) \in Seq(S)
<1> DEFINE spot(i) == TileFindSpot(pattern, total, Directions[i])
           q1 == PushSpot(q, spot(1))
           q2 == PushSpot(q1, spot(2))
           q3 == PushSpot(q2, spot(3))
<1>1. \A i \in 1 .. 4 : spot(i) = {} \/ spot(i) \in S
  <2>1. \A i \in 1 .. 4 : Directions[i] \in Dirs
    BY DEF Directions, Dirs
  <2> QED
    BY <2>1
<1>2. \A p \in Seq(S) : \A i \in 1 .. 4 : PushSpot(p, spot(i)) \in Seq(S)
  <2> TAKE p \in Seq(S), i \in 1 .. 4
  <2> HIDE DEF spot
  <2> QED
    BY <1>1 DEF PushSpot
<1> HIDE DEF spot
<1>3. q1 \in Seq(S)
  BY <1>2
<1>4. q2 \in Seq(S)
  BY <1>2, <1>3
<1>5. q3 \in Seq(S)
  BY <1>2, <1>4
<1>6. PushSpot(q3, spot(4)) \in Seq(S)
  BY <1>2, <1>5
<1> QED
  BY <1>6 DEF PushSpots, spot

-----------------------------------------------------------------------------
\* The states that tile() starts from are consistent.
LEMMA TilingInitInd == TilingInit => IndInv
<1> SUFFICES ASSUME TilingInit PROVE IndInv
    OBVIOUS
<1>1. PICK shape \in (SUBSET Cells) \ {{}}, obstacles \in SUBSET Cells :
        /\ 1 \in ViewIds /\ {1, 2} \subseteq GroupIds
        /\ shape \cap obstacles = {}
        /\ lastView = 1 /\ lastGroup = 2
        /\ activeViewId = 1 /\ activeGroupId = 1
        /\ erasing = FALSE
        /\ views = {1}
        /\ groupsOf = [v \in ViewIds |-> IF v = 1 THEN {1, 2} ELSE {}]
        /\ indices = [g \in GroupIds |-> IF g = 1 THEN shape
                                         ELSE IF g = 2 THEN obstacles ELSE {}]
        /\ indexToGroup = [v \in ViewIds |->
                             [c \in Cells |-> IF v = 1 /\ c \in shape THEN 1
                                              ELSE IF v = 1 /\ c \in obstacles THEN 2
                                              ELSE Nil]]
        /\ painted = indexToGroup[1]
        /\ highlighted = shape
        /\ selectedCell = NoCell
        /\ queue = << >>
        /\ clickedOnView = TRUE
        /\ list = {1, 2} /\ clickedRow = 1
        /\ toolErasing = FALSE
  BY DEF TilingInit
<1>2. ActiveView = 1 /\ ActiveGroup = 1 /\ groupsOf[1] = {1, 2}
  BY <1>1 DEF ActiveView, ActiveGroup
<1>3. TypeOK
  <2>1. /\ groupsOf \in [ViewIds -> SUBSET GroupIds]
        /\ indices \in [GroupIds -> SUBSET Cells]
    BY <1>1
  <2>2. indexToGroup \in [ViewIds -> [Cells -> GroupIds \cup {Nil}]]
    BY <1>1
  <2>3. painted \in [Cells -> GroupIds \cup {Nil}]
    BY <1>1, <2>2
  <2>4. queue \in Seq((SUBSET Cells) \ {{}})
    BY <1>1
  <2>5. highlighted \in SUBSET Cells
    BY <1>1
  <2>6. /\ lastView \in 0 .. MaxViews /\ lastGroup \in 0 .. MaxGroups
        /\ activeViewId \in ViewIds /\ activeGroupId \in GroupIds
        /\ views \in SUBSET ViewIds /\ list \in SUBSET GroupIds
        /\ clickedRow \in 0 .. MaxGroups
    BY <1>1
  <2>7. /\ erasing \in BOOLEAN /\ toolErasing \in BOOLEAN /\ clickedOnView \in BOOLEAN
        /\ selectedCell \in Cells \cup {NoCell}
    BY <1>1
  <2> QED
    BY <2>1, <2>2, <2>3, <2>4, <2>5, <2>6, <2>7 DEF TypeOK
<1>4. IdsIssued /\ TilingInView /\ LitEraserErases
  BY <1>1 DEF IdsIssued, TilingInView, LitEraserErases
<1>5. CellsPartitioned
  <2>1. \A c \in Cells : indexToGroup[1][c] =
           IF c \in shape THEN 1 ELSE IF c \in obstacles THEN 2 ELSE Nil
    BY <1>1
  <2>2. indices[1] = shape /\ indices[2] = obstacles
    BY <1>1
  <2>3. \A v \in ViewIds : v # 1 => groupsOf[v] = {} /\ \A c \in Cells : indexToGroup[v][c] = Nil
    BY <1>1
  <2>4. \A v \in ViewIds : \A g \in groupsOf[v] :
           indices[g] = {c \in Cells : indexToGroup[v][c] = g}
    BY <1>1, <1>2, <2>1, <2>2, <2>3
  <2>5. \A v \in ViewIds : \A c \in Cells : indexToGroup[v][c] \in groupsOf[v] \cup {Nil}
    BY <1>2, <2>1, <2>3
  <2> QED
    BY <2>3, <2>4, <2>5 DEF CellsPartitioned
<1>6. ListFollowsView /\ ListMatchesView /\ ActiveGroupLives
  BY <1>1, <1>2 DEF ListFollowsView, ListMatchesView, ActiveGroupLives
<1>7. PaintMatchesModel /\ NoStaleHighlight
  BY <1>1, <1>2 DEF PaintMatchesModel, NoStaleHighlight
<1> QED
  BY <1>3, <1>4, <1>5, <1>6, <1>7 DEF IndInv

LEMMA TilingInitTiles == TilingInit => TilesInv
<1> SUFFICES ASSUME TilingInit PROVE TilesInv
    OBVIOUS
<1>1. IndInv
  BY TilingInitInd
<1>2. ActiveView = 1 /\ ActiveGroup = 1 /\ groupsOf[1] = {1, 2} /\ lastGroup = 2
      /\ queue = << >>
  BY DEF TilingInit, ActiveView, ActiveGroup
<1>3. QueueHasCopies
  BY <1>2 DEF QueueHasCopies
<1>4. TilesAreCopies
  <2>1. indices[1] \in SUBSET Cells
    BY <1>1, <1>2, ActiveGroupType DEF IndInv, TypeOK
  <2>2. indices[1] \subseteq Translate(indices[1], 0, 0)
    BY <2>1, TranslateNowhere
  <2>3. 0 \in 1 - Cols .. Cols - 1 /\ 0 \in 1 - Rows .. Rows - 1
    BY ColsAssumption, RowsAssumption
  <2> QED
    BY <1>2, <2>2, <2>3 DEF TilesAreCopies
<1> QED
  BY <1>1, <1>3, <1>4 DEF TilesInv

\* A copy's spots are copies: what tile() pushes, for the shape or for a tile.
LEMMA PushedAreCopies ==
  ASSUME IndInv, ActiveGroup = 1, NEW q \in Seq(Copies), NEW total \in SUBSET Cells,
         NEW part \in SUBSET Cells,
         part = indices[1] \/ part \in Copies
  PROVE  PushSpots(q, part, total) \in Seq(Copies)
<1>1. indices[1] \in SUBSET Cells
  BY ActiveGroupType DEF IndInv, TypeOK
<1>2. PICK dx \in Int, dy \in Int : part \subseteq Translate(indices[1], dx, dy)
  <2>1. CASE part = indices[1]
    BY <1>1, <2>1, TranslateNowhere
  <2>2. CASE part \in Copies
    BY <2>2, ColsAssumption, RowsAssumption DEF Copies
  <2> QED
    BY <2>1, <2>2
<1>3. \A dir \in Dirs : \/ TileFindSpot(part, total, dir) = {}
                        \/ TileFindSpot(part, total, dir) \in Copies
  <2> SUFFICES ASSUME NEW dir \in Dirs, TileFindSpot(part, total, dir) # {}
               PROVE  TileFindSpot(part, total, dir) \in Copies
    OBVIOUS
  <2>1. \E a \in 1 - Cols .. Cols - 1, b \in 1 - Rows .. Rows - 1 :
           TileFindSpot(part, total, dir) \subseteq Translate(indices[1], a, b)
    <3>1. part \in SUBSET Translate(indices[1], dx, dy)
      BY <1>2
    <3>2. \A shape \in SUBSET Cells : \A p \in SUBSET Translate(shape, dx, dy) :
             TileFindSpot(p, total, dir) # {} =>
                \E a \in 1 - Cols .. Cols - 1, b \in 1 - Rows .. Rows - 1 :
                   TileFindSpot(p, total, dir) \subseteq Translate(shape, a, b)
      BY SpotOfCopy
    <3> HIDE DEF Dirs
    <3> QED
      BY <1>1, <3>1, <3>2, Zenon
  <2>2. TileFindSpot(part, total, dir) \in SUBSET Cells
    BY TileFindSpotType
  <2> QED
    BY <2>1, <2>2 DEF Copies
<1> QED
  BY <1>3, PushSpotsIn

LEMMA TilingStepTiles == TilesInv /\ [TilingNext]_vars => TilesInv'
<1> SUFFICES ASSUME TilesInv, [TilingNext]_vars PROVE TilesInv'
    OBVIOUS
<1> USE DEF TilesInv
<1>0. /\ ActiveView = 1 /\ ActiveGroup = 1 /\ lastGroup \in Nat /\ lastGroup >= 2
      /\ queue \in Seq(Copies)
      /\ 1 \in ViewIds /\ 1 \in GroupIds /\ 1 \in groupsOf[1]
      /\ indices[1] \in SUBSET Cells
  BY ActiveGroupType DEF QueueHasCopies, IndInv, TypeOK
<1>1. IndInv'
  BY TileInd, TileNextInd, StutterInd DEF TilingNext
<1>2. CASE UNCHANGED vars
  BY <1>1, <1>2 DEF vars, serviceVars, modelVars, pageVars, listVars, QueueHasCopies,
     TilesAreCopies, Copies, ActiveView, ActiveGroup
<1>3. CASE Tile
  <2>1. UNCHANGED <<activeViewId, activeGroupId, lastGroup, views, groupsOf, indices>>
        /\ queue' = PushSpots(<< >>, indices[1], Taken(1))
    BY <1>0, <1>3 DEF Tile, serviceVars, modelVars
  <2>2. Copies' = Copies /\ ActiveView' = ActiveView /\ ActiveGroup' = ActiveGroup
    BY <2>1 DEF Copies, ActiveView, ActiveGroup
  <2>3. << >> \in Seq(Copies) /\ Taken(1) \in SUBSET Cells
    BY DEF Taken
  <2>4. queue' \in Seq(Copies)
    BY <1>0, <2>1, <2>3, PushedAreCopies
  <2>5. TilesAreCopies'
    BY <2>1 DEF TilesAreCopies
  <2> QED
    BY <1>0, <1>1, <2>1, <2>2, <2>4, <2>5 DEF QueueHasCopies
<1>4. CASE TileNext
  <2>1. PICK i \in NextSpots(queue) :
          /\ \/ /\ TileIntersects(Taken(1), queue[i])
                /\ queue' = RemoveAt(queue, i)
                /\ UNCHANGED <<lastGroup, groupsOf, indices>>
             \/ /\ ~TileIntersects(Taken(1), queue[i])
                /\ AddGroup(1, queue[i])
                /\ queue' = PushSpots(RemoveAt(queue, i), queue[i], Taken(1) \cup queue[i])
          /\ UNCHANGED <<activeViewId, activeGroupId, views>>
    BY <1>0, <1>4 DEF TileNext
  <2>2. /\ i \in DOMAIN queue /\ queue[i] \in Copies /\ queue[i] \in (SUBSET Cells) \ {{}}
        /\ queue # << >>
    BY <1>0 DEF NextSpots, Copies
  <2>3. RemoveAt(queue, i) \in Seq(Copies)
    BY <1>0, <2>2, RemoveAtType
  <2>4. CASE UNCHANGED <<lastGroup, groupsOf, indices>> /\ queue' = RemoveAt(queue, i)
    <3>1. Copies' = Copies /\ ActiveView' = ActiveView /\ ActiveGroup' = ActiveGroup
      BY <2>1, <2>4 DEF Copies, ActiveView, ActiveGroup
    <3>2. TilesAreCopies'
      BY <2>4 DEF TilesAreCopies
    <3> QED
      BY <1>0, <1>1, <2>3, <2>4, <3>1, <3>2 DEF QueueHasCopies
  <2>5. CASE /\ ~TileIntersects(Taken(1), queue[i])
             /\ AddGroup(1, queue[i])
             /\ queue' = PushSpots(RemoveAt(queue, i), queue[i], Taken(1) \cup queue[i])
    <3>1. queue[i] \cap Taken(1) = {}
      BY <2>5 DEF TileIntersects
    <3>2. lastGroup < MaxGroups
      BY <1>0, <2>2, <3>1, IdForTile
    <3>3. /\ groupsOf[1] \subseteq groupsOf'[1]
          /\ \A g \in groupsOf[1] : indices'[g] = indices[g]
      BY <1>0, <2>2, <2>5, <3>1, <3>2, AddGroupKeeps
    <3>4. /\ groupsOf'[1] = groupsOf[1] \cup {lastGroup + 1}
          /\ indices'[lastGroup + 1] = queue[i] /\ lastGroup' = lastGroup + 1
      BY <1>0, <2>5, <3>2 DEF AddGroup, IndInv, TypeOK
    <3>5. Copies' = Copies /\ ActiveView' = ActiveView /\ ActiveGroup' = ActiveGroup
      BY <1>0, <2>1, <3>3 DEF Copies, ActiveView, ActiveGroup
    <3>6. Taken(1) \cup queue[i] \in SUBSET Cells
      BY <2>2 DEF Taken
    <3>7. queue' \in Seq(Copies)
      BY <1>0, <2>2, <2>3, <2>5, <3>6, PushedAreCopies
    <3>8. TilesAreCopies'
      <4>1. \E dx \in 1 - Cols .. Cols - 1, dy \in 1 - Rows .. Rows - 1 :
               queue[i] \subseteq Translate(indices[1], dx, dy)
        BY <2>2 DEF Copies
      <4> QED
        BY <1>0, <3>3, <3>4, <4>1 DEF TilesAreCopies
    <3> QED
      BY <1>0, <1>1, <3>4, <3>5, <3>7, <3>8 DEF QueueHasCopies
  <2> QED
    BY <2>1, <2>4, <2>5
<1> QED
  BY <1>2, <1>3, <1>4 DEF TilingNext

\* In every such state the search finds the nearest free translate.
LEMMA SpotsFound == TilesInv => SpotsAreTranslates
<1> SUFFICES ASSUME TilesInv, NEW g \in groupsOf[1], NEW i \in DOMAIN Directions
             PROVE  TileFindSpot(indices[g], Taken(1), Directions[i])
                       = NearestSpot(indices[g], Taken(1), Directions[i])
  BY DEF SpotsAreTranslates
<1>1. indices[g] \in SUBSET Cells
  BY ActiveGroupType DEF TilesInv, QueueHasCopies, IndInv, TypeOK
<1>2. Taken(1) \in SUBSET Cells
  BY DEF Taken
<1>3. Directions[i] \in Dirs
  BY DEF Directions, Dirs
<1>4. \A p \in SUBSET Cells, t \in SUBSET Cells, dir \in Dirs :
         TileFindSpot(p, t, dir) = NearestSpot(p, t, dir)
  <2> TAKE p \in SUBSET Cells, t \in SUBSET Cells, dir \in Dirs
  <2> QED
    BY SpotIsNearest
<1> QED
  BY <1>1, <1>2, <1>3, <1>4

\* On a board of any size, with any shape and any obstacles, the flat index
\* arithmetic of moveFlatCells is the movement in the plane, and every tile is a
\* clipped copy of the shape.
THEOREM ShapesMove == TilingSpec => []ShapesMoveWhole
<1>1. TilesInv => ShapesMoveWhole
  BY SpotsFound DEF ShapesMoveWhole, TilesInv
<1> QED
  BY <1>1, TilingInitTiles, TilingStepTiles, PTL DEF TilingSpec

-----------------------------------------------------------------------------
\* A shape of one cell.

LEMMA DirsAre == ToSet(Directions) = Dirs
<1>1. DOMAIN Directions = 1 .. 4
  BY DEF Directions
<1>2. ToSet(Directions) = {Directions[i] : i \in 1 .. 4}
  BY <1>1 DEF ToSet
<1>3. Directions[1] = "UP" /\ Directions[2] = "RIGHT" /\ Directions[3] = "DOWN"
      /\ Directions[4] = "LEFT"
  BY DEF Directions
<1> QED
  BY <1>2, <1>3 DEF Dirs

LEMMA SpotIs ==
  ASSUME NEW c \in Cells, NEW dir \in Dirs, NEW k \in Nat
  PROVE  LET x == X(c) + k * dX(dir)
             y == Y(c) + k * dY(dir)
         IN  IF x \in 0 .. Cols - 1 /\ y \in 0 .. Rows - 1
             THEN Cell(x, y) \in Cells /\ Spot(c, dir, k) = {Cell(x, y)}
             ELSE Spot(c, dir, k) = {}
<1>1. Spot(c, dir, k) = Translate({c}, k * dX(dir), k * dY(dir))
  BY DEF Spot, dX, dY
<1>2. \A x \in 0 .. Cols - 1, y \in 0 .. Rows - 1 : Cell(x, y) \in Cells
  BY CellIs, OnBoard
<1> QED
  BY <1>1, <1>2 DEF Translate

\* From a cell of a line the line goes on.
LEMMA SpotBeyond ==
  ASSUME NEW c \in Cells, NEW dir \in Dirs, NEW k \in Nat, NEW j \in Nat,
         NEW d \in Spot(c, dir, k)
  PROVE  /\ d \in Cells /\ Spot(c, dir, k) = {d}
         /\ Spot(d, dir, j) = Spot(c, dir, k + j)
<1> DEFINE x == X(c) + k * dX(dir)
           y == Y(c) + k * dY(dir)
<1>1. /\ x \in 0 .. Cols - 1 /\ y \in 0 .. Rows - 1
      /\ d = Cell(x, y) /\ d \in Cells /\ Spot(c, dir, k) = {d}
  BY SpotIs
<1>2. X(d) = x /\ Y(d) = y
  BY <1>1, CellIs
<1>3. x + j * dX(dir) = X(c) + (k + j) * dX(dir) /\ y + j * dY(dir) = Y(c) + (k + j) * dY(dir)
  <2>1. X(c) \in Int /\ Y(c) \in Int
    BY DivMod, ColsAssumption DEF Cells
  <2> HIDE DEF X, Y
  <2> QED
    BY <2>1, StepIs
<1>4. k + j \in Nat
  OBVIOUS
<1> HIDE DEF x, y
<1>5. Spot(d, dir, j) = IF x + j * dX(dir) \in 0 .. Cols - 1 /\ y + j * dY(dir) \in 0 .. Rows - 1
                        THEN {Cell(x + j * dX(dir), y + j * dY(dir))} ELSE {}
  BY <1>1, <1>2, SpotIs
<1>6. Spot(c, dir, k + j) = IF x + j * dX(dir) \in 0 .. Cols - 1 /\ y + j * dY(dir) \in 0 .. Rows - 1
                            THEN {Cell(x + j * dX(dir), y + j * dY(dir))} ELSE {}
  BY <1>3, <1>4, SpotIs
<1> QED
  BY <1>1, <1>5, <1>6

\* A line does not come back, and has no gaps.
LEMMA SpotApart ==
  ASSUME NEW c \in Cells, NEW dir \in Dirs, NEW k \in Nat \ {0}
  PROVE  c \notin Spot(c, dir, k)
<1> SUFFICES ASSUME c \in Spot(c, dir, k) PROVE FALSE
  OBVIOUS
<1>1. /\ X(c) + k * dX(dir) \in 0 .. Cols - 1 /\ Y(c) + k * dY(dir) \in 0 .. Rows - 1
      /\ c = Cell(X(c) + k * dX(dir), Y(c) + k * dY(dir))
  BY SpotIs
<1>2. X(c) = X(c) + k * dX(dir) /\ Y(c) = Y(c) + k * dY(dir)
  BY <1>1, CellIs
<1>3. X(c) \in Int /\ Y(c) \in Int
  BY DivMod, ColsAssumption DEF Cells
<1>4. (dX(dir) = 0 /\ dY(dir) \in {-1, 1}) \/ dX(dir) \in {-1, 1}
  BY DEF Dirs, dX, dY, Step
<1> HIDE DEF X, Y
<1> QED
  BY <1>2, <1>3, <1>4

LEMMA NoGaps ==
  ASSUME NEW c \in Cells, NEW dir \in Dirs, NEW k \in Nat, Spot(c, dir, k) # {},
         NEW j \in 0 .. k
  PROVE  Spot(c, dir, j) # {}
<1>1. /\ X(c) + k * dX(dir) \in 0 .. Cols - 1 /\ Y(c) + k * dY(dir) \in 0 .. Rows - 1
  BY SpotIs
<1>2. X(c) \in 0 .. Cols - 1 /\ Y(c) \in 0 .. Rows - 1
  BY DivMod, OnBoard DEF Cells
<1>3. ASSUME NEW n \in Int, NEW x \in 0 .. n, NEW s \in {-1, 0, 1}, x + k * s \in 0 .. n
      PROVE  x + j * s \in 0 .. n
  <2>1. CASE s = -1
    BY <1>3, <2>1
  <2>2. CASE s = 0
    BY <1>3, <2>2
  <2>3. CASE s = 1
    BY <1>3, <2>3
  <2> QED
    BY <2>1, <2>2, <2>3
<1>4. X(c) + j * dX(dir) \in 0 .. Cols - 1 /\ Y(c) + j * dY(dir) \in 0 .. Rows - 1
  BY <1>1, <1>2, <1>3, StepIs, RowsAssumption, ColsAssumption
<1>5. j \in Nat
  OBVIOUS
<1> QED
  BY <1>4, <1>5, SpotIs

\* Two cells of a row or of a column are in line.
LEMMA InLine ==
  ASSUME NEW c \in Cells, NEW d \in Cells, c # d, X(c) = X(d) \/ Y(c) = Y(d)
  PROVE  \E dir \in Dirs, k \in 1 .. Rows + Cols : d \in Spot(c, dir, k)
<1>1. /\ X(c) \in 0 .. Cols - 1 /\ Y(c) \in 0 .. Rows - 1 /\ c = Cell(X(c), Y(c))
      /\ X(d) \in 0 .. Cols - 1 /\ Y(d) \in 0 .. Rows - 1 /\ d = Cell(X(d), Y(d))
  BY DivMod, OnBoard DEF Cells
<1>2. ASSUME NEW dir \in Dirs, NEW k \in 1 .. Rows + Cols,
             X(d) = X(c) + k * dX(dir), Y(d) = Y(c) + k * dY(dir)
      PROVE  d \in Spot(c, dir, k)
  <2>1. k \in Nat
    OBVIOUS
  <2> QED
    BY <1>1, <1>2, <2>1, SpotIs
<1>3. /\ "UP" \in Dirs /\ dX("UP") = 0 /\ dY("UP") = -1
      /\ "RIGHT" \in Dirs /\ dX("RIGHT") = 1 /\ dY("RIGHT") = 0
      /\ "DOWN" \in Dirs /\ dX("DOWN") = 0 /\ dY("DOWN") = 1
      /\ "LEFT" \in Dirs /\ dX("LEFT") = -1 /\ dY("LEFT") = 0
  BY DEF Dirs, dX, dY, Step
<1> HIDE DEF X, Y
<1>4. CASE X(c) = X(d) /\ Y(d) < Y(c)
  <2> DEFINE k == Y(c) - Y(d)
  <2>1. /\ k \in 1 .. Rows + Cols
        /\ X(d) = X(c) + k * dX("UP") /\ Y(d) = Y(c) + k * dY("UP")
    BY <1>1, <1>3, <1>4, RowsAssumption, ColsAssumption
  <2> QED
    BY <1>2, <1>3, <2>1
<1>5. CASE X(c) = X(d) /\ Y(d) > Y(c)
  <2> DEFINE k == Y(d) - Y(c)
  <2>1. /\ k \in 1 .. Rows + Cols
        /\ X(d) = X(c) + k * dX("DOWN") /\ Y(d) = Y(c) + k * dY("DOWN")
    BY <1>1, <1>3, <1>5, RowsAssumption, ColsAssumption
  <2> QED
    BY <1>2, <1>3, <2>1
<1>6. CASE Y(c) = Y(d) /\ X(d) < X(c)
  <2> DEFINE k == X(c) - X(d)
  <2>1. /\ k \in 1 .. Rows + Cols
        /\ X(d) = X(c) + k * dX("LEFT") /\ Y(d) = Y(c) + k * dY("LEFT")
    BY <1>1, <1>3, <1>6, RowsAssumption, ColsAssumption
  <2> QED
    BY <1>2, <1>3, <2>1
<1>7. CASE Y(c) = Y(d) /\ X(d) > X(c)
  <2> DEFINE k == X(d) - X(c)
  <2>1. /\ k \in 1 .. Rows + Cols
        /\ X(d) = X(c) + k * dX("RIGHT") /\ Y(d) = Y(c) + k * dY("RIGHT")
    BY <1>1, <1>3, <1>7, RowsAssumption, ColsAssumption
  <2> QED
    BY <1>2, <1>3, <2>1
<1> QED
  BY <1>1, <1>4, <1>5, <1>6, <1>7, RowsAssumption, ColsAssumption

\* tileFindSpot finds a free cell in line if there is one, and not behind it.
LEMMA NearestAwaited ==
  ASSUME NEW c \in Cells, NEW total \in SUBSET Cells, NEW dir \in Dirs,
         NEW k \in 1 .. Rows + Cols, Spot(c, dir, k) \ total # {}
  PROVE  /\ TileFindSpot({c}, total, dir) # {}
         /\ \E j \in 1 .. k : TileFindSpot({c}, total, dir) = Spot(c, dir, j)
<1>1. \A j : Spot(c, dir, j) = Translate({c}, j * dX(dir), j * dY(dir))
  BY DEF Spot, dX, dY
<1>2. PICK n \in 1 .. Rows + Cols :
        /\ TileFindSpot({c}, total, dir) = Spot(c, dir, n)
        /\ \A j \in 1 .. n - 1 : Spot(c, dir, j) \cap total # {}
  BY <1>1, SpotIsNearest
<1>3. Spot(c, dir, k) \cap total = {}
  <2>1. PICK d : d \in Spot(c, dir, k) /\ d \notin total
    OBVIOUS
  <2>2. k \in Nat
    OBVIOUS
  <2> QED
    BY <2>1, <2>2, SpotBeyond, 0 \in Nat
<1>4. n \in 1 .. k
  <2>1. ~(k < n)
    BY <1>2, <1>3
  <2> QED
    BY <2>1, RowsAssumption, ColsAssumption
<1>5. Spot(c, dir, n) # {}
  <2>1. k \in Nat /\ n \in 0 .. k
    BY <1>4
  <2> QED
    BY <2>1, NoGaps
<1> QED
  BY <1>2, <1>4, <1>5

\* The spots of a single cell are single free cells.
LEMMA FoundIsCell ==
  ASSUME NEW c \in Cells, NEW total \in SUBSET Cells, NEW dir \in Dirs,
         TileFindSpot({c}, total, dir) # {}
  PROVE  \E e \in Cells \ total : TileFindSpot({c}, total, dir) = {e}
<1>1. \A j : Spot(c, dir, j) = Translate({c}, j * dX(dir), j * dY(dir))
  BY DEF Spot, dX, dY
<1>2. PICK n \in 1 .. Rows + Cols :
        /\ TileFindSpot({c}, total, dir) = Spot(c, dir, n)
        /\ Spot(c, dir, n) \cap total = {}
  BY <1>1, SpotIsNearest
<1>3. PICK e : e \in Spot(c, dir, n)
  BY <1>2
<1>4. n \in Nat /\ 0 \in Nat
  BY RowsAssumption, ColsAssumption
<1>5. e \in Cells /\ Spot(c, dir, n) = {e}
  BY <1>3, <1>4, SpotBeyond
<1> QED
  BY <1>2, <1>5

\* What is in the queue after a round of pushes, and after a pop.
LEMMA PushedIs ==
  ASSUME NEW S, NEW q \in Seq(S), NEW spot
  PROVE  /\ PushSpot(q, spot) \in Seq(S \cup {spot})
         /\ ToSet(PushSpot(q, spot)) = ToSet(q) \cup ({spot} \ {{}})
<1>1. q \in Seq(S \cup {spot})
  BY SeqOfMore
<1>2. CASE spot = {}
  BY <1>1, <1>2 DEF PushSpot
<1>3. CASE spot # {}
  <2>1. PushSpot(q, spot) = Append(q, spot)
    BY <1>3 DEF PushSpot
  <2>2. Append(q, spot) \in Seq(S \cup {spot})
    BY <1>1
  <2>3. /\ DOMAIN Append(q, spot) = 1 .. Len(q) + 1 /\ DOMAIN q = 1 .. Len(q) /\ Len(q) \in Nat
        /\ Append(q, spot)[Len(q) + 1] = spot
        /\ \A i \in 1 .. Len(q) : Append(q, spot)[i] = q[i]
    OBVIOUS
  <2>4. ToSet(Append(q, spot)) = ToSet(q) \cup {spot}
    BY <2>3 DEF ToSet
  <2> QED
    BY <1>3, <2>1, <2>2, <2>4
<1> QED
  BY <1>2, <1>3

LEMMA AllPushedAre ==
  ASSUME NEW S, NEW q \in Seq(S), NEW pattern, NEW total
  PROVE  LET pushed == ToSet(PushSpots(q, pattern, total)) IN
         /\ ToSet(q) \subseteq pushed
         /\ \A dir \in Dirs : \/ TileFindSpot(pattern, total, dir) = {}
                             \/ TileFindSpot(pattern, total, dir) \in pushed
         /\ \A T : /\ ToSet(q) \subseteq T
                   /\ \A dir \in Dirs : \/ TileFindSpot(pattern, total, dir) = {}
                                       \/ TileFindSpot(pattern, total, dir) \in T
                   => pushed \subseteq T
<1> DEFINE spot(i) == TileFindSpot(pattern, total, Directions[i])
           q1 == PushSpot(q, spot(1))
           q2 == PushSpot(q1, spot(2))
           q3 == PushSpot(q2, spot(3))
           q4 == PushSpot(q3, spot(4))
           All == (SUBSET Cells) \cup S
<1>1. \A i : spot(i) \in All
  BY TileFindSpotType
<1>2. \A T : (\A dir \in Dirs : \/ TileFindSpot(pattern, total, dir) = {}
                                \/ TileFindSpot(pattern, total, dir) \in T)
                <=> \A i \in 1 .. 4 : spot(i) = {} \/ spot(i) \in T
  BY DEF Dirs, Directions
<1>3. PushSpots(q, pattern, total) = q4
  BY DEF PushSpots
<1> HIDE DEF spot, All
<1>4. \A p \in Seq(All) : \A i \in 1 .. 4 :
         /\ PushSpot(p, spot(i)) \in Seq(All)
         /\ ToSet(PushSpot(p, spot(i))) = ToSet(p) \cup ({spot(i)} \ {{}})
  <2> TAKE p \in Seq(All), i \in 1 .. 4
  <2>1. All \cup {spot(i)} = All
    BY <1>1
  <2> QED
    BY <2>1, PushedIs
<1>5. q \in Seq(All)
  <2>1. S \subseteq All
    BY DEF All
  <2> QED
    BY <2>1, SeqOfMore
<1>6. q1 \in Seq(All) /\ ToSet(q1) = ToSet(q) \cup ({spot(1)} \ {{}})
  BY <1>4, <1>5
<1>7. q2 \in Seq(All) /\ ToSet(q2) = ToSet(q1) \cup ({spot(2)} \ {{}})
  BY <1>4, <1>6
<1>8. q3 \in Seq(All) /\ ToSet(q3) = ToSet(q2) \cup ({spot(3)} \ {{}})
  BY <1>4, <1>7
<1>9. ToSet(q4) = ToSet(q3) \cup ({spot(4)} \ {{}})
  BY <1>4, <1>8
<1> HIDE DEF q1, q2, q3, q4
<1>10. ToSet(q4) = ToSet(q) \cup ({spot(1), spot(2), spot(3), spot(4)} \ {{}})
  BY <1>6, <1>7, <1>8, <1>9
<1>11. \A i \in 1 .. 4 : spot(i) = {} \/ spot(i) \in ToSet(q4)
  BY <1>10
<1>12. \A T : ToSet(q) \subseteq T /\ (\A i \in 1 .. 4 : spot(i) = {} \/ spot(i) \in T)
              => ToSet(q4) \subseteq T
  BY <1>10
<1> QED
  BY <1>2, <1>3, <1>10, <1>11, <1>12

\* What a round of pushes does for a tile of one cell.
LEMMA PushedForCell ==
  ASSUME NEW S, NEW q \in Seq(S), NEW cell \in Cells, NEW total \in SUBSET Cells,
         NEW p, p = PushSpots(q, {cell}, total)
  PROVE  /\ ToSet(q) \subseteq ToSet(p)
         /\ ToSet(p) \subseteq ToSet(q) \cup OneCell(Cells \ total)
         /\ Awaited(cell, total, ToSet(p))
<1> DEFINE tile == {cell}
           pushed == ToSet(PushSpots(q, tile, total))
<1>1. ASSUME NEW dir \in Dirs, TileFindSpot(tile, total, dir) # {}
      PROVE  \E e \in Cells \ total : TileFindSpot(tile, total, dir) = {e}
  BY <1>1, FoundIsCell
<1>2. ASSUME NEW dir \in Dirs, NEW k \in 1 .. Rows + Cols, Spot(cell, dir, k) \ total # {}
      PROVE  /\ TileFindSpot(tile, total, dir) # {}
             /\ \E j \in 1 .. k : TileFindSpot(tile, total, dir) = Spot(cell, dir, j)
  BY <1>2, NearestAwaited
<1> HIDE DEF tile
<1> DEFINE T == ToSet(q) \cup OneCell(Cells \ total)
<1>3. \A dir \in Dirs : TileFindSpot(tile, total, dir) = {} \/ TileFindSpot(tile, total, dir) \in T
  BY <1>1 DEF OneCell
<1>4. ToSet(q) \subseteq T
  OBVIOUS
<1> HIDE DEF T
<1>5. /\ ToSet(q) \subseteq pushed /\ pushed \subseteq T
      /\ \A dir \in Dirs : \/ TileFindSpot(tile, total, dir) = {}
                          \/ TileFindSpot(tile, total, dir) \in pushed
  BY <1>3, <1>4, AllPushedAre
<1> HIDE DEF pushed
<1>6. pushed \subseteq ToSet(q) \cup OneCell(Cells \ total)
  BY <1>5 DEF T
<1>7. ASSUME NEW dir \in Dirs, NEW k \in 1 .. Rows + Cols, Spot(cell, dir, k) \ total # {}
      PROVE  \E j \in 1 .. k : Spot(cell, dir, j) \in pushed
  BY <1>2, <1>5, <1>7
<1>8. Awaited(cell, total, pushed)
  BY <1>7, DirsAre DEF Awaited
<1> QED
  BY <1>5, <1>6, <1>8 DEF pushed, tile

LEMMA PopLeaves ==
  ASSUME NEW S, NEW q \in Seq(S), NEW i \in DOMAIN q
  PROVE  /\ ToSet(RemoveAt(q, i)) \subseteq ToSet(q)
         /\ ToSet(q) \subseteq ToSet(RemoveAt(q, i)) \cup {q[i]}
<1> DEFINE rest == RemoveAt(q, i)
<1>1. /\ Len(q) \in Nat /\ DOMAIN q = 1 .. Len(q) /\ i \in 1 .. Len(q)
  OBVIOUS
<1>2. /\ DOMAIN rest = 1 .. Len(q) - 1
      /\ \A j \in 1 .. Len(q) - 1 : rest[j] = IF j < i THEN q[j] ELSE q[j + 1]
  BY <1>1, RemoveAtIs
<1> HIDE DEF rest
<1>3. ASSUME NEW j \in 1 .. Len(q) - 1 PROVE rest[j] \in ToSet(q)
  BY <1>1, <1>2 DEF ToSet
<1>4. ASSUME NEW j \in 1 .. Len(q), j # i PROVE q[j] \in ToSet(rest)
  <2>1. CASE j < i
    <3>1. j \in 1 .. Len(q) - 1
      BY <1>1, <2>1
    <3> QED
      BY <1>2, <2>1, <3>1 DEF ToSet
  <2>2. CASE j > i
    <3>1. j - 1 \in 1 .. Len(q) - 1 /\ ~(j - 1 < i) /\ (j - 1) + 1 = j
      BY <1>1, <2>2
    <3> QED
      BY <1>2, <3>1 DEF ToSet
  <2> QED
    BY <1>1, <1>4, <2>1, <2>2
<1> QED
  BY <1>1, <1>2, <1>3, <1>4 DEF ToSet, rest

-----------------------------------------------------------------------------
\* A taken cell that is no obstacle is a cell of a tile.
LEMMA TakenIsLaid ==
  ASSUME IndInv, 1 \in ViewIds
  PROVE  /\ Laid \subseteq Taken(1)
         /\ Taken(1) \subseteq Laid \cup indices[2]
         /\ 2 \in groupsOf[1] => indices[2] \subseteq Taken(1)
<1>1. \A g \in groupsOf[1] : g # Nil /\ indices[g] = {c \in Cells : indexToGroup[1][c] = g}
  BY DEF IndInv, TypeOK, CellsPartitioned
<1>2. \A c \in Cells : indexToGroup[1][c] \in groupsOf[1] \cup {Nil}
  BY DEF IndInv, CellsPartitioned
<1>3. \A c : c \in Laid <=> \E g \in groupsOf[1] : g # 2 /\ c \in indices[g]
  BY DEF Laid
<1>4. Laid \subseteq Taken(1)
  BY <1>1, <1>3 DEF Taken
<1>5. Taken(1) \subseteq Laid \cup indices[2]
  <2> SUFFICES ASSUME NEW c \in Cells, indexToGroup[1][c] # Nil, c \notin indices[2]
               PROVE  c \in Laid
    BY DEF Taken
  <2>1. indexToGroup[1][c] \in groupsOf[1] /\ c \in indices[indexToGroup[1][c]]
    BY <1>1, <1>2
  <2> QED
    BY <1>3, <2>1
<1>6. 2 \in groupsOf[1] => indices[2] \subseteq Taken(1)
  BY <1>1 DEF Taken
<1> QED
  BY <1>4, <1>5, <1>6

\* The groups that the board starts with keep their cells.
LEMMA ShapeStays ==
  ASSUME TilesInv, TilingNext, NEW g \in groupsOf[1]
  PROVE  g \in groupsOf'[1] /\ indices'[g] = indices[g]
<1>1. /\ ActiveView = 1 /\ IndInv /\ 1 \in ViewIds
  BY ActiveViewType DEF TilesInv, QueueHasCopies, IndInv
<1>2. CASE UNCHANGED <<groupsOf, indices>>
  BY <1>2
<1>3. ASSUME NEW i \in NextSpots(queue), AddGroup(1, queue[i]),
             ~TileIntersects(Taken(1), queue[i])
      PROVE  g \in groupsOf'[1] /\ indices'[g] = indices[g]
  <2>1. queue # << >> /\ queue[i] \in (SUBSET Cells) \ {{}} /\ queue[i] \cap Taken(1) = {}
    BY <1>1, <1>3 DEF NextSpots, IndInv, TypeOK, TileIntersects
  <2>2. lastGroup < MaxGroups
    BY <1>1, <2>1, IdForTile
  <2> QED
    BY <1>1, <1>3, <2>1, <2>2, AddGroupKeeps
<1> QED
  BY <1>1, <1>2, <1>3 DEF TilingNext, Tile, TileNext, modelVars

\* The free cells beyond a tile c, when the search from every tile that is popped has
\* been made: the cell that answers the search is between.
LEMMA BeyondSpot ==
  ASSUME NEW c \in Cells, NEW dir \in Dirs, NEW k \in 1 .. Rows + Cols,
         NEW j \in 1 .. k, j # k, NEW e \in Spot(c, dir, j)
  PROVE  /\ e \in Cells /\ k - j \in 1 .. Rows + Cols
         /\ Spot(e, dir, k - j) = Spot(c, dir, k)
         /\ \A n \in 1 .. k - j : /\ Spot(e, dir, n) = Spot(c, dir, j + n)
                                  /\ j + n \in 1 .. k
                                  /\ e \notin Spot(e, dir, n)
<1>1. k \in Nat /\ j \in Nat /\ k - j \in 1 .. Rows + Cols /\ k - j \in Nat /\ j + (k - j) = k
  BY RowsAssumption, ColsAssumption
<1>2. e \in Cells
  BY <1>1, SpotBeyond, 0 \in Nat
<1>3. \A n \in Nat : Spot(e, dir, n) = Spot(c, dir, j + n)
  BY <1>1, SpotBeyond
<1>4. \A n \in 1 .. k - j : n \in Nat \ {0} /\ j + n \in 1 .. k
  BY <1>1
<1>5. \A n \in 1 .. k - j : e \notin Spot(e, dir, n)
  BY <1>2, <1>4, SpotApart
<1>6. Spot(e, dir, k - j) = Spot(c, dir, k)
  BY <1>1, <1>3
<1> QED
  BY <1>1, <1>2, <1>3, <1>4, <1>5, <1>6

LEMMA TilingStepLines ==
  ASSUME TilesInv, LinesInv, TilingNext, Cardinality(indices[1]) = 1
  PROVE  QueueHasCells' /\ FreeCellsAwaited' /\ 2 \in groupsOf'[1]
<1>0. /\ ActiveView = 1 /\ ActiveGroup = 1 /\ lastGroup \in Nat /\ lastGroup >= 2
      /\ queue \in Seq((SUBSET Cells) \ {{}})
      /\ IndInv /\ 1 \in ViewIds /\ 1 \in GroupIds /\ 1 \in groupsOf[1] /\ 2 \in groupsOf[1]
      /\ indices[1] \in SUBSET Cells
  BY ActiveGroupType DEF TilesInv, LinesInv, QueueHasCopies, IndInv, TypeOK
<1>1. PICK cell \in Cells : indices[1] = {cell}
  <2>1. IsFiniteSet(indices[1])
    BY <1>0, CellsFinite, FS_Subset
  <2>2. \E c : indices[1] = {c}
    BY <2>1, FS_Singleton
  <2> QED
    BY <1>0, <2>2
<1>2. /\ Laid \subseteq Taken(1) /\ Taken(1) \subseteq Laid \cup indices[2]
      /\ indices[2] \subseteq Taken(1) /\ Taken(1) \in SUBSET Cells
  BY <1>0, TakenIsLaid DEF Taken
<1>3. CASE lastGroup = 2 /\ Tile
  <2>1. /\ UNCHANGED <<groupsOf, indices, indexToGroup>>
        /\ queue' = PushSpots(<< >>, {cell}, Taken(1))
    BY <1>0, <1>1, <1>3 DEF Tile, modelVars
  <2>2. Laid' = Laid /\ Taken(1)' = Taken(1)
    BY <2>1 DEF Laid, Taken
  <2>3. /\ ToSet(queue') \subseteq OneCell(Cells \ Taken(1))
        /\ Awaited(cell, Taken(1), ToSet(queue'))
    <3> DEFINE none == << >>
               taken == Taken(1)
    <3>1. none \in Seq(SUBSET Cells) /\ ToSet(none) = {}
      BY DEF ToSet
    <3>2. taken \in SUBSET Cells /\ queue' = PushSpots(none, {cell}, taken)
      BY <1>2, <2>1
    <3> HIDE DEF none, taken
    <3>3. /\ ToSet(queue') \subseteq ToSet(none) \cup OneCell(Cells \ taken)
          /\ Awaited(cell, taken, ToSet(queue'))
      BY <3>1, <3>2, PushedForCell
    <3> QED
      BY <3>1, <3>3 DEF taken
  <2>4. Laid = {cell}
    <3>1. \A g \in groupsOf[1] : g <= 2 /\ g \in Nat /\ g # 0
      BY <1>0, <1>3 DEF IndInv, IdsIssued, TypeOK
    <3>2. groupsOf[1] \ {2} = {1}
      BY <1>0, <3>1
    <3> QED
      BY <1>1, <3>2 DEF Laid
  <2>5. QueueHasCells'
    BY <1>2, <2>1, <2>3 DEF QueueHasCells, OneCell
  <2>6. FreeCellsAwaited'
    BY <2>2, <2>3, <2>4 DEF FreeCellsAwaited
  <2> QED
    BY <1>0, <2>1, <2>5, <2>6
<1>4. CASE TileNext
  <2>1. PICK i \in NextSpots(queue) :
          \/ /\ TileIntersects(Taken(1), queue[i])
             /\ queue' = RemoveAt(queue, i)
             /\ UNCHANGED <<groupsOf, indices, indexToGroup>>
          \/ /\ ~TileIntersects(Taken(1), queue[i])
             /\ AddGroup(1, queue[i])
             /\ queue' = PushSpots(RemoveAt(queue, i), queue[i], Taken(1) \cup queue[i])
    BY <1>0, <1>4 DEF TileNext
  <2>2. i \in DOMAIN queue /\ queue # << >> /\ queue[i] \in ToSet(queue)
    BY <1>0 DEF NextSpots, ToSet
  <2>3. QueueHasCells /\ FreeCellsAwaited
    BY <2>2 DEF LinesInv
  <2>4. PICK e \in Cells \ indices[2] : queue[i] = {e}
    BY <2>2, <2>3 DEF QueueHasCells, OneCell
  <2> DEFINE rest == RemoveAt(queue, i)
  <2>5. /\ rest \in Seq((SUBSET Cells) \ {{}})
        /\ ToSet(rest) \subseteq ToSet(queue) /\ ToSet(queue) \subseteq ToSet(rest) \cup {{e}}
    BY <1>0, <2>2, <2>4, RemoveAtType, PopLeaves
  <2> HIDE DEF rest
  <2>6. ASSUME NEW c \in Laid, NEW dir \in Dirs, NEW k \in 1 .. Rows + Cols,
               Spot(c, dir, k) \ Taken(1) # {}
        PROVE  \E j \in 1 .. k : Spot(c, dir, j) \in ToSet(rest) \/ Spot(c, dir, j) = {e}
    BY <2>3, <2>5, <2>6, DirsAre DEF FreeCellsAwaited, Awaited
  <2>7. CASE e \in Taken(1)
    <3>1. queue' = rest /\ UNCHANGED <<groupsOf, indices, indexToGroup>>
      BY <2>1, <2>4, <2>7 DEF TileIntersects, rest
    <3>2. Laid' = Laid /\ Taken(1)' = Taken(1) /\ e \in Laid
      BY <1>2, <2>4, <2>7, <3>1 DEF Laid, Taken
    <3>3. QueueHasCells'
      BY <2>3, <2>5, <3>1 DEF QueueHasCells
    <3>4. FreeCellsAwaited'
      <4> SUFFICES ASSUME NEW c \in Laid, NEW dir \in Dirs, NEW k \in 1 .. Rows + Cols,
                          Spot(c, dir, k) \ Taken(1) # {}
                   PROVE  \E j \in 1 .. k : Spot(c, dir, j) \in ToSet(rest)
        BY <3>1, <3>2, DirsAre DEF FreeCellsAwaited, Awaited
      <4>1. PICK j \in 1 .. k : Spot(c, dir, j) \in ToSet(rest) \/ Spot(c, dir, j) = {e}
        BY <2>6
      <4>2. CASE Spot(c, dir, j) = {e}
        <5>1. /\ k - j \in 1 .. Rows + Cols
              /\ Spot(e, dir, k - j) = Spot(c, dir, k)
              /\ \A n \in 1 .. k - j : /\ Spot(e, dir, n) = Spot(c, dir, j + n)
                                       /\ j + n \in 1 .. k
                                       /\ e \notin Spot(e, dir, n)
          <6>1. c \in Cells /\ j # k /\ e \in Spot(c, dir, j)
            BY <1>2, <2>7, <4>2
          <6> QED
            BY <6>1, BeyondSpot
        <5>2. \E n \in 1 .. k - j : Spot(e, dir, n) \in ToSet(rest) \/ Spot(e, dir, n) = {e}
          BY <2>6, <3>2, <5>1
        <5> QED
          BY <5>1, <5>2
      <4> QED
        BY <4>1, <4>2
    <3> QED
      BY <1>0, <3>1, <3>3, <3>4
  <2>8. CASE e \notin Taken(1)
    <3> DEFINE taken == Taken(1) \cup {e}
    <3>1. AddGroup(1, {e}) /\ queue' = PushSpots(rest, {e}, taken)
      BY <2>1, <2>4, <2>8 DEF TileIntersects, rest
    <3>2. lastGroup < MaxGroups
      <4>1. {e} \in (SUBSET Cells) \ {{}} /\ {e} \cap Taken(ActiveView) = {}
        BY <1>0, <2>8
      <4> QED
        BY <1>0, <2>2, <4>1, IdForTile
    <3>3. /\ groupsOf[1] \subseteq groupsOf'[1]
          /\ \A g \in groupsOf[1] : indices'[g] = indices[g]
      BY <1>4, ShapeStays DEF TilingNext
    <3>4. /\ groupsOf'[1] = groupsOf[1] \cup {lastGroup + 1} /\ lastGroup + 1 # 2
          /\ indices'[lastGroup + 1] = {e}
      BY <1>0, <3>1, <3>2 DEF AddGroup, IndInv, TypeOK
    <3>5. Laid' = Laid \cup {e} /\ indices'[2] = indices[2]
      BY <1>0, <3>3, <3>4 DEF Laid
    <3>6. Taken(1)' = taken
      <4>1. indexToGroup'[1] =
              [c \in Cells |-> IF c \in {e} THEN lastGroup + 1 ELSE indexToGroup[1][c]]
        BY <1>0, <3>1 DEF AddGroup, IndInv, TypeOK
      <4> QED
        BY <1>0, <4>1 DEF Taken
    <3>8. taken \in SUBSET Cells
      BY <1>2
    <3> HIDE DEF taken
    <3>7. /\ ToSet(rest) \subseteq ToSet(queue')
          /\ ToSet(queue') \subseteq ToSet(rest) \cup OneCell(Cells \ taken)
          /\ Awaited(e, taken, ToSet(queue'))
      BY <2>5, <3>1, <3>8, PushedForCell
    <3>9. QueueHasCells'
      BY <1>2, <2>3, <2>5, <3>5, <3>7 DEF QueueHasCells, OneCell, taken
    <3>10. FreeCellsAwaited'
      <4>2. ASSUME NEW c \in Laid, NEW dir \in Dirs, NEW k \in 1 .. Rows + Cols,
                   Spot(c, dir, k) \ taken # {}
            PROVE  \E n \in 1 .. k : Spot(c, dir, n) \in ToSet(queue')
        <5>1. PICK j \in 1 .. k : Spot(c, dir, j) \in ToSet(rest) \/ Spot(c, dir, j) = {e}
          <6>1. Spot(c, dir, k) \ Taken(1) # {}
            BY <4>2 DEF taken
          <6> QED
            BY <2>6, <6>1
        <5>2. CASE Spot(c, dir, j) = {e}
          <6>1. c \in Cells /\ j # k /\ e \in Spot(c, dir, j)
            BY <1>2, <4>2, <5>2 DEF taken
          <6>2. /\ k - j \in 1 .. Rows + Cols
                /\ Spot(e, dir, k - j) = Spot(c, dir, k)
                /\ \A n \in 1 .. k - j : Spot(e, dir, n) = Spot(c, dir, j + n)
                                         /\ j + n \in 1 .. k
            BY <6>1, BeyondSpot
          <6>3. \E n \in 1 .. k - j : Spot(e, dir, n) \in ToSet(queue')
            BY <3>7, <4>2, <6>2, DirsAre DEF Awaited
          <6> QED
            BY <6>2, <6>3
        <5> QED
          BY <3>7, <5>1, <5>2
      <4> QED
        BY <3>5, <3>6, <3>7, <4>2, DirsAre DEF FreeCellsAwaited, Awaited
    <3> QED
      BY <1>0, <3>3, <3>9, <3>10
  <2> QED
    BY <2>7, <2>8
<1> QED
  BY <1>3, <1>4 DEF TilingNext

LEMMA LinesStep == TilesInv /\ LinesInv /\ [TilingNext]_vars => LinesInv'
<1> SUFFICES ASSUME TilesInv, LinesInv, [TilingNext]_vars PROVE LinesInv'
    OBVIOUS
<1>1. CASE UNCHANGED vars
  BY <1>1 DEF vars, serviceVars, modelVars, LinesInv, QueueHasCells, FreeCellsAwaited,
     Laid, Taken
<1>2. CASE TilingNext
  <2>1. IndInv /\ 1 \in groupsOf[1] /\ 1 \in ViewIds /\ 2 \in groupsOf[1]
        /\ ActiveView = 1 /\ ActiveGroup = 1
    BY ActiveGroupType DEF TilesInv, LinesInv, QueueHasCopies, IndInv
  <2>2. indices'[1] = indices[1] /\ 2 \in groupsOf'[1]
    BY <1>2, <2>1, ShapeStays
  <2>3. CASE Cardinality(indices[1]) = 1
    BY <1>2, <2>2, <2>3, TilingStepLines DEF LinesInv
  <2>4. CASE Cardinality(indices[1]) # 1
    BY <2>2, <2>4 DEF LinesInv
  <2> QED
    BY <2>3, <2>4
<1> QED
  BY <1>1, <1>2

\* When a shape of one cell has been tiled, no free cell is left in line with a tile,
\* on a board of any size and with any obstacles.
THEOREM LinesAreFilled == TilingSpec => LinesFill
<1> DEFINE Fills ==
      Cardinality(indices[1]) = 1 /\ queue' = << >> =>
         \A g \in groupsOf'[1] \ {2} : \A c \in indices'[g] : \A d \in Cells :
            X(c) = X(d) \/ Y(c) = Y(d) => indexToGroup'[1][d] # Nil
<1>0. IndInv' /\ 1 \in ViewIds => Laid' \subseteq Taken(1)'
  <2>1. IndInv /\ 1 \in ViewIds => Laid \subseteq Taken(1)
    BY TakenIsLaid
  <2>2. (IndInv /\ 1 \in ViewIds => Laid \subseteq Taken(1))'
    BY <2>1, PTL
  <2> QED
    BY <2>2
<1>1. TilesInv /\ LinesInv /\ [TilingNext]_vars => TilesInv' /\ LinesInv'
  BY TilingStepTiles, LinesStep
<1>2. TilingInit => TilesInv /\ LinesInv
  <2>1. TilingInit => queue = << >> /\ 2 \in groupsOf[1]
    BY DEF TilingInit
  <2> QED
    BY <2>1, TilingInitTiles DEF LinesInv
<1>3. TilesInv /\ LinesInv /\ [TilingNext]_vars => [Fills]_vars
  <2> SUFFICES ASSUME TilesInv, LinesInv, TilingNext, Cardinality(indices[1]) = 1,
                      queue' = << >>,
                      NEW g \in groupsOf'[1] \ {2}, NEW c \in indices'[g], NEW d \in Cells,
                      X(c) = X(d) \/ Y(c) = Y(d)
               PROVE  indexToGroup'[1][d] # Nil
    OBVIOUS
  <2>1. TilesInv' /\ FreeCellsAwaited'
    BY TilingStepTiles, TilingStepLines
  <2>2. IndInv' /\ 1 \in ViewIds
    BY <2>1, ActiveViewType DEF TilesInv, QueueHasCopies, IndInv
  <2>3. Laid' \subseteq Taken(1)'
    BY <1>0, <2>2
  <2>4. c \in Laid' /\ c \in Cells
    BY <2>3 DEF Laid, Taken
  <2>5. CASE c = d
    BY <2>3, <2>4, <2>5 DEF Taken
  <2>6. CASE c # d
    <3>1. PICK dir \in Dirs, k \in 1 .. Rows + Cols : d \in Spot(c, dir, k)
      BY <2>4, <2>6, InLine
    <3>2. ToSet(queue') = {}
      BY DEF ToSet
    <3>3. Awaited(c, Taken(1)', {})
      BY <2>1, <2>4, <3>2 DEF FreeCellsAwaited
    <3>4. d \in Taken(1)'
      BY <3>1, <3>3, DirsAre DEF Awaited
    <3> QED
      BY <3>4 DEF Taken
  <2> QED
    BY <2>5, <2>6
<1> QED
  BY <1>1, <1>2, <1>3, PTL DEF TilingSpec, LinesFill
=============================================================================
