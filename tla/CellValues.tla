------------------------------ MODULE CellValues ------------------------------
(***************************************************************************)
(* Giving values to cells: the mouse handlers of the main                  *)
(* ConstraintGridComponent, the field "Selected cell" of                    *)
(* ValueOptionsMenuComponent, and the content map of the grid that both     *)
(* read and write.  What a click does to the groups is in GroupEditor.tla.  *)
(*                                                                         *)
(* The field is an ordinary input: the user types into it, and the browser  *)
(* fires `change` when the text is committed (Enter, or the focus leaves).  *)
(* A mousedown on the grid calls preventDefault, so the focus stays in the  *)
(* field while the selection, and with it the text, changes below it.       *)
(* Browsers differ in whether `change` still fires after a script has set   *)
(* the text, or when the user types what was there before.                  *)
(***************************************************************************)
CONSTANTS Cells,
          Texts,        \* what may be typed
          NoCell,       \* undefined, for an index
          NoContent     \* undefined, for a cell's content

ASSUME TextsAssumption == "" \in Texts /\ "0" \in Texts /\ NoContent \notin Texts
ASSUME NoCellAssumption == NoCell \notin Cells

VARIABLES
    content,            \* Grid.content
    \* ConstraintGridComponent
    textContent,        \* the text of the cells
    marked,             \* the cells with class "selected"
    selectedCell, mouseDown,
    \* ValueOptionsMenuComponent
    selectedCellIndex,
    field,              \* the value of the input
    changed,            \* the browser would fire `change` now
    \* history
    typing, typedFor    \* the field holds what was typed while this cell was selected

gridVars == <<textContent, marked, selectedCell, mouseDown>>
fieldVars == <<selectedCellIndex, field, changed>>
typedVars == <<typing, typedFor>>
vars == <<content, gridVars, fieldVars, typedVars>>

Init ==
    /\ content = [c \in Cells |-> NoContent]
    /\ textContent = [c \in Cells |-> ""]
    /\ marked = {} /\ selectedCell = NoCell /\ mouseDown = FALSE
    /\ selectedCellIndex = NoCell /\ field = "0" /\ changed = FALSE
    /\ typing = FALSE /\ typedFor = NoCell

\* What a cell is for the solver: ValueConstraint takes "" and nothing for the same.
ValueOf(c) == IF content[c] = NoContent THEN "" ELSE content[c]

-----------------------------------------------------------------------------
CellSelected_keepsField(index) ==
    /\ selectedCellIndex' = index
    /\ IF index = NoCell \/ content[index] = NoContent
       THEN UNCHANGED <<field, changed, typedVars>>
       ELSE /\ field' = content[index]
            /\ changed' \in {changed, FALSE}
            /\ typing' = FALSE /\ UNCHANGED typedFor

\* The CELL_SELECTED handler: the field shows the cell, and what was being typed is
\* gone.  When no cell is selected any more, the text stays.
CellSelected(index) ==
    /\ selectedCellIndex' = index
    /\ IF index = NoCell THEN UNCHANGED <<field, changed, typedVars>>
       ELSE /\ field' = ValueOf(index)
            /\ changed' \in {changed, FALSE}
            /\ typing' = FALSE /\ UNCHANGED typedFor

MarkCell_keepsClass(c) ==
    IF selectedCell = c THEN selectedCell' = NoCell /\ UNCHANGED marked
    ELSE selectedCell' = c /\ marked' = marked \cup {c}

\* The first half of uiSelectGridCell: the same cell again deselects.
MarkCell(c) ==
    IF selectedCell = c THEN selectedCell' = NoCell /\ marked' = marked \ {c}
    ELSE selectedCell' = c /\ marked' = (marked \ {selectedCell}) \cup {c}

UiSelectGridCell(c) ==
    /\ MarkCell(c)
    /\ CellSelected(selectedCell')
    /\ UNCHANGED <<content, textContent>>

\* onGridMouseDown, on a cell or on the grid between the cells.
OnGridMouseDown ==
    /\ mouseDown' = TRUE
    /\ \/ \E c \in Cells : UiSelectGridCell(c)
       \/ UNCHANGED <<content, textContent, marked, selectedCell, fieldVars, typedVars>>

\* onGridMouseover: the drag goes on until a mouseup over the grid, also when the
\* button was released elsewhere.
OnGridMouseover(c) ==
    /\ mouseDown
    /\ UiSelectGridCell(c)
    /\ UNCHANGED mouseDown

OnGridMouseUp ==
    /\ mouseDown' = FALSE
    /\ UNCHANGED <<content, textContent, marked, selectedCell, fieldVars, typedVars>>

\* The user types.
Type(text) ==
    /\ field' = text /\ changed' \in BOOLEAN
    /\ typing' = TRUE /\ typedFor' = selectedCellIndex
    /\ UNCHANGED <<content, gridVars, selectedCellIndex>>

SetCellContent_never(c, text) == UNCHANGED textContent

\* ConstraintGridComponent.setCellContent, on CELL_CONTENT_CHANGED.
SetCellContent(c, text) == textContent' = [textContent EXCEPT ![c] = text]

\* selectedInput, called by `change`; with no cell selected it drops the text.
SelectedInput ==
    /\ changed /\ changed' = FALSE
    /\ IF selectedCellIndex = NoCell THEN UNCHANGED <<content, textContent>>
       ELSE /\ content' = [content EXCEPT ![selectedCellIndex] = field]
            /\ SetCellContent(selectedCellIndex, field)
    /\ typing' = FALSE
    /\ UNCHANGED <<marked, selectedCell, mouseDown, selectedCellIndex, field, typedFor>>

Next ==
    \/ OnGridMouseDown
    \/ \E c \in Cells : OnGridMouseover(c)
    \/ OnGridMouseUp
    \/ \E text \in Texts : Type(text)
    \/ SelectedInput

Spec == Init /\ [][Next]_vars

-----------------------------------------------------------------------------
(* Properties *)

TypeOK ==
    /\ content \in [Cells -> Texts \cup {NoContent}]
    /\ textContent \in [Cells -> Texts]
    /\ marked \in SUBSET Cells
    /\ {selectedCell, selectedCellIndex, typedFor} \subseteq Cells \cup {NoCell}
    /\ field \in Texts
    /\ {mouseDown, changed, typing} \subseteq BOOLEAN

\* The board shows what the solver is sent, cell by cell.  The content map is written
\* by the menu, and the text of the cell by the grid, on an event.
BoardShowsContent == \A c \in Cells : textContent[c] = ValueOf(c)

\* The one cell that is marked is the one that the field edits, although two
\* components each keep a selection of their own, and the field shows its value, or
\* what has been typed since it was selected: after any clicks and drags in the
\* middle of typing, the next commit is never a surprise.
FieldShowsMarked ==
    /\ marked = IF selectedCell = NoCell THEN {} ELSE {selectedCell}
    /\ selectedCellIndex = selectedCell
    /\ selectedCell # NoCell =>
          IF typing THEN typedFor = selectedCell ELSE field = ValueOf(selectedCell)

\* The value of a cell only changes to a text typed while that very cell was selected:
\* no text ends in a cell selected later, and a `change` that fires late, after the
\* selection has changed the text, changes nothing.
TypedGoesWhereMeant ==
    [][\A c \in Cells : ValueOf(c)' # ValueOf(c) =>
          typing /\ typedFor = c /\ content'[c] = field]_vars

IndInv == TypeOK /\ BoardShowsContent /\ FieldShowsMarked
=============================================================================
