-------------------------- MODULE CellValues_proofs --------------------------
(***************************************************************************)
(* The board, the field and the content map agree on a board of any size,  *)
(* whatever is typed, and typed text never reaches another cell.           *)
(***************************************************************************)
EXTENDS CellValues, TLAPS

USE TextsAssumption, NoCellAssumption
USE DEF ValueOf

LEMMA InitInd == Init => IndInv
BY DEF Init, IndInv, TypeOK, BoardShowsContent, FieldShowsMarked

\* A click or a drag on a cell selects it in both components, or deselects it, and
\* brings its value into the field.
LEMMA UiSelectGridCellInd ==
    ASSUME IndInv, NEW c \in Cells, UiSelectGridCell(c), mouseDown' \in BOOLEAN
    PROVE  IndInv'
<1>1. content' = content /\ textContent' = textContent
  BY DEF UiSelectGridCell
<1>2. /\ selectedCell' \in Cells \cup {NoCell}
      /\ marked' = IF selectedCell' = NoCell THEN {} ELSE {selectedCell'}
      /\ marked' \in SUBSET Cells
  BY DEF IndInv, TypeOK, FieldShowsMarked, UiSelectGridCell, MarkCell
<1>3. /\ selectedCellIndex' = selectedCell'
      /\ selectedCell' # NoCell => field' = ValueOf(selectedCell') /\ typing' = FALSE
      /\ field' \in Texts /\ changed' \in BOOLEAN /\ typing' \in BOOLEAN
      /\ typedFor' = typedFor
  BY <1>2 DEF IndInv, TypeOK, UiSelectGridCell, CellSelected, typedVars
<1>4. TypeOK'
  BY <1>1, <1>2, <1>3 DEF IndInv, TypeOK
<1>5. BoardShowsContent'
  BY <1>1 DEF IndInv, BoardShowsContent
<1>6. FieldShowsMarked'
  BY <1>1, <1>2, <1>3 DEF FieldShowsMarked
<1> QED
  BY <1>4, <1>5, <1>6 DEF IndInv

LEMMA TypeInd == ASSUME IndInv, NEW text \in Texts, Type(text) PROVE IndInv'
<1>1. TypeOK'
  BY DEF IndInv, TypeOK, Type, gridVars
<1>2. BoardShowsContent'
  BY DEF IndInv, BoardShowsContent, Type, gridVars
<1>3. FieldShowsMarked'
  BY DEF IndInv, FieldShowsMarked, Type, gridVars
<1> QED
  BY <1>1, <1>2, <1>3 DEF IndInv

\* A commit writes the same text to the content map and to the board, at the cell that
\* is selected.
LEMMA SelectedInputInd == IndInv /\ SelectedInput => IndInv'
<1> SUFFICES ASSUME IndInv, SelectedInput PROVE IndInv'
    OBVIOUS
<1>1. CASE selectedCellIndex = NoCell
  <2>1. UNCHANGED <<content, textContent>>
    BY <1>1 DEF SelectedInput
  <2>2. TypeOK'
    BY <2>1 DEF IndInv, TypeOK, SelectedInput
  <2>3. BoardShowsContent'
    BY <2>1 DEF IndInv, BoardShowsContent
  <2>4. FieldShowsMarked'
    BY <1>1 DEF IndInv, FieldShowsMarked, SelectedInput
  <2> QED
    BY <2>2, <2>3, <2>4 DEF IndInv
<1>2. CASE selectedCellIndex # NoCell
  <2>1. /\ content' = [content EXCEPT ![selectedCellIndex] = field]
        /\ textContent' = [textContent EXCEPT ![selectedCellIndex] = field]
        /\ selectedCellIndex \in Cells
    BY <1>2 DEF SelectedInput, SetCellContent, IndInv, TypeOK
  <2>2. TypeOK'
    BY <2>1 DEF IndInv, TypeOK, SelectedInput
  <2>3. BoardShowsContent'
    BY <2>1 DEF IndInv, TypeOK, BoardShowsContent
  <2>4. FieldShowsMarked'
    BY <2>1 DEF IndInv, TypeOK, FieldShowsMarked, SelectedInput
  <2> QED
    BY <2>2, <2>3, <2>4 DEF IndInv
<1> QED
  BY <1>1, <1>2

\* A step of the mouse button alone.
LEMMA MouseInd ==
    ASSUME IndInv, mouseDown' \in BOOLEAN,
           UNCHANGED <<content, textContent, marked, selectedCell, fieldVars, typedVars>>
    PROVE  IndInv'
BY DEF IndInv, TypeOK, BoardShowsContent, FieldShowsMarked, fieldVars, typedVars

LEMMA NextInd == IndInv /\ [Next]_vars => IndInv'
<1> SUFFICES ASSUME IndInv, [Next]_vars PROVE IndInv'
    OBVIOUS
<1>1. CASE OnGridMouseDown
  BY <1>1, UiSelectGridCellInd, MouseInd DEF OnGridMouseDown
<1>2. ASSUME NEW c \in Cells, OnGridMouseover(c) PROVE IndInv'
  BY <1>2, UiSelectGridCellInd DEF OnGridMouseover, IndInv, TypeOK
<1>3. CASE OnGridMouseUp
  BY <1>3, MouseInd DEF OnGridMouseUp
<1>4. ASSUME NEW text \in Texts, Type(text) PROVE IndInv'
  BY <1>4, TypeInd
<1>5. CASE SelectedInput
  BY <1>5, SelectedInputInd
<1>6. CASE UNCHANGED vars
  BY <1>6, MouseInd DEF vars, gridVars, IndInv, TypeOK
<1> QED
  BY <1>1, <1>2, <1>3, <1>4, <1>5, <1>6 DEF Next

\* The inductive invariant of the three copies of a cell's value: the content map, the
\* text on the board and the field.
THEOREM Inductive == Spec => []IndInv
BY InitInd, NextInd, PTL DEF Spec

\* On a board of any size the texts of the cells are the values that are sent.
THEOREM BoardIsContent == Spec => []BoardShowsContent
<1>1. IndInv => BoardShowsContent
  BY DEF IndInv
<1> QED
  BY <1>1, Inductive, PTL

\* On a board of any size the field edits the cell that is marked.
THEOREM FieldIsMarked == Spec => []FieldShowsMarked
<1>1. IndInv => FieldShowsMarked
  BY DEF IndInv
<1> QED
  BY <1>1, Inductive, PTL

-----------------------------------------------------------------------------
\* A commit that changes the value of a cell commits what was typed for it: without
\* typing, the field holds that value already.
LEMMA CommitMeant ==
    ASSUME IndInv, SelectedInput, NEW c \in Cells, ValueOf(c)' # ValueOf(c)
    PROVE  typing /\ typedFor = c /\ content'[c] = field
<1>1. /\ selectedCellIndex # NoCell
      /\ content' = [content EXCEPT ![selectedCellIndex] = field]
  BY DEF SelectedInput
<1>2. selectedCellIndex = c /\ content'[c] = field
  BY <1>1 DEF IndInv, TypeOK
<1>3. field # ValueOf(c)
  BY <1>2, TextsAssumption DEF IndInv, TypeOK
<1>4. selectedCell = c
  BY <1>2 DEF IndInv, FieldShowsMarked
<1> QED
  BY <1>2, <1>3, <1>4 DEF IndInv, FieldShowsMarked

\* Whatever is clicked while text is being typed, on a board of any size, no cell takes
\* a text that was meant for another.
THEOREM NoTextAstray == Spec => TypedGoesWhereMeant
<1> DEFINE Meant == \A c \in Cells : ValueOf(c)' # ValueOf(c) =>
                       typing /\ typedFor = c /\ content'[c] = field
<1>1. IndInv /\ [Next]_vars => [Meant]_vars
  <2> SUFFICES ASSUME IndInv, Next, NEW c \in Cells, ValueOf(c)' # ValueOf(c)
               PROVE  typing /\ typedFor = c /\ content'[c] = field
    OBVIOUS
  <2>1. content' # content
    OBVIOUS
  <2>2. SelectedInput
    BY <2>1 DEF Next, OnGridMouseDown, OnGridMouseover, OnGridMouseUp, UiSelectGridCell,
       Type
  <2> QED
    BY <2>2, CommitMeant
<1> QED
  BY <1>1, Inductive, PTL DEF Spec, TypedGoesWhereMeant
=============================================================================
