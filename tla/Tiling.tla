------------------------------- MODULE Tiling -------------------------------
(***************************************************************************)
(* The geometry behind the "Tile" button of ConstraintGridComponent:       *)
(* shifting a set of flat cell indices over the board, and finding the     *)
(* nearest free copy of a pattern in one of the four directions.           *)
(*                                                                         *)
(* Cells are flat indices, row by row: cell (x, y) is y * Cols + x.  The    *)
(* shift works on the flat index itself, exactly as the code does, and an   *)
(* index that is not in Cells means "off the board".                        *)
(*                                                                         *)
(* Definitions with a suffix, here and in the other modules (MoveCell_wraps *)
(* for MoveCell), are mutants: the same operation with a plausible mistake, *)
(* used to see that the properties can fail.                                *)
(***************************************************************************)
EXTENDS Integers, Sequences, FiniteSets

CONSTANTS Rows, Cols

ASSUME RowsAssumption == Rows \in Nat \ {0}
ASSUME ColsAssumption == Cols \in Nat \ {0}

Cells == 0 .. Rows * Cols - 1

\* TileDirection, in the order of the enumeration: tile() tries them in turn.
Directions == <<"UP", "RIGHT", "DOWN", "LEFT">>

MoveCell_wraps(c, dir) ==
    CASE dir = "UP"    -> c - Cols
      [] dir = "DOWN"  -> c + Cols
      [] dir = "LEFT"  -> c - 1
      [] dir = "RIGHT" -> c + 1

\* One pass of moveFlatCells over one index.  LEFT parks a cell of the first
\* column at -1 and RIGHT parks one of the last column just past the board.
\* JavaScript's % of a negative number is not positive, so an index that is
\* already negative stays at -1 when it moves LEFT.
MoveCell(c, dir) ==
    CASE dir = "UP"    -> c - Cols
      [] dir = "DOWN"  -> c + Cols
      [] dir = "LEFT"  -> IF c >= 0 /\ c % Cols > 0 THEN c - 1 ELSE -1
      [] dir = "RIGHT" -> IF (c % Cols) + 1 = Cols THEN Rows * Cols ELSE c + 1

MoveFlatCells(cells, dir) == {MoveCell(c, dir) : c \in cells}

TileIntersects(total, next) == next \cap total # {}

\* Bound on the shifts of one search.  After Rows or Cols of them no cell of a
\* pattern is left on the board.
MaxShift == Rows * Cols

\* The successive values of movedTiles in the loop of tileFindSpot.
Shifted(pattern, dir) ==
    LET shift[k \in 0 .. MaxShift] ==
            IF k = 0 THEN pattern ELSE MoveFlatCells(shift[k - 1], dir)
    IN  shift

TileFindSpot_unclipped(pattern, total, dir) ==
    LET shift   == Shifted(pattern, dir)
        free(k) == ~TileIntersects(total, shift[k])
    IN  shift[CHOOSE k \in 1 .. MaxShift : free(k) /\ \A j \in 1 .. k - 1 : ~free(j)]

\* tileFindSpot: shift at least once and until no taken cell is hit, then keep
\* the part that is on the board.  The empty set stands for null.
TileFindSpot(pattern, total, dir) ==
    LET shift   == Shifted(pattern, dir)
        free(k) == ~TileIntersects(total, shift[k])
        stop    == CHOOSE k \in 1 .. MaxShift :
                       free(k) /\ \A j \in 1 .. k - 1 : ~free(j)
    IN  shift[stop] \cap Cells

\* queue.push(move), skipped when the spot is null.
PushSpot(queue, spot) == IF spot = {} THEN queue ELSE Append(queue, spot)

PushSpots_notLast(queue, pattern, total) ==
    LET spot(i) == TileFindSpot(pattern, total, Directions[i])
    IN  PushSpot(PushSpot(PushSpot(queue, spot(1)), spot(2)), spot(3))

\* The for loop over the directions that tile() runs for the first shape and
\* again for every tile it lays.
PushSpots(queue, pattern, total) ==
    LET spot(i) == TileFindSpot(pattern, total, Directions[i])
    IN  PushSpot(PushSpot(PushSpot(PushSpot(queue,
            spot(1)), spot(2)), spot(3)), spot(4))

\* The queue is kept in the order of the pushes.  The code sorts it by size
\* before every pop; the sort is stable, so what it pops is the last pushed of
\* the largest.
NextSpots(queue) ==
    {i \in DOMAIN queue :
        \A j \in DOMAIN queue :
            \/ Cardinality(queue[j]) < Cardinality(queue[i])
            \/ Cardinality(queue[j]) = Cardinality(queue[i]) /\ j <= i}
=============================================================================
