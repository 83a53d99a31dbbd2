------------------------------- MODULE TileRun -------------------------------
(***************************************************************************)
(* tile() from every board with two groups: the active group 1 has any     *)
(* shape, group 2 is any set of obstacles.  The initial states are states  *)
(* of GroupEditor (add a view and two groups, paint them, select the       *)
(* first); only the Tile button is pressed.  What tiling should do is said *)
(* in two coordinates, where the code shifts flat indices.                 *)
(***************************************************************************)
EXTENDS GroupEditor

TilingInit ==
    \E shape \in (SUBSET Cells) \ {{}}, obstacles \in SUBSET Cells :
        /\ 1 \in ViewIds /\ {1, 2} \subseteq GroupIds
        /\ shape \cap obstacles = {}
        /\ lastView = 1 /\ lastGroup = 2
        /\ activeViewId = 1 /\ activeGroupId = 1
        /\ erasing = FALSE
        /\ views = {1}
        /\ groupsOf = [v \in ViewIds |-> IF v = 1 THEN {1, 2} ELSE {}]
        /\ indices = [g \in GroupIds |-> IF g = 1 THEN shape
                                         ELSE IF g = 2 THEN obstacles ELSE {}]
        /\ indexToGroup = [v \in ViewIds |->
                             [c \in Cells |-> IF v = 1 /\ c \in shape THEN 1
                                              ELSE IF v = 1 /\ c \in obstacles THEN 2
                                              ELSE Nil]]
        /\ painted = indexToGroup[1]
        /\ highlighted = shape
        /\ selectedCell = NoCell
        /\ queue = << >>
        /\ clickedOnView = TRUE
        /\ list = {1, 2} /\ clickedRow = 1
        /\ toolErasing = FALSE

\* The button is pressed once: afterwards there are tiles, or nothing to lay.
TilingNext == (lastGroup = 2 /\ Tile) \/ TileNext

TilingSpec == TilingInit /\ [][TilingNext]_vars /\ WF_vars(TileNext)

-----------------------------------------------------------------------------
\* The board in two coordinates, for reference.
Cell(x, y) == y * Cols + x
X(c) == c % Cols
Y(c) == c \div Cols

\* What is on the board of a pattern moved by dx columns and dy rows.
Translate(pattern, dx, dy) ==
    {Cell(X(c) + dx, Y(c) + dy) :
        c \in {d \in pattern : X(d) + dx \in 0 .. Cols - 1 /\ Y(d) + dy \in 0 .. Rows - 1}}

Step(dir) == CASE dir = "UP"    -> <<0, -1>>
               [] dir = "RIGHT" -> <<1, 0>>
               [] dir = "DOWN"  -> <<0, 1>>
               [] dir = "LEFT"  -> <<-1, 0>>

\* The nearest translate in a direction that hits nothing.
NearestSpot(pattern, total, dir) ==
    LET at(k) == Translate(pattern, k * Step(dir)[1], k * Step(dir)[2])
        k == CHOOSE k \in 1 .. Rows + Cols :
                /\ at(k) \cap total = {}
                /\ \A j \in 1 .. k - 1 : at(j) \cap total # {}
    IN  at(k)

-----------------------------------------------------------------------------
(* Properties *)

\* The index arithmetic of moveFlatCells ("left boundry without wrapping",
\* "right boundry without wrapping") is the movement in the plane: tileFindSpot
\* returns the nearest free translate of a pattern, clipped to the board, in each
\* direction, and never a set that wraps around an edge.
SpotsAreTranslates ==
    \A g \in groupsOf[1] : \A i \in DOMAIN Directions :
        TileFindSpot(indices[g], Taken(1), Directions[i])
            = NearestSpot(indices[g], Taken(1), Directions[i])

\* Every tile laid is a translate of the active group, whole or clipped, however
\* many tiles it was copied through and clipped by.
TilesAreCopies ==
    \A g \in groupsOf[1] \ {2} :
        \E dx \in 1 - Cols .. Cols - 1, dy \in 1 - Rows .. Rows - 1 :
            indices[g] \subseteq Translate(indices[1], dx, dy)

\* Tiles are the shape, moved and clipped: by the arithmetic of one move and over all
\* the moves of a run of tile().
ShapesMoveWhole == SpotsAreTranslates /\ TilesAreCopies

\* When the shape is one cell, tile() leaves no free cell in line with a tile,
\* whatever the obstacles: the spots it skips because a later tile took them lose
\* nothing.
LinesFill ==
    [][Cardinality(indices[1]) = 1 /\ queue' = << >> =>
         \A g \in groupsOf'[1] \ {2} : \A c \in indices'[g] : \A d \in Cells :
            X(c) = X(d) \/ Y(c) = Y(d) => indexToGroup'[1][d] # Nil]_vars

-----------------------------------------------------------------------------
(* The inductive invariants *)

\* The spots that ShapesMoveWhole allows: on the board, in one of the translates of
\* the active group.
Copies ==
    {spot \in (SUBSET Cells) \ {{}} :
        \E dx \in 1 - Cols .. Cols - 1, dy \in 1 - Rows .. Rows - 1 :
            spot \subseteq Translate(indices[1], dx, dy)}

\* The queue holds copies, and the active group is the one that it was pushed for.
QueueHasCopies ==
    /\ ActiveView = 1 /\ ActiveGroup = 1 /\ lastGroup >= 2
    /\ queue \in Seq(Copies)

TilesInv == IndInv /\ QueueHasCopies /\ TilesAreCopies

\* The cells of the tiles, the first one included.
Laid == UNION {indices[g] : g \in groupsOf[1] \ {2}}

\* The cell k places from c, as a set, empty beyond the edge.
Spot(c, dir, k) == Translate({c}, k * Step(dir)[1], k * Step(dir)[2])

\* The shape is one cell, so all spots are; none was an obstacle when it was found.
OneCell(C) == {{c} : c \in C}
QueueHasCells == ToSet(queue) \subseteq OneCell(Cells \ indices[2])

\* A cell in line with c that is not in total is in the queue, or behind one that is.
Awaited(c, total, spots) ==
    \A dir \in ToSet(Directions), k \in 1 .. Rows + Cols :
        Spot(c, dir, k) \ total # {} => \E j \in 1 .. k : Spot(c, dir, j) \in spots

FreeCellsAwaited == \A c \in Laid : Awaited(c, Taken(1), ToSet(queue))

\* Before the button is pressed nothing is awaited, and the queue is empty.
LinesInv ==
    /\ 2 \in groupsOf[1]
    /\ Cardinality(indices[1]) = 1 /\ queue # << >> => QueueHasCells /\ FreeCellsAwaited
=============================================================================
