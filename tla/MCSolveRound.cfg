\* Two cells, one view of each constraint with up to two groups, fields that hold numbers,
\* nothing or other text, and one grid to go on with.
SPECIFICATION Spec
CONSTANTS
    Cells = {0, 1}
    Grids <- MCGrids
    Redrawn <- MCRedrawn
    Texts <- MCTexts
    Readable <- MCReadable
    Reading <- MCReading
    Depths = {0, 1}
    Contents = {1, 2}
    Relations = {"<", "<=", ">", ">=", "="}
    Amounts = {0, 1}
INVARIANTS
    ShownIsTrue
