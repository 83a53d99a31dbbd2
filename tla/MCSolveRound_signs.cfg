\* The same grids: a minus is lost on the way.
SPECIFICATION Spec
CONSTANTS
    Cells = {0, 1}
    Grids <- MCGrids
    Redrawn <- MCRedrawn
    Texts <- MCTexts
    Readable <- MCReadable
    Reading <- MCReading
    Depths = {0, 1}
    Contents = {1, 2}
    Relations = {"<", "<=", ">", ">=", "="}
    Amounts = {0, 1}
INVARIANTS
    ResultIsShown
