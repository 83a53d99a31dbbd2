\* A three by three board, any shape and any obstacles.
SPECIFICATION TilingSpec
CONSTANTS
    Rows = 3
    Cols = 3
    MaxViews = 1
    MaxGroups = 11
INVARIANTS
    ShapesMoveWhole
PROPERTIES
    LinesFill TileKeepsCells TileDescends TileTerminates
CHECK_DEADLOCK FALSE
