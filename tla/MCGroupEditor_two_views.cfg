\* Two views, three groups, a row of three cells: everything the components do to
\* each other when views come and go.
SPECIFICATION Spec
CONSTANTS
    Rows = 1
    Cols = 3
    MaxViews = 2
    MaxGroups = 3
INVARIANTS
    TypeOK CellsPartitioned ListShowsView PageShowsModel ControlsTellTruth
PROPERTIES
    OtherViewsUntouched ImplementsViewEvents
