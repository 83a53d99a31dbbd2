\* The two constraints that ConstraintSelectComponent offers, created up to three
\* times (so one of them again after a deletion), and two views.
SPECIFICATION Spec
CONSTANTS
    Names = {"alldifferent", "count"}
    MaxConstraints = 3
    MaxViews = 2
INVARIANTS
    TypeOK TreeIsGrid ParentCheckedIffChildren ViewKindMatches
PROPERTIES
    GhostsWereStale AddedViewIsSeen ImplementsViewEvents
CHECK_DEADLOCK FALSE
