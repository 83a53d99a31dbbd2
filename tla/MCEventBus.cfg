\* Two events, of which 0 is the one whose empty array stays in the map; three handlers
\* and three emissions, nested as deep as that.
SPECIFICATION Spec
CONSTANTS
    Events = {0, 1}
    MaxHandlers = 3
    MaxEmissions = 3
    MaxDepth = 3
INVARIANTS
    CalledAtMostOnce IdsUniqueUnlessNested NoEventForgotten
PROPERTIES
    SkipsOnlyAfterRemoval RemovedNeverCalled
CHECK_DEADLOCK FALSE
