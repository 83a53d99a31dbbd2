\* Two browsers and four models: the second is invalid, and the answer to the fourth
\* cannot be read.  The sink and the streams hold one answer each, so that all get full,
\* and the backend is restarted at any point.
SPECIFICATION Spec
CONSTANTS
    Users = {u1, u2}
    MaxModels = 4
    Invalid = {2}
    Unreadable = {4}
    MaxRestarts = 1
    SinkSize = 1
    Prefetch = 1
INVARIANTS
    TypeOK
PROPERTIES
    ImplementsFeed RefusedOnlyWhenStalled
CHECK_DEADLOCK FALSE
