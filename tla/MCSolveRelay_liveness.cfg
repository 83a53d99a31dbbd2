\* Three models are enough to fill a stream and the sink and have one refused; the
\* answer to the third cannot be read.
SPECIFICATION Spec
CONSTANTS
    Users = {u1, u2}
    MaxModels = 3
    Invalid = {}
    Unreadable = {3}
    MaxRestarts = 1
    SinkSize = 1
    Prefetch = 1
PROPERTIES
    OpenStreamGetsAnswer
CHECK_DEADLOCK FALSE
