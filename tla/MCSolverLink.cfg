\* Three models, of which the second is malformed, and two faults: the second may hit
\* what the first has caused to be delivered again.
SPECIFICATION LinkSpec
CONSTANTS
    MaxMsgs = 3
    Malformed = {2}
    MaxFaults = 2
INVARIANTS
    AnswersAccounted
PROPERTIES
    AnsweredUnlessGone
CHECK_DEADLOCK FALSE
