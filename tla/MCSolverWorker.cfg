\* Three models, the second malformed.
SPECIFICATION Spec
CONSTANTS
    MaxMsgs = 3
    Malformed = {2}
INVARIANTS
    TypeOK QuietMeansAnswered
PROPERTIES
    ImplementsQueue ImplementsLink AnsweredUnlessStranded WakeupDrains
CHECK_DEADLOCK FALSE
