\* Two models, either of which may miss its wakeup.
SPECIFICATION Spec
CONSTANTS
    MaxMsgs = 2
    Malformed = {}
PROPERTIES
    EveryModelAnswered
CHECK_DEADLOCK FALSE
