SPECIFICATION Spec
CONSTANTS
    ShortReads = {8}
    FRAME = 16
    FirstDelays = {0, 3, 6, 12}
    LaterDelays = {}
    ANSWERS = 1
    Slack = 1
    PER_CHALLENGE_TIMEOUT = 5
    TOTAL_AUTH_TIMEOUT = 15
INVARIANTS TypeOK DecidedInTotal NoSecondSendToClosed
PROPERTIES BothEnd ImplementsImmobilizer
CHECK_DEADLOCK FALSE
