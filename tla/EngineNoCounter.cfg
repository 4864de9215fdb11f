SPECIFICATION Spec
CONSTANTS
    ShortReads = {}
    FRAME = 16
    FirstDelays = {0, 3, 6, 7}
    LaterDelays = {0, 1}
    ANSWERS = 2
    Slack = 0
    PER_CHALLENGE_TIMEOUT = 5
    TOTAL_AUTH_TIMEOUT = 15
PROPERTIES GenuineAccepted BothEnd ImplementsImmobilizer
CHECK_DEADLOCK FALSE
