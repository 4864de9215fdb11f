SPECIFICATION Spec
CONSTANTS
    ShortReads = {}
    FRAME = 17
    FirstDelays = {6}
    LaterDelays = {1}
    ANSWERS = 0
    Slack = 0
    PER_CHALLENGE_TIMEOUT = 5
    TOTAL_AUTH_TIMEOUT = 15
PROPERTIES GenuineAccepted
CHECK_DEADLOCK FALSE
