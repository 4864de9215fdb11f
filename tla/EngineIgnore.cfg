SPECIFICATION Spec
CONSTANTS
    ShortReads = {}
    FRAME = 17
    FirstDelays = {0, 3, 6}
    LaterDelays = {0, 1, 2}
    ANSWERS = 2
    Slack = 0
    PER_CHALLENGE_TIMEOUT = 5
    TOTAL_AUTH_TIMEOUT = 15
INVARIANTS TypeOK CounterNamesChallenge
PROPERTIES GenuineAccepted LateAnswerCostsNothing BothEnd ImplementsImmobilizer
CHECK_DEADLOCK FALSE
