\* recv() may return only the first 12 bytes of what was sent, as TCP allows:
\* frames and commands are torn and run together.
SPECIFICATION Spec
CONSTANTS
    ShortReads = {12}
    PER_CHALLENGE_TIMEOUT = 2
    TOTAL_AUTH_TIMEOUT = 3
    POST_RELEASE_TIMEOUT = 2
    RUN_TIME = 1
    Slack = 1
    MaxSends = 3
    MaxClock = 8
INVARIANTS TypeOK NoGrantWhileAuthenticating AuthenticationBounded
PROPERTIES LateAnswerIgnored ImplementsImmobilizer
CHECK_DEADLOCK FALSE
