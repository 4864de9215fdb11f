SPECIFICATION DemoSpec
CONSTANTS
    ShortReads = {}
    PER_CHALLENGE_TIMEOUT = 5
    TOTAL_AUTH_TIMEOUT = 15
    POST_RELEASE_TIMEOUT = 6
    RUN_TIME = 2
    Slack = 0
    MaxSends = 5
    MaxClock = 60
INVARIANTS ChallengesAsAnnounced
PROPERTIES DemoCompletes
CHECK_DEADLOCK FALSE
