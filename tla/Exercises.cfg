SPECIFICATION ExercisesSpec
CONSTANTS
    Chosen = {"interaction", "iterative", "iterative_long", "two_request", "one_way", "one_way_long", "simple", "simple_5001", "simple_ports", "simple_pause", "blocking", "poll_once", "poll_loop", "waiting_2", "waiting_4", "waiting_15", "waiting_8", "waiting_port", "hello_world", "checked", "debug", "time", "chat", "exit", "udp", "udp_lines", "level_1", "level_1_foreign"}
    Cap = 16
    CharMax = 6
    Leftover = {0, 16}
    Scripts <- UserScripts
    MayLose = {TRUE, FALSE}
    ShortReads = {1}
    Slack = 1
INVARIANTS TypeOK AnswersInOrder AnswersComplete KilledWithReason NoWildWrite PatienceBounded TimeoutReported VerdictIsRight
PROPERTIES PairFinishes
CHECK_DEADLOCK FALSE
