SPECIFICATION StartupSpec
CONSTANTS
    Servers = {s1, s2}
    Versions = {v1, v2}
    NQueues = 2
    None = None
INVARIANTS EveryQueueScheduled OptionsTakeEffect OneSchedule
PROPERTIES MappedInTheEnd
