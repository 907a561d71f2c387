SPECIFICATION ScheduleSpec
CONSTANTS
    r1 = r1
    NoProber = NoProber
    Scheduler = Scheduler
    KeyIds = {1, 2}
    InitialKeys = {1, 2}
    Priorities = {1}
    Undecryptable = {}
    Admins = {}
    AutoProbe = TRUE
    ProbeInterval = 2
    CacheTime = 4
    Retention = 1
    LongestCall = 1
    LongestRequest = 1
    LongestCooling = 1
    Readers = {r1}
    Watched = 1
INVARIANTS ScheduleTypeOK WakesInTime  
PROPERTIES ProbesAreSpaced
