SPECIFICATION PoolSpec
CONSTANTS
    s1 = s1
    s2 = s2
    a1 = a1
    a2 = a2
    NoSlot = NoSlot
    NoProber = NoProber
    Scheduler = Scheduler
    KeyIds = {1, 2}
    InitialKeys = {1}
    Priorities = {1}
    Undecryptable = {}
    Slots = {s1}
    Streamers = {}
    Fickle = {}
    UpstreamSays = {"quota", "auth", "answered"}
    Admins = {a1}
    MaxCalls = 1
    AutoProbe = TRUE
INVARIANTS DeadlineMatchesQuota OneTestAtATime
