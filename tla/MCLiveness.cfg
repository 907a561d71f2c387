SPECIFICATION FairPoolSpec
CONSTANTS
    s1 = s1
    s2 = s2
    a1 = a1
    a2 = a2
    NoSlot = NoSlot
    NoProber = NoProber
    Scheduler = Scheduler
    KeyIds = {1}
    InitialKeys = {1}
    Priorities = {1}
    Undecryptable = {}
    Slots = {s1, s2}
    Streamers = {s2}
    Fickle = {}
    UpstreamSays = {"quota", "answered", "streamed", "late"}
    Admins = {}
    MaxCalls = 0
    AutoProbe = TRUE
PROPERTIES RequestsTerminate CoolingEnds TestsTerminate
