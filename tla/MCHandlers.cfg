SPECIFICATION Spec
CONSTANTS
    s1 = s1
    s2 = s2
    NoSlot = NoSlot
    KeyIds = {1, 2}
    InitialKeys = {1, 2}
    Priorities = {1}
    Undecryptable = {}
    Slots = {s1, s2}
    Streamers = {s2}
    Fickle = {}
    UpstreamSays = {"quota", "auth", "answered", "streamed", "late"}
INVARIANTS TypeOK AtMostOneActive DeadlineMatchesQuota
