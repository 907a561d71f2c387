SPECIFICATION Spec
CONSTANTS
    s1 = s1
    s2 = s2
    NoSlot = NoSlot
    KeyIds = {1}
    InitialKeys = {1}
    Priorities = {1}
    Undecryptable = {}
    Slots = {s1}
    Streamers = {s1}
    Fickle = {s1}
    UpstreamSays = {"quota", "streamed", "late"}
PROPERTIES LateFailureExcludesKey
