SPECIFICATION Spec
CONSTANTS
    s1 = s1
    s2 = s2
    NoSlot = NoSlot
    KeyIds = {1}
    InitialKeys = {1}
    Priorities = {1}
    Undecryptable = {}
    Slots = {s1}
    Streamers = {s1}
    Fickle = {}
    UpstreamSays = {"quota", "streamed", "unread"}
PROPERTIES RecoversOnlyOnSuccess
