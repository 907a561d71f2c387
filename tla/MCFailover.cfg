SPECIFICATION Spec
CONSTANTS
    s1 = s1
    s2 = s2
    NoSlot = NoSlot
    KeyIds = {1, 2, 3}
    InitialKeys = {1, 2, 3}
    Priorities = {1, 2}
    Undecryptable = {3}
    Slots = {s1}
    Streamers = {s1}
    Fickle = {s1}
    UpstreamSays = {"quota", "auth", "answered", "refused", "network", "streamed", "cut", "late", "unread", "unreadable"}
INVARIANTS GivesUpOnlyWhenAllFailed RowsTellTheAttempts
PROPERTIES SwitchOnlyOnKeyFailure
