SPECIFICATION Spec
CONSTANTS
    s1 = s1
    s2 = s2
    NoSlot = NoSlot
    KeyIds = {1, 2}
    InitialKeys = {1, 2}
    Priorities = {1}
    Undecryptable = {}
    Slots = {s1, s2}
    Streamers = {}
    Fickle = {}
    UpstreamSays = {"quota", "answered"}
PROPERTIES PromotionFillsVacancy
