SPECIFICATION AlgorithmsSpec
CONSTANTS
    NoReset = NoReset
    Absent = Absent
    Unset = Unset
    Rejected = Rejected
    p1 = p1
    p2 = p2
    Secrets = {p1, p2}
    Protocols = {"anthropic", "openai"}
    MaxEvents = 4
    Interval = 2
    Events <- SomeEvents
    Replies <- SomeReplies
CHECK_DEADLOCK FALSE
INVARIANTS StreamTypeOK CountsAreLastGiven QuotaIsNeverMissed   OnlyRefusalsInvalidate AcceptedMeansBootable
