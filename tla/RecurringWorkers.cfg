SPECIFICATION Spec
CONSTANTS
    Loop = loop
    Workers = {loop, cron}
    Requests = {r1}
    Count = 2
    Supervised = 1
    AutoAfter = TRUE
    MaxTime = 5
    MaxFaults = 0
    Ops = {"review", "freeze", "pause", "cancel"}
    World = {"biller", "tamper"}
INVARIANTS
    TypeOK
    BooksAgree
    AutoNeedsApprovals
PROPERTIES
    NotPaidStaysTrue
    SettlesOnce
    FreezeDrains
CHECK_DEADLOCK FALSE
