SPECIFICATION FairSpec
CONSTANTS
    Loop = loop
    Workers = {loop}
    Requests = {r1}
    Count = 2
    Supervised = 1
    AutoAfter = TRUE
    MaxTime = 5
    MaxFaults = 1
    Ops = {"review", "decline", "delay"}
    World = {}
PROPERTIES
    EveryOccurrenceEnds
CHECK_DEADLOCK FALSE
