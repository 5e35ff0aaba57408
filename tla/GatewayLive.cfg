SPECIFICATION FairSpec
CONSTANTS
    Drafts = {d1}
    Requests = {r1, r2}
    Loop = loop
    Nonces = {n1}
    MaxPayload = 1
    Scores = {"ALLOW", "DELAY"}
    Verdicts = {"resolved"}
    Ops = {"pipeline", "nonce", "submit", "freeze", "unfreeze", "release"}
    Faults = {"freeze", "unfreeze"}
    SerialAnswers = TRUE
PROPERTIES
    ScheduledSettles
    FreezeFinishes
    FreezeStopsMoney
CHECK_DEADLOCK FALSE
