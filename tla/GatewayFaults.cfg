SPECIFICATION Spec
CONSTANTS
    Drafts = {d1}
    Requests = {r1, r2}
    Loop = loop
    Nonces = {n1}
    MaxPayload = 1
    Scores = {"ALLOW", "DELAY"}
    Verdicts = {"resolved"}
    Ops = {"pipeline", "nonce", "submit", "decline", "freeze", "unfreeze"}
    Faults = {"restart", "expiry", "pipeline", "nonce", "submit", "decline", "freeze", "unfreeze",
              "release"}
    SerialAnswers = TRUE
INVARIANTS
    NothingSentIsTrue
    ReleaseSentIsTrue
PROPERTIES
    FreezeDrains
SYMMETRY MCSymmetry
CHECK_DEADLOCK FALSE
