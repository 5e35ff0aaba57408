SPECIFICATION Spec
CONSTANTS
    Drafts = {d1}
    Requests = {r1, r2}
    Loop = loop
    Nonces = {n1, n2}
    MaxPayload = 2
    Scores = {"ALLOW", "DELAY", "HOLD_STEP_UP", "BLOCK"}
    Verdicts = {"resolved", "clarify", "blocked", "frozen"}
    Ops = {"pipeline", "confirm", "nonce", "submit", "release"}
    Faults = {}
    SerialAnswers = TRUE
INVARIANTS
    SafeguardsServed
    ExecutesOnlyOffered
SYMMETRY MCSymmetry
CHECK_DEADLOCK FALSE
