SPECIFICATION Spec
CONSTANTS
    Writers = {w1, w2}
    Contents = {a, b}
    MaxRows = 3
    MaxEdits = 2
INVARIANTS
    EditsAreFound
PROPERTIES
    BreakStays
SYMMETRY MCSymmetry
CHECK_DEADLOCK FALSE
