CONSTANTS
    r1 = r1
    c1 = c1
    c2 = c2
    Reads = {}
    Calls = {c1, c2}
    Scenes <- CallScene
SPECIFICATION Spec
INVARIANT AcceptedCallKeepsWriter
SYMMETRY CallSymmetry
CHECK_DEADLOCK FALSE
