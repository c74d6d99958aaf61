CONSTANTS
    r1 = r1
    c1 = c1
    c2 = c2
    Reads = {r1}
    Calls = {c1}
    Scenes <- EndScenes
SPECIFICATION FairSpec
PROPERTY ConnectionEnds
CHECK_DEADLOCK FALSE
