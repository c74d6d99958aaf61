CONSTANTS
    r1 = r1
    c1 = c1
    c2 = c2
    Reads = {r1}
    Calls = {}
    Scenes <- ReadScene
SPECIFICATION FairSpec
PROPERTY ReleasesSubmitted
CHECK_DEADLOCK FALSE
