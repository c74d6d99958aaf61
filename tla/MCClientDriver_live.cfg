CONSTANTS
    c1 = c1
    c2 = c2
    k1 = k1
    Calls = {c1}
    Chunked = {}
    Loaned = {c1}
    QueueCap = 1
    Scenes <- LiveScenes
SPECIFICATION FairSpec
PROPERTIES  DeactivateCloses ReleasesSubmitted
CHECK_DEADLOCK FALSE
