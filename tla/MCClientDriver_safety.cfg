CONSTANTS
    c1 = c1
    c2 = c2
    k1 = k1
    Calls = {c1, c2, k1}
    Chunked = {k1}
    Loaned = {k1}
    QueueCap = 1
    Scenes <- SafetyScenes
SPECIFICATION Spec
INVARIANTS  SentCallsKeepTheirReply SealedWithoutWaiters
PROPERTIES NothingStartsBehindDisconnect
SYMMETRY CallSymmetry
CHECK_DEADLOCK FALSE
