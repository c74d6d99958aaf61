CONSTANTS
    c1 = c1
    c2 = c2
    k1 = k1
    Calls = {k1}
    Chunked = {k1}
    Loaned = {}
    QueueCap = 1
    Scenes <- UploadScene
SPECIFICATION Spec
PROPERTIES DisconnectAfterReplies
CHECK_DEADLOCK FALSE
