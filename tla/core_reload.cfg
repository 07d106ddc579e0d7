SPECIFICATION FairSpec
CONSTANTS
    MaxEdits = 2
    LaterEdits = {"metrics", "rtmpsAddress", "paths", "writeQueueSize"}
    ScrapedServers = {"rtsp"}
    PathEditsWithFile = FALSE
INVARIANTS
    TypeOK
    NoDanglingReference
    ReloadedLikeRestarted
PROPERTIES
    ReloadsEnd
CHECK_DEADLOCK FALSE
