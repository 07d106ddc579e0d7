SPECIFICATION FairSpec
CONSTANTS
    MaxEdits = 2
    LaterEdits = {"metrics", "rtmpsAddress", "paths", "writeQueueSize"}
    ScrapedServers = {"rtsp"}
    PathEditsWithFile = TRUE
PROPERTY
    ReloadsEnd
CHECK_DEADLOCK FALSE
