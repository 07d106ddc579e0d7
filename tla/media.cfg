CONSTANTS
    Tolerance = 2
    video = video  audio = audio
    Tracks = {video, audio}
    VideoTracks = {video}
    DoubledTracks = {}
    SegmentDuration = 3
    PartDuration = 2
    MaxTime = 5
    MaxStep = 2
    MaxInstances = 2
    r1 = r1  r2 = r2  f1 = f1  f2 = f2
    Readers = {r1, r2}
    Formats = {f1, f2}
    QueueSize = 1
    MaxUnits = 2
    k1 = k1
    Commands = {k1}
    DeleteAfters = {0, 2, 6}
    LongInterval = 3
    LastTime = 7
    MaxCandidates = 1
    MaxReconnects = 1
    MaxVersion = 2
    q1 = q1  q2 = q2
    Requests = {q1, q2}
    RefreshPeriod = 2
    MaxKeys = 1
    MaxClock = 4
    ClockRate = 3
    Second = 2
    MaxTimeDifference = 3
    MaxPTS = 7
    LastClock = 5
    Codecs = {"h264", "mpeg4Video", "av1"}
    MaxParameters = 2
    MaxNALUs = 3
    Parts = {"recorder", "stream", "command", "cleaner", "peer", "certificate", "authentication", "estimator", "processor"}

SPECIFICATION FairSpec
INVARIANTS
    TypeOK
    EndedForGood
    RecordingsSound
    NothingDropped
PROPERTY
    EverythingEnds
CHECK_DEADLOCK FALSE
