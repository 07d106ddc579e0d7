-------------------------------- MODULE MCMedia --------------------------------
(* The parts that work on their own, one per behaviour: the recorder, the  *)
(* stream, the commands of hooks, the cleaner, a peer connection, a        *)
(* certificate, the authentication manager, the estimator of times, the    *)
(* processor of a format.                                                  *)
EXTENDS Integers, SequencesExt

CONSTANTS
    Tolerance, Tracks, VideoTracks, DoubledTracks, SegmentDuration, PartDuration, MaxTime, MaxStep, MaxInstances,
    Readers, Formats, QueueSize, MaxUnits,
    Commands,
    DeleteAfters, LongInterval, LastTime,
    MaxCandidates, MaxReconnects,
    MaxVersion,
    Requests, RefreshPeriod, MaxKeys, MaxClock,
    ClockRate, Second, MaxTimeDifference, MaxPTS, LastClock,
    Codecs, MaxParameters, MaxNALUs,
    Parts    \* those that are checked

VARIABLES
    part,
    recorder, closing, instance, format, clock, next, hasVideo, number, segment, disk, silent, dropped,
    mutex, writer, stats, reader, buffer, routine, account,
    command, process, poolClosing,
    cleaner, cancelled, deleteAfter, timer, now, stored, reloaded,
    role, told, owner, user, ctxDone, run, signal, library, changes, candidates, track,
    files, event, watcher, recent, loader, read, loaded, missed, closer,
    method, authMutex, keys, lastRefresh, jwks, authClock, promised, request,
    refNTP, refPTS, serverClock, previous, last,
    codec, generates, known, encoder, decoder, collected, others, accessUnit, ended, latest, routed, frame, trouble

Rec == INSTANCE Recorder
Str == INSTANCE Stream
Cmd == INSTANCE Command
Cln == INSTANCE RecordCleaner
Peer == INSTANCE PeerConnection
Crt == INSTANCE CertLoader WITH disk <- files
Aut == INSTANCE AuthManager WITH mutex <- authMutex, clock <- authClock
Est == INSTANCE NTPEstimator WITH clock <- serverClock
Pro == INSTANCE CodecProcessor

ASSUME MediaAssumption ==
    /\ Rec!TimesAssumption /\ Str!QueueAssumption /\ Cln!CleanerAssumption
    /\ Peer!PeerAssumption /\ Crt!CertAssumption /\ Aut!AuthAssumption
    /\ Est!EstimatorAssumption /\ Pro!ProcessorAssumption

recorderVars ==
    <<recorder, closing, instance, format, clock, next, hasVideo, number, segment, disk, silent, dropped>>
streamVars == <<mutex, writer, stats, reader, buffer, routine, account>>
commandVars == <<command, process, poolClosing>>
cleanerVars == <<cleaner, cancelled, deleteAfter, timer, now, stored, reloaded>>
peerVars == <<role, told, owner, user, ctxDone, run, signal, library, changes, candidates, track>>
certVars == <<files, event, watcher, recent, loader, read, loaded, missed, closer>>
authVars == <<method, authMutex, keys, lastRefresh, jwks, authClock, promised, request>>
estimatorVars == <<refNTP, refPTS, serverClock, previous, last>>
processorVars ==
    <<codec, generates, known, encoder, decoder, collected, others, accessUnit, ended, latest, routed, frame, trouble>>
vars ==
    <<part, recorderVars, streamVars, commandVars, cleanerVars, peerVars, certVars, authVars, estimatorVars,
      processorVars>>

Off == "off"
RecorderOff ==
    /\ recorder = Off /\ closing = Off /\ instance = Off /\ format = Off /\ clock = Off /\ next = Off
    /\ hasVideo = Off /\ number = Off /\ segment = Off /\ disk = Off /\ silent = Off /\ dropped = Off
StreamOff ==
    /\ mutex = Off /\ writer = Off /\ stats = Off /\ reader = Off /\ buffer = Off /\ routine = Off /\ account = Off
CommandOff == command = Off /\ process = Off /\ poolClosing = Off
CleanerOff ==
    /\ cleaner = Off /\ cancelled = Off /\ deleteAfter = Off /\ timer = Off /\ now = Off /\ stored = Off /\ reloaded = Off
PeerOff ==
    /\ role = Off /\ told = Off /\ owner = Off /\ user = Off /\ ctxDone = Off /\ run = Off
    /\ signal = Off /\ library = Off /\ changes = Off /\ candidates = Off /\ track = Off
CertOff ==
    /\ files = Off /\ event = Off /\ watcher = Off /\ recent = Off /\ loader = Off
    /\ read = Off /\ loaded = Off /\ missed = Off /\ closer = Off
AuthOff ==
    /\ method = Off /\ authMutex = Off /\ keys = Off /\ lastRefresh = Off
    /\ jwks = Off /\ authClock = Off /\ promised = Off /\ request = Off
EstimatorOff == refNTP = Off /\ refPTS = Off /\ serverClock = Off /\ previous = Off /\ last = Off
ProcessorOff ==
    /\ codec = Off /\ generates = Off /\ known = Off /\ encoder = Off /\ decoder = Off /\ collected = Off /\ others = Off
    /\ accessUnit = Off /\ ended = Off /\ latest = Off /\ routed = Off /\ frame = Off /\ trouble = Off

IsRecorder == part = "recorder"
IsStream == part = "stream"
IsCommand == part = "command"
IsCleaner == part = "cleaner"
IsPeer == part = "peer"
IsCert == part = "certificate"
IsAuth == part = "authentication"
IsEstimator == part = "estimator"
IsProcessor == part = "processor"

Init ==
    /\ part \in Parts
    /\ IF IsRecorder THEN Rec!Init ELSE RecorderOff
    /\ IF IsStream THEN Str!StreamInit ELSE StreamOff
    /\ IF IsCommand THEN Cmd!CommandInit ELSE CommandOff
    /\ IF IsCleaner THEN Cln!CleanerInit ELSE CleanerOff
    /\ IF IsPeer THEN Peer!PeerInit ELSE PeerOff
    /\ IF IsCert THEN Crt!CertInit ELSE CertOff
    /\ IF IsAuth THEN Aut!AuthInit ELSE AuthOff
    /\ IF IsEstimator THEN Est!EstimatorInit ELSE EstimatorOff
    /\ IF IsProcessor THEN Pro!ProcessorInit ELSE ProcessorOff

(* Only the variables of one part change.                                  *)
OfRecorder(A) ==
    /\ IsRecorder /\ A
    /\ UNCHANGED <<part, streamVars, commandVars, cleanerVars, peerVars,
                   certVars, authVars, estimatorVars, processorVars>>
OfStream(A) ==
    /\ IsStream /\ A
    /\ UNCHANGED <<part, recorderVars, commandVars, cleanerVars, peerVars,
                   certVars, authVars, estimatorVars, processorVars>>
OfCommand(A) ==
    /\ IsCommand /\ A
    /\ UNCHANGED <<part, recorderVars, streamVars, cleanerVars, peerVars,
                   certVars, authVars, estimatorVars, processorVars>>
OfCleaner(A) ==
    /\ IsCleaner /\ A
    /\ UNCHANGED <<part, recorderVars, streamVars, commandVars, peerVars,
                   certVars, authVars, estimatorVars, processorVars>>
OfPeer(A) ==
    /\ IsPeer /\ A
    /\ UNCHANGED <<part, recorderVars, streamVars, commandVars, cleanerVars,
                   certVars, authVars, estimatorVars, processorVars>>
OfCert(A) ==
    /\ IsCert /\ A
    /\ UNCHANGED <<part, recorderVars, streamVars, commandVars, cleanerVars,
                   peerVars, authVars, estimatorVars, processorVars>>
OfAuth(A) ==
    /\ IsAuth /\ A
    /\ UNCHANGED <<part, recorderVars, streamVars, commandVars, cleanerVars,
                   peerVars, certVars, estimatorVars, processorVars>>
OfEstimator(A) ==
    /\ IsEstimator /\ A
    /\ UNCHANGED <<part, recorderVars, streamVars, commandVars, cleanerVars,
                   peerVars, certVars, authVars, processorVars>>
OfProcessor(A) ==
    /\ IsProcessor /\ A
    /\ UNCHANGED <<part, recorderVars, streamVars, commandVars, cleanerVars,
                   peerVars, certVars, authVars, estimatorVars>>

Next ==
    \/ OfRecorder(Rec!Next)
    \/ OfStream(Str!StreamNext)
    \/ OfCommand(Cmd!CommandNext)
    \/ OfCleaner(Cln!CleanerNext)
    \/ OfPeer(Peer!PeerNext)
    \/ OfCert(Crt!CertNext)
    \/ OfAuth(Aut!AuthNext)
    \/ OfEstimator(Est!EstimatorNext)
    \/ OfProcessor(Pro!ProcessorNext)

Spec == Init /\ [][Next]_vars

(***************************************************************************)
(* Goroutines go on, callbacks return.  No process has to exit, not even   *)
(* one that is interrupted.  A command that is closed during its pause     *)
(* ends then, sooner or later: the pause of the next round is not over at  *)
(* once.                                                                   *)
(***************************************************************************)
OneGoesOn ==
    \/ OfRecorder(Rec!RecorderGoesOn)
    \/ OfStream(Str!BytesSentReturns)
    \/ OfCommand(Cmd!PoolCloseReturns)
    \/ OfCleaner(Cln!CleanerGoesOn)
    \/ OfPeer(Peer!PeerGoesOn)
    \/ OfCert(Crt!CloserGoesOn)
    \/ OfAuth(\E r \in Requests : Aut!RequestGoesOn(r))
WriterGoesOn(f) == OfStream(Str!WriterGoesOn(f))
OwnerGoesOn(r) == OfStream(Str!OwnerGoesOn(r))
RoutineGoesOn(r) == OfStream(Str!RoutineGoesOn(r))
CommandGoesOn(c) == OfCommand(Cmd!CommandGoesOn(c))
PauseTerminated(c) == OfCommand(Cmd!PauseTerminated(c)) \/ OfCert(Crt!Done)
UserGoesOn == OfPeer(Peer!UserGoesOn) \/ OfCert(Crt!LoaderGoesOn)
LibraryCalls == OfPeer(Peer!LibraryCalls)

FairSpec ==
    /\ Spec
    /\ WF_vars(OneGoesOn) /\ WF_vars(UserGoesOn) /\ WF_vars(LibraryCalls)
    /\ \A f \in Formats : WF_vars(WriterGoesOn(f))
    /\ \A r \in Readers : WF_vars(OwnerGoesOn(r)) /\ WF_vars(RoutineGoesOn(r))
    /\ \A c \in Commands : WF_vars(CommandGoesOn(c)) /\ SF_vars(PauseTerminated(c))

-----------------------------------------------------------------------------
TypeOK ==
    /\ IsRecorder => Rec!RecorderTypeOK
    /\ IsStream => Str!StreamTypeOK
    /\ IsCommand => Cmd!CommandTypeOK
    /\ IsCleaner => Cln!CleanerTypeOK
    /\ IsPeer => Peer!PeerTypeOK
    /\ IsCert => Crt!CertTypeOK
    /\ IsAuth => Aut!AuthTypeOK
    /\ IsEstimator => Est!EstimatorTypeOK
    /\ IsProcessor => Pro!ProcessorTypeOK

(* What has been told to end, and says it has, has: no hook of a recorder  *)
(* runs after Close, each segment having been announced and completed in   *)
(* order; no callback of a reader after RemoveReader; no process of a      *)
(* command after its goroutine; no callback of a peer connection, whose    *)
(* channels are closed once; no credential that was taken back is accepted.*)
EndedForGood ==
    /\ IsRecorder => Rec!HooksInOrder
    /\ IsStream => \A r \in Readers : Str!GoneForGood(r)
    /\ IsCommand => Cmd!NoProcessLeft
    /\ IsPeer => Peer!ClosedForGood
    /\ IsAuth => Aut!NothingRevoked

(* Recordings can be played from start to end, and those that have expired *)
(* are deleted in time; the absolute times they are stored under do not go *)
(* back; a reader that begins at a key frame can decode it.                *)
RecordingsSound ==
    /\ IsRecorder => Rec!SegmentsPlayable
    /\ IsCleaner => Cln!CleanedInTime
    /\ IsEstimator => Est!NeverBack
    /\ IsProcessor => Pro!KeyFramesDecodable

(* Nothing is lost on the way without being counted: units that readers    *)
(* are given, samples of tracks that are in step, changes of a             *)
(* certificate, packets that are encoded again.                            *)
NothingDropped ==
    /\ IsRecorder => Rec!NothingDropped
    /\ IsStream => \A r \in Readers : Str!EveryUnitCounts(r)
    /\ IsCert => Crt!ChangesLoaded
    /\ IsProcessor => Pro!RoutedWithoutGap

(* Every call returns: Recorder.Close; WriteUnit, BytesSent, AddReader and *)
(* RemoveReader; Close of the cleaner.  Close of the pool does, and a      *)
(* command that is closed ends, unless its process goes on, which was      *)
(* interrupted if the command was closed.  A recorder whose instance has   *)
(* failed starts another one, and the user of a peer connection ends who   *)
(* is told to.  A certificate is not loaded for ever after Close, requests *)
(* are judged.                                                             *)
OneReturned ==
    /\ closing # "waiting" /\ (recorder = "pausing" => instance.id = MaxInstances)
    /\ IsStream => stats = "idle"
    /\ IsCommand /\ poolClosing = "waiting" => \E c \in Commands : process[c] = "running"
    /\ IsCleaner /\ cancelled => cleaner = "ended"
    /\ IsPeer => (told => Peer!Gone) /\ owner # "closing"
    /\ IsCert => closer = "no" \/ (closer = "returned" /\ loader = "ended")
    /\ IsAuth => \A r \in Requests : request[r].at \in {"none", "granted", "denied"}
Interrupted(c) == command[c].at = "killing" /\ process[c] = "running"
EverythingEnds ==
    /\ []<>OneReturned
    /\ \A f \in Formats : []<>(IsStream => writer[f].at = "idle")
    /\ \A r \in Readers : []<>(IsStream => reader[r] \in {"out", "in", "gone"})
    /\ \A c \in Commands : []<>(IsCommand /\ command[c].terminate => Cmd!Over(c) \/ Interrupted(c))
=============================================================================
