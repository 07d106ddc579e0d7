-------------------------------- MODULE Recorder --------------------------------
(***************************************************************************)
(* The recorder of a path (recorder): a goroutine that keeps an instance   *)
(* running, the instance, which reads the stream and ends with an error,   *)
(* and the two formats it writes, in segments and parts.                   *)
(*                                                                         *)
(* Tracks have the clock of the stream; NTP is that clock.  Any I/O may    *)
(* fail, any sample may be one that the codec of the track refuses.        *)
(***************************************************************************)
EXTENDS Playback

CONSTANTS
    Tracks,             \* the tracks of the stream
    VideoTracks,
    DoubledTracks,      \* MPEG-1 audio: format_fmp4.go writes its timestamps twice as big
    SegmentDuration, PartDuration,
    MaxTime,            \* bound: timestamps
    MaxStep,            \* bound: between two samples of a track
    MaxInstances        \* bound: instances

(* Segments are longer than a second, or the next one may begin, and be    *)
(* named, before the one it follows.                                       *)
TimesAssumption ==
    /\ Tolerance \in Nat /\ PartDuration \in Nat
    /\ SegmentDuration \in Nat /\ SegmentDuration > Tolerance
    /\ MaxTime \in Nat \ {0} /\ MaxStep \in Nat /\ MaxInstances \in Nat \ {0}

VARIABLES
    recorder,    \* Recorder.run: running, pausing, ended
    closing,     \* Recorder.Close, called by the path: no, waiting, returned
    instance,    \* the current instance: its number, and how far it is
    format,      \* fmp4 or mpegts
    clock,       \* of each track: the timestamp of its last unit
    next,        \* fmp4, of each track: nextSample
    hasVideo,
    number,      \* nextSegmentNumber
    segment,     \* currentSegment
    disk,        \* the segments on disk and the hooks that ran, by start
    silent,      \* tracks of which nothing was there yet when the segment was begun
    dropped      \* tracks of which a sample was discarded though it was

lifeVars == <<recorder, closing, instance>>
formatVars == <<next, hasVideo, number, segment, silent, dropped>>
vars == <<lifeVars, format, clock, formatVars, disk>>

Nothing == [dts |-> -1, sync |-> FALSE]    \* no sample
NoPart == [start |-> -1, end |-> -1]
NoSegment == [start |-> -1, end |-> -1, number |-> -1, file |-> "none", part |-> NoPart,
              last |-> -1, lost |-> "nothing"]
NoFile == [stream |-> 0, number |-> 0, header |-> FALSE, duration |-> -1, written |-> 0, lost |-> "nothing",
           creates |-> 0, completes |-> 0, failed |-> FALSE]
Later(x, y) == IF x > y THEN x ELSE y
Times == 0 .. MaxTime * (IF DoubledTracks = {} THEN 1 ELSE 2)

Init ==
    /\ recorder = "running" /\ closing = "no"
    /\ \E at \in {"reading", "skipped"} : instance = [id |-> 1, at |-> at]
    /\ format \in {"fmp4", "mpegts"}
    /\ clock = [t \in Tracks |-> 0]
    /\ next = [t \in Tracks |-> Nothing]
    /\ hasVideo = FALSE /\ number = 0 /\ segment = NoSegment
    /\ disk = [s \in Times |-> NoFile]
    /\ silent = Tracks /\ dropped = {}

-----------------------------------------------------------------------------
(* Segments.  What an operation leaves silent: whether it went well, the   *)
(* segment, the disk.                                                      *)
Result(ok, seg, d) == [ok |-> ok, seg |-> seg, disk |-> d]
FileOf(seg, d, file) == [d EXCEPT ![seg.start] = file]
NewSegment(start) == [NoSegment EXCEPT !.start = start, !.end = start, !.number = number]

(* A file is created, or emptied when it is created once more; its header  *)
(* may fail.                                                               *)
Create(seg, d, header) ==
    FileOf(seg, d, [NoFile EXCEPT !.stream = instance.id, !.number = seg.number, !.header = header,
                                  !.creates = d[seg.start].creates + 1, !.completes = d[seg.start].completes,
                                  !.failed = d[seg.start].failed \/ ~header])
WriteFailed(seg, d) == FileOf(seg, d, [d[seg.start] EXCEPT !.failed = TRUE])

(* formatFMP4Part.close: a part that cannot be written is lost, and some   *)
(* of it may be the last that is found in the file.                        *)
Append(seg, d) ==
    LET end == seg.part.end - seg.start
        lost == [seg EXCEPT !.lost = "part"]
    IN  { Result(TRUE, [seg EXCEPT !.last = end], FileOf(seg, d, [d[seg.start] EXCEPT !.written = Later(end, @)])),
          Result(FALSE, lost, WriteFailed(seg, d)),
          Result(FALSE, [lost EXCEPT !.last = end], WriteFailed(seg, d)) }

(* closeCurPart: the first part creates the file.  If the header cannot be *)
(* written the file is closed, and stays as it is unless the next attempt  *)
(* creates it once more.                                                   *)
ClosePart(seg, d) ==
    CASE seg.file = "none" ->
             {Result(FALSE, seg, d), Result(FALSE, seg, Create(seg, d, FALSE))}
             \cup Append([seg EXCEPT !.file = "open"], Create(seg, d, TRUE))
      [] seg.file = "open" -> Append(seg, d)
      [] seg.file = "closed" -> {Result(FALSE, seg, d)}

(* MPEG-TS: the buffer is written by formatMPEGTSSegment.Write, which      *)
(* creates the file.  Once that has failed the buffer writes nothing any   *)
(* more; it is broken, or it is empty: there is no part.                   *)
Flush(seg, d) ==
    LET open == [seg EXCEPT !.file = "open"]
        Broken(s) == [s EXCEPT !.part = NoPart]
    IN  CASE seg.file = "none" ->
                 { Result(FALSE, Broken(seg), d), Result(FALSE, Broken(open), WriteFailed(seg, Create(seg, d, TRUE))),
                   Result(TRUE, open, Create(seg, d, TRUE)) }
          [] seg.file = "open" -> {Result(TRUE, seg, d), Result(FALSE, Broken(seg), WriteFailed(seg, d))}
          [] seg.file = "closed" -> {Result(TRUE, seg, d)}

(* The file is closed: fMP4 puts the duration into its header (without it  *)
(* the duration is what is read from the last part), and whether or not    *)
(* that went well the hook runs, if closing did.                           *)
Put(seg, d) == FileOf(seg, d, [d[seg.start] EXCEPT !.duration = seg.end - seg.start, !.lost = seg.lost])
NotPut(seg, d) == FileOf(seg, d, [d[seg.start] EXCEPT !.duration = seg.last, !.lost = seg.lost, !.failed = TRUE])
Complete(seg, d) == FileOf(seg, d, [d[seg.start] EXCEPT !.completes = @ + 1])

(* Mutant: the hook runs whenever the segment is closed.                   *)
CloseFile_Always(r) ==
    IF r.seg.file = "none" THEN {r}
    ELSE {Result(r.ok, [r.seg EXCEPT !.file = "closed"], Complete(r.seg, Put(r.seg, r.disk)))}

CloseFile(r) ==
    LET closed == [r.seg EXCEPT !.file = "closed"]
    IN  CASE r.seg.file = "none" -> {r}
          [] r.seg.file = "open" ->
                 { Result(r.ok, closed, Complete(r.seg, Put(r.seg, r.disk))),
                   Result(FALSE, closed, WriteFailed(r.seg, Put(r.seg, r.disk))) }
                 \cup IF format = "fmp4"
                      THEN { Result(FALSE, closed, Complete(r.seg, NotPut(r.seg, r.disk))),
                             Result(FALSE, closed, NotPut(r.seg, r.disk)) }
                      ELSE {}
          [] r.seg.file = "closed" -> {Result(FALSE, r.seg, r.disk)}

(* Mutant: the last part is forgotten.                                     *)
CloseSegment_NoPart(seg, d) == CloseFile(Result(TRUE, seg, d))

(* formatFMP4Segment.close, formatMPEGTSSegment.close: first what has not  *)
(* been written yet, also when the instance ends with an error.            *)
CloseSegment(seg, d) ==
    UNION {CloseFile(r) : r \in IF seg.part = NoPart THEN {Result(TRUE, seg, d)}
                                ELSE IF format = "fmp4" THEN ClosePart(seg, d)
                                ELSE Flush(seg, d)}

(* formatFMP4Segment.write: a part that is long enough is closed; the      *)
(* sample goes into the part, if the part does not get too big.  If it     *)
(* does the sample is lost; its end is that of the segment already.        *)
PartWith(part, dts, end) ==
    IF part = NoPart THEN [start |-> dts, end |-> end]
    ELSE [part EXCEPT !.end = Later(end, @)]
Refused(seg, dts) ==
    [seg EXCEPT !.part = IF @ = NoPart THEN [start |-> dts, end |-> seg.start] ELSE @, !.lost = "sample"]
SegmentWrite(seg, d, dts, end) ==
    LET longer == [seg EXCEPT !.end = Later(end, @)]
        full == seg.part # NoPart /\ seg.part.end - seg.part.start >= PartDuration
        Written(r) == Result(r.ok, [r.seg EXCEPT !.part = IF full THEN NoPart ELSE @], r.disk)
        Added(r) ==
            IF r.ok THEN { Result(TRUE, [r.seg EXCEPT !.part = PartWith(@, dts, end)], r.disk),
                           Result(FALSE, Refused(r.seg, dts), r.disk) }
            ELSE {r}
    IN  UNION {Added(Written(r)) : r \in IF full THEN ClosePart(longer, d) ELSE {Result(TRUE, longer, d)}}

-----------------------------------------------------------------------------
(* fMP4.  A sample is written when the next one of its track is there.     *)

Waiting(samples) == {t \in Tracks : samples[t] # Nothing}
Newest(samples) == CHOOSE m \in {samples[t].dts : t \in Waiting(samples)} :
                       \A t \in Waiting(samples) : samples[t].dts <= m
NotBehind(samples) == {t \in Waiting(samples) : Newest(samples) - samples[t].dts <= Tolerance}

(* Mutant: the next segment starts from the newest sample.                 *)
NextSegmentStartingPos_Newest(samples) == Newest(samples)

(* The oldest of the next samples, unless it is too far silent.            *)
NextSegmentStartingPos(samples) ==
    CHOOSE m \in {samples[t].dts : t \in NotBehind(samples)} : \A t \in NotBehind(samples) : m <= samples[t].dts

Fails(r) ==
    /\ instance' = [instance EXCEPT !.at = "failed"]
    /\ segment' = r.seg /\ disk' = r.disk

(* A sample is kept; the one before it, if any, has its duration.          *)
(* formatFMP4Track.write.                                                  *)
KeepSample(t, sample) ==
    /\ next[t] = Nothing
    /\ next' = [next EXCEPT ![t] = sample]
    /\ hasVideo' = (hasVideo \/ t \in VideoTracks)
    /\ UNCHANGED <<lifeVars, number, segment, disk, silent, dropped>>

Following(t, sample) == [sample EXCEPT !.dts = Later(@, next[t].dts)]

DiscardSample(t, sample) ==
    /\ next[t] # Nothing
    /\ segment # NoSegment /\ next[t].dts < segment.start
    /\ next' = [next EXCEPT ![t] = Following(t, sample)]
    /\ hasVideo' = (hasVideo \/ t \in VideoTracks)
    /\ dropped' = IF t \in silent THEN dropped ELSE dropped \cup {t}
    /\ UNCHANGED <<lifeVars, number, segment, disk, silent>>

Switches(t, sample, video, start) ==
    /\ ~video \/ t \in VideoTracks
    /\ sample.sync /\ sample.dts - start >= SegmentDuration

WriteSample(t, sample) ==
    /\ next[t] # Nothing
    /\ segment # NoSegment => next[t].dts >= segment.start
    /\ hasVideo' = (hasVideo \/ t \in VideoTracks)
    /\ \E following \in {Following(t, sample)} : \E after \in {[next EXCEPT ![t] = following]} :
       \E first \in {segment = NoSegment} :
       \E w \in SegmentWrite(IF first THEN NewSegment(next[t].dts) ELSE segment, disk, next[t].dts, following.dts) :
           /\ next' = after
           /\ UNCHANGED <<recorder, closing, dropped>>
           /\ IF ~w.ok THEN Fails(w) /\ number' = (IF first THEN number + 1 ELSE number) /\ UNCHANGED silent
              ELSE IF ~Switches(t, following, hasVideo', w.seg.start)
              THEN /\ segment' = w.seg /\ disk' = w.disk
                   /\ number' = (IF first THEN number + 1 ELSE number)
                   /\ UNCHANGED <<instance, silent>>
              ELSE \E c \in CloseSegment(w.seg, w.disk) :
                       IF c.ok
                       THEN /\ segment' = [NoSegment EXCEPT !.start = NextSegmentStartingPos(after),
                                               !.end = NextSegmentStartingPos(after), !.number = w.seg.number + 1]
                            /\ number' = w.seg.number + 2
                            /\ silent' = Tracks \ Waiting(after)
                            /\ disk' = c.disk
                            /\ UNCHANGED instance
                       ELSE Fails(c) /\ number' = w.seg.number + 1 /\ UNCHANGED silent

-----------------------------------------------------------------------------
(* MPEG-TS: no sample is held back, and what is written is buffered.  The  *)
(* part of a segment holds its last flush and its last timestamp.          *)
NewSegmentTS(dts) == [NewSegment(dts) EXCEPT !.part = [start |-> dts, end |-> dts]]
LastDTS(seg, dts) == [seg EXCEPT !.end = dts]
Fresh(seg) == seg.start # segment.start \/ seg.part.start # segment.part.start    \* nothing is buffered yet

MuxerRefuses(r) ==
    {Result(FALSE, r.seg, r.disk)}
    \cup IF Fresh(r.seg) THEN {Result(FALSE, [r.seg EXCEPT !.part = NoPart], r.disk)} ELSE {}

(* The unit is written into the buffer, which may be full.  Or the muxer   *)
(* refuses the unit, or one of its frames; that does not break the buffer. *)
Buffered(r) ==
    {r} \cup IF r.ok THEN Flush(r.seg, r.disk) \cup MuxerRefuses(r) ELSE {}
WriteTS(t, sample) ==
    /\ hasVideo' = (hasVideo \/ t \in VideoTracks)
    /\ UNCHANGED <<recorder, closing, next, number, silent, dropped>>
    /\ \E results \in
           {IF segment = NoSegment THEN {Result(TRUE, NewSegmentTS(sample.dts), disk)}
            ELSE IF Switches(t, sample, hasVideo', segment.start)
            THEN {IF c.ok THEN Result(TRUE, NewSegmentTS(sample.dts), c.disk) ELSE c
                     : c \in CloseSegment(LastDTS(segment, sample.dts), disk)}
            ELSE IF sample.dts - segment.part.start >= PartDuration
            THEN {IF c.ok THEN Result(TRUE, [c.seg EXCEPT !.part.start = sample.dts], c.disk) ELSE c
                     : c \in Flush(segment, disk)}
            ELSE {Result(TRUE, segment, disk)}} :
       \E r \in UNION {Buffered(IF r.ok THEN Result(TRUE, LastDTS(r.seg, sample.dts), r.disk) ELSE r) : r \in results} :
           IF r.ok THEN segment' = r.seg /\ disk' = r.disk /\ UNCHANGED instance ELSE Fails(r)

-----------------------------------------------------------------------------
(* The stream calls the recorder for every unit: the codec takes the       *)
(* timestamps and finds out whether the unit can be decoded alone, waits   *)
(* for the first such unit, or fails.  Samples of audio always can.        *)
Dts(t, time) == IF t \in DoubledTracks /\ format = "fmp4" THEN time + time ELSE time

Unit(t, step) ==
    /\ instance.at = "reading" /\ clock[t] + step <= MaxTime
    /\ clock' = [clock EXCEPT ![t] = @ + step]
    /\ UNCHANGED format

(* Tracks are as far apart as the tolerance, at most.                      *)
InStep(t, step) == \A other \in Tracks : clock[t] + step - clock[other] <= Tolerance

(* Audio can always be decoded alone; a frame of video may need others.    *)
CanStart(t, sync) == sync \/ t \in VideoTracks

OnDataFMP4(t) ==
    \E step \in 1 .. MaxStep, sync \in BOOLEAN :
        /\ format = "fmp4"
        /\ Unit(t, step) /\ InStep(t, step) /\ CanStart(t, sync)
        /\ \E sample \in {[dts |-> Dts(t, clock[t] + step), sync |-> sync]} :
               KeepSample(t, sample) \/ DiscardSample(t, sample) \/ WriteSample(t, sample)
OnDataMPEGTS(t) ==
    \E step \in 1 .. MaxStep, sync \in BOOLEAN :
        /\ format = "mpegts"
        /\ Unit(t, step) /\ InStep(t, step) /\ CanStart(t, sync)
        /\ WriteTS(t, [dts |-> Dts(t, clock[t] + step), sync |-> sync])
(* Nothing to write yet: no payload, or the first unit that can be decoded *)
(* alone is still to come.                                                 *)
OnDataSkipped(t) ==
    \E step \in 1 .. MaxStep :
        /\ Unit(t, step) /\ InStep(t, step)
        /\ t \in VideoTracks /\ next[t] = Nothing
        /\ UNCHANGED <<lifeVars, formatVars, disk>>
OnDataError(t) ==
    \E step \in 1 .. MaxStep :
        /\ Unit(t, step) /\ InStep(t, step)
        /\ instance' = [instance EXCEPT !.at = "failed"]
        /\ UNCHANGED <<recorder, closing, formatVars, disk>>

-----------------------------------------------------------------------------
(* The instance and the goroutine of the recorder.                         *)

(* Mutant: the format is closed only if nothing has failed.                *)
FormatClose_OnlyWhenTold ==
    IF segment = NoSegment \/ instance.at = "failed" THEN {Result(TRUE, segment, disk)} ELSE CloseSegment(segment, disk)

(* formatFMP4.close, formatMPEGTS.close.                                   *)
FormatClose == IF segment = NoSegment THEN {Result(TRUE, segment, disk)} ELSE CloseSegment(segment, disk)

(* recorderInstance.run, when a callback has failed or it is told to end:  *)
(* the reader is taken out of the stream, then the format is closed.       *)
InstanceEnds ==
    /\ instance.at \in {"failed", "closing"}
    /\ instance' = [instance EXCEPT !.at = "done"]
    /\ \E c \in FormatClose : disk' = c.disk
    /\ next' = [t \in Tracks |-> Nothing]
    /\ hasVideo' = FALSE /\ number' = 0 /\ segment' = NoSegment
    /\ silent' = Tracks
    /\ UNCHANGED <<recorder, closing, format, clock, dropped>>

(* Recorder.run: <-r.currentInstance.done.                                 *)
InstanceDone ==
    /\ recorder = "running" /\ instance.at = "done"
    /\ recorder' = "pausing"
    /\ UNCHANGED <<closing, instance, format, clock, formatVars, disk>>

(* <-r.terminate: the instance is closed, and waited for.                  *)
Terminated ==
    /\ recorder = "running" /\ closing = "waiting" /\ instance.at \in {"reading", "skipped"}
    /\ instance' = [instance EXCEPT !.at = "closing"]
    /\ UNCHANGED <<recorder, closing, format, clock, formatVars, disk>>
RunEnds ==
    /\ closing = "waiting"
    /\ recorder = "pausing" \/ (recorder = "running" /\ instance.at = "done")
    /\ recorder' = "ended"
    /\ UNCHANGED <<closing, instance, format, clock, formatVars, disk>>

(* The pause is over, and every track has gone on meanwhile.               *)
Restart ==
    /\ recorder = "pausing" /\ instance.id < MaxInstances
    /\ recorder' = "running"
    /\ instance' = [id |-> instance.id + 1, at |-> "reading"]
    /\ \E now \in {clock[t] : t \in Tracks} :
           /\ \A t \in Tracks : clock[t] <= now
           /\ clock' = [t \in Tracks |-> now]
    /\ UNCHANGED <<closing, format, formatVars, disk>>

Close ==
    /\ closing = "no"
    /\ closing' = "waiting"
    /\ UNCHANGED <<recorder, instance, format, clock, formatVars, disk>>
CloseReturns ==
    /\ closing = "waiting" /\ recorder = "ended"
    /\ closing' = "returned"
    /\ UNCHANGED <<recorder, instance, format, clock, formatVars, disk>>

Next ==
    \/ \E t \in Tracks : OnDataFMP4(t) \/ OnDataMPEGTS(t) \/ OnDataSkipped(t) \/ OnDataError(t)
    \/ InstanceEnds \/ InstanceDone \/ Terminated \/ RunEnds \/ Restart
    \/ Close \/ CloseReturns

RecorderGoesOn == InstanceEnds \/ InstanceDone \/ Terminated \/ RunEnds \/ Restart \/ CloseReturns

-----------------------------------------------------------------------------
RecorderTypeOK ==
    /\ recorder \in {"running", "pausing", "ended"} /\ closing \in {"no", "waiting", "returned"}
    /\ instance \in [id : 1 .. MaxInstances, at : {"reading", "skipped", "failed", "closing", "done"}]
    /\ format \in {"fmp4", "mpegts"}
    /\ clock \in [Tracks -> 0 .. MaxTime]
    /\ next \in [Tracks -> [dts : Times \cup {-1}, sync : BOOLEAN]]
    /\ hasVideo \in BOOLEAN /\ number \in 0 .. MaxTime + 1
    /\ segment \in [start : Times \cup {-1}, end : Times \cup {-1}, number : 0 .. MaxTime \cup {-1},
                    file : {"none", "open", "closed"}, last : Times \cup {-1}, lost : {"nothing", "sample", "part"},
                    part : [start : Times \cup {-1}, end : Times \cup {-1}]]
    /\ segment # NoSegment /\ format = "fmp4" => segment.end >= segment.start /\ segment.number < number
    /\ disk \in [Times -> [stream : 0 .. MaxInstances, number : 0 .. MaxTime, header : BOOLEAN,
                           duration : -MaxTime .. 2 * MaxTime, written : Times, lost : {"nothing", "sample", "part"},
                           creates : 0 .. 3, completes : 0 .. 1, failed : BOOLEAN]]
    /\ silent \subseteq Tracks /\ dropped \subseteq Tracks

(* The hooks: a file is announced before it is complete, and complete      *)
(* once; unless writing to it has failed it is announced once, and once    *)
(* the instance has ended it is complete.  When Close has returned the     *)
(* instance has ended, so no hook runs any more.                           *)
HooksInOrder ==
    /\ \A s \in Times :
           /\ disk[s].completes <= 1 /\ disk[s].completes <= disk[s].creates
           /\ ~disk[s].failed => disk[s].creates <= 1
           /\ ~disk[s].failed /\ instance.at = "done" => disk[s].completes = disk[s].creates
    /\ closing = "returned" => instance.at = "done"

(* What is on disk can be played.  The list is refused only because of a   *)
(* file that could not be written; if it is not, it has one entry for what *)
(* an instance has recorded; whatever is asked for, every instant that was *)
(* recorded, up to the end of the last segment of the instance, is in an   *)
(* entry.  What is sent for an entry goes on to its end, unless a sample   *)
(* or a part of its last segment was lost: then to the end of the parts    *)
(* that are there, or the request fails where a part was torn.             *)
Files ==
    {[start |-> s, stream |-> disk[s].stream, number |-> disk[s].number, header |-> disk[s].header,
      duration |-> disk[s].duration, written |-> disk[s].written, lost |-> disk[s].lost,
      failed |-> disk[s].failed] : s \in {f \in Times : disk[f].creates > 0}}
RecordedAt(segments, time) ==
    \E s \in segments : /\ s.start <= time /\ time < End(s)
                       /\ \A other \in segments : other.stream = s.stream /\ other.number > s.number => time < End(other)
SentAsFarAsWritten(files, e, sent) ==
    \E f \in files :
        /\ f.lost # "nothing" /\ f.start <= e.end /\ e.end <= End(ParseSegment(f))
        /\ sent = End(MuxParts(f)) \/ (sent = Failed /\ f.lost = "part")
PlayableBetween(files, start, end) ==
    LET segments == ParseSegments(files)
        entries == OnList(files, start, end)
    IN  /\ \A time \in start .. end - 1 :
               RecordedAt(segments, time) => \E e \in entries : e.start <= time /\ time < e.end
        /\ \A e \in entries : \A sent \in SeekAndMux(files, e.start, e.end) :
               e.end <= sent \/ SentAsFarAsWritten(files, e, sent)
FilesPlayable(files) ==
    /\ \A f \in files : ~CanBeParsed(f) => f.failed
    /\ (\A f \in files : CanBeParsed(f)) =>
           Cardinality(ConcatenateSegments(ParseSegments(files))) = Cardinality({f.stream : f \in files})
    /\ \A start, end \in 0 .. MaxTime :
           start < end /\ (\A f \in FindSegments(files, start, end) : CanBeParsed(f)) => PlayableBetween(files, start, end)
SegmentsPlayable == format = "fmp4" /\ instance.at = "done" /\ recorder # "running" => FilesPlayable(Files)

(* As long as the tracks are in step, nothing of a track is discarded once *)
(* it has begun.                                                           *)
NothingDropped == dropped = {}
=============================================================================
