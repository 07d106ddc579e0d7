-------------------------------- MODULE Playback --------------------------------
(***************************************************************************)
(* What is recorded and what the playback server makes of it.  A recording *)
(* is a set of files; a file is named after its start, and its header, if  *)
(* it could be written, tells which recorder instance (stream) wrote it    *)
(* and its number there.  The duration is in the header too, or found in   *)
(* the last part (-1: there is none); written is where the parts end.      *)
(* Times are multiples of a unit.  A segment is what one reads of a file;  *)
(* segments are sorted by their start, no two of them begin together.      *)
(***************************************************************************)
EXTENDS Integers, FiniteSets

CONSTANT Tolerance    \* concatenationTolerance, maxBasetime: a second

End(s) == s.start + s.duration

-----------------------------------------------------------------------------
(* recordstore.FindSegments: what starts before the end, from the segment  *)
(* on that may contain the start.                                          *)
Before(segments, end) == {s \in segments : s.start <= end}
FindSegments(segments, start, end) ==
    LET found == Before(segments, end)
    IN  {s \in found : \A later \in found : s.start < later.start => start < later.start}

(* parseSegment.  The list needs every file it finds.                      *)
CanBeParsed(f) == f.header /\ f.duration >= 0
ParseSegment(f) == [start |-> f.start, stream |-> f.stream, number |-> f.number, duration |-> f.duration]
ParseSegments(files) == {ParseSegment(f) : f \in files}

(* segmentFMP4MuxParts: the duration is that of what is sent, the parts.   *)
(* If the end of the request comes first, so does the end of the answer.   *)
MuxParts(f) == [start |-> f.start, stream |-> f.stream, number |-> f.number, duration |-> f.written]

(* recordcleaner: what has expired, by its start.                          *)
Expired(segments, now, deleteAfter) == {s \in segments : s.start <= now - deleteAfter}

-----------------------------------------------------------------------------
(* segmentFMP4CanBeConcatenated.                                           *)
AreConsecutive(s1, s2) == s1.stream = s2.stream /\ s1.number + 1 = s2.number
CanBeConcatenated(prev, prevEnd, cur) ==
    /\ AreConsecutive(prev, cur)
    /\ cur.start >= prevEnd - Tolerance
    /\ cur.start <= prevEnd + Tolerance

(* The segment before another one.                                         *)
IsPrevious(segments, prev, s) ==
    /\ prev.start < s.start
    /\ \A other \in segments : other.start < s.start => other.start <= prev.start

(* Mutant: no gap and no overlap is tolerated.                             *)
Concatenates_Exactly(segments, s) ==
    \E prev \in segments : IsPrevious(segments, prev, s) /\ AreConsecutive(prev, s) /\ s.start = End(prev)

(* concatenateSegments: an entry ends where its last segment does.         *)
Concatenates(segments, s) ==
    \E prev \in segments : IsPrevious(segments, prev, s) /\ CanBeConcatenated(prev, End(prev), s)
LastOf(segments, first) ==
    CHOOSE last \in segments :
        /\ first.start <= last.start
        /\ \A s \in segments : first.start < s.start /\ s.start <= last.start => Concatenates(segments, s)
        /\ \A s \in segments : IsPrevious(segments, last, s) => ~Concatenates(segments, s)
ConcatenateSegments(segments) ==
    {[start |-> first.start, end |-> End(LastOf(segments, first))]
        : first \in {s \in segments : ~Concatenates(segments, s)}}

(* onList: the entries between start and end.  The first is dropped if it  *)
(* ends before the start, or shortened; the last is shortened.             *)
OnList(files, start, end) ==
    LET found == ParseSegments(FindSegments(files, start, end))
        entries == {e \in ConcatenateSegments(found) : e.end >= start}
        IsLast(e) == \A other \in entries : other.start <= e.start
    IN  {[start |-> IF e.start < start THEN start ELSE e.start,
          end |-> IF IsLast(e) /\ e.end > end THEN end ELSE e.end] : e \in entries}

(* seekAndMux: onGet sends the parts of the first file and of those that   *)
(* follow it without a gap, up to this time.  It fails if it comes to a    *)
(* header that is not there, and it may where a part was torn.             *)
Failed == -1
SeekAndMux(files, start, end) ==
    LET found == FindSegments(files, start, end)
        muxed == {MuxParts(f) : f \in found}
        first == CHOOSE s \in muxed : \A other \in muxed : s.start <= other.start
        last == LastOf(muxed, first)
        opened == {f \in found : \A other \in found : other.start < f.start => other.start <= last.start}
    IN  IF \E f \in opened : ~f.header THEN {Failed}
        ELSE {End(last)} \cup {Failed : f \in {torn \in found : torn.start <= last.start /\ torn.lost = "part"}}
=============================================================================
